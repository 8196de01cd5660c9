-------------------------- MODULE SectorWait_proofs --------------------------
(***************************************************************************)
(* Proofs about FrameDriver, for every set of buffers and every word size: *)
(* its type, the agreement between its record of a call and the call that  *)
(* is held, the ordering tables of a frame, the identity of a frame, the   *)
(* order of a field's services, that it implements FrameProtocol, and that *)
(* the warp inside it serves one request at a time and whole.              *)
(* Proofs about SectorReadyOrder, for every number of reads and every      *)
(* length of the completion chain: no sector is lost, the read the loader  *)
(* holds is on its way to its sector, and the sector callback is in place  *)
(* only for a read that is owed one.                                       *)
(* And about SectorWait, which runs the overrides in the turns of the      *)
(* frame driver: it is a behaviour of both, so that what is proved of each *)
(* alone holds of the two together, and a wait belongs to the call that is *)
(* running or held.                                                        *)
(***************************************************************************)
EXTENDS SectorWait, SequenceTheorems, TLAPS


(***************************************************************************)
(* The warp alone, for every number of characters and every set of command *)
(* words, as FightWarp specifies it.  Its two invariants together are      *)
(* inductive: that a request is consumed only after its own start needs    *)
(* the count, and the count needs the flag.                                *)
(***************************************************************************)
WarpInv == WarpTypeOK /\ StartBelongsToRequest

\* The selection words the warp can leave are those of the characters.
SelectionWords == {SelectionWord(c) : c \in Characters}

\* The initial state satisfies both invariants: no request, no start.
LEMMA WarpInitInv == WarpInit => WarpInv
<1> SUFFICES ASSUME WarpInit PROVE WarpInv
  OBVIOUS
<1>1. 0 \in Characters /\ SelectionWord(0) = 0
  BY CharacterCountAssumption DEF Characters, SelectionWord
<1>2. selection \in Pairs({SelectionWord(c) : c \in Characters})
  BY <1>1 DEF WarpInit, Pairs
<1>3. WarpTypeOK
  BY <1>2 DEF WarpInit, WarpTypeOK, Screens
<1>4. StartBelongsToRequest
  BY DEF WarpInit, StartBelongsToRequest
<1> QED
  BY <1>3, <1>4 DEF WarpInv

\* Arming leaves a request of two characters that has seen no start of its own.
LEMMA ArmKeepsInv == ASSUME WarpInv, NEW line \in Lines, Arm(line) PROVE WarpInv'
<1>1. <<line[1], line[2]>> \in Pairs(Characters)
  BY DEF Arm, Accepted, ValidCharacter, Pairs
<1>2. WarpTypeOK'
  BY <1>1 DEF Arm, WarpInv, WarpTypeOK, StartedByArm
<1>3. StartBelongsToRequest'
  BY <1>1 DEF Arm, StartBelongsToRequest, StartedByArm
<1> QED
  BY <1>2, <1>3 DEF WarpInv

\* Applying the warp at a boundary keeps the invariants in each of its branches.
LEMMA ApplyKeepsInv == ASSUME WarpInv, Apply PROVE WarpInv'
<1>1. CASE StartVersus
  <2>1. WarpTypeOK'
    BY <1>1 DEF StartVersus, WarpInv, WarpTypeOK
  <2>2. startsSinceArm = 0
    BY <1>1 DEF StartVersus, MenuDue, WarpInv, WarpTypeOK, StartBelongsToRequest
  <2>3. StartBelongsToRequest'
    BY <1>1, <2>2 DEF StartVersus, MenuDue, StartBelongsToRequest
  <2> QED
    BY <2>1, <2>3 DEF WarpInv
<1>2. CASE TakeSelect
  <2>1. request \in Pairs(Characters)
    BY <1>2 DEF TakeSelect, SelectDue, WarpInv, WarpTypeOK
  <2>2. <<SelectionWord(request[1]), SelectionWord(request[2])>>
          \in Pairs({SelectionWord(c) : c \in Characters})
    BY <2>1 DEF Pairs
  <2>3. WarpTypeOK'
    BY <1>2, <2>2 DEF TakeSelect, WarpInv, WarpTypeOK, Screens
  <2>4. StartBelongsToRequest'
    BY <1>2 DEF TakeSelect, WarpInv, StartBelongsToRequest
  <2> QED
    BY <2>3, <2>4 DEF WarpInv
<1>3. CASE PassBy
  BY <1>3 DEF PassBy, warpVars, WarpInv, WarpTypeOK, StartBelongsToRequest
<1> QED
  BY <1>1, <1>2, <1>3 DEF Apply

\* The guest's own menus keep the invariants: they never touch the request.
LEMMA GuestMenusKeepInv == ASSUME WarpInv, GuestMenus PROVE WarpInv'
<1>1. WarpTypeOK'
  BY DEF GuestMenus, WarpInv, WarpTypeOK
<1>2. StartBelongsToRequest'
  BY DEF GuestMenus, WarpInv, StartBelongsToRequest
<1> QED
  BY <1>1, <1>2 DEF WarpInv

\* So do steps that leave the warp alone.
LEMMA StutterKeepsWarpInv == ASSUME WarpInv, UNCHANGED warpVars PROVE WarpInv'
BY DEF warpVars, WarpInv, WarpTypeOK, StartBelongsToRequest

\* Every step keeps the invariants.
LEMMA WarpNextInv == WarpInv /\ [WarpNext]_warpVars => WarpInv'
BY ArmKeepsInv, ApplyKeepsInv, GuestMenusKeepInv, StutterKeepsWarpInv
   DEF WarpNext, ArmSome, ArmRefused

\* A request's flag and its start belong together for ever, however often the
\* console re-arms and wherever the guest's menus go (FightWarp::arm, ::apply).
LEMMA WarpSafety == WarpSpec => [](WarpTypeOK /\ StartBelongsToRequest)
<1>1. WarpInv => WarpTypeOK /\ StartBelongsToRequest
  BY DEF WarpInv
<1> QED
  BY WarpInitInv, WarpNextInv, <1>1, PTL DEF WarpSpec

\* A consumed request leaves exactly its own two characters in character
\* select, on the select's exit, after its own start (FightWarp::apply).
LEMMA WarpConsumesWhole == WarpSpec => RequestConsumedWhole
<1>1. ASSUME WarpInv, WarpNext, request # NoRequest, request' = NoRequest
      PROVE  /\ startsSinceArm = 1
             /\ screen = "selectWaiting" /\ screen' = "otherMode"
             /\ \A player \in 1 .. 2 : selection'[player] = 4 * request[player]
  <2>1. ASSUME NEW line \in Lines, Arm(line) PROVE FALSE
    <3>1. request' \in Pairs(Characters)
      BY <2>1 DEF Arm, Accepted, ValidCharacter, Pairs
    <3> QED
      BY <3>1, <1>1, NoRequestAssumption
  <2>2. TakeSelect
    BY <1>1, <2>1 DEF WarpNext, ArmSome, ArmRefused, Apply, StartVersus, PassBy,
                      GuestMenus, warpVars
  <2>3. \A player \in 1 .. 2 : selection'[player] = 4 * request[player]
    BY <2>2 DEF TakeSelect, SelectionWord
  <2> QED
    BY <1>1, <2>2, <2>3 DEF TakeSelect, SelectDue, WarpInv, StartBelongsToRequest
<1>2. WarpInv /\ [WarpNext]_warpVars =>
        [(request # NoRequest /\ request' = NoRequest) =>
           /\ startsSinceArm = 1
           /\ screen = "selectWaiting" /\ screen' = "otherMode"
           /\ \A player \in 1 .. 2 : selection'[player] = 4 * request[player]]_warpVars
  BY <1>1
<1> QED
  BY WarpInitInv, WarpNextInv, <1>2, PTL DEF WarpSpec, RequestConsumedWhole

-----------------------------------------------------------------------------

(***************************************************************************)
(* The inductive invariant.  The properties of FrameDriver speak of the    *)
(* moments between fields and of the places where a table is finished; the *)
(* invariant says what carries them through every place of a field.        *)
(***************************************************************************)
\* A mode body outlives its field.
Held == stage = "Running" /\ callPending

\* The places of a fresh field of the main loop.
FreshPlaces == {"barrier", "deliver", "present", "clear", "mode"}

FreshServices == <<"pad", "submit", "present", "audio">>
HeldFieldServices == <<"pad", "present", "audio">>
BootServices == <<"present", "audio">>

\* The driver's record of a call and the machine's agree at every place.
CallAgrees ==
  /\ at # "aborted" => spanning = (IF callPending THEN CallOf(stage) ELSE "none")
  /\ fault # "disagree"

\* Each place belongs to a stage, with or without a held call.
PlaceAgrees ==
  /\ at \in {"off", "dispatch"} => stage = "FirstInitializer" /\ ~callPending
  /\ at = "boot" => stage # "Running"
  /\ at = "resume" => Held
  /\ at \in FreshPlaces \cup {"splice"} => stage = "Running" /\ ~callPending

\* Tables are open exactly from ClearTables to FinishFrame.
TablesAgree ==
  /\ HeldFrameOwnsItsTables
  /\ at \in {"off", "dispatch", "idle", "boot"} /\ ~Held => building = {}
  /\ at # "aborted" /\ stage # "Running" => building = {} /\ finished = NoBuffer

\* The open table keeps the identity it was opened with, in the words of the
\* guest and in the driver's memory of the buffer.
IdentityAgrees ==
  /\ at \in {"mode", "splice"} =>
       /\ frameBuffer \in Buffers
       /\ stamp = Stamp(logicFrame, frameCounter, frameBuffer)
       /\ roots = frameBuffer /\ currentBuffer = frameBuffer
  /\ at \in {"idle", "resume"} /\ Held =>
       /\ stepBuffer \in Buffers
       /\ stamp = Stamp(logicFrame, frameCounter, stepBuffer)
       /\ roots = stepBuffer /\ currentBuffer = stepBuffer

\* The current buffer is the finished one whenever no frame is being drawn, and
\* the prior buffer is the one handed over except while it is being replaced.
HandOverAgrees ==
  /\ at \in {"barrier", "deliver", "present", "clear"} => currentBuffer = finished
  /\ at \in {"off", "dispatch", "idle", "boot"} /\ ~Held => currentBuffer = finished
  /\ at = "deliver" => priorBuffer \in {finished, submitted}
  /\ at \notin {"deliver", "aborted"} => priorBuffer = submitted

\* The services a field has done by each of its places.
ServicesAgree ==
  /\ FieldServices
  /\ at \in {"off", "dispatch"} => services = <<>> /\ nextField = 0
  /\ at = "boot" => services = BootServices
  /\ at = "resume" => services = HeldFieldServices
  /\ at = "barrier" => services = <<>>
  /\ at = "deliver" => services = <<"pad">>
  /\ at = "present" => services = <<"pad", "submit">>
  /\ at \in {"clear", "mode"} => services = FreshServices
  /\ at \in FreshPlaces => nextField = Successor(logicFrame)
  /\ at = "splice" => \/ services = HeldFieldServices
                      \/ services = FreshServices /\ nextField = Successor(logicFrame)

DriverInv ==
  /\ TypeOK /\ StartBelongsToRequest
  /\ CallAgrees /\ PlaceAgrees /\ TablesAgree
  /\ IdentityAgrees /\ HandOverAgrees /\ ServicesAgree

\* Appending to a pair, as the services of a field grow.
LEMMA AppendToPair ==
  ASSUME NEW u, NEW v, NEW w PROVE Append(<<u, v>>, w) = <<u, v, w>>
<1> DEFINE S == {u, v, w}
           left == Append(<<u, v>>, w)
           right == <<u, v, w>>
<1>1. <<u, v>> \in Seq(S) /\ w \in S
  OBVIOUS
<1>2. left \in Seq(S) /\ Len(left) = 3
  BY <1>1, AppendProperties
<1>3. left[1] = u /\ left[2] = v /\ left[3] = w
  BY <1>1, AppendProperties
<1>4. right \in Seq(S) /\ Len(right) = 3
  OBVIOUS
<1>5. \A i \in 1 .. 3 : left[i] = right[i]
  BY <1>3
<1> HIDE DEF left, right
<1>6. left = right
  BY <1>2, <1>4, <1>5, SeqEqual
<1> QED
  BY <1>6 DEF left, right

\* The same of a triple.
LEMMA AppendToTriple ==
  ASSUME NEW t, NEW u, NEW v, NEW w PROVE Append(<<t, u, v>>, w) = <<t, u, v, w>>
<1> DEFINE S == {t, u, v, w}
           left == Append(<<t, u, v>>, w)
           right == <<t, u, v, w>>
<1>1. <<t, u, v>> \in Seq(S) /\ w \in S
  OBVIOUS
<1>2. left \in Seq(S) /\ Len(left) = 4
  BY <1>1, AppendProperties
<1>3. left[1] = t /\ left[2] = u /\ left[3] = v /\ left[4] = w
  BY <1>1, AppendProperties
<1>4. right \in Seq(S) /\ Len(right) = 4
  OBVIOUS
<1>5. \A i \in 1 .. 4 : left[i] = right[i]
  BY <1>3
<1> HIDE DEF left, right
<1>6. left = right
  BY <1>2, <1>4, <1>5, SeqEqual
<1> QED
  BY <1>6 DEF left, right

-----------------------------------------------------------------------------
(***************************************************************************)
(* Each action keeps the invariant.                                        *)
(***************************************************************************)
\* The boot prefix starts nothing and opens nothing.
LEMMA RunBootPrefixKeepsInv == ASSUME DriverInv, RunBootPrefix PROVE DriverInv'
<1>1. WarpInv'
  BY StutterKeepsWarpInv DEF DriverInv, TypeOK, WarpInv, RunBootPrefix
<1>2. TypeOK' /\ StartBelongsToRequest'
  BY <1>1, WordModulusAssumption DEF DriverInv, WarpInv, TypeOK, Places, stepVars, clockVars,
                                     bufferVars, tableVars, RunBootPrefix, Go
<1>3. CallAgrees'
  BY DEF DriverInv, CallAgrees, stepVars, RunBootPrefix, Go
<1>4. PlaceAgrees'
  BY DEF DriverInv, PlaceAgrees, FreshPlaces, stepVars, RunBootPrefix, Go
<1>5. TablesAgree'
  BY DEF DriverInv, TablesAgree, HeldFrameOwnsItsTables, PlaceAgrees, tableVars, RunBootPrefix,
         Go
<1>6. IdentityAgrees'
  BY DEF IdentityAgrees, RunBootPrefix, Go
<1>7. HandOverAgrees'
  BY DEF DriverInv, HandOverAgrees, PlaceAgrees, Held, bufferVars, tableVars, RunBootPrefix
<1>8. ServicesAgree'
  BY DEF DriverInv, ServicesAgree, FieldServices, FreshPlaces, clockVars, RunBootPrefix, Go
<1> QED
  BY <1>1, <1>2, <1>3, <1>4, <1>5, <1>6, <1>7, <1>8 DEF DriverInv

\* Reaching main leaves everything but the boot record alone.
LEMMA MainOverrideKeepsInv == ASSUME DriverInv, MainOverride PROVE DriverInv'
<1>1. WarpInv'
  BY StutterKeepsWarpInv DEF DriverInv, TypeOK, WarpInv, MainOverride
<1>2. TypeOK' /\ StartBelongsToRequest'
  BY <1>1, WordModulusAssumption DEF DriverInv, WarpInv, TypeOK, Places, stepVars, clockVars,
                                     bufferVars, tableVars, MainOverride, Go
<1>3. CallAgrees'
  BY DEF DriverInv, CallAgrees, stepVars, MainOverride, Go
<1>4. PlaceAgrees'
  BY DEF PlaceAgrees, FreshPlaces, MainOverride, Go
<1>5. TablesAgree'
  BY DEF DriverInv, TablesAgree, HeldFrameOwnsItsTables, PlaceAgrees, stepVars, tableVars,
         MainOverride, Go
<1>6. IdentityAgrees'
  BY DEF DriverInv, IdentityAgrees, PlaceAgrees, Held, stepVars, MainOverride, Go
<1>7. HandOverAgrees'
  BY DEF DriverInv, HandOverAgrees, PlaceAgrees, Held, bufferVars, tableVars, MainOverride
<1>8. ServicesAgree'
  BY DEF DriverInv, ServicesAgree, FieldServices, PlaceAgrees, FreshPlaces, stepVars, clockVars,
         MainOverride, Go
<1> QED
  BY <1>1, <1>2, <1>3, <1>4, <1>5, <1>6, <1>7, <1>8 DEF DriverInv

\* A failed boot only aborts.
LEMMA BootFailsKeepsInv == ASSUME DriverInv, BootFails PROVE DriverInv'
<1>1. WarpInv'
  BY StutterKeepsWarpInv DEF DriverInv, TypeOK, WarpInv, BootFails
<1>2. TypeOK' /\ StartBelongsToRequest'
  BY <1>1, WordModulusAssumption DEF DriverInv, WarpInv, TypeOK, Places, Faults, bootVars,
                                     stepVars, clockVars, bufferVars, tableVars, BootFails,
                                     Abort
<1>3. CallAgrees'
  BY DEF CallAgrees, BootFails, Abort
<1>4. PlaceAgrees'
  BY DEF PlaceAgrees, FreshPlaces, BootFails, Abort
<1>5. TablesAgree'
  BY DEF TablesAgree, HeldFrameOwnsItsTables, BootFails, Abort
<1>6. IdentityAgrees'
  BY DEF IdentityAgrees, BootFails, Abort
<1>7. HandOverAgrees'
  BY DEF HandOverAgrees, BootFails, Abort
<1>8. ServicesAgree'
  BY DEF ServicesAgree, FieldServices, FreshPlaces, BootFails, Abort
<1> QED
  BY <1>1, <1>2, <1>3, <1>4, <1>5, <1>6, <1>7, <1>8 DEF DriverInv

\* Arming the warp changes the warp alone.
LEMMA ArmWarpKeepsInv == ASSUME DriverInv, ArmWarp PROVE DriverInv'
<1>1. WarpInv'
  BY ArmKeepsInv DEF DriverInv, TypeOK, WarpInv, ArmWarp, ArmSome
<1>2. TypeOK' /\ StartBelongsToRequest'
  BY <1>1, WordModulusAssumption DEF DriverInv, WarpInv, TypeOK, bootVars, stepVars, clockVars,
                                     bufferVars, tableVars, ArmWarp, driverVars
<1>3. CallAgrees'
  BY DEF DriverInv, CallAgrees, stepVars, ArmWarp, driverVars
<1>4. PlaceAgrees'
  BY DEF DriverInv, PlaceAgrees, stepVars, ArmWarp, driverVars
<1>5. TablesAgree'
  BY DEF DriverInv, TablesAgree, HeldFrameOwnsItsTables, Held, stepVars, tableVars, ArmWarp,
         driverVars
<1>6. IdentityAgrees'
  BY DEF DriverInv, IdentityAgrees, Held, stepVars, clockVars, bufferVars, tableVars, ArmWarp,
         driverVars
<1>7. HandOverAgrees'
  BY DEF DriverInv, HandOverAgrees, Held, stepVars, bufferVars, tableVars, ArmWarp, driverVars
<1>8. ServicesAgree'
  BY DEF DriverInv, ServicesAgree, FieldServices, stepVars, clockVars, tableVars, ArmWarp,
         driverVars
<1> QED
  BY <1>1, <1>2, <1>3, <1>4, <1>5, <1>6, <1>7, <1>8 DEF DriverInv


\* The host begins a field: a held call is found where it was left, a fresh
\* field finds no table open, and the disagreement abort is not taken.
LEMMA StepFrameKeepsInv == ASSUME DriverInv, StepFrame PROVE DriverInv'
<1>1. callPending <=> spanning # "none"
  BY DEF DriverInv, TypeOK, Stages, CallAgrees, CallOf, StepFrame
<1>2. HeldField \/ FreshField
  BY <1>1 DEF StepFrame, DriverInv, TypeOK
<1>3. WarpInv'
  <2>1. UNCHANGED warpVars \/ Apply
    BY <1>2 DEF HeldField, HeldWarp, FreshField, WarpAtBoundary
  <2> QED
    BY <2>1, StutterKeepsWarpInv, ApplyKeepsInv DEF DriverInv, TypeOK, WarpInv
<1>4. nextField' \in 0 .. WordModulus - 1
  BY WordModulusAssumption DEF DriverInv, TypeOK, StepFrame, Successor
<1>5. CASE HeldField
  <2>0. services' \in Seq({"pad", "submit", "present", "audio"})
    <3>1. CASE stage = "Running"
      BY <1>5, <3>1 DEF HeldField, HeldServices
    <3>2. CASE stage # "Running"
      BY <1>5, <3>2 DEF HeldField
    <3> QED
      BY <3>1, <3>2
  <2>1. TypeOK' /\ StartBelongsToRequest'
    BY <1>3, <1>4, <1>5, <2>0 DEF DriverInv, WarpInv, TypeOK, Places, StepFrame, HeldField,
                                  HeldLogicFrame, HeldPlace, Go, bootVars, stepVars, bufferVars,
                                  tableVars
  <2>2. CallAgrees' /\ PlaceAgrees'
    BY <1>5 DEF DriverInv, CallAgrees, PlaceAgrees, Held, FreshPlaces, StepFrame, HeldField,
                HeldPlace, Go, stepVars
  <2>3. TablesAgree' /\ IdentityAgrees'
    BY <1>5 DEF DriverInv, TablesAgree, HeldFrameOwnsItsTables, IdentityAgrees, StepFrame,
                HeldField, HeldLogicFrame, HeldPlace, Go, stepVars, bufferVars, tableVars
  <2>4. HandOverAgrees'
    BY <1>5 DEF DriverInv, HandOverAgrees, Held, StepFrame, HeldField, HeldPlace, Go,
                bufferVars, tableVars
  <2>5. ServicesAgree'
    BY <1>5 DEF ServicesAgree, FieldServices, FreshPlaces, HeldFieldServices, BootServices,
                HeldField, HeldServices, HeldPlace, Go
  <2> QED
    BY <2>1, <2>2, <2>3, <2>4, <2>5 DEF DriverInv
<1>6. CASE FreshField
  <2>0. services' \in Seq({"pad", "submit", "present", "audio"})
    <3>1. CASE stage = "Running"
      BY <1>6, <3>1 DEF FreshField
    <3>2. CASE stage # "Running"
      BY <1>6, <3>2 DEF FreshField
    <3> QED
      BY <3>1, <3>2
  <2>1. TypeOK' /\ StartBelongsToRequest'
    BY <1>3, <1>4, <1>6, <2>0 DEF DriverInv, WarpInv, TypeOK, Places, StepFrame, FreshField, Go,
                                  bootVars, stepVars, bufferVars, tableVars
  <2>2. CallAgrees' /\ PlaceAgrees'
    BY <1>6 DEF DriverInv, CallAgrees, PlaceAgrees, FreshPlaces, StepFrame, FreshField, Go,
                stepVars
  <2>3. TablesAgree' /\ IdentityAgrees'
    BY <1>6 DEF DriverInv, TablesAgree, HeldFrameOwnsItsTables, IdentityAgrees, Held, StepFrame,
                FreshField, Go, stepVars, tableVars
  <2>4. HandOverAgrees'
    BY <1>6 DEF DriverInv, HandOverAgrees, Held, StepFrame, FreshField, bufferVars, tableVars
  <2>5. ServicesAgree'
    BY <1>6 DEF ServicesAgree, FieldServices, BootServices, StepFrame, FreshField, Go
  <2> QED
    BY <2>1, <2>2, <2>3, <2>4, <2>5 DEF DriverInv
<1> QED
  BY <1>2, <1>5, <1>6

\* A boot field starts or advances an initializer.
LEMMA BootCallKeepsInv == ASSUME DriverInv, NEW outcome \in Outcomes, BootCall(outcome) PROVE DriverInv'
<1>1. WarpInv'
  BY GuestMenusKeepInv DEF DriverInv, TypeOK, WarpInv, BootCall, GuestBody
<1>2. TypeOK' /\ StartBelongsToRequest'
  <2>1. callPending' \in BOOLEAN /\ stage' \in Stages
    BY DEF DriverInv, TypeOK, Stages, Outcomes, BootCall, PendingAfter, StageAfter
  <2>2. spanning' \in SpanningCalls
    <3>1. spanning \in SpanningCalls /\ stage \in SpanningCalls
      BY DEF DriverInv, PlaceAgrees, TypeOK, Stages, SpanningCalls, BootCall
    <3>2. spanning' \in {spanning, stage, "none"}
      BY DEF BootCall, BeginSpanning, ResumeSpanning
    <3> QED
      BY <3>1, <3>2 DEF SpanningCalls
  <2>3. at' \in Places /\ fault' \in Faults
    BY DEF DriverInv, TypeOK, Places, Faults, Outcomes, BootCall, Go, Abort
  <2>4. timerEnabled' \in BOOLEAN /\ activeBuffer' \in Buffers
    BY DEF BootCall, GuestBody
  <2> QED
    BY <1>1, <2>1, <2>2, <2>3, <2>4
       DEF DriverInv, WarpInv, TypeOK, bootVars, clockVars, tableVars, BootCall
<1>3. CallAgrees'
  <2>1. CASE outcome = "Returned"
    BY <2>1 DEF DriverInv, CallAgrees, BootCall, BeginSpanning, ResumeSpanning, PendingAfter, Go
  <2>2. CASE outcome = "Suspended"
    <3>1. callPending' = TRUE
      BY <2>2 DEF BootCall, PendingAfter
    <3>2. stage' = stage
      BY <2>2 DEF BootCall, StageAfter
    <3>3. UNCHANGED fault
      BY <2>2 DEF BootCall, Go
    <3>4. CallOf(stage) = stage
      BY DEF DriverInv, PlaceAgrees, CallOf, BootCall
    <3>5. spanning' = IF callPending THEN spanning ELSE stage
      BY <2>2 DEF BootCall, BeginSpanning, ResumeSpanning
    <3>6. callPending => spanning = stage
      BY <3>4 DEF DriverInv, CallAgrees, BootCall
    <3> QED
      BY <3>1, <3>2, <3>3, <3>4, <3>5, <3>6 DEF DriverInv, CallAgrees
  <2>3. CASE outcome = "Refused"
    BY <2>3 DEF CallAgrees, BootCall, Abort
  <2> QED
    BY <2>1, <2>2, <2>3 DEF Outcomes
<1>4. PlaceAgrees'
  BY DEF DriverInv, PlaceAgrees, FreshPlaces, TypeOK, Outcomes, BootCall, Go, Abort, StageAfter
<1>5. TablesAgree'
  BY DEF DriverInv, TablesAgree, HeldFrameOwnsItsTables, PlaceAgrees, Outcomes, tableVars,
         BootCall, Go, Abort, PendingAfter, StageAfter
<1>6. IdentityAgrees'
  BY DEF DriverInv, IdentityAgrees, PlaceAgrees, Held, Outcomes, BootCall, Go, Abort,
         PendingAfter, StageAfter
<1>7. HandOverAgrees'
  BY DEF DriverInv, HandOverAgrees, PlaceAgrees, Held, tableVars, BootCall
<1>8. ServicesAgree'
  BY DEF DriverInv, ServicesAgree, FieldServices, PlaceAgrees, TablesAgree, FreshPlaces,
         BootServices, Outcomes, tableVars, BootCall, Go, Abort
<1> QED
  BY <1>1, <1>2, <1>3, <1>4, <1>5, <1>6, <1>7, <1>8 DEF DriverInv

\* The barrier replaces the prior buffer by the finished one, or keeps it.
LEMMA BarrierKeepsInv == ASSUME DriverInv, Barrier PROVE DriverInv'
<1>1. WarpInv'
  BY StutterKeepsWarpInv DEF DriverInv, TypeOK, WarpInv, Barrier
<1>2. TypeOK' /\ StartBelongsToRequest'
  BY <1>1, WordModulusAssumption DEF DriverInv, WarpInv, TypeOK, Places, bootVars, stepVars,
                                     clockVars, tableVars, Barrier, Go, BufferToHandOver
<1>3. CallAgrees'
  BY DEF DriverInv, CallAgrees, stepVars, Barrier, Go
<1>4. PlaceAgrees'
  BY DEF DriverInv, PlaceAgrees, FreshPlaces, stepVars, Barrier, Go
<1>5. TablesAgree'
  BY DEF DriverInv, TablesAgree, HeldFrameOwnsItsTables, stepVars, tableVars, Barrier, Go
<1>6. IdentityAgrees'
  BY DEF IdentityAgrees, Barrier, Go
<1>7. HandOverAgrees'
  <2>1. currentBuffer = finished /\ priorBuffer = submitted
    BY DEF DriverInv, HandOverAgrees, Barrier
  <2>2. priorBuffer' \in {finished, submitted}
    BY <2>1 DEF Barrier, BufferToHandOver
  <2> QED
    BY <2>1, <2>2 DEF HandOverAgrees, Barrier, Go, tableVars
<1>8. ServicesAgree'
  BY DEF DriverInv, ServicesAgree, FieldServices, FreshPlaces, clockVars, Barrier, Go
<1> QED
  BY <1>1, <1>2, <1>3, <1>4, <1>5, <1>6, <1>7, <1>8 DEF DriverInv

\* The event hands the prior buffer over, or aborts.
LEMMA DeliverKeepsInv == ASSUME DriverInv, NEW counted \in BOOLEAN, Deliver(counted) PROVE DriverInv'
<1>1. WarpInv'
  BY StutterKeepsWarpInv DEF DriverInv, TypeOK, WarpInv, Deliver
<1>2. TypeOK' /\ StartBelongsToRequest'
  BY <1>1, WordModulusAssumption DEF DriverInv, WarpInv, TypeOK, Places, Faults, Stages,
                                     bootVars, stepVars, clockVars, bufferVars, Deliver, Go,
                                     Abort
<1>3. CallAgrees'
  BY DEF DriverInv, CallAgrees, stepVars, Deliver, Go, Abort
<1>4. PlaceAgrees'
  BY DEF DriverInv, PlaceAgrees, FreshPlaces, stepVars, Deliver, Go, Abort
<1>5. TablesAgree'
  BY DEF DriverInv, TablesAgree, HeldFrameOwnsItsTables, stepVars, Deliver, Go, Abort
<1>6. IdentityAgrees'
  BY DEF IdentityAgrees, Deliver, Go, Abort
<1>7. HandOverAgrees'
  BY DEF DriverInv, HandOverAgrees, bufferVars, Deliver, Abort
<1>8. ServicesAgree'
  <2>1. /\ stage = "Running" /\ ~callPending
        /\ services = <<"pad">> /\ nextField = Successor(logicFrame)
    BY DEF DriverInv, PlaceAgrees, ServicesAgree, FreshPlaces, Deliver
  <2>2. at' = "present" => services' = <<"pad", "submit">>
    BY <2>1 DEF Deliver, Abort
  <2>3. at' \in {"present", "aborted"} /\ UNCHANGED <<nextField, logicFrame>>
    BY DEF Deliver, Go, Abort, clockVars
  <2> QED
    BY <2>1, <2>2, <2>3 DEF ServicesAgree, FieldServices
<1> QED
  BY <1>1, <1>2, <1>3, <1>4, <1>5, <1>6, <1>7, <1>8 DEF DriverInv

\* Presenting counts the frame and may switch the active buffer.
LEMMA PresentKeepsInv == ASSUME DriverInv, NEW keepBuffer \in BOOLEAN, Present(keepBuffer) PROVE DriverInv'
<1>1. WarpInv'
  BY StutterKeepsWarpInv DEF DriverInv, TypeOK, WarpInv, Present
<1>2. TypeOK' /\ StartBelongsToRequest'
  BY <1>1, WordModulusAssumption DEF DriverInv, WarpInv, TypeOK, Places, Successor, bootVars,
                                     stepVars, clockVars, tableVars, Present, Go
<1>3. CallAgrees'
  BY DEF DriverInv, CallAgrees, stepVars, Present, Go
<1>4. PlaceAgrees'
  BY DEF DriverInv, PlaceAgrees, FreshPlaces, stepVars, Present, Go
<1>5. TablesAgree'
  BY DEF DriverInv, TablesAgree, HeldFrameOwnsItsTables, stepVars, tableVars, Present, Go
<1>6. IdentityAgrees'
  BY DEF IdentityAgrees, Present, Go
<1>7. HandOverAgrees'
  BY DEF DriverInv, HandOverAgrees, tableVars, Present
<1>8. ServicesAgree'
  <2>1. services = <<"pad", "submit">> /\ nextField = Successor(logicFrame)
    BY DEF DriverInv, ServicesAgree, FreshPlaces, Present
  <2>2. services' = FreshServices
    <3>1. Append(services, "present") = <<"pad", "submit", "present">>
      BY <2>1, AppendToPair
    <3>2. Append(<<"pad", "submit", "present">>, "audio") = FreshServices
      BY AppendToTriple DEF FreshServices
    <3> QED
      BY <3>1, <3>2 DEF Present
  <2>3. at' = "clear" /\ UNCHANGED <<nextField, logicFrame>>
    BY DEF Present, Go, clockVars
  <2> QED
    BY <2>1, <2>2, <2>3 DEF ServicesAgree, FieldServices
<1> QED
  BY <1>1, <1>2, <1>3, <1>4, <1>5, <1>6, <1>7, <1>8 DEF DriverInv

\* Clearing opens the active buffer's tables under the field's identity.
LEMMA ClearTablesKeepsInv == ASSUME DriverInv, ClearTables PROVE DriverInv'
<1>1. WarpInv'
  BY StutterKeepsWarpInv DEF DriverInv, TypeOK, WarpInv, ClearTables
<1>2. TypeOK' /\ StartBelongsToRequest'
  BY <1>1, WordModulusAssumption DEF DriverInv, WarpInv, TypeOK, Places, Stamp, bootVars,
                                     stepVars, clockVars, ClearTables, Go
<1>3. CallAgrees'
  BY DEF DriverInv, CallAgrees, stepVars, ClearTables, Go
<1>4. PlaceAgrees'
  BY DEF DriverInv, PlaceAgrees, FreshPlaces, stepVars, ClearTables, Go
<1>5. TablesAgree'
  BY DEF DriverInv, TablesAgree, HeldFrameOwnsItsTables, PlaceAgrees, FreshPlaces, stepVars,
         ClearTables, Go
<1>6. IdentityAgrees'
  BY DEF DriverInv, IdentityAgrees, TypeOK, clockVars, ClearTables, Go
<1>7. HandOverAgrees'
  BY DEF DriverInv, HandOverAgrees, ClearTables, Go
<1>8. ServicesAgree'
  BY DEF DriverInv, ServicesAgree, FieldServices, FreshPlaces, clockVars, ClearTables, Go
<1> QED
  BY <1>1, <1>2, <1>3, <1>4, <1>5, <1>6, <1>7, <1>8 DEF DriverInv

\* The mode body returns to the splice or is held with its buffer remembered.
LEMMA ModeBodyKeepsInv == ASSUME DriverInv, NEW outcome \in Outcomes, ModeBody(outcome) PROVE DriverInv'
<1>1. WarpInv'
  BY GuestMenusKeepInv DEF DriverInv, TypeOK, WarpInv, ModeBody, GuestBody
<1>2. TypeOK' /\ StartBelongsToRequest'
  BY <1>1, WordModulusAssumption DEF DriverInv, WarpInv, TypeOK, Places, Faults, SpanningCalls,
                                     Outcomes, bootVars, clockVars, tableVars, ModeBody, Go,
                                     Abort, GuestBody, BeginSpanning, PendingAfter
<1>3. CallAgrees'
  BY DEF DriverInv, CallAgrees, PlaceAgrees, FreshPlaces, CallOf, Outcomes, ModeBody, Go, Abort,
         GuestBody, BeginSpanning, PendingAfter
<1>4. PlaceAgrees'
  BY DEF DriverInv, PlaceAgrees, FreshPlaces, TypeOK, Outcomes, ModeBody, Go, Abort,
         PendingAfter
<1>5. TablesAgree'
  BY DEF DriverInv, TablesAgree, HeldFrameOwnsItsTables, Held, Outcomes, tableVars, ModeBody,
         Go, Abort, PendingAfter
<1>6. IdentityAgrees'
  BY DEF DriverInv, IdentityAgrees, clockVars, tableVars, ModeBody
<1>7. HandOverAgrees'
  BY DEF DriverInv, HandOverAgrees, IdentityAgrees, PlaceAgrees, Held, FreshPlaces, Outcomes,
         tableVars, ModeBody, Go, Abort, PendingAfter
<1>8. ServicesAgree'
  BY DEF DriverInv, ServicesAgree, FieldServices, TablesAgree, FreshPlaces, FreshServices,
         HeldFrameOwnsItsTables, Outcomes, clockVars, ModeBody, Go, Abort
<1> QED
  BY <1>1, <1>2, <1>3, <1>4, <1>5, <1>6, <1>7, <1>8 DEF DriverInv

\* A mode without a body goes straight to the splice.
LEMMA NoModeBodyKeepsInv == ASSUME DriverInv, NoModeBody PROVE DriverInv'
<1>1. WarpInv'
  BY StutterKeepsWarpInv DEF DriverInv, TypeOK, WarpInv, NoModeBody
<1>2. TypeOK' /\ StartBelongsToRequest'
  BY <1>1, WordModulusAssumption DEF DriverInv, WarpInv, TypeOK, Places, bootVars, stepVars,
                                     clockVars, bufferVars, tableVars, NoModeBody, Go
<1>3. CallAgrees'
  BY DEF DriverInv, CallAgrees, stepVars, NoModeBody, Go
<1>4. PlaceAgrees'
  BY DEF DriverInv, PlaceAgrees, FreshPlaces, stepVars, NoModeBody, Go
<1>5. TablesAgree'
  BY DEF DriverInv, TablesAgree, HeldFrameOwnsItsTables, stepVars, bufferVars, tableVars,
         NoModeBody, Go
<1>6. IdentityAgrees'
  BY DEF DriverInv, IdentityAgrees, clockVars, bufferVars, tableVars, NoModeBody, Go
<1>7. HandOverAgrees'
  BY DEF DriverInv, HandOverAgrees, bufferVars, tableVars, NoModeBody, Go
<1>8. ServicesAgree'
  BY DEF DriverInv, ServicesAgree, FieldServices, FreshPlaces, clockVars, NoModeBody, Go
<1> QED
  BY <1>1, <1>2, <1>3, <1>4, <1>5, <1>6, <1>7, <1>8 DEF DriverInv

\* A held body advances; the frame it returns to is the remembered one.
LEMMA ResumeBodyKeepsInv == ASSUME DriverInv, NEW outcome \in Outcomes, ResumeBody(outcome) PROVE DriverInv'
<1>1. WarpInv'
  BY GuestMenusKeepInv DEF DriverInv, TypeOK, WarpInv, ResumeBody, GuestBody
<1>2. TypeOK' /\ StartBelongsToRequest'
  BY <1>1, WordModulusAssumption DEF DriverInv, WarpInv, TypeOK, Places, Faults, Stages,
                                     SpanningCalls, Outcomes, bootVars, clockVars, tableVars,
                                     ResumeBody, Go, Abort, GuestBody, ResumeSpanning,
                                     PendingAfter, ResumedBuffer
<1>3. CallAgrees'
  BY DEF DriverInv, CallAgrees, Outcomes, ResumeBody, Go, Abort, GuestBody, ResumeSpanning,
         PendingAfter
<1>4. PlaceAgrees'
  BY DEF DriverInv, PlaceAgrees, Held, FreshPlaces, TypeOK, Outcomes, ResumeBody, Go, Abort,
         PendingAfter
<1>5. TablesAgree'
  BY DEF DriverInv, TablesAgree, HeldFrameOwnsItsTables, PlaceAgrees, Held, Outcomes, tableVars,
         ResumeBody, Go, Abort, PendingAfter, ResumedBuffer
<1>6. IdentityAgrees'
  BY DEF DriverInv, IdentityAgrees, PlaceAgrees, Outcomes, clockVars, tableVars, ResumeBody, Go,
         Abort, ResumedBuffer
<1>7. HandOverAgrees'
  BY DEF DriverInv, HandOverAgrees, IdentityAgrees, PlaceAgrees, Held, Outcomes, tableVars,
         ResumeBody, Go, Abort, PendingAfter
<1>8. ServicesAgree'
  BY DEF DriverInv, ServicesAgree, FieldServices, PlaceAgrees, Held, FreshPlaces,
         HeldFieldServices, Outcomes, ResumeBody, Go, Abort
<1> QED
  BY <1>1, <1>2, <1>3, <1>4, <1>5, <1>6, <1>7, <1>8 DEF DriverInv

\* Finishing closes the one open table.
LEMMA FinishFrameKeepsInv == ASSUME DriverInv, FinishFrame PROVE DriverInv'
<1>1. WarpInv'
  BY StutterKeepsWarpInv DEF DriverInv, TypeOK, WarpInv, FinishFrame
<1>2. TypeOK' /\ StartBelongsToRequest'
  BY <1>1, WordModulusAssumption DEF DriverInv, WarpInv, TypeOK, Places, bootVars, stepVars,
                                     clockVars, bufferVars, FinishFrame, Go
<1>3. CallAgrees'
  BY DEF DriverInv, CallAgrees, stepVars, FinishFrame, Go
<1>4. PlaceAgrees'
  BY DEF DriverInv, PlaceAgrees, stepVars, FinishFrame, Go
<1>5. TablesAgree'
  BY DEF DriverInv, TablesAgree, HeldFrameOwnsItsTables, PlaceAgrees, stepVars, FinishFrame, Go
<1>6. IdentityAgrees'
  BY DEF DriverInv, IdentityAgrees, PlaceAgrees, Held, stepVars, FinishFrame, Go
<1>7. HandOverAgrees'
  BY DEF DriverInv, HandOverAgrees, IdentityAgrees, bufferVars, FinishFrame
<1>8. ServicesAgree'
  BY DEF DriverInv, ServicesAgree, FieldServices, PlaceAgrees, FreshPlaces, FreshServices,
         HeldFieldServices, stepVars, clockVars, FinishFrame, Go
<1> QED
  BY <1>1, <1>2, <1>3, <1>4, <1>5, <1>6, <1>7, <1>8 DEF DriverInv

\* A guest call that does not return aborts.
LEMMA FiniteCallFailsKeepsInv == ASSUME DriverInv, FiniteCallFails PROVE DriverInv'
<1>1. WarpInv'
  BY StutterKeepsWarpInv DEF DriverInv, TypeOK, WarpInv, FiniteCallFails
<1>2. TypeOK' /\ StartBelongsToRequest'
  BY <1>1, WordModulusAssumption DEF DriverInv, WarpInv, TypeOK, Places, Faults, bootVars,
                                     stepVars, clockVars, bufferVars, tableVars,
                                     FiniteCallFails, Abort
<1>3. CallAgrees'
  BY DEF CallAgrees, FiniteCallFails, Abort
<1>4. PlaceAgrees'
  BY DEF PlaceAgrees, FreshPlaces, FiniteCallFails, Abort
<1>5. TablesAgree'
  BY DEF TablesAgree, HeldFrameOwnsItsTables, FiniteCallFails, Abort
<1>6. IdentityAgrees'
  BY DEF IdentityAgrees, FiniteCallFails, Abort
<1>7. HandOverAgrees'
  BY DEF HandOverAgrees, FiniteCallFails, Abort
<1>8. ServicesAgree'
  BY DEF ServicesAgree, FieldServices, FreshPlaces, FiniteCallFails, Abort
<1> QED
  BY <1>1, <1>2, <1>3, <1>4, <1>5, <1>6, <1>7, <1>8 DEF DriverInv

\* Every step keeps the invariant.
LEMMA NextKeepsInv == DriverInv /\ [Next]_vars => DriverInv'
<1> SUFFICES ASSUME DriverInv, [Next]_vars PROVE DriverInv'
  OBVIOUS
<1>1. ASSUME Field PROVE DriverInv'
  BY <1>1, BootCallKeepsInv, ModeBodyKeepsInv, ResumeBodyKeepsInv, BarrierKeepsInv,
     DeliverKeepsInv, PresentKeepsInv, ClearTablesKeepsInv, NoModeBodyKeepsInv,
     FinishFrameKeepsInv
     DEF Field
<1>2. ASSUME UNCHANGED vars PROVE DriverInv'
  <2>1. WarpInv'
    BY <1>2, StutterKeepsWarpInv DEF vars, DriverInv, TypeOK, WarpInv
  <2> QED
    BY <1>2, <2>1 DEF vars, driverVars, DriverInv, WarpInv, TypeOK, CallAgrees, PlaceAgrees,
                      Held, TablesAgree, HeldFrameOwnsItsTables, IdentityAgrees, HandOverAgrees,
                      ServicesAgree, FieldServices, bootVars, stepVars, clockVars, bufferVars,
                      tableVars
<1> QED
  BY <1>1, <1>2, RunBootPrefixKeepsInv, MainOverrideKeepsInv, BootFailsKeepsInv,
     ArmWarpKeepsInv, StepFrameKeepsInv, FiniteCallFailsKeepsInv
     DEF Next, Aborted

\* The process starts with nothing begun, opened, held or handed over.
LEMMA InitInv == Init => DriverInv
<1> SUFFICES ASSUME Init PROVE DriverInv
  OBVIOUS
<1>1. WarpInv
  BY WarpInitInv DEF Init
<1>2. TypeOK /\ StartBelongsToRequest
  <2>1. 0 \in 0 .. WordModulus - 1
    BY WordModulusAssumption
  <2>2. services \in Seq({"pad", "submit", "present", "audio"})
    BY DEF Init
  <2>3. stamp \in [field : 0 .. WordModulus - 1, counter : 0 .. WordModulus - 1,
                   roots : Buffers \cup {NoBuffer}]
    BY <2>1 DEF Init, Stamp
  <2>4. /\ nextField \in 0 .. WordModulus - 1 /\ logicFrame \in 0 .. WordModulus - 1
        /\ frameCounter \in 0 .. WordModulus - 1
    BY <2>1 DEF Init
  <2>5. /\ {currentBuffer, priorBuffer, roots, frameBuffer, finished, submitted}
             \subseteq Buffers \cup {NoBuffer}
        /\ building \subseteq Buffers /\ activeBuffer \in Buffers
        /\ stepBuffer \in Buffers \cup {NoBuffer}
    BY DEF Init
  <2>6. /\ at \in Places /\ fault \in Faults
        /\ bootStarted \in BOOLEAN /\ bootComplete \in BOOLEAN
        /\ stage \in Stages /\ callPending \in BOOLEAN
        /\ spanning \in SpanningCalls /\ timerEnabled \in BOOLEAN
    BY DEF Init, Places, Faults, Stages, SpanningCalls
  <2> QED
    BY <1>1, <2>2, <2>3, <2>4, <2>5, <2>6 DEF WarpInv, TypeOK
<1>3. CallAgrees /\ PlaceAgrees /\ TablesAgree
  BY DEF Init, CallAgrees, PlaceAgrees, TablesAgree, HeldFrameOwnsItsTables, FreshPlaces
<1>4. IdentityAgrees /\ HandOverAgrees /\ ServicesAgree
  BY DEF Init, IdentityAgrees, HandOverAgrees, ServicesAgree, FieldServices, FreshPlaces
<1> QED
  BY <1>2, <1>3, <1>4 DEF DriverInv

LEMMA AlwaysInv == Spec => []DriverInv
BY InitInv, NextKeepsInv, PTL DEF Spec

-----------------------------------------------------------------------------
\* The driver's state is well typed, the wrapping words included.
THEOREM DriverTypeOK == Spec => []TypeOK
<1>1. DriverInv => TypeOK
  BY DEF DriverInv
<1> QED
  BY AlwaysInv, <1>1, PTL

\* The record of a pending call and the held call agree between fields, and the
\* disagreement abort of FrameDriver::stepFrame is never reached.
THEOREM PendingAlwaysAgrees == Spec => []PendingAgrees
<1>1. DriverInv => PendingAgrees
  BY DEF DriverInv, CallAgrees, PendingAgrees
<1> QED
  BY AlwaysInv, <1>1, PTL

\* A frame that outlives its field keeps its ordering tables to itself
\* (FiniteFrame::step).
THEOREM HeldFrameAlwaysOwnsItsTables == Spec => []HeldFrameOwnsItsTables
<1>1. DriverInv => HeldFrameOwnsItsTables
  BY DEF DriverInv, TablesAgree
<1> QED
  BY AlwaysInv, <1>1, PTL

\* A frame is finished under the identity it was opened with.
THEOREM FrameKeepsItsIdentity == Spec => []FrameIdentity
<1>1. DriverInv => FrameIdentity
  BY DEF DriverInv, IdentityAgrees, FrameIdentity
<1> QED
  BY AlwaysInv, <1>1, PTL

\* Every field serves the host in the order of its kind.
THEOREM FieldsServeInOrder == Spec => []FieldServices
<1>1. DriverInv => FieldServices
  BY DEF DriverInv, ServicesAgree
<1> QED
  BY AlwaysInv, <1>1, PTL

-----------------------------------------------------------------------------
(***************************************************************************)
(* The two refinements and the boundary at which the warp acts.            *)
(***************************************************************************)
\* What a step does to the ordering tables: nothing, or what the protocol says.
LEMMA StepImplementsProtocol ==
  DriverInv /\ [Next]_vars => [Protocol!ProtocolNext]_(Protocol!protocolVars)
<1> SUFFICES ASSUME DriverInv, [Next]_vars
             PROVE  [Protocol!ProtocolNext]_(Protocol!protocolVars)
  OBVIOUS
<1> USE DEF Protocol!ProtocolNext, Protocol!protocolVars
<1>1. CASE ClearTables
  <2>1. building = {} /\ activeBuffer \in Buffers
    BY <1>1 DEF DriverInv, TypeOK, TablesAgree, HeldFrameOwnsItsTables, ClearTables
  <2>2. Protocol!Open(activeBuffer)
    BY <1>1, <2>1 DEF ClearTables, Protocol!Open
  <2> QED
    BY <2>1, <2>2
<1>2. CASE FinishFrame
  <2>1. building = {frameBuffer} /\ frameBuffer \in Buffers
    BY <1>2 DEF DriverInv, TablesAgree, HeldFrameOwnsItsTables, IdentityAgrees, FinishFrame
  <2>2. Protocol!Close(frameBuffer)
    BY <1>2, <2>1 DEF FinishFrame, Protocol!Close
  <2> QED
    BY <2>1, <2>2
<1>3. ASSUME NEW counted \in BOOLEAN, Deliver(counted)
      PROVE  [Protocol!ProtocolNext]_(Protocol!protocolVars)
  <2>1. building = {} /\ priorBuffer \in {finished, submitted}
    BY <1>3 DEF DriverInv, TablesAgree, HeldFrameOwnsItsTables, HandOverAgrees, Deliver
  <2>2. CASE counted
    <3>1. Protocol!Submit
      BY <1>3, <2>1, <2>2 DEF Deliver, Protocol!Submit
    <3> QED
      BY <3>1
  <2>3. CASE ~counted
    BY <1>3, <2>3 DEF Deliver
  <2> QED
    BY <2>2, <2>3
<1>4. CASE UNCHANGED <<building, finished, submitted>>
  BY <1>4
<1>5. ASSUME Field, ~ClearTables, ~FinishFrame, \A counted \in BOOLEAN : ~Deliver(counted)
      PROVE  UNCHANGED <<building, finished, submitted>>
  BY <1>5 DEF Field, BootCall, ModeBody, ResumeBody, Barrier, Present, NoModeBody, tableVars
<1>6. ASSUME ~Field
      PROVE  UNCHANGED <<building, finished, submitted>>
  BY <1>6 DEF Next, RunBootPrefix, MainOverride, BootFails, ArmWarp, StepFrame, FiniteCallFails,
              Aborted, driverVars, tableVars, vars
<1> QED
  BY <1>1, <1>2, <1>3, <1>4, <1>5, <1>6

\* The driver implements the ordering-table protocol: one table at a time, each
\* closed before the next is opened, and only a finished one is handed over
\* (FiniteFrame::step, runBarrier).
THEOREM DriverImplementsProtocol == Spec => ImplementsProtocol
<1>1. Init => Protocol!ProtocolInit
  BY DEF Init, Protocol!ProtocolInit
<1> QED
  BY <1>1, AlwaysInv, StepImplementsProtocol, PTL
     DEF Spec, ImplementsProtocol, Protocol!ProtocolSpec

\* What a step does to the warp: arm it, apply it, or let the guest's menus move.
LEMMA StepUsesWarp == [Next]_vars => [WarpNext]_warpVars
<1> SUFFICES ASSUME [Next]_vars PROVE [WarpNext]_warpVars
  OBVIOUS
<1>1. CASE ArmWarp
  BY <1>1 DEF ArmWarp, WarpNext
<1>2. CASE StepFrame
  <2>1. Apply \/ UNCHANGED warpVars
    BY <1>2 DEF StepFrame, HeldField, HeldWarp, FreshField, WarpAtBoundary
  <2> QED
    BY <2>1 DEF WarpNext
<1>3. CASE Field
  <2>1. GuestMenus \/ UNCHANGED warpVars
    BY <1>3 DEF Field, BootCall, ModeBody, ResumeBody, GuestBody, Barrier, Deliver, Present,
                ClearTables, NoModeBody, FinishFrame
  <2> QED
    BY <2>1 DEF WarpNext
<1>4. ASSUME ~ArmWarp, ~StepFrame, ~Field
      PROVE  UNCHANGED warpVars
  BY <1>4 DEF Next, RunBootPrefix, MainOverride, BootFails, FiniteCallFails, Aborted, vars
<1> QED
  BY <1>1, <1>2, <1>3, <1>4

\* So what is proved of FightWarp holds of it inside the driver.
LEMMA DriverUsesWarp == Spec => WarpSpec
<1>1. Init => WarpInit
  BY DEF Init
<1> QED
  BY <1>1, StepUsesWarp, PTL DEF Spec, WarpSpec

\* In every run of the driver, through boot, fresh and held fields and aborts, a
\* request's flag and its one game start belong together, however often the
\* console re-arms and wherever the guest's menus go (FightWarp::arm, ::apply).
THEOREM StartAlwaysBelongsToRequest == Spec => []StartBelongsToRequest
BY DriverUsesWarp, WarpSafety, PTL

\* And every request the driver's fields consume is left whole: exactly its own
\* two characters, on the select's exit, after its own start (FightWarp::apply).
THEOREM RequestsAreConsumedWhole == Spec => RequestConsumedWhole
BY DriverUsesWarp, WarpConsumesWhole, PTL

\* A game start or a consumed request happens in a fresh field of the main loop
\* only, with no call held and no table open.
LEMMA WarpStepAtBoundary ==
  ASSUME DriverInv, [Next]_vars,
         (~started /\ started') \/ (request # NoRequest /\ request' = NoRequest)
  PROVE  at = "idle" /\ spanning = "none" /\ building = {} /\ stage = "Running"
<1>1. ~ArmWarp
  <2>1. ASSUME NEW line \in Lines, Arm(line) PROVE FALSE
    <3>1. request' \in Pairs(Characters) /\ ~started'
      BY <2>1 DEF Arm, Accepted, ValidCharacter, Pairs, StartedByArm
    <3> QED
      BY <3>1, NoRequestAssumption
  <2> QED
    BY <2>1 DEF ArmWarp, ArmSome
<1>2. ~Field
  <2>1. SUFFICES ASSUME Field PROVE FALSE
    OBVIOUS
  <2>2. UNCHANGED <<request, started>>
    <3>1. GuestMenus \/ UNCHANGED warpVars
      BY <2>1 DEF Field, BootCall, ModeBody, ResumeBody, GuestBody, Barrier, Deliver, Present,
                  ClearTables, NoModeBody, FinishFrame
    <3> QED
      BY <3>1 DEF GuestMenus, warpVars
  <2> QED
    BY <2>2
<1>3. StepFrame
  BY <1>1, <1>2 DEF Next, RunBootPrefix, MainOverride, BootFails, FiniteCallFails, Aborted,
                    vars, warpVars
<1>4. FreshField /\ stage = "Running"
  BY <1>3 DEF StepFrame, HeldField, HeldWarp, FreshField, WarpAtBoundary, warpVars
<1>5. at = "idle" /\ ~callPending
  BY <1>3, <1>4 DEF StepFrame, FreshField
<1> QED
  BY <1>4, <1>5 DEF DriverInv, CallAgrees, TablesAgree, Held

\* The warp touches the guest only at an open boundary of the main loop
\* (FrameDriver::stepFrame).
THEOREM WarpActsOnlyAtOpenBoundary == Spec => WarpOnlyAtOpenBoundary
<1>1. DriverInv /\ [Next]_vars =>
        [(~started /\ started') \/ (request # NoRequest /\ request' = NoRequest)
          => at = "idle" /\ spanning = "none" /\ building = {} /\ stage = "Running"]_vars
  BY WarpStepAtBoundary
<1> QED
  BY <1>1, AlwaysInv, PTL DEF Spec, WarpOnlyAtOpenBoundary

-----------------------------------------------------------------------------

(***************************************************************************)
(* The inductive invariant, of the record itself, so that it can be said   *)
(* of what an override returns before the action has ended.                *)
(***************************************************************************)
Entry == [read : ReadIds, stage : ReadStages]

\* Only the last entry of the chain can be still to acknowledge: it is the held
\* read, nothing has come from the drive for it, and its command is not written
\* before it is the head.
AskedAgrees(c) ==
  \A i \in 1 .. Len(c.chain) : c.chain[i].stage # "acknowledged" =>
    /\ i = Len(c.chain)
    /\ c.chain[i].read = c.held
    /\ c.due = NoRead
    /\ c.sector = NoRead
    /\ c.chain[i].stage = "commanded" => i = 1

\* What the drive owes or has raised is the held read's sector, and not both.
DeliveryAgrees(c) ==
  /\ c.due # NoRead => c.due = c.held /\ c.sector = NoRead
  /\ c.sector # NoRead => c.sector = c.held

\* A held read is in one of the three places.
HeldIsOwed(c) ==
  c.held # NoRead => \/ c.due # NoRead
                     \/ c.sector # NoRead
                     \/ c.chain # <<>> /\ c.chain[Len(c.chain)].stage # "acknowledged"

\* The controller's flag says what the chain and the drive say.
InterruptAgrees(c) ==
  /\ c.pending = "command" <=> c.chain # <<>> /\ c.chain[1].stage = "commanded"
  /\ c.pending = "sector" <=> c.sector # NoRead

\* The guest spins on the busy byte exactly while it waits for a held read: the
\* wait that leaves finds the held byte, which it clears, cleared already.
SpinAgrees(c) == c.busy <=> c.waiting /\ c.held # NoRead

OrderInv(c) ==
  /\ c \in State
  /\ AskedAgrees(c)
  /\ DeliveryAgrees(c)
  /\ HeldIsOwed(c)
  /\ InterruptAgrees(c)
  /\ SpinAgrees(c)
  /\ c.installed => c.held # NoRead
  /\ ~c.lost

CdInv == OrderInv(cd)

USE DEF NoRead

-----------------------------------------------------------------------------
(***************************************************************************)
(* Facts about the chain and about what the overrides return.              *)
(***************************************************************************)
\* Moving the head of the chain on changes its stage and nothing else.
LEMMA HeadStage ==
  ASSUME NEW s \in Seq(Entry), s # <<>>, NEW st \in ReadStages
  PROVE  LET t == [s EXCEPT ![1].stage = st]
         IN  /\ t \in Seq(Entry) /\ t # <<>> /\ Len(t) = Len(s)
             /\ t[1].stage = st /\ t[1].read = s[1].read
             /\ \A i \in 2 .. Len(s) : t[i] = s[i]
<1> DEFINE e == [s[1] EXCEPT !.stage = st]
           t == [s EXCEPT ![1] = e]
<1>1. Len(s) \in Nat /\ Len(s) >= 1 /\ s[1] \in Entry
  BY EmptySeq, ElementOfSeq, LenProperties
<1>2. e \in Entry /\ e.stage = st /\ e.read = s[1].read
  BY <1>1 DEF Entry
<1>3. t \in Seq(Entry) /\ Len(t) = Len(s) /\ t[1] = e /\ \A i \in 2 .. Len(s) : t[i] = s[i]
  <2> HIDE DEF e
  <2> QED  BY <1>1, <1>2, ExceptSeq
<1>4. t # <<>>
  BY <1>1, <1>3, EmptySeq
<1> QED  BY <1>2, <1>3, <1>4

\* The entries of the chain of a reachable record.
LEMMA ChainEntries ==
  ASSUME NEW c, c \in State
  PROVE  /\ c.chain \in Seq(Entry)
         /\ Len(c.chain) \in Nat
         /\ c.chain # <<>> <=> Len(c.chain) >= 1
         /\ \A i \in 1 .. Len(c.chain) : c.chain[i].read \in ReadIds /\ c.chain[i].stage \in ReadStages
<1>1. c.chain \in Seq(Entry)
  BY DEF State, Entry
<1>2. \A i \in 1 .. Len(c.chain) : c.chain[i] \in Entry
  BY <1>1, ElementOfSeq
<1> QED  BY <1>1, <1>2, EmptySeq, LenProperties DEF Entry

\* The ready hook, given a pending sector, ends the held read: the completion
\* is either there already or delivered first.
LEMMA SectorIsConsumed ==
  ASSUME NEW c, OrderInv(c), c.pending = "sector"
  PROVE  /\ ReadyHook(c, SectorEventClass) = [c EXCEPT !.held = NoRead, !.busy = FALSE, !.installed = FALSE]
         /\ c.held # NoRead
<1>1. c.held # NoRead
  BY DEF OrderInv, InterruptAgrees, DeliveryAgrees
<1>2. c \in State
  BY DEF OrderInv
<1>3. CASE c.installed
  BY <1>1, <1>2, <1>3 DEF ReadyHook, OwesCompletion, PerSectorHandler, RestoredClass, State
<1>4. CASE ~c.installed
  <2>1. ChainCompletion(c, ChainCompletionClass) = [c EXCEPT !.installed = TRUE]
    BY <1>1 DEF ChainCompletion, ChainCompletionApplies
  <2>2. OwesCompletion(c, SectorEventClass)
    BY <1>1, <1>4 DEF OwesCompletion
  <2> QED
    BY <1>1, <1>2, <2>1, <2>2 DEF ReadyHook, PerSectorHandler, RestoredClass, State
<1> QED  BY <1>2, <1>3, <1>4 DEF State

\* Any other data interrupt passes the ready hook without effect.
LEMMA OtherPasses ==
  ASSUME NEW c, OrderInv(c), c.pending = "other"
  PROVE  ReadyHook(c, OtherEventClass) = c
BY DEF ReadyHook, OwesCompletion, PerSectorHandler, RestoredClass, SectorEventClass,
       OtherEventClass, OrderInv, InterruptAgrees, State

\* The interrupt service keeps the invariant, leaves nothing pending and moves
\* the guest thread nowhere; it touches the chain only to acknowledge a command.
LEMMA ServiceKeeps ==
  ASSUME NEW c, OrderInv(c)
  PROVE  /\ OrderInv(InterruptService(c))
         /\ InterruptService(c).pending = "nothing"
         /\ InterruptService(c).waiting = c.waiting
         /\ c.pending # "command" => InterruptService(c).chain = c.chain
<1>1. c \in State /\ c.pending \in Events
  BY DEF OrderInv, State
<1>2. CASE c.pending = "nothing"
  <2>1. InterruptService(c) = c
    BY <1>2 DEF InterruptService
  <2> QED  BY <1>2, <2>1
<1>3. CASE c.pending = "other"
  <2>1. InterruptService(c) = [c EXCEPT !.pending = "nothing"]
    BY <1>3, OtherPasses DEF InterruptService
  <2> DEFINE d == [c EXCEPT !.pending = "nothing"]
  <2>2. d \in State
    BY <1>1 DEF State, Events
  <2>3. OrderInv(d)
    BY <1>1, <1>3, <2>2
    DEF OrderInv, State, AskedAgrees, DeliveryAgrees, HeldIsOwed, InterruptAgrees, SpinAgrees
  <2> QED  BY <1>1, <2>1, <2>3 DEF State
<1>4. CASE c.pending = "sector"
  <2> DEFINE d == [c EXCEPT !.held = NoRead, !.busy = FALSE, !.installed = FALSE,
                            !.pending = "nothing", !.sector = NoRead]
  <2>1. InterruptService(c) = d
    BY <1>1, <1>4, SectorIsConsumed DEF InterruptService, State
  <2>2. d \in State
    BY <1>1 DEF State, Events
  <2>3. c.sector # NoRead /\ c.due = NoRead
    BY <1>4 DEF OrderInv, InterruptAgrees, DeliveryAgrees
  <2>4. d.held = NoRead /\ d.installed = FALSE /\ d.pending = "nothing" /\ d.sector = NoRead
        /\ d.chain = c.chain /\ d.due = NoRead /\ d.lost = c.lost
        /\ d.busy = FALSE /\ d.waiting = c.waiting
    BY <1>1, <2>3 DEF State
  <2>5. \A i \in 1 .. Len(c.chain) : c.chain[i].stage = "acknowledged"
    BY <2>3 DEF OrderInv, AskedAgrees
  <2>6. ~(c.chain # <<>> /\ c.chain[1].stage = "commanded")
    BY <1>4 DEF OrderInv, InterruptAgrees
  <2> HIDE DEF d
  <2> QED
    BY <2>1, <2>2, <2>4, <2>5, <2>6
    DEF OrderInv, AskedAgrees, DeliveryAgrees, HeldIsOwed, InterruptAgrees, SpinAgrees
<1>5. CASE c.pending = "command"
  <2> DEFINE d == [c EXCEPT !.chain[1].stage = "acknowledged", !.due = c.chain[1].read,
                            !.pending = "nothing"]
             t == [c.chain EXCEPT ![1].stage = "acknowledged"]
  <2>1. InterruptService(c) = d
    BY <1>5 DEF InterruptService
  <2>2. c.chain \in Seq(Entry) /\ Len(c.chain) \in Nat /\ c.chain # <<>>
        /\ c.chain[1].stage = "commanded" /\ 1 \in 1 .. Len(c.chain)
        /\ c.chain[1].read \in ReadIds
    BY <1>1, <1>5, ChainEntries DEF OrderInv, InterruptAgrees
  <2>3. Len(c.chain) = 1 /\ c.chain[1].read = c.held /\ c.due = NoRead /\ c.sector = NoRead
    BY <2>2 DEF OrderInv, AskedAgrees
  <2>4. t \in Seq(Entry) /\ t # <<>> /\ Len(t) = 1 /\ t[1].stage = "acknowledged"
    BY <2>2, <2>3, HeadStage DEF ReadStages
  <2>5. d.held = c.held /\ d.installed = c.installed /\ d.chain = t /\ d.due = c.held
        /\ d.pending = "nothing" /\ d.sector = NoRead /\ d.lost = c.lost
        /\ d.busy = c.busy /\ d.waiting = c.waiting
    BY <1>1, <2>3 DEF State
  <2>6. d \in State
    BY <1>1, <2>2, <2>4 DEF State, Entry, Events
  <2>7. c.held # NoRead
    BY <2>2, <2>3 DEF ReadIds
  <2> HIDE DEF d, t
  <2>8. AskedAgrees(d)
    <3>1. \A i \in 1 .. 1 : i = 1
      OBVIOUS
    <3>2. Len(d.chain) = 1 /\ d.chain[1].stage = "acknowledged"
      BY <2>4, <2>5
    <3> QED  BY <3>1, <3>2, Zenon DEF AskedAgrees
  <2>9. DeliveryAgrees(d) /\ HeldIsOwed(d)
    BY <2>5, <2>7 DEF DeliveryAgrees, HeldIsOwed
  <2>10. InterruptAgrees(d) /\ SpinAgrees(d)
    BY <2>4, <2>5 DEF InterruptAgrees, OrderInv, SpinAgrees
  <2> QED
    BY <1>5, <2>1, <2>5, <2>6, <2>7, <2>8, <2>9, <2>10 DEF OrderInv
<1> QED  BY <1>1, <1>2, <1>3, <1>4, <1>5 DEF Events

\* A flush with no command pending keeps the invariant: what it would discard
\* has been serviced, or there was nothing to discard.
LEMMA FlushKeeps ==
  ASSUME NEW c, OrderInv(c), c.pending # "command"
  PROVE  /\ OrderInv(Flush(c))
         /\ Flush(c).pending = "nothing"
         /\ Flush(c).chain = c.chain
         /\ Flush(c).waiting = c.waiting
<1> DEFINE s == ServiceBeforeFlush(c)
           f == [s EXCEPT !.pending = "nothing", !.sector = NoRead,
                          !.lost = @ \/ s.pending = "sector"]
<1>1. Flush(c) = f
  BY DEF Flush
<1>2. /\ OrderInv(s) /\ s.chain = c.chain /\ s.waiting = c.waiting
      /\ s.pending \notin {"command", "sector"}
  <2>1. CASE c.held # NoRead
    <3>1. s = InterruptService(c)
      BY <2>1 DEF ServiceBeforeFlush
    <3> QED  BY <3>1, ServiceKeeps
  <2>2. CASE c.held = NoRead
    <3>1. s = c
      BY <2>2 DEF ServiceBeforeFlush
    <3>2. c.pending # "sector"
      BY <2>2 DEF OrderInv, InterruptAgrees, DeliveryAgrees
    <3> QED  BY <3>1, <3>2
  <2> QED  BY <2>1, <2>2
<1> HIDE DEF s
<1>3. s \in State /\ s.sector = NoRead /\ ~s.lost
  BY <1>2 DEF OrderInv, InterruptAgrees
<1>4. f \in State /\ f.pending = "nothing" /\ f.chain = s.chain /\ f.held = s.held
      /\ f.installed = s.installed /\ f.due = s.due /\ f.sector = s.sector /\ ~f.lost
      /\ f.busy = s.busy /\ f.waiting = s.waiting
  BY <1>2, <1>3 DEF State, Events
<1> HIDE DEF f
<1> QED
  BY <1>1, <1>2, <1>3, <1>4
  DEF OrderInv, AskedAgrees, DeliveryAgrees, HeldIsOwed, InterruptAgrees, SpinAgrees

-----------------------------------------------------------------------------
(***************************************************************************)
(* The initial state and one lemma per action.                             *)
(***************************************************************************)
LEMMA InitHolds == SectorInit => OrderInv(cd)
<1> SUFFICES ASSUME SectorInit
             PROVE  OrderInv(cd)
  OBVIOUS
<1>1. cd \in State
  <2>1. <<>> \in Seq([read : ReadIds, stage : ReadStages])
    BY EmptySeq
  <2> QED  BY <2>1 DEF SectorInit, State, Events
<1>2. Len(cd.chain) = 0 /\ cd.chain = <<>>
  BY EmptySeq DEF SectorInit
<1>3. AskedAgrees(cd)
  BY <1>2 DEF AskedAgrees
<1> QED
  BY <1>1, <1>2, <1>3
  DEF SectorInit, OrderInv, DeliveryAgrees, HeldIsOwed, InterruptAgrees, SpinAgrees

LEMMA StartReadKeeps == OrderInv(cd) /\ StartRead => OrderInv(cd')
<1> SUFFICES ASSUME OrderInv(cd), StartRead
             PROVE  OrderInv(cd')
  OBVIOUS
<1> DEFINE read == (cd.last % Reads) + 1
           entry == [read |-> read, stage |-> "queued"]
           old == cd.chain
           new == Append(old, entry)
<1>1. cd \in State /\ cd.held = NoRead /\ ~cd.lost /\ ~cd.waiting /\ ~cd.busy
  BY DEF StartRead, OrderInv, SpinAgrees
<1>2. read \in ReadIds
  <2>1. cd.last \in Nat /\ Reads \in Nat /\ Reads > 0
    BY <1>1, ReadsAssumption DEF State, ReadIds
  <2>2. cd.last % Reads \in 0 .. Reads - 1
    BY <2>1
  <2> QED  BY <2>1, <2>2 DEF ReadIds
<1>3. old \in Seq(Entry) /\ Len(old) \in Nat /\ (old # <<>> <=> Len(old) >= 1)
  BY <1>1, ChainEntries
<1>4. \A i \in 1 .. Len(old) : old[i].stage = "acknowledged"
  <2> SUFFICES ASSUME NEW i \in 1 .. Len(old), old[i].stage # "acknowledged"
               PROVE  FALSE
    OBVIOUS
  <2>1. old[i].read = NoRead
    BY <1>1 DEF OrderInv, AskedAgrees
  <2>2. old[i].read \in ReadIds
    BY <1>1, ChainEntries
  <2> QED  BY <2>1, <2>2 DEF ReadIds
<1>5. cd.due = NoRead /\ cd.sector = NoRead /\ cd.installed = FALSE
  BY <1>1 DEF OrderInv, DeliveryAgrees, State
<1>6. cd.pending # "command" /\ cd.pending # "sector"
  BY <1>3, <1>4, <1>5 DEF OrderInv, InterruptAgrees
<1>7. entry \in Entry /\ entry.stage = "queued" /\ entry.read = read
  BY <1>2 DEF Entry, ReadStages
<1> HIDE DEF read, entry
<1>8. new \in Seq(Entry) /\ Len(new) = Len(old) + 1 /\ new[Len(old) + 1] = entry
      /\ \A i \in 1 .. Len(old) : new[i] = old[i]
  BY <1>3, <1>7, AppendProperties
<1> HIDE DEF new
<1>9. cd'.held = read /\ cd'.installed = FALSE /\ cd'.chain = new /\ cd'.due = NoRead
      /\ cd'.pending = cd.pending /\ cd'.sector = NoRead /\ cd'.lost = cd.lost
      /\ cd'.busy = cd.busy /\ cd'.waiting = cd.waiting
  BY <1>1, <1>5 DEF StartRead, State, read, entry, new
<1>10. cd' \in State
  BY <1>1, <1>2, <1>8 DEF StartRead, State, Entry, read, entry, new
<1>11. \A i \in 1 .. Len(new) : new[i].stage # "acknowledged" => i = Len(new)
  BY <1>3, <1>4, <1>8
<1>12. new[Len(new)].stage = "queued" /\ new[Len(new)].read = read /\ new # <<>>
       /\ new[1].stage # "commanded"
  <2>1. Len(new) # 0 /\ new # <<>>
    BY <1>3, <1>8, EmptySeq
  <2>2. CASE Len(old) = 0
    BY <1>7, <1>8, <2>1, <2>2
  <2>3. CASE Len(old) # 0
    BY <1>3, <1>4, <1>7, <1>8, <2>1, <2>3
  <2> QED  BY <2>2, <2>3
<1>13. AskedAgrees(cd')
  BY <1>9, <1>11, <1>12 DEF AskedAgrees
<1>14. DeliveryAgrees(cd') /\ HeldIsOwed(cd')
  BY <1>9, <1>12 DEF DeliveryAgrees, HeldIsOwed
<1>15. InterruptAgrees(cd') /\ SpinAgrees(cd')
  BY <1>1, <1>6, <1>9, <1>12 DEF InterruptAgrees, SpinAgrees
<1> QED  BY <1>1, <1>9, <1>10, <1>13, <1>14, <1>15 DEF OrderInv

LEMMA EnterWaitKeeps == OrderInv(cd) /\ EnterWait => OrderInv(cd')
<1> SUFFICES ASSUME OrderInv(cd), EnterWait
             PROVE  OrderInv(cd')
  OBVIOUS
<1>1. cd \in State /\ cd.held # NoRead
  BY DEF EnterWait, OrderInv
<1>2. /\ cd'.held = cd.held /\ cd'.installed = cd.installed /\ cd'.chain = cd.chain
      /\ cd'.due = cd.due /\ cd'.pending = cd.pending /\ cd'.sector = cd.sector
      /\ cd'.lost = cd.lost /\ cd'.busy /\ cd'.waiting
  BY <1>1 DEF EnterWait, State
<1>3. cd' \in State
  BY <1>1 DEF EnterWait, State
<1> QED
  BY <1>1, <1>2, <1>3
  DEF OrderInv, AskedAgrees, DeliveryAgrees, HeldIsOwed, InterruptAgrees, SpinAgrees

\* The wait clears a byte the sector callback has cleared before it.
LEMMA LeaveWaitFindsItCleared == OrderInv(cd) /\ LeaveWait => cd' = [cd EXCEPT !.waiting = FALSE]
<1> SUFFICES ASSUME OrderInv(cd), LeaveWait
             PROVE  cd' = [cd EXCEPT !.waiting = FALSE]
  OBVIOUS
<1>1. cd \in State /\ cd.held = NoRead
  BY DEF LeaveWait, SpinIsOver, OrderInv, SpinAgrees
<1> QED
  BY <1>1 DEF LeaveWait, State

LEMMA LeaveWaitKeeps == OrderInv(cd) /\ LeaveWait => OrderInv(cd')
<1> SUFFICES ASSUME OrderInv(cd), LeaveWait
             PROVE  OrderInv(cd')
  OBVIOUS
<1>1. cd \in State /\ ~cd.busy /\ cd' = [cd EXCEPT !.waiting = FALSE]
  BY LeaveWaitFindsItCleared DEF LeaveWait, SpinIsOver, OrderInv
<1>2. /\ cd'.held = cd.held /\ cd'.installed = cd.installed /\ cd'.chain = cd.chain
      /\ cd'.due = cd.due /\ cd'.pending = cd.pending /\ cd'.sector = cd.sector
      /\ cd'.lost = cd.lost /\ ~cd'.busy /\ ~cd'.waiting
  BY <1>1 DEF State
<1>3. cd' \in State
  BY <1>1 DEF State
<1> QED
  BY <1>2, <1>3
  DEF OrderInv, AskedAgrees, DeliveryAgrees, HeldIsOwed, InterruptAgrees, SpinAgrees

LEMMA WriteReadCommandKeeps == OrderInv(cd) /\ WriteReadCommand => OrderInv(cd')
<1> SUFFICES ASSUME OrderInv(cd), WriteReadCommand
             PROVE  OrderInv(cd')
  OBVIOUS
<1> DEFINE f == Flush(cd)
           t == [f.chain EXCEPT ![1].stage = "commanded"]
<1>1. cd.chain # <<>> /\ cd.chain[1].stage = "queued"
  BY DEF WriteReadCommand, HeadIs
<1>2. cd.pending # "command"
  BY <1>1 DEF OrderInv, InterruptAgrees
<1>3. OrderInv(f) /\ f.pending = "nothing" /\ f.chain = cd.chain
  BY <1>2, FlushKeeps
<1>4. cd' = [f EXCEPT !.chain[1].stage = "commanded", !.pending = "command"]
  BY DEF WriteReadCommand
<1> HIDE DEF f
<1>5. f \in State /\ f.chain \in Seq(Entry) /\ Len(f.chain) \in Nat /\ 1 \in 1 .. Len(f.chain)
      /\ f.chain[1].read \in ReadIds
  BY <1>1, <1>3, ChainEntries DEF OrderInv
<1>6. Len(f.chain) = 1 /\ f.chain[1].read = f.held /\ f.due = NoRead /\ f.sector = NoRead
  BY <1>1, <1>3, <1>5 DEF OrderInv, AskedAgrees
<1>7. t \in Seq(Entry) /\ t # <<>> /\ Len(t) = 1 /\ t[1].stage = "commanded"
      /\ t[1].read = f.held
  BY <1>1, <1>3, <1>5, <1>6, HeadStage DEF ReadStages
<1>8. cd'.held = f.held /\ cd'.installed = f.installed /\ cd'.chain = t /\ cd'.due = NoRead
      /\ cd'.pending = "command" /\ cd'.sector = NoRead /\ cd'.lost = f.lost
      /\ cd'.busy = f.busy /\ cd'.waiting = f.waiting
  BY <1>4, <1>5, <1>6 DEF State
<1>9. cd' \in State
  BY <1>4, <1>5, <1>7 DEF State, Entry, Events
<1> HIDE DEF t
<1>10. AskedAgrees(cd')
  <2>1. \A i \in 1 .. 1 : i = 1
    OBVIOUS
  <2>2. Len(cd'.chain) = 1 /\ cd'.chain[1].read = cd'.held /\ cd'.due = NoRead
        /\ cd'.sector = NoRead
    BY <1>7, <1>8
  <2> QED  BY <2>1, <2>2, Zenon DEF AskedAgrees
<1>11. DeliveryAgrees(cd') /\ HeldIsOwed(cd') /\ InterruptAgrees(cd')
  BY <1>7, <1>8 DEF DeliveryAgrees, HeldIsOwed, InterruptAgrees
<1>12. SpinAgrees(cd')
  BY <1>3, <1>8 DEF OrderInv, SpinAgrees
<1> QED  BY <1>3, <1>8, <1>9, <1>10, <1>11, <1>12 DEF OrderInv

LEMMA WriteOtherCommandKeeps == OrderInv(cd) /\ WriteOtherCommand => OrderInv(cd')
<1> SUFFICES ASSUME OrderInv(cd), WriteOtherCommand
             PROVE  OrderInv(cd')
  OBVIOUS
<1>1. cd.pending # "command"
  BY DEF WriteOtherCommand, HeadIs, OrderInv, InterruptAgrees
<1> QED  BY <1>1, FlushKeeps DEF WriteOtherCommand

LEMMA CompleteHeadKeeps == OrderInv(cd) /\ CompleteHead => OrderInv(cd')
<1> SUFFICES ASSUME OrderInv(cd), CompleteHead
             PROVE  OrderInv(cd')
  OBVIOUS
<1> DEFINE s == cd.chain
           t == Tail(s)
<1>1. cd \in State /\ s \in Seq(Entry) /\ Len(s) \in Nat /\ Len(s) >= 1
      /\ s # <<>> /\ s[1].stage = "acknowledged"
  BY ChainEntries DEF CompleteHead, HeadIs, OrderInv
<1>2. t \in Seq(Entry) /\ Len(t) = Len(s) - 1 /\ \A i \in 1 .. Len(t) : t[i] = s[i + 1]
  BY <1>1, HeadTailProperties
<1> HIDE DEF t
<1>3. t # <<>> <=> Len(s) >= 2
  BY <1>1, <1>2, EmptySeq
<1>4. /\ cd'.held = cd.held /\ cd'.chain = t /\ cd'.due = cd.due /\ cd'.pending = cd.pending
      /\ cd'.sector = cd.sector /\ cd'.lost = cd.lost
      /\ cd'.busy = cd.busy /\ cd'.waiting = cd.waiting
      /\ cd'.installed => cd.held # NoRead
  BY <1>1 DEF CompleteHead, ChainCompletion, ChainCompletionApplies, State, OrderInv, t
<1>5. cd' \in State
  BY <1>1, <1>2 DEF CompleteHead, ChainCompletion, State, Entry, t
<1>6. \A i \in 1 .. Len(t) : t[i].stage # "acknowledged" =>
        /\ i = Len(t) /\ t[i].read = cd.held /\ cd.due = NoRead /\ cd.sector = NoRead
        /\ t[i].stage = "commanded" => i = 1
  <2> SUFFICES ASSUME NEW i \in 1 .. Len(t), t[i].stage # "acknowledged"
               PROVE  /\ i = Len(t) /\ t[i].read = cd.held
                      /\ cd.due = NoRead /\ cd.sector = NoRead
                      /\ t[i].stage # "commanded"
    OBVIOUS
  <2>1. i + 1 \in 1 .. Len(s) /\ t[i] = s[i + 1]
    BY <1>1, <1>2
  <2>2. /\ i + 1 = Len(s) /\ s[i + 1].read = cd.held /\ cd.due = NoRead /\ cd.sector = NoRead
        /\ s[i + 1].stage # "commanded"
    BY <2>1 DEF OrderInv, AskedAgrees
  <2> QED  BY <1>1, <1>2, <2>1, <2>2
<1>7. AskedAgrees(cd')
  BY <1>4, <1>6 DEF AskedAgrees
<1>8. s[Len(s)].stage # "acknowledged" => t # <<>> /\ t[Len(t)].stage # "acknowledged"
  BY <1>1, <1>2, <1>3
<1>9. HeldIsOwed(cd')
  BY <1>4, <1>8 DEF OrderInv, HeldIsOwed
<1>10. cd.pending # "command" /\ (cd.pending = "sector" <=> cd.sector # NoRead)
  BY <1>1 DEF OrderInv, InterruptAgrees
<1>11. ~(t # <<>> /\ t[1].stage = "commanded")
  <2> SUFFICES ASSUME t # <<>>, t[1].stage = "commanded"
               PROVE  FALSE
    OBVIOUS
  <2>1. 2 \in 1 .. Len(s) /\ t[1] = s[2]
    BY <1>1, <1>2, <1>3
  <2> QED  BY <2>1 DEF OrderInv, AskedAgrees
<1>12. InterruptAgrees(cd')
  BY <1>4, <1>10, <1>11 DEF InterruptAgrees
<1> QED
  BY <1>1, <1>4, <1>5, <1>7, <1>9, <1>12 DEF OrderInv, DeliveryAgrees, SpinAgrees

LEMMA RaiseSectorKeeps == OrderInv(cd) /\ RaiseSector => OrderInv(cd')
<1> SUFFICES ASSUME OrderInv(cd), RaiseSector
             PROVE  OrderInv(cd')
  OBVIOUS
<1>1. cd \in State /\ cd.due # NoRead /\ cd.pending = "nothing"
  BY DEF RaiseSector, OrderInv
<1>2. /\ cd'.held = cd.held /\ cd'.installed = cd.installed /\ cd'.chain = cd.chain
      /\ cd'.due = NoRead /\ cd'.pending = "sector" /\ cd'.sector = cd.due
      /\ cd'.lost = cd.lost /\ cd'.busy = cd.busy /\ cd'.waiting = cd.waiting
  BY <1>1 DEF RaiseSector, State
<1>3. cd' \in State
  BY <1>1 DEF RaiseSector, State, Events
<1>4. AskedAgrees(cd')
  BY <1>1, <1>2 DEF OrderInv, AskedAgrees
<1>5. DeliveryAgrees(cd') /\ HeldIsOwed(cd') /\ InterruptAgrees(cd')
  BY <1>1, <1>2 DEF OrderInv, DeliveryAgrees, HeldIsOwed, InterruptAgrees
<1> QED  BY <1>2, <1>3, <1>4, <1>5 DEF OrderInv, SpinAgrees

LEMMA RaiseOtherKeeps == OrderInv(cd) /\ RaiseOther => OrderInv(cd')
<1> SUFFICES ASSUME OrderInv(cd), RaiseOther
             PROVE  OrderInv(cd')
  OBVIOUS
<1>1. cd \in State /\ cd.pending = "nothing"
  BY DEF RaiseOther, OrderInv
<1>2. /\ cd'.held = cd.held /\ cd'.installed = cd.installed /\ cd'.chain = cd.chain
      /\ cd'.due = cd.due /\ cd'.pending = "other" /\ cd'.sector = cd.sector
      /\ cd'.lost = cd.lost /\ cd'.busy = cd.busy /\ cd'.waiting = cd.waiting
  BY <1>1 DEF RaiseOther, State
<1>3. cd' \in State
  BY <1>1 DEF RaiseOther, State, Events
<1> QED
  BY <1>1, <1>2, <1>3
  DEF OrderInv, AskedAgrees, DeliveryAgrees, HeldIsOwed, InterruptAgrees, SpinAgrees

-----------------------------------------------------------------------------
(***************************************************************************)
(* The theorems.                                                           *)
(***************************************************************************)
\* Every step of the record keeps the invariant.
LEMMA SectorNextKeeps == CdInv /\ [SectorNext]_cd => CdInv'
<1> SUFFICES ASSUME OrderInv(cd), [SectorNext]_cd
             PROVE  OrderInv(cd')
  BY DEF CdInv
<1>1. CASE StartRead          BY <1>1, StartReadKeeps
<1>2. CASE WriteReadCommand   BY <1>2, WriteReadCommandKeeps
<1>3. CASE WriteOtherCommand  BY <1>3, WriteOtherCommandKeeps
<1>4. CASE CompleteHead       BY <1>4, CompleteHeadKeeps
<1>5. CASE RaiseSector        BY <1>5, RaiseSectorKeeps
<1>6. CASE RaiseOther         BY <1>6, RaiseOtherKeeps
<1>7. CASE TakeInterrupt      BY <1>7, ServiceKeeps DEF TakeInterrupt
<1>8. CASE EnterWait          BY <1>8, EnterWaitKeeps
<1>9. CASE LeaveWait          BY <1>9, LeaveWaitKeeps
<1>10. CASE UNCHANGED cd      BY <1>10
<1> QED
  BY <1>1, <1>2, <1>3, <1>4, <1>5, <1>6, <1>7, <1>8, <1>9, <1>10 DEF SectorNext

LEMMA OrderInvInductive == SectorSpec => []CdInv
<1>1. SectorInit => CdInv
  BY InitHolds DEF CdInv
<1> QED  BY <1>1, SectorNextKeeps, PTL DEF SectorSpec

\* The record keeps its type.
THEOREM TypeCorrect == SectorSpec => []CdTypeOK
<1>1. CdInv => CdTypeOK
  BY DEF CdInv, OrderInv, CdTypeOK
<1> QED  BY <1>1, OrderInvInductive, PTL

\* The INT1 of every read reaches the sector callback: serviceInterruptsBefore-
\* Flush and completeReadBeforeSector leave no order of the timer, the command
\* writer, the drive and the interrupt in which one is lost.
THEOREM NoSectorIsLost == SectorSpec => []NoSectorLost
<1>1. CdInv => NoSectorLost
  BY DEF CdInv, OrderInv, NoSectorLost
<1> QED  BY <1>1, OrderInvInductive, PTL

\* The held byte is raised exactly while one sector, the held read's, is asked
\* for, owed or pending: the mode body never spins on a byte nobody will clear.
THEOREM HeldReadIsOnItsWay == SectorSpec => []SectorOnItsWay
<1> DEFINE asked == {cd.chain[i].read : i \in {k \in DOMAIN cd.chain :
                                            cd.chain[k].stage # "acknowledged"}}
<1>1. CdInv => SectorOnItsWay
  <2> SUFFICES ASSUME OrderInv(cd)
               PROVE  SectorOnItsWay
    BY DEF CdInv
  <2>1. cd.chain \in Seq(Entry) /\ DOMAIN cd.chain = 1 .. Len(cd.chain)
        /\ Len(cd.chain) \in Nat /\ (cd.chain # <<>> <=> Len(cd.chain) >= 1)
    BY ChainEntries, LenProperties DEF OrderInv
  <2>2. asked \subseteq {cd.held} /\ NoRead \notin asked
    BY <2>1, ChainEntries DEF OrderInv, AskedAgrees, ReadIds
  <2>3. {cd.due, cd.sector} \subseteq {cd.held, NoRead}
    BY DEF OrderInv, DeliveryAgrees
  <2>4. CASE cd.held = NoRead
    BY <2>2, <2>3, <2>4 DEF SectorOnItsWay
  <2>5. CASE cd.held # NoRead
    <3>1. cd.held \in asked \cup {cd.due, cd.sector}
      <4>1. CASE cd.due # NoRead \/ cd.sector # NoRead
        BY <2>3, <4>1
      <4>2. CASE cd.chain # <<>> /\ cd.chain[Len(cd.chain)].stage # "acknowledged"
        <5>1. Len(cd.chain) \in DOMAIN cd.chain
          BY <2>1, <4>2
        <5>2. cd.chain[Len(cd.chain)].read \in asked
          BY <4>2, <5>1
        <5> QED  BY <2>2, <5>2
      <4> QED  BY <2>5, <4>1, <4>2 DEF OrderInv, HeldIsOwed
    <3> QED  BY <2>2, <2>3, <2>5, <3>1 DEF SectorOnItsWay
  <2> QED  BY <2>4, <2>5
<1> QED  BY <1>1, OrderInvInductive, PTL

\* chainCompletionApplies: a late completion installs no callback for the next
\* read's events to find when no read is in flight.
THEOREM CallbackIsOwed == SectorSpec => []CallbackOnlyWhileOwed
<1>1. CdInv => CallbackOnlyWhileOwed
  BY DEF CdInv, OrderInv, CallbackOnlyWhileOwed
<1> QED  BY <1>1, OrderInvInductive, PTL

-----------------------------------------------------------------------------
(***************************************************************************)
(* The refinement.  A step of the record is a stutter, a Send or a Consume *)
(* of the handshake; only StartRead asks.                                  *)
(***************************************************************************)
Moves(c, d) ==
  \/ d.held = c.held /\ Underway(d) = Underway(c)
  \/ /\ c.held # NoRead /\ Underway(c) = NoRead
     /\ d.held = c.held /\ Underway(d) = c.held
  \/ /\ c.held # NoRead /\ Underway(c) = c.held
     /\ d.held = NoRead /\ Underway(d) = NoRead

\* A serviced acknowledgement sends, a serviced sector is consumed.
LEMMA ServiceMoves ==
  ASSUME NEW c, OrderInv(c)
  PROVE  Moves(c, InterruptService(c))
<1>1. c \in State /\ c.pending \in Events
  BY DEF OrderInv, State
<1>2. CASE c.pending = "nothing"
  BY <1>2 DEF InterruptService, Moves
<1>3. CASE c.pending = "other"
  <2>1. InterruptService(c) = [c EXCEPT !.pending = "nothing"]
    BY <1>3, OtherPasses DEF InterruptService
  <2> QED  BY <1>1, <2>1 DEF Moves, Underway, State
<1>4. CASE c.pending = "sector"
  <2> DEFINE d == [c EXCEPT !.held = NoRead, !.busy = FALSE, !.installed = FALSE,
                            !.pending = "nothing", !.sector = NoRead]
  <2>1. InterruptService(c) = d
    BY <1>1, <1>4, SectorIsConsumed DEF InterruptService, State
  <2>2. c.sector # NoRead /\ c.sector = c.held /\ c.due = NoRead
    BY <1>4 DEF OrderInv, InterruptAgrees, DeliveryAgrees
  <2>3. d.held = NoRead /\ d.sector = NoRead /\ d.due = NoRead
    BY <1>1, <2>2 DEF State
  <2> QED  BY <2>1, <2>2, <2>3 DEF Moves, Underway
<1>5. CASE c.pending = "command"
  <2> DEFINE d == [c EXCEPT !.chain[1].stage = "acknowledged", !.due = c.chain[1].read,
                            !.pending = "nothing"]
  <2>1. InterruptService(c) = d
    BY <1>5 DEF InterruptService
  <2>2. 1 \in 1 .. Len(c.chain) /\ c.chain[1].stage = "commanded" /\ c.chain[1].read \in ReadIds
    BY <1>1, <1>5, ChainEntries DEF OrderInv, InterruptAgrees
  <2>3. c.chain[1].read = c.held /\ c.due = NoRead /\ c.sector = NoRead /\ c.held # NoRead
    BY <2>2 DEF OrderInv, AskedAgrees, ReadIds
  <2>4. d.held = c.held /\ d.due = c.held
    BY <1>1, <2>3 DEF State
  <2> QED  BY <2>1, <2>3, <2>4 DEF Moves, Underway
<1> QED  BY <1>1, <1>2, <1>3, <1>4, <1>5 DEF Events

\* What a flush discards is no sector.
LEMMA FlushMoves ==
  ASSUME NEW c, OrderInv(c), c.pending # "command"
  PROVE  Moves(c, Flush(c))
<1> DEFINE s == ServiceBeforeFlush(c)
<1>1. OrderInv(s) /\ s.pending # "sector" /\ Moves(c, s)
  <2>1. CASE c.held # NoRead
    <3>1. s = InterruptService(c)
      BY <2>1 DEF ServiceBeforeFlush
    <3> QED  BY <3>1, ServiceKeeps, ServiceMoves
  <2>2. CASE c.held = NoRead
    <3>1. s = c
      BY <2>2 DEF ServiceBeforeFlush
    <3>2. c.pending # "sector"
      BY <2>2 DEF OrderInv, InterruptAgrees, DeliveryAgrees
    <3> QED  BY <3>1, <3>2 DEF Moves
  <2> QED  BY <2>1, <2>2
<1> HIDE DEF s
<1>2. s \in State /\ s.sector = NoRead
  BY <1>1 DEF OrderInv, InterruptAgrees
<1>3. Flush(c).held = s.held /\ Flush(c).due = s.due /\ Flush(c).sector = s.sector
  BY <1>2 DEF Flush, State, s
<1> QED  BY <1>1, <1>3 DEF Moves, Underway

\* A step of the drive, the guest or an override is a step of the handshake.
LEMMA StepRefines == OrderInv(cd) /\ [SectorNext]_cd => [Handshake!HandshakeNext]_<<cd.held, Underway(cd)>>
<1> SUFFICES ASSUME OrderInv(cd), [SectorNext]_cd
             PROVE  [Handshake!HandshakeNext]_<<cd.held, Underway(cd)>>
  OBVIOUS
<1> USE DEF Handshake!HandshakeNext
<1>1. cd \in State
  BY DEF OrderInv
<1>2. CASE StartRead
  <2> DEFINE read == (cd.last % Reads) + 1
  <2>1. cd.held = NoRead /\ cd'.held = read /\ cd'.due = cd.due /\ cd'.sector = cd.sector
    BY <1>1, <1>2 DEF StartRead, State
  <2>2. read \in ReadIds
    <3>1. cd.last \in Nat /\ Reads \in Nat /\ Reads > 0
      BY <1>1, ReadsAssumption DEF State, ReadIds
    <3>2. cd.last % Reads \in 0 .. Reads - 1
      BY <3>1
    <3> QED  BY <3>1, <3>2 DEF ReadIds
  <2> HIDE DEF read
  <2>3. Handshake!Ask(read)
    BY <2>1 DEF Handshake!Ask, Underway
  <2> QED  BY <2>2, <2>3
<1>3. CASE Moves(cd, cd')
  BY <1>3 DEF Moves, Handshake!Send, Handshake!Consume
<1>4. CASE WriteReadCommand
  <2>1. cd.pending # "command"
    BY <1>4 DEF WriteReadCommand, HeadIs, OrderInv, InterruptAgrees
  <2>2. Flush(cd) \in State /\ Moves(cd, Flush(cd))
    BY <2>1, FlushKeeps, FlushMoves DEF OrderInv
  <2>3. cd'.held = Flush(cd).held /\ cd'.due = Flush(cd).due /\ cd'.sector = Flush(cd).sector
    BY <1>4, <2>2 DEF WriteReadCommand, State
  <2>4. Moves(cd, cd')
    BY <2>2, <2>3 DEF Moves, Underway
  <2> QED  BY <1>3, <2>4
<1>5. CASE WriteOtherCommand
  <2>1. cd.pending # "command"
    BY <1>5 DEF WriteOtherCommand, HeadIs, OrderInv, InterruptAgrees
  <2>2. Moves(cd, cd')
    BY <1>5, <2>1, FlushMoves DEF WriteOtherCommand
  <2> QED  BY <1>3, <2>2
<1>6. CASE CompleteHead
  <2>1. cd'.held = cd.held /\ cd'.due = cd.due /\ cd'.sector = cd.sector
    BY <1>1, <1>6 DEF CompleteHead, ChainCompletion, State
  <2> QED  BY <1>3, <2>1 DEF Moves, Underway
<1>7. CASE RaiseSector
  <2>1. cd.due # NoRead /\ cd'.held = cd.held /\ cd'.due = NoRead /\ cd'.sector = cd.due
    BY <1>1, <1>7 DEF RaiseSector, State
  <2> QED  BY <1>3, <2>1 DEF Moves, Underway
<1>8. CASE RaiseOther
  <2>1. cd'.held = cd.held /\ cd'.due = cd.due /\ cd'.sector = cd.sector
    BY <1>1, <1>8 DEF RaiseOther, State
  <2> QED  BY <1>3, <2>1 DEF Moves, Underway
<1>9. CASE TakeInterrupt
  <2>1. Moves(cd, cd')
    BY <1>9, ServiceMoves DEF TakeInterrupt
  <2> QED  BY <1>3, <2>1
<1>10. CASE UNCHANGED cd
  BY <1>3, <1>10 DEF Moves
<1>11. CASE EnterWait
  <2>1. cd'.held = cd.held /\ cd'.due = cd.due /\ cd'.sector = cd.sector
    BY <1>1, <1>11 DEF EnterWait, State
  <2> QED  BY <1>3, <2>1 DEF Moves, Underway
<1>12. CASE LeaveWait
  <2>1. cd'.held = cd.held /\ cd'.due = cd.due /\ cd'.sector = cd.sector
    BY <1>1, <1>12, LeaveWaitFindsItCleared DEF State
  <2> QED  BY <1>3, <2>1 DEF Moves, Underway
<1> QED
  BY <1>2, <1>4, <1>5, <1>6, <1>7, <1>8, <1>9, <1>10, <1>11, <1>12 DEF SectorNext

\* The three overrides implement the handshake: whatever the order of timer,
\* command writer, drive and interrupt, a read ends by its own sector only, and
\* that sector comes once.
THEOREM OverridesImplementHandshake == SectorSpec => ImplementsHandshake
<1>1. SectorInit => Handshake!HandshakeInit
  BY DEF SectorInit, Handshake!HandshakeInit, Underway
<1>2. CdInv /\ [SectorNext]_cd => [Handshake!HandshakeNext]_<<cd.held, Underway(cd)>>
  BY StepRefines DEF CdInv
<1> QED
  BY <1>1, <1>2, OrderInvInductive, PTL
  DEF SectorSpec, ImplementsHandshake, Handshake!HandshakeSpec, Handshake!handshakeVars

-----------------------------------------------------------------------------
(***************************************************************************)
(* The composition.  A step of the two together is a step of the driver or *)
(* of the record, and leaves the other alone.                              *)
(***************************************************************************)
\* The end of a turn is the field's, with an outcome the wait allows.
LEMMA DriverSteps == ASSUME Driver PROVE Next /\ UNCHANGED <<cd, waits>>
BY DEF Driver, Host, EndTurn, Next, Field

LEMMA WaitNextIsDriven == [WaitNext]_allVars => [Next]_vars
<1> SUFFICES ASSUME [WaitNext]_allVars PROVE [Next]_vars
  OBVIOUS
<1>1. CASE Driver
  BY <1>1, DriverSteps
<1>2. CASE ~Driver
  <2>1. UNCHANGED vars
    BY <1>2 DEF WaitNext, AskForSector, CallEntersWait, CallLeavesWait, Timer, OtherCommand, Drive,
                OtherInterrupt, Interrupt, InGuestTime, allVars
  <2> QED
    BY <2>1
<1> QED
  BY <1>1, <1>2

LEMMA WaitNextIsOrdered == [WaitNext]_allVars => [SectorNext]_cd
<1> SUFFICES ASSUME [WaitNext]_allVars PROVE [SectorNext]_cd
  OBVIOUS
<1>1. CASE Driver
  BY <1>1, DriverSteps
<1>2. CASE ~Driver
  BY <1>2 DEF WaitNext, AskForSector, CallEntersWait, CallLeavesWait, Timer, OtherCommand, Drive,
              OtherInterrupt, Interrupt, InGuestTime, allVars, SectorNext
<1> QED
  BY <1>1, <1>2

\* With the loader's waits in its turns the driver is still the driver: a body
\* that spins on the busy byte is a body that is suspended (FiniteFrame::step).
THEOREM WaitIsDriven == WaitSpec => Spec
<1>1. WaitInit => Init
  BY DEF WaitInit
<1> QED
  BY <1>1, WaitNextIsDriven, PTL DEF WaitSpec, Spec

\* In the turns of the driver the overrides meet the timer, the drive and the
\* interrupt in orders SectorReadyOrder allows.
LEMMA WaitIsOrdered == WaitSpec => SectorSpec
<1>1. WaitInit => SectorInit
  BY DEF WaitInit
<1> QED
  BY <1>1, WaitNextIsOrdered, PTL DEF WaitSpec, SectorSpec

\* So no sector is lost when the loader and the driver run together: a call that
\* waits is held for a sector that is on its way to it, and the overrides go on
\* implementing the handshake (sector_ready_order.cpp).
THEOREM WaitedSectorIsOnItsWay ==
  WaitSpec => /\ [](NoSectorLost /\ SectorOnItsWay /\ CallbackOnlyWhileOwed)
              /\ ImplementsHandshake
BY WaitIsOrdered, NoSectorIsLost, HeldReadIsOnItsWay, CallbackIsOwed,
   OverridesImplementHandshake, PTL

-----------------------------------------------------------------------------
(***************************************************************************)
(* Whose wait it is.  Between turns the call that waits is the one the     *)
(* machine holds; that is inductive with the driver's own invariant, which *)
(* ties the held call to the stage and to the place of the field.          *)
(***************************************************************************)
WaitAgrees ==
  /\ waits \in (SpanningCalls \ {"none"}) \cup {NoWait}
  /\ cd.waiting <=> waits # NoWait
  /\ waits # NoWait => waits = (IF Turn THEN Running(stage) ELSE spanning) \/ at = "aborted"

WaitInv == DriverInv /\ CdInv /\ WaitAgrees

\* What runs is a call.
LEMMA RunningIsACall ==
  ASSUME NEW s \in Stages PROVE Running(s) \in SpanningCalls \ {"none"}
BY DEF Running, CallOf, Stages, SpanningCalls

\* At the start of a turn nothing waits that is not the held call, and without
\* a held call nothing waits.
LEMMA NobodyElseWaits ==
  ASSUME DriverInv, WaitAgrees, ~Turn, at # "aborted", waits # NoWait
  PROVE  callPending /\ waits = CallOf(stage)
BY DEF DriverInv, CallAgrees, WaitAgrees

\* The call that ends a turn is the one that waits, if any does.
LEMMA EndTurnKeepsWait ==
  ASSUME WaitInv, NEW outcome \in Outcomes, EndTurn(outcome), UNCHANGED <<cd, waits>>
  PROVE  WaitAgrees'
<1>1. /\ stage \in Stages /\ Turn /\ (waits # NoWait => waits = Running(stage))
      /\ at # "aborted"
  BY DEF WaitInv, DriverInv, TypeOK, WaitAgrees, EndTurn, BootCall, ModeBody, ResumeBody, Turn
<1>2. CASE waits = NoWait
  BY <1>2 DEF WaitInv, WaitAgrees
<1>3. CASE waits # NoWait /\ outcome = "Refused"
  <2>1. at' = "aborted"
    BY <1>3 DEF EndTurn, BootCall, ModeBody, ResumeBody, Abort
  <2> QED
    BY <2>1 DEF WaitInv, WaitAgrees
<1>4. CASE waits # NoWait /\ outcome = "Suspended"
  <2>1. at' = "idle"
    BY <1>4 DEF EndTurn, BootCall, ModeBody, ResumeBody, Go
  <2>2. spanning' = Running(stage)
    <3>1. CASE BootCall(outcome)
      <4>1. spanning = (IF callPending THEN CallOf(stage) ELSE "none") /\ stage # "Running"
        BY <3>1 DEF BootCall, WaitInv, DriverInv, CallAgrees, PlaceAgrees
      <4> QED
        BY <1>4, <3>1, <4>1 DEF BootCall, BeginSpanning, ResumeSpanning, Running, CallOf
    <3>2. CASE ModeBody(outcome)
      BY <1>4, <3>2 DEF ModeBody, BeginSpanning, Running
    <3>3. CASE ResumeBody(outcome)
      <4>1. spanning = "modeBody"
        BY <3>3 DEF ResumeBody, WaitInv, DriverInv, CallAgrees, PlaceAgrees, Held, CallOf
      <4> QED
        BY <1>4, <3>3, <4>1 DEF ResumeBody, ResumeSpanning, Running
    <3> QED
      BY <3>1, <3>2, <3>3 DEF EndTurn
  <2> QED
    BY <1>1, <2>1, <2>2 DEF WaitInv, WaitAgrees, Turn
<1> QED
  BY <1>2, <1>3, <1>4 DEF EndTurn, MayEnd, Outcomes

\* Outside a turn the driver moves on with nobody waiting, or resumes the call
\* that waits.
LEMMA HostKeepsWait ==
  ASSUME WaitInv, Host, UNCHANGED <<cd, waits>>
  PROVE  WaitAgrees'
<1>1. CASE waits = NoWait
  BY <1>1 DEF WaitInv, WaitAgrees
<1>2. CASE waits # NoWait /\ (at = "aborted" \/ at' = "aborted")
  BY <1>2 DEF WaitInv, WaitAgrees, Host, RunBootPrefix, MainOverride, BootFails, StepFrame,
              Barrier, ClearTables, NoModeBody, FinishFrame, FiniteCallFails, Deliver, Present,
              Aborted, vars, driverVars
<1>3. CASE waits # NoWait /\ at # "aborted" /\ at' # "aborted"
  <2>1. ~Turn
    BY <1>3 DEF Host, RunBootPrefix, MainOverride, BootFails, StepFrame,
                Barrier, ClearTables, NoModeBody, FinishFrame, FiniteCallFails, Deliver, Present,
                Aborted, Turn
  <2>2. callPending /\ waits = CallOf(stage)
    BY <1>3, <2>1, NobodyElseWaits DEF WaitInv
  <2>3. StepFrame
    BY <1>3, <2>2 DEF Host, RunBootPrefix, MainOverride, BootFails, Abort, FiniteCallFails,
                Barrier, ClearTables, NoModeBody, FinishFrame, Deliver, Present, Aborted,
                WaitInv, DriverInv, PlaceAgrees, FreshPlaces
  <2>4. HeldField /\ stage' = stage
    BY <1>3, <2>2, <2>3 DEF StepFrame, FreshField, Abort, stepVars
  <2>5. at' = (IF stage = "Running" THEN "resume" ELSE "boot")
    BY <2>4 DEF HeldField, Go, HeldPlace
  <2>6. Turn' /\ waits' = Running(stage)'
    BY <1>3, <2>2, <2>4, <2>5 DEF Turn, Running, CallOf
  <2> QED
    BY <2>6 DEF WaitInv, WaitAgrees
<1> QED
  BY <1>1, <1>2, <1>3

\* Only the guest thread itself enters its wait or leaves it.
LEMMA InterruptsMoveNoThread ==
  ASSUME OrderInv(cd),
         \/ StartRead \/ WriteReadCommand \/ WriteOtherCommand \/ CompleteHead
         \/ RaiseSector \/ RaiseOther \/ TakeInterrupt
  PROVE  cd'.waiting = cd.waiting
<1>1. cd \in State
  BY DEF OrderInv
<1>2. CASE StartRead \/ CompleteHead \/ RaiseSector \/ RaiseOther
  BY <1>1, <1>2 DEF StartRead, CompleteHead, ChainCompletion, RaiseSector, RaiseOther, State
<1>3. CASE TakeInterrupt
  BY <1>3, ServiceKeeps DEF TakeInterrupt
<1>4. CASE WriteReadCommand \/ WriteOtherCommand
  <2>1. cd.pending # "command"
    BY <1>4 DEF WriteReadCommand, WriteOtherCommand, HeadIs, OrderInv, InterruptAgrees
  <2>2. Flush(cd) \in State /\ Flush(cd).waiting = cd.waiting
    BY <2>1, FlushKeeps DEF OrderInv
  <2> QED
    BY <1>4, <2>2 DEF WriteReadCommand, WriteOtherCommand, State
<1> QED
  BY <1>2, <1>3, <1>4

\* Every step of the composition keeps the invariant.
LEMMA WaitNextKeepsInv == WaitInv /\ [WaitNext]_allVars => WaitInv'
<1> SUFFICES ASSUME WaitInv, [WaitNext]_allVars PROVE WaitInv'
  OBVIOUS
<1>1. DriverInv'
  BY WaitNextIsDriven, NextKeepsInv DEF WaitInv
<1>2. CdInv'
  BY WaitNextIsOrdered, SectorNextKeeps DEF WaitInv
<1>3. WaitAgrees'
  <2>1. CASE Driver
    <3>1. UNCHANGED <<cd, waits>>
      BY <2>1 DEF Driver
    <3> QED
      BY <2>1, <3>1, EndTurnKeepsWait, HostKeepsWait DEF Driver
  <2>2. CASE CallEntersWait
    <3>1. Running(stage) \in SpanningCalls \ {"none"}
      BY RunningIsACall DEF WaitInv, DriverInv, TypeOK
    <3>2. Turn' /\ Running(stage)' = Running(stage)
      BY <2>2 DEF CallEntersWait, vars, driverVars, stepVars, warpVars, Turn, Running, CallOf
    <3>3. cd'.waiting
      BY <2>2 DEF CallEntersWait, EnterWait, WaitInv, CdInv, OrderInv, State
    <3>4. Running(stage) # NoWait
      BY <3>1, NoWaitAssumption
    <3> QED
      BY <2>2, <3>1, <3>2, <3>3, <3>4 DEF CallEntersWait, WaitAgrees
  <2>3. CASE CallLeavesWait
    <3>1. ~cd'.waiting
      BY <2>3 DEF CallLeavesWait, LeaveWait, WaitInv, CdInv, OrderInv, State
    <3> QED
      BY <2>3, <3>1 DEF CallLeavesWait, WaitAgrees
  <2>4. CASE UNCHANGED <<vars, waits>> /\ cd'.waiting = cd.waiting
    BY <2>4 DEF vars, driverVars, stepVars, warpVars, WaitInv, WaitAgrees, Turn, Running, CallOf
  <2>5. CASE AskForSector \/ Timer \/ OtherCommand \/ Drive \/ OtherInterrupt \/ Interrupt
    <3>1. UNCHANGED <<vars, waits>>
      BY <2>5 DEF AskForSector, Timer, OtherCommand, Drive, OtherInterrupt, Interrupt, InGuestTime
    <3>2. cd'.waiting = cd.waiting
      BY <2>5, InterruptsMoveNoThread
      DEF AskForSector, Timer, OtherCommand, Drive, OtherInterrupt, Interrupt, InGuestTime,
          WaitInv, CdInv
    <3> QED
      BY <2>4, <3>1, <3>2
  <2> QED
    BY <2>1, <2>2, <2>3, <2>4, <2>5 DEF WaitNext, allVars
<1> QED
  BY <1>1, <1>2, <1>3 DEF WaitInv

\* A wait on the loader's byte is the wait of the call that is running or, between
\* turns, of the one the machine holds: the field that resumes a body resumes the
\* one that waits (ResumableGuestCall::advance).
THEOREM WaitsBelongToTheCall == WaitSpec => []WaitTypeOK
<1>1. WaitInit => WaitInv
  <2> SUFFICES ASSUME WaitInit PROVE WaitInv
    OBVIOUS
  <2>1. DriverInv /\ CdInv
    BY InitInv, InitHolds DEF WaitInit, CdInv
  <2>2. WaitAgrees
    BY DEF WaitInit, WaitAgrees, SectorInit
  <2> QED
    BY <2>1, <2>2 DEF WaitInv
<1>2. WaitInv => WaitTypeOK
  BY DEF WaitInv, WaitAgrees, WaitTypeOK, DriverInv, CdInv, OrderInv, CdTypeOK
<1> QED
  BY <1>1, <1>2, WaitNextKeepsInv, PTL DEF WaitSpec
=============================================================================
