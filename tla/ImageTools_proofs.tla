-------------------------- MODULE ImageTools_proofs --------------------------
(***************************************************************************)
(* Proofs about the two tools that read the guest's program.  The gate,    *)
(* for any texts, recorded censuses, executables and headers: what a       *)
(* passing one has measured agrees with the header, and is the retail      *)
(* image unless the file was replaced meanwhile; a mode the census names   *)
(* is the mode passed, and no wait hides in a text that passed, but for    *)
(* what the walk does not look at (NamedUnlessMisled).  The query, for any *)
(* program and command line: an answer is complete and in order.           *)
(***************************************************************************)
EXTENDS ImageTools, Sequences, FiniteSetTheorems, WellFoundedInduction, TLAPS

-----------------------------------------------------------------------------
(***************************************************************************)
(* The census names a mode by an immediate or not at all.                  *)
(***************************************************************************)
\* A bounded set of numbers has its greatest element.
LEMMA MaxIsElement ==
  ASSUME NEW top \in Nat, NEW S \in SUBSET (0 .. top), S # {}
  PROVE  Max(S) \in S /\ \A x \in S : Max(S) >= x
<1> DEFINE T == {top - x : x \in S}
<1>1. T \subseteq Nat /\ T # {}
  <2>1. \A x \in S : x \in Nat /\ top - x \in Nat
    OBVIOUS
  <2> QED
    BY <2>1
<1>2. PICK d \in T : \A e \in T : ~ (<<e, d>> \in OpToRel(<, Nat))
  <2> HIDE DEF T
  <2> QED
    BY <1>1, NatLessThanWellFounded, WFMin
<1>3. \A e \in T : ~ (e < d)
  BY <1>1, <1>2 DEF OpToRel
<1>4. PICK m \in S : d = top - m
  BY <1>2
<1>5. \A y \in S : m >= y
  <2> SUFFICES ASSUME NEW y \in S PROVE m >= y
    OBVIOUS
  <2>1. ~ (top - y < top - m)
    BY <1>3, <1>4
  <2>2. m \in Nat /\ y \in Nat
    OBVIOUS
  <2> QED
    BY <2>1, <2>2
<1> QED
  BY <1>4, <1>5 DEF Max

ModeNames == {Query, Wait, None}

LEMMA InstructionFields ==
  ASSUME NEW ins \in Instructions
  PROVE  /\ LiteralMode(ins) \in ModeNames
         /\ ins.kind = "literal" => ins.value \in Modes
         /\ ins.kind = "branch" => ins.target \in 1 .. Size
  BY DEF Instructions, Literal, Plain, CopyToA0, BranchTo, LiteralMode, ModeNames, Modes,
         Query, Wait, Wide, None

LEMMA TextIsInstructions ==
  ASSUME text \in Texts
  PROVE  /\ \A a \in 1 .. Size : text[a] \in Instructions
         /\ \A a \in 1 .. Size : IsControl(text[a]) => a + 1 \in 1 .. Size
  BY TextsAssumption, SizeAssumption DEF WellFormed

LEMMA WalkNamesMode ==
  ASSUME text \in Texts, NEW call \in 1 .. Size
  PROVE  ResolveByWalk(call) \in ModeNames
<1> DEFINE window == {a \in 1 .. call - 1 : a >= call - WalkLimit /\ Stops(a)}
<1>1. CASE window = {}
  BY <1>1 DEF ResolveByWalk, StopOf, ModeNames
<1>2. CASE window # {}
  <2>1. call - 1 \in Nat /\ window \in SUBSET (0 .. call - 1)
    BY SizeAssumption
  <2>2. Max(window) \in window
    BY <1>2, <2>1, MaxIsElement
  <2>3. StopOf(call) \in 1 .. Size
    BY <1>2, <2>2, SizeAssumption DEF StopOf
  <2> QED
    BY <2>3, TextIsInstructions, InstructionFields DEF ResolveByWalk, ModeNames
<1> QED
  BY <1>1, <1>2

LEMMA CensusNamesMode ==
  ASSUME text \in Texts, NEW call \in 1 .. Size, IsControl(text[call])
  PROVE  ModeOf(call) \in ModeNames
  BY WalkNamesMode, TextIsInstructions, InstructionFields DEF ModeOf

-----------------------------------------------------------------------------
(***************************************************************************)
(* The census and the guest keep their types, and leave the text and the   *)
(* record alone.                                                           *)
(***************************************************************************)
LEMMA CensusInit == Init => TypeOK
  BY SizeAssumption DEF Init, TypeOK, Outside, NoCall

LEMMA ScanKeeps == TypeOK /\ ScanWord => TypeOK'
<1> SUFFICES ASSUME TypeOK, ScanWord PROVE TypeOK'
  OBVIOUS
<1>1. addr \in 1 .. Size /\ addr' \in 1 .. Size + 1
  BY SizeAssumption DEF TypeOK, ScanWord
<1>2. sites' \subseteq [site : 1 .. Size, mode : {Query, Wait, None}]
  <2>1. CASE text[addr].kind = "vsync"
    BY <1>1, <2>1, CensusNamesMode DEF TypeOK, ScanWord, IsControl, ModeNames
  <2>2. CASE text[addr].kind # "vsync"
    BY <2>2 DEF TypeOK, ScanWord
  <2> QED
    BY <2>1, <2>2
<1> QED
  BY <1>1, <1>2 DEF TypeOK, ScanWord, guest

LEMMA CompareKeeps == TypeOK /\ Compare => TypeOK'
  BY DEF TypeOK, Compare, guest

LEMMA A0Typed ==
  ASSUME NEW ins \in Instructions, a0 \in Modes, NEW value \in A0After(ins)
  PROVE  value \in Modes
  BY InstructionFields DEF A0After

LEMMA ExecuteKeeps == TypeOK /\ Execute => TypeOK'
<1> SUFFICES ASSUME TypeOK, Execute PROVE TypeOK'
  OBVIOUS
<1> DEFINE ins == text[pc]
<1>1. pc \in 1 .. Size /\ pc + 1 \in 1 .. Size + 1 /\ ins \in Instructions
  BY TextIsInstructions, SizeAssumption DEF TypeOK, Execute
<1>2. UNCHANGED <<text, record, addr, sites, verdict>>
  BY DEF Execute, scan
<1>3. pc' \in 1 .. Size + 1 /\ slot' \in 0 .. Size /\ a0' \in Modes
      /\ (passed' = NoCall \/ passed' \in [site : 1 .. Size, mode : Modes])
  <2>1. CASE IsControl(ins)
    BY <1>1, <2>1, SizeAssumption DEF Execute, TypeOK
  <2>2. CASE ~IsControl(ins) /\ slot = Outside
    <3>1. a0' \in Modes
      BY <1>1, <2>2, A0Typed DEF Execute, TypeOK
    <3> QED
      BY <1>1, <2>2, <3>1 DEF Execute, TypeOK
  <2>3. CASE ~IsControl(ins) /\ slot # Outside
    <3>1. slot \in 1 .. Size /\ text[slot] \in Instructions
      BY <2>3, TextIsInstructions, SizeAssumption DEF TypeOK, Outside
    <3>2. PICK given \in A0After(ins) :
            /\ slot' = Outside
            /\ IF text[slot].kind = "branch"
               THEN a0' = given /\ pc' \in {pc + 1, text[slot].target}
               ELSE a0' \in Modes /\ pc' = pc + 1
            /\ passed' = IF text[slot].kind = "vsync"
                         THEN [site |-> slot, mode |-> given] ELSE NoCall
      BY <2>3 DEF Execute
    <3>3. given \in Modes
      BY <1>1, <3>2, A0Typed DEF TypeOK
    <3>4. pc' \in 1 .. Size + 1 /\ a0' \in Modes
      <4>1. CASE text[slot].kind = "branch"
        BY <1>1, <3>1, <3>2, <3>3, <4>1, InstructionFields, SizeAssumption
      <4>2. CASE text[slot].kind # "branch"
        BY <1>1, <3>2, <4>2
      <4> QED
        BY <4>1, <4>2
    <3>5. slot' \in 0 .. Size
      BY <3>2, SizeAssumption DEF Outside
    <3> QED
      BY <3>1, <3>2, <3>3, <3>4, <3>5
  <2> QED
    BY <2>1, <2>2, <2>3
<1> QED
  BY <1>2, <1>3 DEF TypeOK

LEMMA CensusUntouched == TypeOK /\ UNCHANGED censusVars => TypeOK'
  BY DEF TypeOK, censusVars, scan, guest

-----------------------------------------------------------------------------
(***************************************************************************)
(* The inductive invariant: the comparison is made of what was loaded, and *)
(* in an undisturbed run that is what was hashed.                          *)
(***************************************************************************)

Hashed ==
  manifest = "full" /\ ~replaced =>
    /\ image = file
    /\ at \in {"dispatch", "size again", "measure"} \/ exit = 0 => file = Retail

Inv == GateTypeOK /\ PassMeansAgreement /\ Hashed

LEMMA InvIsSound == Inv => PassIsEarned
  BY DEF Inv, Hashed, GateTypeOK, PassIsEarned, UndisturbedPassIsRetail

\* A comparison that ends well found nothing, in either mode.
LEMMA AgreementByComparison ==
  ASSUME GateTypeOK, verdict = "accepted" \/ verdict # "accepted",
         ~Refused(image, header), Problems(image, header) = {}, header.there
  PROVE  /\ image.pinned /\ image.shape /\ verdict = "accepted"
         /\ header.there /\ header.entry = "vsync"
         /\ header.counter = "counter" /\ image.field = "counter" /\ image.writers = "counter"
<1>1. /\ "shape" \notin Problems(image, header) /\ "writers" \notin Problems(image, header)
      /\ "sites" \notin Problems(image, header) /\ "counter" \notin Problems(image, header)
  OBVIOUS
<1>2. image.shape /\ image.writers = image.field /\ header.entry # "off"
      /\ verdict = "accepted" /\ header.counter = image.field
  BY <1>1 DEF Problems, CounterDiffers
<1>3. image.pinned /\ image.field # "no lui" /\ header.entry # "none" /\ header.counter # "none"
  BY DEF Refused
<1>4. /\ image.field \in {"counter", "elsewhere", "no lui"}
      /\ header.entry \in {"vsync", "off", "none"} /\ header.counter \in {"counter", "off", "none"}
  BY ImagesAssumption, HeadersAssumption DEF GateTypeOK
<1> QED
  BY <1>2, <1>3, <1>4

\* What an exit code says of the run.
LEMMA ExitCodes ==
  /\ Running # 0 /\ Running \in 0 .. 3 \cup {Running}
  /\ \A c \in 0 .. 3 : c # Running
  /\ \A c \in {1, 2, 3} : c # 0 /\ c # Running /\ c \in 0 .. 3 \cup {Running}
  BY DEF Running

LEMMA GateInitEstablishes == GateInit => Inv
<1> SUFFICES ASSUME GateInit PROVE Inv
  OBVIOUS
<1>1. TypeOK /\ exit = Running /\ exit # 0 /\ at = "load" /\ image = file /\ replaced = FALSE
  BY CensusInit, ExitCodes DEF GateInit
<1>2. GateTypeOK
  BY <1>1, ExitCodes DEF GateInit, GateTypeOK
<1> QED
  BY <1>1, <1>2 DEF Inv, PassMeansAgreement, Hashed

\* A run that ends without passing, or goes on without ending, keeps the
\* invariant if what it goes on with has been compared.
LEMMA RefusalKeeps ==
  ASSUME Inv, UNCHANGED censusVars, UNCHANGED <<file, manifest, header, mode, replaced>>,
         image' \in {image, file}, at # "over", at' = "over", exit' \in {1, 2, 3}
  PROVE  Inv'
<1>1. TypeOK'
  BY CensusUntouched DEF Inv, GateTypeOK
<1>2. exit' # Running /\ exit' # 0 /\ exit' \in 0 .. 3 \cup {Running}
  BY ExitCodes
<1>3. image' \in Images
  BY DEF Inv, GateTypeOK
<1>4. GateTypeOK'
  BY <1>1, <1>2, <1>3 DEF Inv, GateTypeOK
<1>5. PassMeansAgreement'
  BY <1>2 DEF PassMeansAgreement
<1>6. Hashed'
  BY <1>2 DEF Inv, Hashed
<1> QED
  BY <1>4, <1>5, <1>6 DEF Inv

LEMMA GoingOnKeeps ==
  ASSUME Inv, UNCHANGED censusVars, UNCHANGED <<file, manifest, header, mode, replaced, exit>>,
         image' \in {image, file}, at # "over",
         at' \in {"size", "identify", "dispatch", "size again", "measure"},
         manifest = "full" /\ ~replaced /\ at' \notin {"size", "identify"} => file = Retail
  PROVE  Inv'
<1>1. TypeOK'
  BY CensusUntouched DEF Inv, GateTypeOK
<1>2. exit = Running /\ exit' = Running /\ exit' # 0
  BY ExitCodes DEF Inv, GateTypeOK
<1>3. image' \in Images
  BY DEF Inv, GateTypeOK
<1>4. GateTypeOK'
  BY <1>1, <1>2, <1>3 DEF Inv, GateTypeOK
<1>5. PassMeansAgreement'
  BY <1>2 DEF PassMeansAgreement
<1>6. Hashed'
  BY <1>2 DEF Inv, Hashed
<1> QED
  BY <1>4, <1>5, <1>6 DEF Inv

LEMMA LoadKeeps ==
  ASSUME Inv, NEW next \in {"size", "size again"}, Load(next), UNCHANGED censusVars,
         at \in {"load", "dispatch"}, next = "size again" => at = "dispatch"
  PROVE  Inv'
<1>1. /\ UNCHANGED <<file, manifest, header, mode, replaced>> /\ image' = file
      /\ \/ at' = "over" /\ exit' = 2
         \/ at' = next /\ exit' = exit
  BY DEF Load, Ends, Goes
<1>2. manifest = "full" /\ ~replaced /\ at = "dispatch" => file = Retail
  BY DEF Inv, Hashed
<1> QED
  BY <1>1, <1>2, RefusalKeeps, GoingOnKeeps

LEMMA CheckSizeKeeps ==
  ASSUME Inv, NEW next \in {"identify", "measure"}, CheckSize(next), UNCHANGED censusVars,
         at \in {"size", "size again"}, next = "measure" => at = "size again"
  PROVE  Inv'
<1>1. /\ UNCHANGED <<file, manifest, header, mode, image, replaced>>
      /\ \/ at' = "over" /\ exit' \in {2, 3}
         \/ at' = next /\ exit' = exit
  BY DEF CheckSize, Ends, Goes
<1>2. manifest = "full" /\ ~replaced /\ at = "size again" => file = Retail
  BY DEF Inv, Hashed
<1> QED
  BY <1>1, <1>2, RefusalKeeps, GoingOnKeeps

LEMMA IdentifyKeeps == Inv /\ Identify /\ UNCHANGED censusVars => Inv'
<1> SUFFICES ASSUME Inv, Identify, UNCHANGED censusVars PROVE Inv'
  OBVIOUS
<1>1. /\ at = "identify" /\ UNCHANGED <<file, manifest, header, mode, image, replaced>>
      /\ \/ at' = "over" /\ exit' \in {2, 3}
         \/ at' = "dispatch" /\ exit' = exit /\ (manifest = "full" => file = Retail)
  BY DEF Identify, Ends, Goes, HashMatches
<1> QED
  BY <1>1, RefusalKeeps, GoingOnKeeps

LEMMA ReadHeaderKeeps == Inv /\ ReadHeader /\ UNCHANGED censusVars => Inv'
<1> SUFFICES ASSUME Inv, ReadHeader, UNCHANGED censusVars PROVE Inv'
  OBVIOUS
<1>1. /\ at = "dispatch" /\ UNCHANGED <<file, manifest, header, mode, image, replaced>>
      /\ \/ at' = "over" /\ exit' = 2
         \/ at' = "measure" /\ exit' = exit
  BY DEF ReadHeader, Ends, Goes
<1>2. manifest = "full" /\ ~replaced => file = Retail
  BY <1>1 DEF Inv, Hashed
<1> QED
  BY <1>1, <1>2, RefusalKeeps, GoingOnKeeps

LEMMA JudgeKeeps == Inv /\ Judge /\ UNCHANGED censusVars => Inv'
<1> SUFFICES ASSUME Inv, Judge, UNCHANGED censusVars PROVE Inv'
  OBVIOUS
<1>1. TypeOK' /\ verdict' = verdict
  BY CensusUntouched DEF Inv, GateTypeOK, censusVars, scan
<1>2. at = "measure" /\ at' = "over" /\ UNCHANGED <<file, manifest, header, mode, image, replaced>>
      /\ exit' = IF ~header.there THEN 3
                 ELSE IF mode = "selftest" THEN SelftestExit(image, header)
                 ELSE ExitOf(image, header)
  BY DEF Judge, Ends
<1>3. exit' \in 0 .. 3
  BY <1>2 DEF SelftestExit, ExitOf
<1>4. ASSUME exit' = 0
      PROVE  header.there /\ ~Refused(image, header) /\ Problems(image, header) = {}
  <2>1. header.there
    BY <1>2, <1>4
  <2>2. CASE mode = "check"
    BY <1>2, <1>4, <2>1, <2>2 DEF ExitOf
  <2>3. CASE mode = "selftest"
    BY <1>2, <1>4, <2>1, <2>3 DEF SelftestExit
  <2> QED
    BY <2>1, <2>2, <2>3 DEF Inv, GateTypeOK
<1>5. GateTypeOK'
  <2>1. exit' # Running /\ exit' \in 0 .. 3 \cup {Running}
    BY <1>3, ExitCodes
  <2> QED
    BY <1>1, <1>2, <2>1 DEF Inv, GateTypeOK
<1>6. PassMeansAgreement'
  BY <1>1, <1>2, <1>4, AgreementByComparison DEF Inv, PassMeansAgreement
<1> QED
  BY <1>2, <1>5, <1>6 DEF Inv, Hashed

LEMMA ReplaceFileKeeps == Inv /\ ReplaceFile /\ UNCHANGED censusVars => Inv'
<1> SUFFICES ASSUME Inv, ReplaceFile, UNCHANGED censusVars PROVE Inv'
  OBVIOUS
<1>1. TypeOK' /\ verdict' = verdict
  BY CensusUntouched DEF Inv, GateTypeOK, censusVars, scan
<1>2. GateTypeOK'
  BY <1>1, ImagesAssumption DEF Inv, GateTypeOK, ReplaceFile
<1> QED
  BY <1>1, <1>2 DEF Inv, PassMeansAgreement, Hashed, ReplaceFile

\* The census comes to its verdict before the gate does, and running the image
\* changes neither.
LEMMA CensusStepKeeps ==
  ASSUME Inv, Measure \/ Play, UNCHANGED gateVars
  PROVE  Inv'
<1>1. TypeOK'
  BY ScanKeeps, CompareKeeps, ExecuteKeeps
  DEF Inv, GateTypeOK, Measure, Play, Returned, vars, TypeOK, scan, guest
<1>2. exit = 0 => verdict' = verdict
  <2> SUFFICES ASSUME exit = 0 PROVE verdict' = verdict
    OBVIOUS
  <2>1. at = "over"
    BY ExitCodes DEF Inv, GateTypeOK
  <2> QED
    BY <2>1 DEF Measure, Play, Execute, Returned, vars, scan
<1>3. GateTypeOK'
  BY <1>1 DEF Inv, GateTypeOK, gateVars
<1> QED
  BY <1>2, <1>3 DEF Inv, PassMeansAgreement, Hashed, gateVars

LEMMA NextKeeps == Inv /\ [GateNext]_<<gateVars, censusVars>> => Inv'
<1> SUFFICES ASSUME Inv, [GateNext]_<<gateVars, censusVars>> PROVE Inv'
  OBVIOUS
<1>1. CASE UNCHANGED <<gateVars, censusVars>>
  BY <1>1, CensusUntouched
  DEF Inv, GateTypeOK, PassMeansAgreement, Hashed, gateVars, censusVars, scan
<1>2. CASE LoadImage /\ UNCHANGED censusVars
  BY <1>2, LoadKeeps DEF LoadImage
<1>3. CASE Selftest /\ UNCHANGED censusVars
  BY <1>3, LoadKeeps DEF Selftest
<1>4. CASE SizeOfLoaded /\ UNCHANGED censusVars
  BY <1>4, CheckSizeKeeps DEF SizeOfLoaded
<1>5. CASE SizeOfReloaded /\ UNCHANGED censusVars
  BY <1>5, CheckSizeKeeps DEF SizeOfReloaded
<1> QED
  BY <1>1, <1>2, <1>3, <1>4, <1>5, IdentifyKeeps, ReadHeaderKeeps, JudgeKeeps, ReplaceFileKeeps, CensusStepKeeps
  DEF GateNext, Over

-----------------------------------------------------------------------------
(***************************************************************************)
(* What the walk back proves.  From the write it stops at, the guest gets  *)
(* to the call along straight-line code or by a branch the census is       *)
(* misled about, so a0 still holds what was written.                       *)
(***************************************************************************)
Call(a) == [site |-> a, mode |-> ModeOf(a)]
CallsBefore(end) == {a \in 1 .. Size : a < end /\ text[a].kind = "vsync"}

StraightTo(call, write) ==
  /\ write < call /\ text[call].kind = "vsync"
  /\ text[write].kind = "literal" /\ text[write].register = "a0"
  /\ \A a \in write + 1 .. call - 1 : ~IsControl(text[a]) /\ text[a].register # "a0"
  /\ write >= 2 => text[write - 1].kind \notin {"call", "vsync"}
  /\ \A a \in 1 .. Size : text[a].kind = "branch" => text[a].target \notin write + 1 .. call

Between(write, call) ==
  \/ slot = Outside /\ pc \in write + 1 .. call
  \/ slot = call /\ pc = call + 1

A0Holds ==
  \A call, write \in 1 .. Size :
    StraightTo(call, write) /\ Between(write, call) => a0 = text[write].value

SlotIsControl ==
  slot # Outside => slot + 1 \in 1 .. Size /\ pc = slot + 1 /\ IsControl(text[slot])

PassedIsNamed ==
  passed # NoCall =>
    /\ verdict # "none" /\ passed.site \in CallsBefore(addr)
    /\ ~Misled(passed.site) => Named(passed.site) \in {None, passed.mode}

CensusInv ==
  /\ TypeOK
  /\ sites = {Call(a) : a \in CallsBefore(addr)}
  /\ verdict # "none" => addr = Size + 1
  /\ verdict = "accepted" => Agrees
  /\ SlotIsControl /\ A0Holds /\ PassedIsNamed

\* A named mode that does not mislead is in the delay slot or straight before.
LEMMA NamedOfCall ==
  ASSUME sites = {Call(a) : a \in CallsBefore(addr)}, NEW call \in CallsBefore(addr)
  PROVE  Named(call) = ModeOf(call)
<1>1. \A a : Call(a).site = a /\ Call(a).mode = ModeOf(a)
  BY DEF Call
<1>2. {t \in sites : t.site = call} = {Call(call)}
  BY <1>1
<1>3. {s.mode : s \in {t \in sites : t.site = call}} = {ModeOf(call)}
  BY <1>1, <1>2
<1> QED
  BY <1>3 DEF Named

LEMMA WalkIsStraight ==
  ASSUME text \in Texts, NEW call \in 1 .. Size, text[call].kind = "vsync",
         text[call + 1].kind # "literal", ResolveByWalk(call) # None,
         Named(call) # None, ~Misled(call)
  PROVE  /\ text[call + 1].register # "a0"
         /\ \E write \in 1 .. Size :
              StraightTo(call, write) /\ text[write].value = ResolveByWalk(call)
<1> DEFINE window == {a \in 1 .. call - 1 : a >= call - WalkLimit /\ Stops(a)}
           writes == {a \in 1 .. call - 1 : text[a].register = "a0"}
           write == Max(window)
<1>1. window # {}
  BY DEF ResolveByWalk, StopOf
<1>2. /\ write \in window
      /\ \A a \in window : write >= a
  <2>1. call - 1 \in Nat /\ window \in SUBSET (0 .. call - 1)
    BY SizeAssumption
  <2> HIDE DEF window
  <2> QED
    BY <1>1, <2>1, MaxIsElement
<1>3. StopOf(call) = write
  BY <1>1 DEF StopOf
<1> HIDE DEF write
<1>4. /\ write \in 1 .. call - 1 /\ write >= call - WalkLimit /\ Stops(write)
      /\ call \in Nat /\ write \in Nat /\ WalkLimit \in Nat
  BY <1>2, SizeAssumption
<1>5. ~IsControl(text[write]) /\ LiteralMode(text[write]) = ResolveByWalk(call)
  BY <1>3, <1>4 DEF ResolveByWalk, Outside
<1>6. text[write].kind = "literal" /\ text[write].simm = ResolveByWalk(call)
  BY <1>5 DEF LiteralMode
<1>7. text[write].register = "a0"
  BY <1>4, <1>5, <1>6 DEF Stops, WritesA0
<1>8. \A a \in write + 1 .. call - 1 : ~IsControl(text[a]) /\ text[a].register # "a0"
  <2> SUFFICES ASSUME NEW a \in write + 1 .. call - 1
               PROVE  ~IsControl(text[a]) /\ text[a].register # "a0"
    OBVIOUS
  <2>1. a \in 1 .. call - 1 /\ a >= call - WalkLimit /\ ~(write >= a)
    BY <1>4
  <2>2. ~Stops(a)
    BY <1>2, <2>1
  <2> QED
    BY <2>2 DEF Stops, WritesA0
<1>9. LiteralOf(call) = write
  <2> DEFINE S == {Outside} \cup writes
  <2>1. call - 1 \in Nat /\ S \in SUBSET (0 .. call - 1) /\ S # {}
    BY <1>4 DEF Outside
  <2>2. write \in S
    BY <1>4, <1>7
  <2>3. \A a \in S : a <= write
    BY <1>4, <1>8 DEF Outside
  <2> HIDE DEF S
  <2>4. Max(S) \in S /\ Max(S) >= write
    BY <2>1, <2>2, MaxIsElement
  <2>5. Max(S) \in Nat /\ Max(S) <= write
    <3>1. S \subseteq Nat
      BY <2>1
    <3> QED
      BY <2>3, <2>4, <3>1
  <2>6. Max(S) = write
    BY <1>4, <2>4, <2>5
  <2> QED
    BY <2>6 DEF LiteralOf, S
<1>10. write # Outside /\ write < call
  BY <1>4 DEF Outside
<1>11. /\ text[write].simm = text[write].value
       /\ text[call + 1].register # "a0"
       /\ ~(write \in 2 .. call - 1 /\ text[write - 1].kind \in {"call", "vsync"})
       /\ ~\E a \in 1 .. Size : text[a].kind = "branch" /\ text[a].target \in write + 1 .. call
  BY <1>9, <1>10 DEF Misled
<1>12. StraightTo(call, write)
  BY <1>4, <1>6, <1>7, <1>8, <1>10, <1>11 DEF StraightTo
<1>13. write \in 1 .. Size /\ text[write].value = ResolveByWalk(call)
  BY <1>4, <1>6, <1>11, SizeAssumption
<1> QED
  BY <1>11, <1>12, <1>13

LEMMA NamedIsWritten ==
  ASSUME CensusInv, NEW call \in CallsBefore(addr), Named(call) # None, ~Misled(call)
  PROVE  \/ /\ text[call + 1].kind = "literal" /\ text[call + 1].register = "a0"
            /\ text[call + 1].value = Named(call)
         \/ /\ text[call + 1].register # "a0"
            /\ \E write \in 1 .. Size :
                 StraightTo(call, write) /\ text[write].value = Named(call)
<1>1. /\ text \in Texts /\ call \in 1 .. Size /\ text[call].kind = "vsync"
      /\ Named(call) = ModeOf(call)
  BY NamedOfCall DEF CensusInv, TypeOK, CallsBefore
<1>2. CASE text[call + 1].kind = "literal"
  <2>1. LiteralOf(call) = call + 1 /\ call + 1 # Outside
    BY <1>1, <1>2 DEF LiteralOf, Outside
  <2>2. text[call + 1].register = "a0" /\ text[call + 1].simm = text[call + 1].value
    BY <2>1 DEF Misled
  <2>3. ModeOf(call) = text[call + 1].simm
    <3>1. LiteralMode(text[call + 1]) = text[call + 1].simm
      BY <1>2 DEF LiteralMode
    <3>2. ModeOf(call) = IF text[call + 1].simm = None THEN ResolveByWalk(call)
                         ELSE text[call + 1].simm
      BY <1>2, <3>1 DEF ModeOf
    <3>3. call + 1 \in 1 .. Size
      BY <1>1, TextIsInstructions DEF IsControl
    <3>4. text[call + 1].simm # None
      BY <1>1, <1>2, <3>3, TextIsInstructions
         DEF Instructions, Literal, Plain, CopyToA0, BranchTo, Query, Wait, Wide, None
    <3> QED
      BY <3>2, <3>4
  <2> QED
    BY <1>1, <1>2, <2>2, <2>3
<1>3. CASE text[call + 1].kind # "literal"
  <2>1. LiteralMode(text[call + 1]) = None
    BY <1>3 DEF LiteralMode
  <2>2. ModeOf(call) = ResolveByWalk(call)
    BY <1>1, <2>1 DEF ModeOf
  <2> QED
    BY <1>1, <1>3, <2>2, WalkIsStraight
<1> QED
  BY <1>2, <1>3

LEMMA CensusInvHolds == Init => CensusInv
<1> SUFFICES ASSUME Init PROVE CensusInv
  OBVIOUS
<1>1. CallsBefore(addr) = {} /\ sites = {} /\ verdict = "none" /\ passed = NoCall
  BY DEF Init, CallsBefore
<1>2. SlotIsControl /\ PassedIsNamed
  BY <1>1 DEF Init, SlotIsControl, PassedIsNamed
<1>3. A0Holds
  <2>1. \A call, write \in 1 .. Size : ~Between(write, call)
    BY SizeAssumption DEF Init, Between, Outside
  <2> QED
    BY <2>1 DEF A0Holds
<1> QED
  BY <1>1, <1>2, <1>3, CensusInit DEF CensusInv

\* While the guest stands still, what it called stays named.
LEMMA GuestStands ==
  ASSUME CensusInv, UNCHANGED <<text, guest>>
  PROVE  SlotIsControl' /\ A0Holds'
<1>1. UNCHANGED <<text, pc, slot, a0>>
  BY DEF guest
<1>2. \A call, write : (StraightTo(call, write)' <=> StraightTo(call, write))
                       /\ (Between(write, call)' <=> Between(write, call))
  BY <1>1 DEF StraightTo, Between
<1> QED
  BY <1>1, <1>2 DEF CensusInv, SlotIsControl, A0Holds

LEMMA CensusScans == CensusInv /\ ScanWord => CensusInv'
<1> SUFFICES ASSUME CensusInv, ScanWord PROVE CensusInv'
  OBVIOUS
<1>1. /\ addr <= Size /\ addr' = addr + 1 /\ addr \in 1 .. Size
      /\ UNCHANGED <<text, record, verdict, pc, slot, a0, passed>>
  BY SizeAssumption DEF ScanWord, guest, CensusInv, TypeOK
<1>2. verdict = "none" /\ passed = NoCall
  <2>1. addr # Size + 1
    BY <1>1, SizeAssumption
  <2> QED
    BY <2>1 DEF CensusInv, PassedIsNamed
<1>3. \A a : Call(a)' = Call(a)
  BY <1>1 DEF Call, ModeOf, ResolveByWalk, StopOf, Stops
<1>4. CallsBefore(addr') =
        CallsBefore(addr) \cup (IF text[addr].kind = "vsync" THEN {addr} ELSE {})
  BY <1>1, SizeAssumption DEF CallsBefore
<1>5. CallsBefore(addr)' = CallsBefore(addr')
  BY <1>1 DEF CallsBefore
<1>6. sites' = {Call(a) : a \in CallsBefore(addr')}
  <2>1. sites' = sites \cup (IF text[addr].kind = "vsync" THEN {Call(addr)} ELSE {})
    BY DEF ScanWord, Call
  <2>2. sites = {Call(a) : a \in CallsBefore(addr)}
    BY DEF CensusInv
  <2> QED
    BY <1>4, <2>1, <2>2
<1>7. sites' = {Call(a)' : a \in CallsBefore(addr)'}
  BY <1>3, <1>5, <1>6
<1>8. SlotIsControl' /\ A0Holds'
  BY <1>1, GuestStands DEF guest
<1>9. TypeOK'
  BY ScanKeeps DEF CensusInv
<1> QED
  BY <1>1, <1>2, <1>7, <1>8, <1>9 DEF CensusInv, PassedIsNamed

\* What does not scan leaves the census as it is.
LEMMA CensusStands ==
  ASSUME CensusInv, UNCHANGED <<text, record, addr, sites>>
  PROVE  /\ sites' = {Call(a) : a \in CallsBefore(addr)}'
         /\ CallsBefore(addr)' = CallsBefore(addr)
         /\ Agrees' <=> Agrees
         /\ \A call : (Misled(call)' <=> Misled(call)) /\ Named(call)' = Named(call)
<1>1. \A call : Named(call)' = Named(call)
  BY DEF Named
<1>2. \A call : LiteralOf(call)' = LiteralOf(call)
  BY DEF LiteralOf
<1>3. \A call : Misled(call)' <=> Misled(call)
  BY <1>1, <1>2 DEF Misled
<1>4. \A a : Call(a)' = Call(a)
  BY DEF Call, ModeOf, ResolveByWalk, StopOf, Stops
<1>5. CallsBefore(addr)' = CallsBefore(addr)
  BY DEF CallsBefore
<1>6. sites' = {Call(a) : a \in CallsBefore(addr)}'
  BY <1>4, <1>5 DEF CensusInv
<1>7. Agrees' <=> Agrees
  BY DEF Agrees, Waits, Queries, Unresolved, UnresolvedAsRecorded
<1> QED
  BY <1>1, <1>3, <1>5, <1>6, <1>7

LEMMA CensusCompares == CensusInv /\ Compare => CensusInv'
<1> SUFFICES ASSUME CensusInv, Compare PROVE CensusInv'
  OBVIOUS
<1>1. /\ UNCHANGED <<text, record, addr, sites>> /\ UNCHANGED <<text, guest>>
      /\ verdict' = (IF Agrees THEN "accepted" ELSE "rejected") /\ verdict = "none"
      /\ passed' = passed
  BY DEF Compare, guest
<1>2. addr' = Size + 1
  BY <1>1, SizeAssumption DEF Compare, CensusInv, TypeOK
<1>3. passed = NoCall
  BY <1>1 DEF CensusInv, PassedIsNamed
<1>4. TypeOK'
  BY CompareKeeps DEF CensusInv
<1> QED
  BY <1>1, <1>2, <1>3, <1>4, CensusStands, GuestStands DEF CensusInv, PassedIsNamed

\* The guest gets between a write and its call by executing the write, or not at all.
LEMMA ExecutionKeepsA0 ==
  ASSUME CensusInv, Execute,
         NEW call \in 1 .. Size, NEW write \in 1 .. Size,
         StraightTo(call, write), Between(write, call)'
  PROVE  a0' = text[write].value
<1> DEFINE ins == text[pc]
<1>1. /\ pc \in 1 .. Size /\ slot \in 0 .. Size /\ Size \in Nat
      /\ write < call /\ call \in Nat /\ write \in Nat
  BY SizeAssumption DEF Execute, CensusInv, TypeOK, StraightTo
<1>2. ~IsControl(text[write]) /\ IsControl(text[call]) /\ text[write].kind = "literal"
  BY DEF StraightTo, IsControl
<1>3. A0After(text[write]) = {text[write].value}
  BY DEF StraightTo, A0After
<1>4. \A a \in write + 1 .. call - 1 : ~IsControl(text[a]) /\ A0After(text[a]) = {a0}
  BY DEF StraightTo, A0After
<1>5. pc \in write + 1 .. call /\ slot = Outside => a0 = text[write].value
  BY DEF CensusInv, A0Holds, Between
<1>6. slot # Outside => pc = slot + 1 /\ IsControl(text[slot]) /\ ~IsControl(ins)
  <2> SUFFICES ASSUME slot # Outside
               PROVE  pc = slot + 1 /\ IsControl(text[slot]) /\ ~IsControl(ins)
    OBVIOUS
  <2>1. pc = slot + 1 /\ IsControl(text[slot]) /\ slot \in 1 .. Size - 1
    BY <1>1 DEF CensusInv, SlotIsControl, Outside
  <2>2. ~IsControl(text[slot + 1])
    BY <2>1, TextsAssumption DEF WellFormed, CensusInv, TypeOK
  <2> QED
    BY <2>1, <2>2
<1>7. CASE IsControl(ins)
  <2>1. slot' = pc /\ pc' = pc + 1 /\ a0' = a0 /\ slot = Outside
    BY <1>6, <1>7 DEF Execute
  <2>2. pc = call
    BY <1>1, <2>1 DEF Between, Outside
  <2>3. pc \in write + 1 .. call
    BY <1>1, <2>2
  <2> QED
    BY <1>5, <2>1, <2>3
<1>8. CASE ~IsControl(ins) /\ slot = Outside
  <2>1. a0' \in A0After(ins) /\ pc' = pc + 1 /\ slot' = Outside
    BY <1>8 DEF Execute
  <2>2. pc' \in write + 1 .. call
    BY <1>1, <2>1 DEF Between, Outside
  <2>3. pc = write \/ pc \in write + 1 .. call - 1
    BY <1>1, <2>1, <2>2
  <2>4. CASE pc = write
    BY <1>3, <2>1, <2>4
  <2>5. CASE pc \in write + 1 .. call - 1
    <3>1. pc \in write + 1 .. call
      BY <1>1, <2>5
    <3>2. a0' = a0
      BY <1>4, <2>1, <2>5
    <3> QED
      BY <1>5, <1>8, <3>1, <3>2
  <2> QED
    BY <2>3, <2>4, <2>5
<1>9. CASE ~IsControl(ins) /\ slot # Outside
  <2>1. PICK given \in A0After(ins) :
          /\ slot' = Outside
          /\ IF text[slot].kind = "branch"
             THEN a0' = given /\ pc' \in {pc + 1, text[slot].target}
             ELSE a0' \in Modes /\ pc' = pc + 1
    BY <1>9 DEF Execute
  <2>2. pc' \in write + 1 .. call
    BY <1>1, <2>1 DEF Between, Outside
  <2>3. pc = slot + 1 /\ IsControl(text[slot]) /\ slot \in 1 .. Size
    BY <1>1, <1>6, <1>9 DEF Outside
  <2>4. pc' # pc + 1 => text[slot].kind = "branch" /\ pc' = text[slot].target
    BY <2>1
  <2>5. pc' = pc + 1
    BY <2>2, <2>3, <2>4 DEF StraightTo
  <2>6. pc \in write .. call - 1
    BY <1>1, <2>2, <2>5
  <2>7. slot \notin write .. call - 1
    BY <1>1, <1>2, <1>4, <2>3
  <2>8. slot = write - 1 /\ pc = write /\ write >= 2
    BY <1>1, <2>3, <2>6, <2>7
  <2>9. text[slot].kind = "branch"
    BY <2>3, <2>8 DEF StraightTo, IsControl
  <2> QED
    BY <1>3, <2>1, <2>8, <2>9
<1> QED
  BY <1>7, <1>8, <1>9

\* What a call passes is what its site was named, if the census is not misled.
LEMMA ExecutionNamesPassed ==
  ASSUME CensusInv, Execute
  PROVE  PassedIsNamed'
<1>1. /\ UNCHANGED <<text, record, addr, sites, verdict>> /\ verdict # "none"
      /\ pc \in 1 .. Size
  BY DEF Execute, scan
<1>2. /\ CallsBefore(addr)' = CallsBefore(addr)
      /\ \A call : (Misled(call)' <=> Misled(call)) /\ Named(call)' = Named(call)
  BY <1>1, CensusStands
<1>3. CASE passed' = passed
  BY <1>1, <1>2, <1>3 DEF CensusInv, PassedIsNamed
<1>4. CASE passed' = NoCall
  BY <1>4 DEF PassedIsNamed, NoCall
<1>5. CASE /\ slot # Outside /\ ~IsControl(text[pc]) /\ text[slot].kind = "vsync"
           /\ \E value \in A0After(text[pc]) : passed' = [site |-> slot, mode |-> value]
  <2>1. PICK value \in A0After(text[pc]) : passed' = [site |-> slot, mode |-> value]
    BY <1>5
  <2>2. passed'.site = slot /\ passed'.mode = value
    BY <2>1
  <2>3. addr = Size + 1 /\ slot \in 1 .. Size /\ pc = slot + 1
    BY <1>1, <1>5, SizeAssumption DEF CensusInv, SlotIsControl, TypeOK, Outside
  <2>4. slot \in CallsBefore(addr)
    BY <1>5, <2>3, SizeAssumption DEF CallsBefore
  <2>5. ASSUME ~Misled(slot), Named(slot) # None PROVE Named(slot) = value
    <3>1. CASE /\ text[slot + 1].kind = "literal" /\ text[slot + 1].register = "a0"
               /\ text[slot + 1].value = Named(slot)
      BY <2>1, <2>3, <3>1 DEF A0After
    <3>2. CASE /\ text[slot + 1].register # "a0"
               /\ \E write \in 1 .. Size :
                    StraightTo(slot, write) /\ text[write].value = Named(slot)
      <4>1. value = a0
        BY <2>1, <2>3, <3>2 DEF A0After
      <4>2. PICK write \in 1 .. Size : StraightTo(slot, write) /\ text[write].value = Named(slot)
        BY <3>2
      <4>3. Between(write, slot)
        BY <2>3 DEF Between
      <4> QED
        BY <2>3, <4>1, <4>2, <4>3 DEF CensusInv, A0Holds
    <3> QED
      BY <2>4, <2>5, <3>1, <3>2, NamedIsWritten
  <2> QED
    BY <1>1, <1>2, <2>2, <2>4, <2>5 DEF PassedIsNamed
<1> QED
  BY <1>3, <1>4, <1>5 DEF Execute

LEMMA CensusExecutes == CensusInv /\ Execute => CensusInv'
<1> SUFFICES ASSUME CensusInv, Execute PROVE CensusInv'
  OBVIOUS
<1>1. UNCHANGED <<text, record, addr, sites, verdict>> /\ pc \in 1 .. Size
  BY DEF Execute, scan
<1>2. A0Holds'
  <2> SUFFICES ASSUME NEW call \in 1 .. Size, NEW write \in 1 .. Size,
                      StraightTo(call, write)', Between(write, call)'
               PROVE  a0' = text'[write].value
    BY DEF A0Holds
  <2>1. StraightTo(call, write)
    BY <1>1 DEF StraightTo
  <2> QED
    BY <1>1, <2>1, ExecutionKeepsA0
<1>3. SlotIsControl'
  <2>1. CASE IsControl(text[pc])
    <3>1. slot' = pc /\ pc' = pc + 1
      BY <2>1 DEF Execute
    <3>2. pc + 1 \in 1 .. Size
      BY <1>1, <2>1, TextIsInstructions DEF CensusInv, TypeOK
    <3> QED
      BY <1>1, <2>1, <3>1, <3>2 DEF SlotIsControl
  <2>2. CASE ~IsControl(text[pc])
    <3>1. slot' = Outside
      BY <2>2 DEF Execute
    <3> QED
      BY <3>1 DEF SlotIsControl
  <2> QED
    BY <2>1, <2>2
<1>4. TypeOK'
  BY ExecuteKeeps DEF CensusInv
<1> QED
  BY <1>1, <1>2, <1>3, <1>4, CensusStands, ExecutionNamesPassed DEF CensusInv

LEMMA CensusStutters == CensusInv /\ UNCHANGED censusVars => CensusInv'
<1> SUFFICES ASSUME CensusInv, UNCHANGED censusVars PROVE CensusInv'
  OBVIOUS
<1>1. /\ UNCHANGED <<text, record, addr, sites>> /\ UNCHANGED <<text, guest>>
      /\ UNCHANGED <<verdict, passed>>
  BY DEF censusVars, scan, guest
<1>2. TypeOK'
  BY CensusUntouched DEF CensusInv
<1> QED
  BY <1>1, <1>2, CensusStands, GuestStands DEF CensusInv, PassedIsNamed

LEMMA CensusInvKept == CensusInv /\ [GateNext]_<<gateVars, censusVars>> => CensusInv'
<1> SUFFICES ASSUME CensusInv, [GateNext]_<<gateVars, censusVars>> PROVE CensusInv'
  OBVIOUS
<1>1. ScanWord \/ Compare \/ Execute \/ UNCHANGED censusVars
  BY DEF GateNext, Measure, Play, Returned, Over, vars, censusVars, scan, guest
<1> QED
  BY <1>1, CensusScans, CensusCompares, CensusExecutes, CensusStutters

LEMMA CensusInvAlways == GateSpec => []CensusInv
<1>1. GateInit => CensusInv
  BY CensusInvHolds DEF GateInit
<1> QED
  BY <1>1, CensusInvKept, PTL DEF GateSpec

LEMMA NamesAreRight == CensusInv => NamedUnlessMisled
BY DEF CensusInv, PassedIsNamed, NamedUnlessMisled

\* In an accepted text the guest waits where the record says, where the record
\* says it is not known, or where the census is misled.
LEMMA AcceptedHidesNoWait ==
  ASSUME CensusInv, Inv
  PROVE  PassHidesNoWait
<1> SUFFICES ASSUME exit = 0, passed # NoCall, passed.mode >= 0, ~Misled(passed.site)
             PROVE  passed.site = record.wait \/ passed.site \in record.unresolved
  BY DEF PassHidesNoWait
<1>1. Agrees
  BY DEF CensusInv, Inv, PassMeansAgreement
<1>2. /\ passed.site \in CallsBefore(addr)
      /\ Named(passed.site) = None \/ Named(passed.site) = passed.mode
  BY DEF CensusInv, PassedIsNamed
<1>3. passed.mode \in Modes /\ passed.mode # None
  BY DEF CensusInv, TypeOK, Modes, Query, Wait, Wide, None
<1> DEFINE found == Call(passed.site)
<1>4. found \in sites /\ found.site = passed.site /\ found.mode = Named(passed.site)
  BY <1>2, NamedOfCall DEF CensusInv, Call
<1> HIDE DEF found
<1>5. CASE Named(passed.site) = None
  <2>1. passed.site \in Unresolved
    BY <1>4, <1>5 DEF Unresolved
  <2> QED
    BY <1>1, <2>1 DEF Agrees, UnresolvedAsRecorded
<1>6. CASE Named(passed.site) = passed.mode
  <2>1. passed.site \in Waits
    BY <1>3, <1>4, <1>6 DEF Waits
  <2> QED
    BY <1>1, <2>1 DEF Agrees
<1> QED
  BY <1>2, <1>5, <1>6

-----------------------------------------------------------------------------
\* The gate and its selftest pass only what agrees with the header in every
\* respect they measure, and with the manifest's hash to compare with and
\* nobody replacing the file, only the retail image
\* (verify_vsync_field_clock.py:267-343, 485-529).
THEOREM PassIsAlwaysEarned == GateSpec => []PassIsEarned
  BY InvIsSound, GateInitEstablishes, NextKeeps, PTL DEF GateSpec

\* "The mode comes from the call's delay slot or a straight-line walk back to the
\* a0 write; crossing a branch leaves the site unresolved": whatever the text, a
\* mode that is named is the mode passed, but for the five things the walk does
\* not look at (census_vsync_calls and resolve_by_walk,
\* verify_vsync_field_clock.py:207-264).
THEOREM NamedModesArePassed == GateSpec => []NamedUnlessMisled
  BY CensusInvAlways, NamesAreRight, PTL

\* A text that passed waits at the recorded site, at the recorded unresolved ones
\* and where the census is misled: no other wait can hide in it, whatever the
\* number of calls ("unexamined call site is where a WAIT could hide", check,
\* verify_vsync_field_clock.py:336).
THEOREM NoWaitIsHidden == GateSpec => []PassHidesNoWait
<1>1. GateSpec => []Inv
  BY GateInitEstablishes, NextKeeps, PTL DEF GateSpec
<1> QED
  BY <1>1, CensusInvAlways, AcceptedHidesNoWait, PTL

-----------------------------------------------------------------------------
(***************************************************************************)
(* The query.  What has been answered so far answers the question for the  *)
(* part of it that is behind pos: the addresses of a batch, the words of a *)
(* listing, the hits of a scan.                                            *)
(***************************************************************************)
SizeOf(n) == Cardinality(Ghidra!Resolved(n))

\* GhidraQuery's own instance of FiniteSets counts as this one does.
LEMMA SameCardinality == \A S : Ghidra!Cardinality(S) = Cardinality(S)
BY DEF Ghidra!Cardinality, Cardinality

BatchSoFar ==
  /\ pos \in 0 .. Len(args) /\ miss \in 0 .. pos
  /\ Len(listed) + miss = pos /\ Len(listed) = SizeOf(pos)
  /\ \A i \in Ghidra!Resolved(pos) : listed[SizeOf(i)] = Ghidra!Owner(args[i])
  /\ \A i \in 1 .. pos : args[i] # Ghidra!None

DataSoFar ==
  /\ pos \in 0 .. Words /\ args[1] <= pos /\ Len(hits) = pos - args[1]
  /\ Len(hits) <= Ghidra!DataWords
  /\ \A i \in 1 .. Len(hits) : hits[i] = args[1] + i - 1

RangeSoFar ==
  /\ pos \in args[1] .. args[2] /\ Ghidra!InOrder(hits)
  /\ Ghidra!ToSet(hits) = {a \in code : args[1] <= a /\ a < pos}

ScanSoFar ==
  /\ pos \in 0 .. Words /\ listed = <<>> /\ Len(hits) <= pos
  /\ Ghidra!ToSet(hits) = {a \in match : a < pos}

EnclosingSoFar ==
  /\ Len(hits) <= Words /\ Ghidra!ToSet(hits) = match
  /\ pos \in 0 .. Len(hits) /\ Ghidra!IsInjective(listed)
  /\ Ghidra!ToSet(listed) = {Ghidra!Owner(hits[i]) : i \in 1 .. pos} \ {NoFunction}

ProgramTyped ==
  /\ code \subseteq Ghidra!Memory /\ match \subseteq code
  /\ owner \in [Ghidra!Memory -> Functions \cup {NoFunction}]
  /\ question \in Ghidra!Modes /\ args \in Ghidra!BoundedSeq(0 .. Ghidra!None, MaxArgs)

AnswerTyped ==
  /\ hits \in Seq(Ghidra!Memory) /\ listed \in Seq(Functions)
  /\ miss \in 0 .. MaxArgs /\ pos \in 0 .. Words + MaxArgs

StatusAgrees ==
  /\ status \in {0, 1, 2, 3, Ghidra!Running}
  /\ place = "over" <=> status # Ghidra!Running
  /\ place \in {"start", "enclosing", "over"} \cup Ghidra!Modes

Answering ==
  /\ place = "start" => pos = 0 /\ hits = <<>> /\ listed = <<>> /\ miss = 0
  /\ place \in Ghidra!Modes => question = place /\ ~Ghidra!Refuses
  /\ place = "enclosing" => question = "scan" /\ ~Ghidra!Refuses
  /\ place = "func" => BatchSoFar
  /\ place = "data" => DataSoFar
  /\ place = "disasm" => RangeSoFar
  /\ place = "scan" => ScanSoFar
  /\ place = "enclosing" => EnclosingSoFar

Answered ==
  Ghidra!BatchAccountsForAll /\ Ghidra!DisasmListsTheRange /\ Ghidra!ScanListsEachFunctionOnce

\* What the status says of an answer, one that breaks off included.
Ended ==
  /\ Ghidra!RefusesTheMalformed /\ Ghidra!BatchBreaksAtMalformed
  /\ Ghidra!CallsNeedsItsFunction /\ Ghidra!DataPrintsTheWords

QueryInv == ProgramTyped /\ AnswerTyped /\ StatusAgrees /\ Answering /\ Answered /\ Ended

-----------------------------------------------------------------------------
LEMMA ArgsAreWords ==
  ASSUME ProgramTyped
  PROVE  args \in Seq(0 .. Words + 1) /\ Len(args) <= MaxArgs
BY GhidraAssumption DEF ProgramTyped, Ghidra!BoundedSeq, Ghidra!SeqOf, Ghidra!Bounds, Ghidra!None

\* A command line that is not refused has the arguments that its mode uses.
LEMMA ArgsOfModes ==
  ASSUME ProgramTyped, ~Ghidra!Refuses
  PROVE  /\ Len(args) \in 1 .. MaxArgs
         /\ question # "scan" => args[1] \in 0 .. Words
         /\ question = "disasm" => args[2] \in 0 .. Words /\ args[1] < args[2]
<1>1. args \in Seq(0 .. Words + 1) /\ Len(args) <= MaxArgs /\ args # <<>>
  BY ArgsAreWords DEF Ghidra!Refuses
<1>2. Len(args) \in 1 .. MaxArgs
  BY <1>1, GhidraAssumption DEF Ghidra!Bounds
<1>3. question # "scan" => args[1] \in 0 .. Words
  BY <1>1, <1>2, GhidraAssumption DEF Ghidra!Refuses, Ghidra!Bounds, Ghidra!None
<1>4. question = "disasm" => args[2] \in 0 .. Words /\ args[1] < args[2]
  <2>1. ASSUME question = "disasm" PROVE Len(args) = 2 /\ args[2] # Words + 1 /\ ~(args[1] >= args[2])
    BY <1>1, <2>1 DEF Ghidra!Refuses, Ghidra!None
  <2> QED
    BY <1>1, <1>3, <2>1, GhidraAssumption DEF Ghidra!Bounds
<1> QED
  BY <1>2, <1>3, <1>4

LEMMA AppendAdds ==
  ASSUME NEW T, NEW s \in Seq(T), NEW e \in T
  PROVE  /\ Append(s, e) \in Seq(T) /\ Len(Append(s, e)) = Len(s) + 1
         /\ Ghidra!ToSet(Append(s, e)) = Ghidra!ToSet(s) \cup {e}
         /\ \A i \in 1 .. Len(s) : Append(s, e)[i] = s[i]
         /\ Append(s, e)[Len(s) + 1] = e
<1>1. /\ Append(s, e) \in Seq(T) /\ Len(Append(s, e)) = Len(s) + 1
      /\ \A i \in 1 .. Len(s) : Append(s, e)[i] = s[i]
      /\ Append(s, e)[Len(s) + 1] = e
  OBVIOUS
<1>2. /\ DOMAIN s = 1 .. Len(s) /\ DOMAIN Append(s, e) = 1 .. Len(s) + 1
      /\ Len(s) \in Nat
  OBVIOUS
<1>3. 1 .. Len(s) + 1 = 1 .. Len(s) \cup {Len(s) + 1}
  BY <1>2
<1> DEFINE t == Append(s, e)
<1> HIDE DEF t
<1>4. Ghidra!ToSet(t) = Ghidra!ToSet(s) \cup {e}
  BY <1>1, <1>2, <1>3, Zenon DEF t, Ghidra!ToSet
<1> QED
  BY <1>1, <1>4 DEF t

LEMMA EmptyHasNone ==
  ASSUME NEW T, NEW s \in Seq(T)
  PROVE  /\ s = <<>> <=> Ghidra!ToSet(s) = {}
         /\ Ghidra!ToSet(s) \subseteq T
<1>1. DOMAIN s = 1 .. Len(s) /\ Len(s) \in Nat /\ (s = <<>> <=> Len(s) = 0)
  OBVIOUS
<1>2. ASSUME Len(s) # 0 PROVE 1 \in DOMAIN s
  BY <1>1, <1>2
<1>3. ASSUME Len(s) = 0 PROVE DOMAIN s = {}
  BY <1>1, <1>3
<1>4. \A i \in DOMAIN s : s[i] \in T
  OBVIOUS
<1> QED
  BY <1>1, <1>2, <1>3, <1>4 DEF Ghidra!ToSet

\* The listing goes on at its next instruction, if there is one.
LEMMA NextIsLeast ==
  ASSUME code \subseteq Nat, NEW a \in code, a >= pos
  PROVE  \E m \in Ghidra!NextInstruction : m <= a
<1> DEFINE Rest == {b \in code : b >= pos}
<1>1. Rest \subseteq Nat /\ a \in Rest
  OBVIOUS
<1>2. PICK m \in Rest : \A b \in Rest : ~ (<<b, m>> \in OpToRel(<, Nat))
  <2> HIDE DEF Rest
  <2> QED
    BY <1>1, NatLessThanWellFounded, WFMin
<1>3. \A b \in Rest : ~ (b < m)
  BY <1>1, <1>2 DEF OpToRel
<1>4. m \in code /\ m >= pos /\ m \in Nat
  BY <1>1
<1>5. \A b \in code : b >= pos => m <= b
  BY <1>3, <1>4
<1>6. m \in Ghidra!NextInstruction
  BY <1>4, <1>5 DEF Ghidra!NextInstruction
<1> QED
  BY <1>5, <1>6

\* What is listed from pos up to the next instruction is that instruction.
LEMMA NextIsAlone ==
  ASSUME code \subseteq Nat, pos \in Nat, NEW a \in Ghidra!NextInstruction
  PROVE  /\ a \in code /\ a \in Nat /\ a >= pos
         /\ \A b \in code : (b < a + 1 <=> b < pos \/ b = a)
<1>1. a \in code /\ a >= pos /\ \A b \in code : b >= pos => a <= b
  BY DEF Ghidra!NextInstruction
<1> QED
  BY <1>1

\* Nothing is promised of a run that goes on, or that ends otherwise.
LEMMA NoAnswerYet == ASSUME status' \notin {0, 1} PROVE Answered'
BY DEF Answered, Ghidra!BatchAccountsForAll, Ghidra!DisasmListsTheRange,
       Ghidra!ScanListsEachFunctionOnce

\* Nothing is said of a run that goes on.
LEMMA NoEndYet == ASSUME status' = Ghidra!Running PROVE Ended'
BY DEF Ended, Ghidra!RefusesTheMalformed, Ghidra!BatchBreaksAtMalformed,
       Ghidra!CallsNeedsItsFunction, Ghidra!DataPrintsTheWords, Ghidra!Running

\* A mode that prints no words and reads no addresses ends with 0 or 1.
LEMMA EndsOfOthers ==
  ASSUME UNCHANGED <<question, args>>, ~Ghidra!Refuses, status' \in {0, 1},
         question \in {"disasm", "scan"}
  PROVE  Ended'
<1>1. Ghidra!RefusesTheMalformed'
  BY DEF Ghidra!RefusesTheMalformed, Ghidra!Refuses, Ghidra!None
<1> QED
  BY <1>1 DEF Ended, Ghidra!BatchBreaksAtMalformed, Ghidra!CallsNeedsItsFunction,
     Ghidra!DataPrintsTheWords

LEMMA ProgramStands ==
  ASSUME ProgramTyped, UNCHANGED <<code, owner, match, question, args>>
  PROVE  ProgramTyped'
BY DEF ProgramTyped

\* A run that ends without an answer.
LEMMA EndsEmpty ==
  ASSUME QueryInv, Ghidra!Ends(2) \/ Ghidra!Ends(3), UNCHANGED <<hits, listed, miss, pos>>,
         UNCHANGED <<code, owner, match, question, args>>, Ended'
  PROVE  QueryInv'
<1>1. place' = "over" /\ status' \in {2, 3}
  BY DEF Ghidra!Ends
<1>2. ProgramTyped' /\ Answered'
  BY <1>1, ProgramStands, NoAnswerYet DEF QueryInv
<1>3. AnswerTyped'
  BY DEF QueryInv, AnswerTyped
<1>4. StatusAgrees' /\ Answering'
  BY <1>1 DEF StatusAgrees, Answering, Ghidra!Running, Ghidra!Modes
<1> QED
  BY <1>2, <1>3, <1>4 DEF QueryInv

LEMMA DispatchKeeps == QueryInv /\ Ghidra!Dispatch => QueryInv'
<1> SUFFICES ASSUME QueryInv, Ghidra!Dispatch PROVE QueryInv'
  OBVIOUS
<1>1. /\ UNCHANGED <<code, owner, match, question, args>>
      /\ UNCHANGED <<hits, listed, miss>> /\ place = "start"
  BY DEF Ghidra!Dispatch, Ghidra!program, Ghidra!question, Ghidra!answer
<1>2. pos = 0 /\ hits = <<>> /\ listed = <<>> /\ miss = 0
  BY <1>1 DEF QueryInv, Answering
<1>3. CASE Ghidra!Refuses
  <2>1. Ghidra!Ends(2) /\ pos' = pos
    BY <1>2, <1>3 DEF Ghidra!Dispatch
  <2>2. status' = 2
    BY <2>1 DEF Ghidra!Ends
  <2>3. Ghidra!RefusesTheMalformed'
    BY <1>1, <1>3, <2>2 DEF Ghidra!RefusesTheMalformed, Ghidra!Refuses, Ghidra!None
  <2>4. Ended'
    BY <2>2, <2>3 DEF Ended, Ghidra!BatchBreaksAtMalformed, Ghidra!CallsNeedsItsFunction,
       Ghidra!DataPrintsTheWords
  <2> QED
    BY <1>1, <2>1, <2>4, EndsEmpty
<1>4. CASE ~Ghidra!Refuses
  <2>1. /\ place' = question /\ status' = status /\ question \in Ghidra!Modes
        /\ status = Ghidra!Running
        /\ pos' = IF question \in {"data", "disasm"} THEN args[1] ELSE 0
    BY <1>1, <1>4 DEF Ghidra!Dispatch, Ghidra!Goes, QueryInv, ProgramTyped, StatusAgrees
  <2>2. ProgramTyped' /\ Answered' /\ Ended'
    BY <1>1, <2>1, ProgramStands, NoAnswerYet, NoEndYet DEF QueryInv, Ghidra!Running
  <2>3. /\ Len(args) \in 1 .. MaxArgs
        /\ question # "scan" => args[1] \in 0 .. Words
        /\ question = "disasm" => args[2] \in 0 .. Words /\ args[1] < args[2]
    BY <1>4, ArgsOfModes DEF QueryInv
  <2>4. AnswerTyped'
    BY <1>1, <2>1, <2>3, GhidraAssumption DEF QueryInv, AnswerTyped, Ghidra!Bounds
  <2>5. StatusAgrees' /\ (place' \in Ghidra!Modes => question' = place' /\ ~Ghidra!Refuses')
    BY <1>1, <1>4, <2>1 DEF StatusAgrees, Ghidra!Refuses, Ghidra!Modes, Ghidra!None, Ghidra!Running
  <2>6. ASSUME question = "func" PROVE BatchSoFar'
    <3>1. pos' = 0 /\ Len(listed') = 0 /\ miss' = 0
      BY <1>1, <1>2, <2>1, <2>6
    <3>2. Ghidra!Resolved(0)' = {}
      BY DEF Ghidra!Resolved
    <3>3. (SizeOf(pos))' = 0 /\ Ghidra!Resolved(pos)' = {}
      BY <3>1, <3>2, FS_EmptySet DEF SizeOf
    <3> QED
      BY <1>1, <2>3, <3>1, <3>3 DEF BatchSoFar
  <2>7. Ghidra!ToSet(hits)' = {} /\ Ghidra!InOrder(hits)'
    BY <1>1, <1>2 DEF Ghidra!ToSet, Ghidra!InOrder
  <2>8. ASSUME question = "disasm" PROVE RangeSoFar'
    BY <1>1, <2>1, <2>3, <2>7, <2>8, GhidraAssumption
    DEF RangeSoFar, Ghidra!Bounds, QueryInv, ProgramTyped, Ghidra!Memory
  <2>9. ASSUME question = "scan" PROVE ScanSoFar'
    <3>1. pos' = 0 /\ listed' = <<>> /\ Len(hits') = 0
      BY <1>1, <1>2, <2>1, <2>9
    <3>2. \A a \in match' : ~ (a < 0)
      BY <1>1, GhidraAssumption DEF QueryInv, ProgramTyped, Ghidra!Memory, Ghidra!Bounds
    <3> QED
      BY <2>7, <3>1, <3>2, GhidraAssumption DEF ScanSoFar, Ghidra!Bounds
  <2>10. ASSUME question = "data" PROVE DataSoFar'
    <3>1. pos' = args[1] /\ Len(hits') = 0 /\ args' = args
      BY <1>1, <1>2, <2>1, <2>10
    <3>2. (Ghidra!DataWords)' \in Nat
      BY <1>1, <2>3, ArgsAreWords, GhidraAssumption DEF Ghidra!DataWords, QueryInv, Ghidra!Bounds
    <3> QED
      BY <2>3, <2>10, <3>1, <3>2, GhidraAssumption DEF DataSoFar, Ghidra!Bounds
  <2>11. Answering'
    BY <2>1, <2>5, <2>6, <2>8, <2>9, <2>10 DEF Answering, Ghidra!Modes
  <2> QED
    BY <2>2, <2>4, <2>5, <2>11 DEF QueryInv
<1> QED
  BY <1>3, <1>4

-----------------------------------------------------------------------------
LEMMA ResolvedIsFinite ==
  ASSUME NEW n \in Nat
  PROVE  /\ IsFiniteSet(Ghidra!Resolved(n)) /\ SizeOf(n) \in Nat
         /\ \A i \in Ghidra!Resolved(n) : SizeOf(i) \in 1 .. SizeOf(n)
<1>1. IsFiniteSet(1 .. n)
  BY FS_Interval
<1>2. Ghidra!Resolved(n) \subseteq 1 .. n
  BY DEF Ghidra!Resolved
<1>3. IsFiniteSet(Ghidra!Resolved(n)) /\ SizeOf(n) \in Nat
  BY <1>1, <1>2, FS_Subset, FS_CardinalityType DEF SizeOf
<1>4. ASSUME NEW i \in Ghidra!Resolved(n) PROVE SizeOf(i) \in 1 .. SizeOf(n)
  <2>1. i \in 1 .. n /\ i \in Ghidra!Resolved(i)
    BY DEF Ghidra!Resolved
  <2>2. Ghidra!Resolved(i) \subseteq Ghidra!Resolved(n)
    BY <2>1 DEF Ghidra!Resolved
  <2>3. IsFiniteSet(Ghidra!Resolved(i)) /\ SizeOf(i) \in Nat /\ SizeOf(i) <= SizeOf(n)
    BY <1>3, <2>2, FS_Subset, FS_CardinalityType DEF SizeOf
  <2>4. SizeOf(i) # 0
    BY <2>1, <2>3, FS_EmptySet DEF SizeOf
  <2> QED
    BY <1>3, <2>3, <2>4
<1> QED
  BY <1>3, <1>4

LEMMA ResolvedGrows ==
  ASSUME NEW n \in Nat
  PROVE  IF Ghidra!Owner(args[n + 1]) = NoFunction
           THEN Ghidra!Resolved(n + 1) = Ghidra!Resolved(n)
           ELSE /\ Ghidra!Resolved(n + 1) = Ghidra!Resolved(n) \cup {n + 1}
                /\ SizeOf(n + 1) = SizeOf(n) + 1
<1>1. 1 .. n + 1 = 1 .. n \cup {n + 1} /\ n + 1 \notin 1 .. n
  OBVIOUS
<1>2. CASE Ghidra!Owner(args[n + 1]) = NoFunction
  BY <1>1, <1>2 DEF Ghidra!Resolved
<1>3. CASE Ghidra!Owner(args[n + 1]) # NoFunction
  <2>1. Ghidra!Resolved(n + 1) = Ghidra!Resolved(n) \cup {n + 1} /\ n + 1 \notin Ghidra!Resolved(n)
    BY <1>1, <1>3 DEF Ghidra!Resolved
  <2>2. SizeOf(n + 1) = SizeOf(n) + 1
    BY <2>1, ResolvedIsFinite, FS_AddElement DEF SizeOf
  <2> QED
    BY <1>3, <2>1, <2>2
<1> QED
  BY <1>2, <1>3

LEMMA DecompileKeeps == QueryInv /\ Ghidra!Decompile => QueryInv'
<1> SUFFICES ASSUME QueryInv, Ghidra!Decompile PROVE QueryInv'
  OBVIOUS
<1>1. /\ UNCHANGED <<code, owner, match, question, args>> /\ UNCHANGED hits
      /\ place = "func" /\ pos < Len(args)
  BY DEF Ghidra!Decompile, Ghidra!program, Ghidra!question
<1>2. BatchSoFar /\ ~Ghidra!Refuses /\ question = "func"
  BY <1>1 DEF QueryInv, Answering, Ghidra!Modes
<1>3. /\ Len(args) \in 1 .. MaxArgs /\ pos \in Nat /\ pos + 1 \in 1 .. Len(args)
      /\ listed \in Seq(Functions) /\ miss \in 0 .. pos
  <2>1. Len(args) \in 1 .. MaxArgs
    BY <1>2, ArgsOfModes DEF QueryInv
  <2> QED
    BY <1>1, <1>2, <2>1 DEF BatchSoFar, QueryInv, AnswerTyped
<1> DEFINE a == args[pos + 1]
<1>4. CASE a = Ghidra!None
  <2>1. Ghidra!Ends(3) /\ UNCHANGED <<pos, listed, miss>>
    BY <1>4 DEF Ghidra!Decompile
  <2>2. status' = 3
    BY <2>1 DEF Ghidra!Ends
  <2>3. Ghidra!RefusesTheMalformed'
    BY <1>1, <1>2, <2>2 DEF Ghidra!RefusesTheMalformed, Ghidra!Refuses, Ghidra!None
  <2>4. Ghidra!BatchBreaksAtMalformed'
    BY <1>1, <1>3, <1>4, <2>2 DEF Ghidra!BatchBreaksAtMalformed, Ghidra!None
  <2>5. Ended'
    BY <1>1, <1>2, <2>3, <2>4 DEF Ended, Ghidra!CallsNeedsItsFunction, Ghidra!DataPrintsTheWords
  <2> QED
    BY <1>1, <2>1, <2>5, EndsEmpty
<1>5. CASE a # Ghidra!None
  <2>1. UNCHANGED <<place, status>> /\ pos' = pos + 1
    BY <1>5 DEF Ghidra!Decompile, Ghidra!SkipOne
  <2>2. status = Ghidra!Running
    BY <1>1 DEF QueryInv, StatusAgrees
  <2>3. ProgramTyped' /\ Answered' /\ StatusAgrees' /\ Ended'
    BY <1>1, <2>1, <2>2, ProgramStands, NoAnswerYet, NoEndYet
    DEF QueryInv, StatusAgrees, Ghidra!Running
  <2>9. \A i \in 1 .. pos' : args'[i] # (Ghidra!None)'
    BY <1>1, <1>2, <1>3, <1>5, <2>1 DEF BatchSoFar, Ghidra!None
  <2>4. \A i : (Ghidra!Resolved(i))' = Ghidra!Resolved(i) /\ (Ghidra!Owner(i))' = Ghidra!Owner(i)
    BY <1>1 DEF Ghidra!Resolved, Ghidra!Owner
  <2>5. /\ IsFiniteSet(Ghidra!Resolved(pos)) /\ SizeOf(pos) \in Nat
        /\ \A i \in Ghidra!Resolved(pos) : SizeOf(i) \in 1 .. SizeOf(pos)
    BY <1>3, ResolvedIsFinite
  <2>6. Len(listed) = SizeOf(pos) /\ Len(listed) + miss = pos
    BY <1>2 DEF BatchSoFar
  <2>7. CASE Ghidra!Owner(a) = NoFunction
    <3>1. miss' = miss + 1 /\ listed' = listed
      BY <1>5, <2>7 DEF Ghidra!Decompile, Ghidra!SkipOne
    <3>2. Ghidra!Resolved(pos + 1) = Ghidra!Resolved(pos)
      BY <1>3, <2>7, ResolvedGrows
    <3>3. AnswerTyped'
      BY <1>1, <1>3, <2>1, <3>1, GhidraAssumption DEF QueryInv, AnswerTyped, Ghidra!Bounds
    <3>4. Len(listed') = (SizeOf(pos))' /\ Len(listed') + miss' = pos' /\ miss' \in 0 .. pos'
      BY <1>3, <2>1, <2>4, <2>6, <3>1, <3>2 DEF SizeOf
    <3>5. \A i \in (Ghidra!Resolved(pos))' : listed'[(SizeOf(i))'] = (Ghidra!Owner(args[i]))'
      BY <1>1, <1>2, <2>1, <2>4, <3>1, <3>2 DEF BatchSoFar, SizeOf
    <3>6. BatchSoFar'
      BY <1>1, <1>3, <2>1, <2>9, <3>4, <3>5 DEF BatchSoFar
    <3> QED
      BY <1>1, <1>2, <2>1, <2>3, <3>3, <3>6 DEF QueryInv, Answering, Ghidra!Refuses, Ghidra!None, Ghidra!Modes
  <2>8. CASE Ghidra!Owner(a) # NoFunction
    <3>1. listed' = Append(listed, Ghidra!Owner(a)) /\ miss' = miss
      BY <1>5, <2>8 DEF Ghidra!Decompile
    <3>2. Ghidra!Owner(a) \in Functions
      BY <2>8 DEF Ghidra!Owner, QueryInv, ProgramTyped
    <3>3. /\ listed' \in Seq(Functions) /\ Len(listed') = Len(listed) + 1
          /\ \A i \in 1 .. Len(listed) : listed'[i] = listed[i]
          /\ listed'[Len(listed) + 1] = Ghidra!Owner(a)
      BY <1>3, <3>1, <3>2, AppendAdds
    <3>4. /\ Ghidra!Resolved(pos + 1) = Ghidra!Resolved(pos) \cup {pos + 1}
          /\ SizeOf(pos + 1) = SizeOf(pos) + 1
      BY <1>3, <2>8, ResolvedGrows
    <3>5. AnswerTyped'
      BY <1>1, <1>3, <2>1, <3>1, <3>3, GhidraAssumption DEF QueryInv, AnswerTyped, Ghidra!Bounds
    <3>6. Len(listed') = (SizeOf(pos))' /\ Len(listed') + miss' = pos' /\ miss' \in 0 .. pos'
      BY <1>3, <2>1, <2>4, <2>5, <2>6, <3>1, <3>3, <3>4 DEF SizeOf
    <3>7. ASSUME NEW i \in Ghidra!Resolved(pos) \cup {pos + 1}
          PROVE  listed'[SizeOf(i)] = Ghidra!Owner(args[i])
      <4>1. CASE i = pos + 1
        BY <2>6, <3>3, <3>4, <4>1
      <4>2. CASE i \in Ghidra!Resolved(pos)
        BY <1>2, <2>5, <2>6, <3>3, <4>2 DEF BatchSoFar
      <4> QED
        BY <3>7, <4>1, <4>2
    <3>8. \A i \in (Ghidra!Resolved(pos))' : listed'[(SizeOf(i))'] = (Ghidra!Owner(args[i]))'
      BY <1>1, <2>1, <2>4, <3>4, <3>7 DEF SizeOf
    <3>9. BatchSoFar'
      BY <1>1, <1>3, <2>1, <2>9, <3>6, <3>8 DEF BatchSoFar
    <3> QED
      BY <1>1, <1>2, <2>1, <2>3, <3>5, <3>9 DEF QueryInv, Answering, Ghidra!Refuses, Ghidra!None, Ghidra!Modes
  <2> QED
    BY <2>7, <2>8
<1> QED
  BY <1>4, <1>5

LEMMA DecompileOverKeeps == QueryInv /\ Ghidra!DecompileOver => QueryInv'
<1> SUFFICES ASSUME QueryInv, Ghidra!DecompileOver PROVE QueryInv'
  OBVIOUS
<1>1. /\ UNCHANGED <<code, owner, match, question, args>> /\ UNCHANGED <<pos, hits, listed, miss>>
      /\ place = "func" /\ pos = Len(args) /\ place' = "over"
      /\ status' = IF listed = <<>> THEN 1 ELSE 0
  BY DEF Ghidra!DecompileOver, Ghidra!program, Ghidra!question, Ghidra!answer, Ghidra!Ends
<1>2. BatchSoFar /\ question = "func" /\ ~Ghidra!Refuses
  BY <1>1 DEF QueryInv, Answering, Ghidra!Modes
<1>3. ProgramTyped' /\ AnswerTyped' /\ StatusAgrees' /\ Answering'
  BY <1>1, ProgramStands
  DEF QueryInv, AnswerTyped, StatusAgrees, Answering, Ghidra!Running, Ghidra!Modes
<1>4. /\ Len(listed) + miss = Len(args) /\ Len(listed) = SizeOf(Len(args))
      /\ \A i \in Ghidra!Resolved(Len(args)) : listed[SizeOf(i)] = Ghidra!Owner(args[i])
  BY <1>1, <1>2 DEF BatchSoFar
<1>5. \A i : (Ghidra!Resolved(i))' = Ghidra!Resolved(i) /\ (Ghidra!Owner(i))' = Ghidra!Owner(i)
  BY <1>1 DEF Ghidra!Resolved, Ghidra!Owner
<1>9. status' = 1 <=> Ghidra!Resolved(Len(args)) = {}
  <2>1. Len(args) \in Nat /\ listed \in Seq(Functions)
    BY ArgsAreWords DEF QueryInv, AnswerTyped
  <2>2. IsFiniteSet(Ghidra!Resolved(Len(args)))
    BY <2>1, ResolvedIsFinite
  <2>3. Len(listed) = 0 <=> Ghidra!Resolved(Len(args)) = {}
    BY <1>4, <2>2, FS_EmptySet DEF SizeOf
  <2> QED
    BY <1>1, <2>1, <2>3
<1>6. Ghidra!BatchAccountsForAll'
  <2>1. (Ghidra!Resolved(Len(args)))' = Ghidra!Resolved(Len(args))
    BY <1>1, <1>5
  <2> QED
    BY <1>1, <1>4, <1>5, <1>9, <2>1, SameCardinality DEF SizeOf, Ghidra!BatchAccountsForAll
<1>7. Answered'
  BY <1>1, <1>2, <1>6
  DEF Answered, Ghidra!DisasmListsTheRange, Ghidra!ScanListsEachFunctionOnce
<1>8. Ended'
  <2>1. Ghidra!RefusesTheMalformed'
    BY <1>1, <1>2 DEF Ghidra!RefusesTheMalformed, Ghidra!Refuses, Ghidra!None
  <2>2. \A i \in 1 .. Len(args) : args[i] # Ghidra!None
    BY <1>1, <1>2 DEF BatchSoFar
  <2>3. Ghidra!BatchBreaksAtMalformed'
    BY <1>1, <2>2 DEF Ghidra!BatchBreaksAtMalformed, Ghidra!None
  <2> QED
    BY <1>1, <1>2, <2>1, <2>3 DEF Ended, Ghidra!CallsNeedsItsFunction, Ghidra!DataPrintsTheWords
<1> QED
  BY <1>3, <1>7, <1>8 DEF QueryInv

LEMMA CallsKeeps == QueryInv /\ Ghidra!Calls => QueryInv'
<1> SUFFICES ASSUME QueryInv, Ghidra!Calls PROVE QueryInv'
  OBVIOUS
<1>1. /\ UNCHANGED <<code, owner, match, question, args>> /\ UNCHANGED <<pos, hits, listed, miss>>
      /\ place = "calls" /\ place' = "over"
      /\ status' = IF Ghidra!Owner(args[1]) = NoFunction THEN 1 ELSE 0
  BY DEF Ghidra!Calls, Ghidra!program, Ghidra!question, Ghidra!answer, Ghidra!Ends
<1>2. question = "calls" /\ ~Ghidra!Refuses
  BY <1>1 DEF QueryInv, Answering, Ghidra!Modes
<1>3. ProgramTyped' /\ AnswerTyped' /\ StatusAgrees' /\ Answering'
  BY <1>1, ProgramStands
  DEF QueryInv, AnswerTyped, StatusAgrees, Answering, Ghidra!Running, Ghidra!Modes
<1>4. Answered'
  BY <1>1, <1>2 DEF Answered, Ghidra!BatchAccountsForAll, Ghidra!DisasmListsTheRange,
                    Ghidra!ScanListsEachFunctionOnce
<1>5. Ended'
  <2>1. Ghidra!RefusesTheMalformed'
    BY <1>1, <1>2 DEF Ghidra!RefusesTheMalformed, Ghidra!Refuses, Ghidra!None
  <2>2. Ghidra!CallsNeedsItsFunction'
    BY <1>1 DEF Ghidra!CallsNeedsItsFunction, Ghidra!Owner
  <2> QED
    BY <1>1, <1>2, <2>1, <2>2 DEF Ended, Ghidra!BatchBreaksAtMalformed, Ghidra!DataPrintsTheWords
<1> QED
  BY <1>3, <1>4, <1>5 DEF QueryInv

LEMMA DataKeeps == QueryInv /\ Ghidra!Data => QueryInv'
<1> SUFFICES ASSUME QueryInv, Ghidra!Data PROVE QueryInv'
  OBVIOUS
<1>1. /\ UNCHANGED <<code, owner, match, question, args>> /\ UNCHANGED <<listed, miss>>
      /\ place = "data"
  BY DEF Ghidra!Data, Ghidra!program, Ghidra!question
<1>2. question = "data" /\ DataSoFar /\ status = Ghidra!Running /\ ~Ghidra!Refuses
  BY <1>1 DEF QueryInv, Answering, StatusAgrees, Ghidra!Modes
<1>3. /\ args[1] \in 0 .. Words /\ Ghidra!DataWords \in Nat /\ hits \in Seq(Ghidra!Memory)
      /\ Len(hits) \in Nat /\ pos = args[1] + Len(hits) /\ pos \in 0 .. Words
      /\ Len(hits) <= Ghidra!DataWords
  <2>1. args[1] \in 0 .. Words
    BY <1>2, ArgsOfModes DEF QueryInv
  <2>2. Ghidra!DataWords \in Nat
    BY ArgsAreWords, GhidraAssumption DEF QueryInv, Ghidra!DataWords, Ghidra!Bounds
  <2>3. hits \in Seq(Ghidra!Memory)
    BY DEF QueryInv, AnswerTyped
  <2> QED
    BY <1>2, <2>1, <2>2, <2>3 DEF DataSoFar
<1>4. (Ghidra!DataWords)' = Ghidra!DataWords
  BY <1>1 DEF Ghidra!DataWords
<1>5. CASE /\ place' = "over" /\ UNCHANGED <<pos, hits>>
           /\ \/ pos = args[1] + Ghidra!DataWords /\ status' = 0
              \/ pos # args[1] + Ghidra!DataWords /\ pos \notin Ghidra!Memory /\ status' = 3
  <2>1. ProgramTyped' /\ AnswerTyped' /\ StatusAgrees' /\ Answering'
    BY <1>1, <1>5, ProgramStands
    DEF QueryInv, AnswerTyped, StatusAgrees, Answering, Ghidra!Running, Ghidra!Modes
  <2>2. Answered'
    BY <1>1, <1>2 DEF Answered, Ghidra!BatchAccountsForAll, Ghidra!DisasmListsTheRange,
                      Ghidra!ScanListsEachFunctionOnce
  <2>3. \/ status' = 0 /\ Len(hits') = (Ghidra!DataWords)'
        \/ /\ status' = 3 /\ Len(hits') < (Ghidra!DataWords)'
           /\ args'[1] + Len(hits') \notin (Ghidra!Memory)'
    BY <1>1, <1>3, <1>4, <1>5 DEF Ghidra!Memory
  <2>4. Ghidra!DataPrintsTheWords'
    BY <1>1, <1>2, <1>5, <2>3 DEF Ghidra!DataPrintsTheWords, DataSoFar
  <2>5. Ghidra!RefusesTheMalformed'
    BY <1>1, <1>2, <1>5 DEF Ghidra!RefusesTheMalformed, Ghidra!Refuses, Ghidra!None
  <2>6. Ended'
    BY <1>1, <1>2, <2>4, <2>5 DEF Ended, Ghidra!BatchBreaksAtMalformed, Ghidra!CallsNeedsItsFunction
  <2> QED
    BY <2>1, <2>2, <2>6 DEF QueryInv
<1>6. CASE /\ pos # args[1] + Ghidra!DataWords /\ pos \in Ghidra!Memory
           /\ pos' = pos + 1 /\ hits' = Append(hits, pos) /\ UNCHANGED <<place, status>>
  <2>1. /\ hits' \in Seq(Ghidra!Memory) /\ Len(hits') = Len(hits) + 1
        /\ \A i \in 1 .. Len(hits) : hits'[i] = hits[i]
        /\ hits'[Len(hits) + 1] = pos
    BY <1>3, <1>6, AppendAdds
  <2>2. pos' \in 0 .. Words
    BY <1>3, <1>6, GhidraAssumption DEF Ghidra!Memory, Ghidra!Bounds
  <2>3. \A i \in 1 .. Len(hits') : hits'[i] = args[1] + i - 1
    <3> SUFFICES ASSUME NEW i \in 1 .. Len(hits') PROVE hits'[i] = args[1] + i - 1
      OBVIOUS
    <3>1. CASE i = Len(hits) + 1
      BY <1>3, <2>1, <3>1
    <3>2. CASE i \in 1 .. Len(hits)
      BY <1>2, <2>1, <3>2 DEF DataSoFar
    <3> QED
      BY <1>3, <2>1, <3>1, <3>2
  <2>4. DataSoFar'
    <3>1. Len(hits') = pos' - args[1] /\ args[1] <= pos' /\ Len(hits') <= Ghidra!DataWords
      BY <1>3, <1>6, <2>1
    <3> QED
      BY <1>1, <1>4, <2>2, <2>3, <3>1 DEF DataSoFar
  <2>5. AnswerTyped'
    BY <1>1, <2>1, <2>2, GhidraAssumption DEF QueryInv, AnswerTyped, Ghidra!Bounds
  <2>6. ProgramTyped' /\ StatusAgrees' /\ Answered' /\ Ended'
    BY <1>1, <1>2, <1>6, ProgramStands, NoAnswerYet, NoEndYet
    DEF QueryInv, StatusAgrees, Ghidra!Running
  <2>7. Answering'
    BY <1>1, <1>2, <1>6, <2>4 DEF Answering, Ghidra!Refuses, Ghidra!None, Ghidra!Modes
  <2> QED
    BY <2>5, <2>6, <2>7 DEF QueryInv
<1> QED
  BY <1>5, <1>6 DEF Ghidra!Data, Ghidra!Ends

-----------------------------------------------------------------------------
LEMMA AppendKeepsOrder ==
  ASSUME NEW s \in Seq(Ghidra!Memory), Ghidra!InOrder(s), NEW e \in Ghidra!Memory,
         \A x \in Ghidra!ToSet(s) : x < e
  PROVE  Ghidra!InOrder(Append(s, e))
<1>1. /\ Len(s) \in Nat /\ Len(Append(s, e)) = Len(s) + 1
      /\ \A i \in 1 .. Len(s) : Append(s, e)[i] = s[i]
      /\ Append(s, e)[Len(s) + 1] = e
  BY AppendAdds
<1>2. \A i \in 1 .. Len(s) : s[i] < e
  BY DEF Ghidra!ToSet
<1> SUFFICES ASSUME NEW i \in 1 .. Len(s) + 1, NEW j \in 1 .. Len(s) + 1, i < j
             PROVE  Append(s, e)[i] < Append(s, e)[j]
  BY <1>1 DEF Ghidra!InOrder
<1>3. i \in 1 .. Len(s)
  BY <1>1
<1>4. CASE j = Len(s) + 1
  BY <1>1, <1>2, <1>3, <1>4
<1>5. CASE j \in 1 .. Len(s)
  BY <1>1, <1>3, <1>5 DEF Ghidra!InOrder
<1> QED
  BY <1>1, <1>4, <1>5

LEMMA CodeIsOfMemory ==
  ASSUME QueryInv PROVE code \subseteq Nat /\ \A a \in code : a \in Ghidra!Memory /\ a + 1 <= Words
BY GhidraAssumption DEF QueryInv, ProgramTyped, Ghidra!Memory, Ghidra!Bounds

LEMMA DisassembleKeeps == QueryInv /\ Ghidra!Disassemble => QueryInv'
<1> SUFFICES ASSUME QueryInv, Ghidra!Disassemble PROVE QueryInv'
  OBVIOUS
<1>1. /\ UNCHANGED <<code, owner, match, question, args>> /\ UNCHANGED <<listed, miss>>
      /\ place = "disasm"
  BY DEF Ghidra!Disassemble, Ghidra!program, Ghidra!question
<1>2. RangeSoFar /\ question = "disasm" /\ ~Ghidra!Refuses /\ status = Ghidra!Running
  BY <1>1 DEF QueryInv, Answering, StatusAgrees, Ghidra!Modes
<1>3. /\ args[1] \in 0 .. Words /\ args[2] \in 0 .. Words /\ args[1] < args[2]
      /\ pos \in Nat /\ args[1] <= pos /\ pos <= args[2] /\ hits \in Seq(Ghidra!Memory)
  <2>1. args[1] \in 0 .. Words /\ args[2] \in 0 .. Words /\ args[1] < args[2]
    BY <1>2, ArgsOfModes DEF QueryInv
  <2> QED
    BY <1>2, <2>1 DEF RangeSoFar, QueryInv, AnswerTyped
<1>4. code \subseteq Nat /\ \A a \in code : a \in Ghidra!Memory /\ a + 1 <= Words
  BY CodeIsOfMemory
<1>5. CASE \E a \in Ghidra!NextInstruction : ~Ghidra!AtEnd(a)
  <2>1. PICK a \in Ghidra!NextInstruction :
          pos' = a + 1 /\ hits' = Append(hits, a) /\ UNCHANGED <<place, status>>
    BY <1>5 DEF Ghidra!Disassemble
  <2>2. PICK b \in Ghidra!NextInstruction : ~ (b >= args[2])
    BY <1>5 DEF Ghidra!AtEnd
  <2>3. /\ a \in code /\ a \in Nat /\ a >= pos
        /\ \A c \in code : (c < a + 1 <=> c < pos \/ c = a)
    BY <1>3, <1>4, <2>1, NextIsAlone
  <2>4. a < args[2]
    <3>1. b \in code /\ b >= pos /\ a <= b
      BY <2>1, <2>2 DEF Ghidra!NextInstruction
    <3> QED
      BY <1>3, <1>4, <2>2, <2>3, <3>1
  <2>5. a \in Ghidra!Memory
    BY <1>4, <2>3
  <2>6. Ghidra!ToSet(hits') = Ghidra!ToSet(hits) \cup {a} /\ hits' \in Seq(Ghidra!Memory)
    BY <1>3, <2>1, <2>5, AppendAdds
  <2>7. Ghidra!ToSet(hits) = {c \in code : args[1] <= c /\ c < pos}
    BY <1>2 DEF RangeSoFar
  <2>8. Ghidra!InOrder(hits')
    <3>1. ASSUME NEW x \in code, x < pos PROVE x < a
      BY <1>3, <1>4, <2>3, <3>1
    <3>2. \A x \in Ghidra!ToSet(hits) : x < a
      BY <2>7, <3>1
    <3> QED
      BY <1>2, <1>3, <2>1, <2>5, <3>2, AppendKeepsOrder DEF RangeSoFar
  <2>9. Ghidra!ToSet(hits') = {c \in code : args[1] <= c /\ c < pos'}
    <3>1. args[1] <= a
      BY <1>3, <2>3
    <3>2. \A c \in code : (c < pos' <=> c < pos \/ c = a)
      BY <2>1, <2>3
    <3> QED
      BY <2>3, <2>6, <2>7, <3>1, <3>2
  <2>10. RangeSoFar'
    <3>1. pos' \in args[1] .. args[2]
      BY <1>3, <2>1, <2>3, <2>4
    <3>2. Ghidra!ToSet(hits)' = Ghidra!ToSet(hits') /\ Ghidra!InOrder(hits)' = Ghidra!InOrder(hits')
      BY DEF Ghidra!ToSet, Ghidra!InOrder
    <3> QED
      BY <1>1, <2>8, <2>9, <3>1, <3>2 DEF RangeSoFar
  <2>11. ProgramTyped' /\ StatusAgrees' /\ Answered' /\ Ended'
    BY <1>1, <1>2, <2>1, ProgramStands, NoAnswerYet, NoEndYet
    DEF QueryInv, StatusAgrees, Ghidra!Running
  <2>12. AnswerTyped'
    BY <1>1, <1>4, <2>1, <2>3, <2>6, GhidraAssumption DEF QueryInv, AnswerTyped, Ghidra!Bounds
  <2>13. Answering'
    BY <1>1, <1>2, <2>1, <2>10 DEF Answering, Ghidra!Refuses, Ghidra!None, Ghidra!Modes
  <2> QED
    BY <2>11, <2>12, <2>13 DEF QueryInv
<1>6. CASE ~ \E a \in Ghidra!NextInstruction : ~Ghidra!AtEnd(a)
  <2>1. /\ place' = "over" /\ status' = (IF hits = <<>> THEN 1 ELSE 0) /\ UNCHANGED <<pos, hits>>
    BY <1>6 DEF Ghidra!Disassemble, Ghidra!Ends
  <2>2. ASSUME NEW c \in code, c < args[2] PROVE c < pos
    <3>1. SUFFICES ASSUME c >= pos PROVE FALSE
      BY <1>3, <1>4
    <3>2. PICK m \in Ghidra!NextInstruction : m <= c
      BY <1>4, <3>1, NextIsLeast
    <3>3. m >= args[2] /\ m \in Nat
      BY <1>4, <1>6 DEF Ghidra!AtEnd, Ghidra!NextInstruction
    <3> QED
      BY <1>3, <1>4, <2>2, <3>2, <3>3
  <2>3. {c \in code : args[1] <= c /\ c < args[2]} = {c \in code : args[1] <= c /\ c < pos}
    <3>1. ASSUME NEW c \in code, c < pos PROVE c < args[2]
      BY <1>3, <1>4, <3>1
    <3> QED
      BY <2>2, <3>1
  <2>4. /\ Ghidra!ToSet(hits) = {c \in code : args[1] <= c /\ c < args[2]}
        /\ Ghidra!InOrder(hits)
    BY <1>2, <2>3 DEF RangeSoFar
  <2>5. status' = 1 <=> Ghidra!ToSet(hits) = {}
    BY <1>3, <2>1, EmptyHasNone
  <2>6. Ghidra!DisasmListsTheRange'
    BY <1>1, <2>1, <2>4, <2>5 DEF Ghidra!DisasmListsTheRange, Ghidra!ToSet, Ghidra!InOrder
  <2>7. Answered'
    BY <1>1, <1>2, <2>6 DEF Answered, Ghidra!BatchAccountsForAll, Ghidra!ScanListsEachFunctionOnce
  <2>8. ProgramTyped' /\ AnswerTyped' /\ StatusAgrees' /\ Answering'
    BY <1>1, <2>1, ProgramStands
    DEF QueryInv, AnswerTyped, StatusAgrees, Answering, Ghidra!Running, Ghidra!Modes
  <2>9. Ended'
    BY <1>1, <1>2, <2>1, EndsOfOthers
  <2> QED
    BY <2>7, <2>8, <2>9 DEF QueryInv
<1> QED
  BY <1>5, <1>6

LEMMA ScanListingKeeps == QueryInv /\ Ghidra!Scan => QueryInv'
<1> SUFFICES ASSUME QueryInv, Ghidra!Scan PROVE QueryInv'
  OBVIOUS
<1>1. /\ UNCHANGED <<code, owner, match, question, args>> /\ UNCHANGED <<listed, miss>>
      /\ place = "scan"
  BY DEF Ghidra!Scan, Ghidra!program, Ghidra!question
<1>2. ScanSoFar /\ question = "scan" /\ ~Ghidra!Refuses /\ status = Ghidra!Running
  BY <1>1 DEF QueryInv, Answering, StatusAgrees, Ghidra!Modes
<1>3. /\ pos \in Nat /\ pos <= Words /\ listed = <<>> /\ Len(hits) \in Nat /\ Len(hits) <= pos
      /\ hits \in Seq(Ghidra!Memory)
      /\ Ghidra!ToSet(hits) = {a \in match : a < pos}
  BY <1>2 DEF ScanSoFar, QueryInv, AnswerTyped
<1>4. /\ code \subseteq Nat /\ match \subseteq code
      /\ \A a \in code : a \in Ghidra!Memory /\ a + 1 <= Words
  BY CodeIsOfMemory DEF QueryInv, ProgramTyped
<1>5. CASE Ghidra!NextInstruction # {}
  <2>1. PICK a \in Ghidra!NextInstruction :
          /\ pos' = a + 1 /\ UNCHANGED <<place, status>>
          /\ hits' = IF a \in match THEN Append(hits, a) ELSE hits
    BY <1>5 DEF Ghidra!Scan
  <2>2. /\ a \in code /\ a \in Nat /\ a >= pos
        /\ \A c \in code : (c < a + 1 <=> c < pos \/ c = a)
    BY <1>3, <1>4, <2>1, NextIsAlone
  <2>3. /\ Ghidra!ToSet(hits') = {c \in match : c < a + 1}
        /\ hits' \in Seq(Ghidra!Memory) /\ Len(hits') \in Nat /\ Len(hits') <= a + 1
    <3>1. CASE a \in match
      <4>1. /\ Ghidra!ToSet(hits') = Ghidra!ToSet(hits) \cup {a} /\ hits' \in Seq(Ghidra!Memory)
            /\ Len(hits') = Len(hits) + 1
        BY <1>3, <1>4, <2>1, <2>2, <3>1, AppendAdds
      <4>2. Ghidra!ToSet(hits') = {c \in match : c < a + 1}
        BY <1>3, <1>4, <2>2, <3>1, <4>1
      <4> QED
        BY <1>3, <2>2, <4>1, <4>2
    <3>2. CASE a \notin match
      <4>1. hits' = hits
        BY <2>1, <3>2
      <4>2. Ghidra!ToSet(hits') = {c \in match : c < a + 1}
        BY <1>3, <1>4, <2>2, <3>2, <4>1
      <4> QED
        BY <1>3, <2>2, <4>1, <4>2
    <3> QED
      BY <3>1, <3>2
  <2>4. ScanSoFar'
    <3>1. Ghidra!ToSet(hits)' = Ghidra!ToSet(hits')
      BY DEF Ghidra!ToSet
    <3>2. pos' \in 0 .. Words /\ Len(hits') <= pos'
      BY <1>3, <1>4, <2>1, <2>2, <2>3, GhidraAssumption DEF Ghidra!Bounds
    <3> QED
      BY <1>1, <1>3, <2>1, <2>3, <3>1, <3>2 DEF ScanSoFar
  <2>5. ProgramTyped' /\ StatusAgrees' /\ Answered' /\ Ended'
    BY <1>1, <1>2, <2>1, ProgramStands, NoAnswerYet, NoEndYet
    DEF QueryInv, StatusAgrees, Ghidra!Running
  <2>6. AnswerTyped'
    BY <1>1, <1>4, <2>1, <2>2, <2>3, GhidraAssumption DEF QueryInv, AnswerTyped, Ghidra!Bounds
  <2>7. Answering'
    BY <1>1, <1>2, <2>1, <2>4 DEF Answering, Ghidra!Refuses, Ghidra!None, Ghidra!Modes
  <2> QED
    BY <2>5, <2>6, <2>7 DEF QueryInv
<1>6. CASE Ghidra!NextInstruction = {}
  <2>1. place' = "enclosing" /\ pos' = 0 /\ UNCHANGED <<status, hits>>
    BY <1>6 DEF Ghidra!Scan, Ghidra!Goes
  <2>2. \A c \in match : c < pos
    BY <1>3, <1>4, <1>6, NextIsLeast
  <2>3. Ghidra!ToSet(hits) = match
    BY <1>3, <2>2
  <2>4. Ghidra!ToSet(listed') = {} /\ Ghidra!IsInjective(listed')
    BY <1>1, <1>3 DEF Ghidra!ToSet, Ghidra!IsInjective
  <2>5. EnclosingSoFar'
    <3>1. /\ Len(hits') <= Words /\ 0 \in 0 .. Len(hits')
          /\ \A i \in 1 .. 0 : FALSE
      BY <1>3, <2>1, GhidraAssumption DEF Ghidra!Bounds
    <3>2. /\ Ghidra!ToSet(hits)' = Ghidra!ToSet(hits) /\ Ghidra!ToSet(listed)' = {}
          /\ Ghidra!IsInjective(listed)'
      BY <2>1, <2>4 DEF Ghidra!ToSet, Ghidra!IsInjective
    <3>3. {Ghidra!Owner(hits[i]) : i \in 1 .. pos}' = {}
      BY <2>1, <3>1
    <3> QED
      BY <1>1, <2>1, <2>3, <3>1, <3>2, <3>3 DEF EnclosingSoFar
  <2>6. ProgramTyped' /\ StatusAgrees' /\ Answered' /\ Ended'
    BY <1>1, <1>2, <2>1, ProgramStands, NoAnswerYet, NoEndYet
    DEF QueryInv, StatusAgrees, Ghidra!Running
  <2>7. AnswerTyped'
    BY <1>1, <2>1, GhidraAssumption DEF QueryInv, AnswerTyped, Ghidra!Bounds
  <2>8. Answering'
    BY <1>1, <1>2, <2>1, <2>5 DEF Answering, Ghidra!Refuses, Ghidra!None, Ghidra!Modes
  <2> QED
    BY <2>6, <2>7, <2>8 DEF QueryInv
<1> QED
  BY <1>5, <1>6

LEMMA ListEnclosingKeeps == QueryInv /\ Ghidra!ListEnclosing => QueryInv'
<1> SUFFICES ASSUME QueryInv, Ghidra!ListEnclosing PROVE QueryInv'
  OBVIOUS
<1>1. /\ UNCHANGED <<code, owner, match, question, args>> /\ UNCHANGED <<hits, miss>>
      /\ place = "enclosing"
  BY DEF Ghidra!ListEnclosing, Ghidra!program, Ghidra!question
<1>2. EnclosingSoFar /\ question = "scan" /\ status = Ghidra!Running /\ ~Ghidra!Refuses
  BY <1>1 DEF QueryInv, Answering, StatusAgrees, Ghidra!Modes
<1>3. /\ hits \in Seq(Ghidra!Memory) /\ listed \in Seq(Functions)
      /\ Len(hits) \in Nat /\ Len(hits) <= Words /\ pos \in Nat /\ pos <= Len(hits)
      /\ Ghidra!ToSet(hits) = match /\ Ghidra!IsInjective(listed)
      /\ Ghidra!ToSet(listed) = {Ghidra!Owner(hits[i]) : i \in 1 .. pos} \ {NoFunction}
  BY <1>2 DEF EnclosingSoFar, QueryInv, AnswerTyped
<1>4. CASE pos < Len(hits)
  <2> DEFINE f == Ghidra!Owner(hits[pos + 1])
  <2>1. /\ pos' = pos + 1 /\ UNCHANGED <<place, status>>
        /\ listed' = IF f = NoFunction \/ Ghidra!Seen(f) THEN listed ELSE Append(listed, f)
    BY <1>4 DEF Ghidra!ListEnclosing
  <2>2. f \in Functions \cup {NoFunction}
    <3>1. hits[pos + 1] \in Ghidra!Memory
      BY <1>3, <1>4
    <3> QED
      BY <3>1 DEF QueryInv, ProgramTyped, Ghidra!Owner
  <2>3. /\ Ghidra!ToSet(listed') = (Ghidra!ToSet(listed) \cup {f}) \ {NoFunction}
        /\ listed' \in Seq(Functions) /\ Ghidra!IsInjective(listed')
    <3>1. NoFunction \notin Ghidra!ToSet(listed)
      BY <1>3
    <3>2. CASE f = NoFunction \/ Ghidra!Seen(f)
      BY <1>3, <2>1, <3>1, <3>2 DEF Ghidra!Seen
    <3>3. CASE f # NoFunction /\ ~Ghidra!Seen(f)
      <4>1. /\ listed' \in Seq(Functions) /\ Len(listed') = Len(listed) + 1
            /\ Ghidra!ToSet(listed') = Ghidra!ToSet(listed) \cup {f}
            /\ \A i \in 1 .. Len(listed) : listed'[i] = listed[i]
            /\ listed'[Len(listed) + 1] = f /\ Len(listed) \in Nat
        BY <1>3, <2>1, <2>2, <3>3, AppendAdds
      <4>2. /\ DOMAIN listed' = 1 .. Len(listed) \cup {Len(listed) + 1}
            /\ DOMAIN listed = 1 .. Len(listed)
        BY <1>3, <4>1
      <4>3. \A i \in 1 .. Len(listed) : listed[i] # f
        BY <3>3, <4>2 DEF Ghidra!Seen, Ghidra!ToSet
      <4>4. Ghidra!IsInjective(listed')
        BY <1>3, <4>1, <4>2, <4>3 DEF Ghidra!IsInjective
      <4> QED
        BY <3>1, <3>3, <4>1, <4>4
    <3> QED
      BY <3>2, <3>3
  <2>4. 1 .. pos' = 1 .. pos \cup {pos + 1} /\ pos' \in 0 .. Len(hits)
    BY <1>3, <1>4, <2>1
  <2>5. {Ghidra!Owner(hits[i]) : i \in 1 .. pos'} = {Ghidra!Owner(hits[i]) : i \in 1 .. pos} \cup {f}
    BY <2>4
  <2>6. EnclosingSoFar'
    <3>1. /\ Ghidra!ToSet(hits)' = match /\ Ghidra!ToSet(listed)' = Ghidra!ToSet(listed')
          /\ Ghidra!IsInjective(listed)' = Ghidra!IsInjective(listed')
      BY <1>1, <1>3 DEF Ghidra!ToSet, Ghidra!IsInjective
    <3>2. {Ghidra!Owner(hits[i]) : i \in 1 .. pos}' = {Ghidra!Owner(hits[i]) : i \in 1 .. pos'}
      BY <1>1 DEF Ghidra!Owner
    <3> QED
      BY <1>1, <1>3, <2>3, <2>4, <2>5, <3>1, <3>2 DEF EnclosingSoFar
  <2>7. ProgramTyped' /\ StatusAgrees' /\ Answered' /\ Ended'
    BY <1>1, <1>2, <2>1, ProgramStands, NoAnswerYet, NoEndYet
    DEF QueryInv, StatusAgrees, Ghidra!Running
  <2>8. AnswerTyped'
    BY <1>1, <1>3, <2>3, <2>4, GhidraAssumption DEF QueryInv, AnswerTyped, Ghidra!Bounds
  <2>9. Answering'
    BY <1>1, <1>2, <2>1, <2>6 DEF Answering, Ghidra!Refuses, Ghidra!None, Ghidra!Modes
  <2> QED
    BY <2>7, <2>8, <2>9 DEF QueryInv
<1>5. CASE ~ (pos < Len(hits))
  <2>1. place' = "over" /\ status' = (IF hits = <<>> THEN 1 ELSE 0) /\ UNCHANGED <<pos, listed>>
    BY <1>5 DEF Ghidra!ListEnclosing, Ghidra!Ends
  <2>2. pos = Len(hits) /\ DOMAIN hits = 1 .. pos
    BY <1>3, <1>5
  <2>3. {Ghidra!Owner(hits[i]) : i \in 1 .. pos} = {owner[a] : a \in match}
    <3>1. match = {hits[i] : i \in 1 .. pos} /\ \A i \in 1 .. pos : hits[i] \in Ghidra!Memory
      BY <1>3, <2>2 DEF Ghidra!ToSet
    <3>2. \A i \in 1 .. pos : Ghidra!Owner(hits[i]) = owner[hits[i]]
      BY <3>1 DEF Ghidra!Owner
    <3> QED
      BY <3>1, <3>2
  <2>4. Ghidra!ScanListsEachFunctionOnce'
    <3>1. /\ Ghidra!ToSet(hits)' = match /\ Ghidra!IsInjective(listed)'
          /\ Ghidra!ToSet(listed)' = {owner[a] : a \in match} \ {NoFunction}
      BY <1>1, <1>3, <2>1, <2>3 DEF Ghidra!ToSet, Ghidra!IsInjective
    <3>2. status' = 1 <=> match = {}
      BY <1>3, <2>1, EmptyHasNone
    <3> QED
      BY <1>1, <3>1, <3>2 DEF Ghidra!ScanListsEachFunctionOnce
  <2>5. Answered'
    BY <1>1, <1>2, <2>4 DEF Answered, Ghidra!BatchAccountsForAll, Ghidra!DisasmListsTheRange
  <2>6. ProgramTyped' /\ AnswerTyped' /\ StatusAgrees' /\ Answering'
    BY <1>1, <2>1, ProgramStands
    DEF QueryInv, AnswerTyped, StatusAgrees, Answering, Ghidra!Running, Ghidra!Modes
  <2>7. Ended'
    BY <1>1, <1>2, <2>1, EndsOfOthers
  <2> QED
    BY <2>5, <2>6, <2>7 DEF QueryInv
<1> QED
  BY <1>4, <1>5

-----------------------------------------------------------------------------
LEMMA QueryStands == QueryInv /\ UNCHANGED ghidraVars => QueryInv'
BY DEF QueryInv, ProgramTyped, AnswerTyped, StatusAgrees, Answering, Answered, Ended, BatchSoFar,
       DataSoFar, RangeSoFar, Ghidra!DataWords, Ghidra!None, Ghidra!RefusesTheMalformed,
       Ghidra!BatchBreaksAtMalformed, Ghidra!CallsNeedsItsFunction, Ghidra!DataPrintsTheWords,
       ScanSoFar, EnclosingSoFar, SizeOf, ghidraVars, Ghidra!Resolved, Ghidra!Owner, Ghidra!Refuses,
       Ghidra!BatchAccountsForAll, Ghidra!DisasmListsTheRange, Ghidra!ScanListsEachFunctionOnce

LEMMA QueryBegins == Ghidra!Init => QueryInv
<1> SUFFICES ASSUME Ghidra!Init PROVE QueryInv
  OBVIOUS
<1>1. status = Ghidra!Running /\ place = "start" /\ pos = 0 /\ hits = <<>> /\ listed = <<>> /\ miss = 0
  BY DEF Ghidra!Init
<1>2. ProgramTyped
  BY DEF Ghidra!Init, ProgramTyped
<1>3. AnswerTyped
  BY <1>1, GhidraAssumption DEF AnswerTyped, Ghidra!Bounds
<1>4. StatusAgrees /\ Answering
  BY <1>1 DEF StatusAgrees, Answering, Ghidra!Running, Ghidra!Modes
<1>5. Answered
  BY <1>1 DEF Answered, Ghidra!BatchAccountsForAll, Ghidra!DisasmListsTheRange,
              Ghidra!ScanListsEachFunctionOnce, Ghidra!Running
<1>6. Ended
  BY <1>1 DEF Ended, Ghidra!RefusesTheMalformed, Ghidra!BatchBreaksAtMalformed,
              Ghidra!CallsNeedsItsFunction, Ghidra!DataPrintsTheWords, Ghidra!Running
<1> QED
  BY <1>2, <1>3, <1>4, <1>5, <1>6 DEF QueryInv

LEMMA QueryInvKept == QueryInv /\ [ToolNext]_toolVars => QueryInv'
<1> SUFFICES ASSUME QueryInv, [ToolNext]_toolVars PROVE QueryInv'
  OBVIOUS
<1>1. CASE UNCHANGED ghidraVars
  BY <1>1, QueryStands
<1>2. CASE Ghidra!Next
  <2>1. CASE Ghidra!Over
    BY <2>1, QueryStands
    DEF Ghidra!Over, Ghidra!vars, Ghidra!program, Ghidra!question, Ghidra!answer, ghidraVars
  <2> QED
    BY <1>2, <2>1, DispatchKeeps, DecompileKeeps, DecompileOverKeeps, CallsKeeps, DataKeeps,
       DisassembleKeeps, ScanListingKeeps, ListEnclosingKeeps DEF Ghidra!Next
<1> QED
  BY <1>1, <1>2 DEF ToolNext, toolVars

LEMMA AnsweredInFull == QueryInv => QueryAnswersInFull
<1> SUFFICES ASSUME QueryInv PROVE QueryAnswersInFull
  OBVIOUS
<1>1. Ghidra!ToSet(hits) \subseteq Ghidra!Memory /\ Ghidra!ToSet(listed) \subseteq Functions
  BY EmptyHasNone DEF QueryInv, AnswerTyped
<1>2. Ghidra!TypeOK
  BY <1>1 DEF QueryInv, ProgramTyped, AnswerTyped, StatusAgrees, Ghidra!TypeOK
<1> QED
  BY <1>2 DEF QueryInv, Answered, Ended, QueryAnswersInFull, Ghidra!AnswersInFull

\* Each mode answers its question in full, whatever the program, its holes and the
\* command line: a batch accounts for every address, data prints the words asked for
\* up to the end of memory, a range lists its instructions, a scan each function
\* once.  The status is 2 for a malformed command line only, 3 where an address or a
\* word breaks the answer off, and 1 where a batch, calls, a range or a scan found
\* nothing at all (ghidra_query.py:30-181).
THEOREM QueryAlwaysAnswersInFull == ToolSpec => []QueryAnswersInFull
BY QueryBegins, QueryInvKept, AnsweredInFull, PTL DEF ToolSpec, ToolInit

\* The gate keeps its word as one of the two tools.
THEOREM GateAmongThem == ToolSpec => [](PassIsEarned /\ NamedUnlessMisled /\ PassHidesNoWait)
<1>1. ToolInit => Inv /\ CensusInv
  BY GateInitEstablishes, CensusInvHolds DEF ToolInit, GateInit
<1>2. [ToolNext]_toolVars => [GateNext]_<<gateVars, censusVars>>
  BY DEF ToolNext, toolVars
<1>3. Inv /\ CensusInv /\ [ToolNext]_toolVars => Inv' /\ CensusInv'
  BY <1>2, NextKeeps, CensusInvKept
<1>4. Inv /\ CensusInv => PassIsEarned /\ NamedUnlessMisled /\ PassHidesNoWait
  BY InvIsSound, NamesAreRight, AcceptedHidesNoWait
<1> QED
  BY <1>1, <1>3, <1>4, PTL DEF ToolSpec
=============================================================================
