---------------------------- MODULE Probes_proofs ----------------------------
(***************************************************************************)
(* Proofs about the probes of a running product, for any two legs and any  *)
(* length of the logs, and for any words, rows and fields: the products of *)
(* two legs are never alive together, and what a probe reports is what it  *)
(* saw of the product it ran against.                                      *)
(***************************************************************************)
EXTENDS Probes, SequenceTheorems, TLAPS

(***************************************************************************)
(* The inductive invariant: a product that lives is the current leg's, and *)
(* the probe does not go on to the next leg before it is gone.             *)
(***************************************************************************)
ProductsTyped == product \in [Legs -> {"none", "gone"} \cup Alive]
OnlyTheCurrentLives == \A leg \in Legs : product[leg] \in Alive => leg = Leg
GoneBeforeItsReport == at = "read" => product[Leg] = "gone"

Inv == ProductsTyped /\ OnlyTheCurrentLives /\ GoneBeforeItsReport

LEMMA InitEstablishes == Init => Inv
  BY DEF Init, Inv, ProductsTyped, OnlyTheCurrentLives, GoneBeforeItsReport, Alive

\* A step that leaves the products and the legs alone, and does not come to
\* the report.
LEMMA SameProducts ==
  ASSUME Inv, product' = product, todo' = todo, at' = "read" => at = "read"
  PROVE  Inv'
  BY DEF Inv, ProductsTyped, OnlyTheCurrentLives, GoneBeforeItsReport, Leg

\* A step that changes the current leg's product alone, not at its report.
LEMMA CurrentProductChanges ==
  ASSUME Inv, todo' = todo, at' # "read",
         NEW state \in {"none", "gone"} \cup Alive,
         product' = [product EXCEPT ![Leg] = state]
  PROVE  Inv'
  BY DEF Inv, ProductsTyped, OnlyTheCurrentLives, GoneBeforeItsReport, Leg

\* Without a living product any leg may be the current one.
LEMMA NoneLives ==
  ASSUME Inv, product[Leg] = "gone"
  PROVE  \A leg \in Legs : product[leg] \notin Alive
  BY DEF Inv, OnlyTheCurrentLives, Alive

LEMMA ProbeStepKeeps == Inv /\ ProbeStep => Inv'
<1> SUFFICES ASSUME Inv, ProbeStep PROVE Inv'
  OBVIOUS
<1>1. CASE Begin
  BY <1>1, SameProducts DEF Begin, Exit, products
<1>2. CASE StartLeg
  <2>1. CASE UNCHANGED products
    BY <1>2, <2>1, SameProducts DEF StartLeg, Exit, products
  <2>2. CASE product' = [product EXCEPT ![Leg] = "booting"] /\ todo' = todo /\ at' = "loop"
    BY <2>2, CurrentProductChanges DEF Alive
  <2> QED
    BY <1>2, <2>1, <2>2 DEF StartLeg
<1>3. CASE GivesUp
  BY <1>3, SameProducts DEF GivesUp, EndsLoop, products
<1>4. CASE Poll
  BY <1>4, SameProducts DEF Poll, EndsLoop, products
<1>5. CASE Connect
  BY <1>5, SameProducts DEF Connect, products
<1>6. CASE AskFrames
  BY <1>6, SameProducts DEF AskFrames, products
<1>7. CASE Shoot
  BY <1>7, SameProducts DEF Shoot, products
<1>8. CASE AskGuest
  BY <1>8, SameProducts DEF AskGuest, products
<1>9. CASE Quit
  <2>1. todo' = todo /\ at' = "wait"
    BY <1>9 DEF Quit
  <2>2. CASE product' = product
    BY <2>1, <2>2, SameProducts
  <2>3. CASE product' = [product EXCEPT ![Leg] = "leaving"]
    BY <2>1, <2>3, CurrentProductChanges DEF Alive
  <2> QED
    BY <1>9, <2>2, <2>3 DEF Quit
<1>10. CASE Wait
  <2>1. CASE product[Leg] = "gone"
    BY <1>10, <2>1 DEF Wait, Inv, ProductsTyped, OnlyTheCurrentLives, GoneBeforeItsReport, Leg
  <2>2. CASE product[Leg] # "gone"
    <3>1. product' = [product EXCEPT ![Leg] = "signalled"] /\ todo' = todo /\ at' = "terminate"
      BY <1>10, <2>2 DEF Wait
    <3> QED
      BY <3>1, CurrentProductChanges DEF Alive
  <2> QED
    BY <2>1, <2>2
<1>11. CASE WaitAgain
  BY <1>11 DEF WaitAgain, Unkillable, products, Inv, ProductsTyped, OnlyTheCurrentLives,
               GoneBeforeItsReport, Leg
<1>12. CASE ReadLog
  <2>1. \A leg \in Legs : product[leg] \notin Alive
    BY <1>12, NoneLives DEF ReadLog, Inv, GoneBeforeItsReport
  <2> QED
    BY <1>12, <2>1 DEF ReadLog, products, Inv, ProductsTyped, OnlyTheCurrentLives,
                       GoneBeforeItsReport
<1>13. CASE Judge
  BY <1>13, SameProducts DEF Judge, Exit, products
<1> QED
  BY <1>1, <1>2, <1>3, <1>4, <1>5, <1>6, <1>7, <1>8, <1>9, <1>10, <1>11, <1>12, <1>13
  DEF ProbeStep

LEMMA EnvironmentKeeps == Inv /\ Environment => Inv'
<1> SUFFICES ASSUME Inv, Environment PROVE Inv'
  OBVIOUS
<1>1. todo' = todo /\ at' = at
  BY DEF Environment, Boots, Announces, Presents, Stalls, Exits, OthersComeAndGo, probe
<1>2. CASE product' = product
  BY <1>1, <1>2, SameProducts
<1>3. ASSUME NEW state \in {"up", "stalled", "gone"}, Current,
             product' = [product EXCEPT ![Leg] = state]
      PROVE  Inv'
  <2>1. at' # "read"
    BY <1>1, <1>3 DEF Current, Inv, GoneBeforeItsReport, Alive
  <2> QED
    BY <1>1, <1>3, <2>1, CurrentProductChanges DEF Alive
<1> QED
  BY <1>2, <1>3
  DEF Environment, Boots, Announces, Presents, Stalls, Exits, OthersComeAndGo

LEMMA NextKeeps == Inv /\ [Next]_vars => Inv'
<1>1. Inv /\ UNCHANGED vars => Inv'
  BY SameProducts DEF vars, probe, products
<1> QED
  BY <1>1, ProbeStepKeeps, EnvironmentKeeps DEF Next, Ended

-----------------------------------------------------------------------------
\* However a leg ends or fails to end, its product is gone before the next leg's
\* is launched (probe_widescreen_pair.py:208-213).
THEOREM OneProductAlwaysAtATime == Spec => []OneProductAtATime
<1>1. Inv => OneProductAtATime
  BY DEF Inv, OnlyTheCurrentLives, OneProductAtATime
<1> QED
  BY <1>1, InitEstablishes, NextKeeps, PTL DEF Spec

-----------------------------------------------------------------------------
(***************************************************************************)
(* What the pair probe reports.  The types, with the sequences as such.    *)
(***************************************************************************)
Places == {"main", "start", "loop", "ask", "shoot", "guest", "quit", "wait", "terminate", "read",
           "judge", "refused", "raised", "single", "compared"}

\* The places of a leg that is being run, and those between legs.
InLeg == {"loop", "ask", "shoot", "guest", "quit", "wait", "terminate", "read"}
BetweenLegs == {"main", "start", "judge"}

LegResults == [reached : BOOLEAN, shot : BOOLEAN,
               note : {"", "never reached", "exited", "no telemetry"},
               verdict : {"none"} \cup Pictures]

\* The legs still to run and the results of those that are done make up a pair,
\* or the one leg of --leg.
LegsAgree ==
  /\ \/ todo = Both /\ results = <<>>
     \/ todo = <<Both[2]>> /\ Len(results) = 1
     \/ todo = <<>> /\ Len(results) \in 1 .. 2
     \/ (\E leg \in Legs : todo = <<leg>>) /\ results = <<>>
  /\ at \in InLeg \cup {"main", "start"} => todo # <<>>

ProbeTyped ==
  /\ at \in Places /\ raised \in BOOLEAN
  /\ client \in {"none", "own", "other"}
  /\ result \in LegResults /\ results \in Seq(LegResults)

FilesTyped ==
  /\ capture \in [Legs -> {"none", "old", "own", "other"}] /\ had \subseteq Legs
  /\ log \in Seq(Lines) /\ Len(log) <= MaxLines
  /\ stale \in BOOLEAN

WorldTyped ==
  /\ shown \in BOOLEAN /\ picture \in Pictures \cup {"none"}
  /\ other \in {"none", "foreign", "tekken3"} /\ port \in {"none", "own", "other"}

\* A leg that has come past its checkpoint took its shot there, or has a note,
\* or is on its way out with an exception; no exception comes to the report.
LegIsHonest ==
  /\ at = "shoot" => result.reached
  /\ at = "guest" => result.reached /\ result.shot
  /\ at \in {"quit", "wait", "terminate", "read"} =>
       raised \/ result.note # "" \/ (result.reached /\ result.shot)
  /\ at = "read" => ~raised
  /\ NoSilentLeg

\* The picture announced last is that of the last announcing line of the log.
\* While none is announced the log has no such line, or it is the stale one's.
LastWide(lines, width) ==
  \E i \in WideLines(lines) : lines[i] = width /\ \A j \in WideLines(lines) : j <= i

WidthAgrees ==
  /\ at = "main" => results = <<>>
  /\ at \in BetweenLegs => \A leg \in Legs : product[leg] \notin Alive
  /\ at \in InLeg => IF picture = "none"
                    THEN WideLines(log) = {} \/ (stale /\ LastWide(log, "wide"))
                    ELSE LastWide(log, picture)
  /\ VerdictIsSteadyState

\* A product announces nothing before it is up.
SilentWhileBooting == \A leg \in Legs : product[leg] = "booting" => picture = "none"

\* In a run of both legs a capture that was not there before is of a leg that
\* took its shot at the checkpoint.
Shot(r) == r.reached /\ r.shot
ShotsAgree ==
  Len(results) + Len(todo) = 2 =>
    \A i \in 1 .. 2 :
      \/ Both[i] \in had \/ capture[Both[i]] = "none"
      \/ i <= Len(results) /\ Shot(results[i])
      \/ i = Len(results) + 1 /\ Shot(result)

ReportInv ==
  /\ Inv /\ LegsAgree /\ ProbeTyped /\ FilesTyped /\ WorldTyped
  /\ LegIsHonest /\ WidthAgrees /\ SilentWhileBooting
  /\ ShotsAgree /\ ComparesWhatItShot

-----------------------------------------------------------------------------
\* The two legs of a pair.
LEMMA BothLegs ==
  /\ Both \in Seq(Legs) /\ Len(Both) = 2 /\ Both # <<>>
  /\ Head(Both) = Both[1] /\ Tail(Both) = <<Both[2]>>
  /\ Both[1] \in Legs /\ Both[2] \in Legs /\ Both[1] # Both[2]
  /\ Legs = {Both[1], Both[2]}
<1>1. Both \in Seq(Legs) /\ Len(Both) = 2 /\ Both[1] # Both[2] /\ Legs = {Both[1], Both[2]}
  BY LegsAssumption
<1>2. Both # <<>>
  BY <1>1
<1>3. Head(Both) = Both[1] /\ Tail(Both) \in Seq(Legs) /\ Len(Tail(Both)) = 1
      /\ Tail(Both)[1] = Both[2]
  BY <1>1, <1>2
<1>4. <<Both[2]>> \in Seq(Legs) /\ Len(<<Both[2]>>) = 1 /\ <<Both[2]>>[1] = Both[2]
  BY <1>1
<1>5. Tail(Both) = <<Both[2]>>
  <2> DEFINE last == <<Both[2]>>
  <2> HIDE DEF last
  <2>1. last \in Seq(Legs) /\ Len(last) = Len(Tail(Both))
        /\ \A k \in 1 .. Len(last) : last[k] = Tail(Both)[k]
    BY <1>3, <1>4 DEF last
  <2>2. Tail(Both) = last
    BY <1>3, <2>1, SeqEqual
  <2> QED
    BY <2>2 DEF last
<1> QED
  BY <1>1, <1>2, <1>3, <1>5

\* While a leg is run it is one of the legs, the next after those that are done.
LEMMA CurrentLeg ==
  ASSUME LegsAgree, todo # <<>>
  PROVE  /\ Leg \in Legs /\ Len(todo) \in 1 .. 2
         /\ Len(results) + Len(todo) = 2 => Leg = Both[Len(results) + 1] /\ Len(results) \in 0 .. 1
         /\ Len(todo) = 1 => Tail(todo) = <<>>
         /\ Len(todo) = 2 => todo = Both /\ results = <<>>
<1>1. CASE todo = Both /\ results = <<>>
  BY <1>1, BothLegs DEF Leg
<1>2. CASE todo = <<Both[2]>> /\ Len(results) = 1
  BY <1>2, BothLegs DEF Leg
<1>3. CASE (\E leg \in Legs : todo = <<leg>>) /\ results = <<>>
  BY <1>3, BothLegs DEF Leg
<1> QED
  BY <1>1, <1>2, <1>3 DEF LegsAgree

\* The verdict is the width of the last announcing line.
LEMMA VerdictIsLast ==
  ASSUME NEW lines \in Seq(Lines), NEW width, LastWide(lines, width)
  PROVE  Verdict(lines) = width
<1> DEFINE W == WideLines(lines)
<1>1. PICK i \in W : lines[i] = width /\ \A j \in W : j <= i
  BY DEF LastWide
<1>2. W \subseteq Int
  BY DEF WideLines
<1> HIDE DEF W
<1>3. \A x \in W : (\A y \in W : x >= y) <=> x = i
  BY <1>1, <1>2
<1>4. Max(W) = i
  BY <1>1, <1>3 DEF Max
<1> QED
  BY <1>1, <1>4 DEF Verdict, W

LEMMA NewLineIsLast ==
  ASSUME NEW lines \in Seq(Lines), NEW width \in Pictures
  PROVE  LastWide(Append(lines, width), width)
<1> DEFINE grown == Append(lines, width)
<1>1. grown \in Seq(Lines) /\ Len(grown) = Len(lines) + 1 /\ grown[Len(grown)] = width
  BY DEF Lines
<1> HIDE DEF grown
<1>2. Len(grown) \in WideLines(grown) /\ \A j \in WideLines(grown) : j <= Len(grown)
  BY <1>1 DEF WideLines
<1> QED
  BY <1>1, <1>2 DEF LastWide, grown

LEMMA OtherLineIsNot ==
  ASSUME NEW lines \in Seq(Lines), NEW line \in Lines \ Pictures
  PROVE  /\ WideLines(Append(lines, line)) = WideLines(lines)
         /\ \A width : LastWide(lines, width) => LastWide(Append(lines, line), width)
<1> DEFINE grown == Append(lines, line)
<1>1. /\ grown \in Seq(Lines) /\ Len(grown) = Len(lines) + 1 /\ grown[Len(grown)] = line
      /\ \A j \in 1 .. Len(lines) : grown[j] = lines[j]
  OBVIOUS
<1> HIDE DEF grown
<1>2. WideLines(grown) = WideLines(lines)
  BY <1>1 DEF WideLines
<1>3. \A j \in WideLines(lines) : grown[j] = lines[j]
  BY <1>1 DEF WideLines
<1> QED
  BY <1>2, <1>3 DEF LastWide, grown

-----------------------------------------------------------------------------
(***************************************************************************)
(* Each part of the invariant is kept by every step.                       *)
(***************************************************************************)
\* The verdict of a leg is the width its product announced last, and none if it
\* announced none, but for what a stale log says.
LEMMA VerdictOfLeg ==
  ASSUME ReportInv, at = "read"
  PROVE  /\ Verdict(log) \in {"none"} \cup Pictures
         /\ ~stale \/ picture # "none" => Verdict(log) = picture
<1>1. log \in Seq(Lines) /\ picture \in Pictures \cup {"none"}
  BY DEF ReportInv, FilesTyped, WorldTyped
<1>2. CASE picture # "none"
  <2>1. LastWide(log, picture)
    BY <1>2 DEF ReportInv, WidthAgrees, InLeg
  <2> QED
    BY <1>1, <1>2, <2>1, VerdictIsLast
<1>3. CASE picture = "none" /\ WideLines(log) = {}
  BY <1>3 DEF Verdict
<1>4. CASE picture = "none" /\ stale /\ LastWide(log, "wide")
  <2>1. Verdict(log) = "wide"
    BY <1>1, <1>4, VerdictIsLast
  <2> QED
    BY <1>4, <2>1 DEF Pictures
<1>5. picture = "none" => WideLines(log) = {} \/ (stale /\ LastWide(log, "wide"))
  BY DEF ReportInv, WidthAgrees, InLeg
<1> QED
  BY <1>2, <1>3, <1>4, <1>5

\* The probe and its world keep their types.
LEMMA TypesKept ==
  ASSUME ReportInv, Next \/ UNCHANGED vars
  PROVE  LegsAgree' /\ ProbeTyped' /\ WorldTyped'
<1>1. CASE Begin \/ Judge
  BY <1>1 DEF ReportInv, Begin, Judge, Exit, products, LegsAgree, ProbeTyped, WorldTyped, InLeg, Places
<1>2. CASE StartLeg
  BY <1>2 DEF ReportInv, StartLeg, Exit, products, LegsAgree, ProbeTyped, WorldTyped, InLeg, Places
<1>3. CASE GivesUp \/ Poll \/ AskGuest
  <2>1. /\ UNCHANGED <<todo, raised, client, results>> /\ UNCHANGED products
        /\ at \in InLeg /\ at' \in InLeg
    BY <1>3 DEF GivesUp, Poll, AskGuest, EndsLoop, InLeg
  <2>2. result' \in LegResults
    BY <1>3 DEF ReportInv, GivesUp, Poll, AskGuest, EndsLoop, Note, ProbeTyped, LegResults
  <2> QED
    BY <2>1, <2>2 DEF ReportInv, products, LegsAgree, ProbeTyped, WorldTyped, InLeg, Places
<1>4. CASE Connect \/ AskFrames
  BY <1>4 DEF ReportInv, Connect, AskFrames, products, LegsAgree, ProbeTyped, WorldTyped, InLeg,
     Places, LegResults
<1>5. CASE Shoot
  BY <1>5 DEF ReportInv, Shoot, products, LegsAgree, ProbeTyped, WorldTyped, InLeg, Places,
     LegResults
<1>6. CASE Quit
  BY <1>6 DEF ReportInv, Quit, LegsAgree, ProbeTyped, WorldTyped, InLeg, Places
<1>7. CASE Wait \/ WaitAgain
  BY <1>7 DEF ReportInv, Wait, WaitAgain, AfterWait, Unkillable, products, LegsAgree, ProbeTyped,
     WorldTyped, InLeg, Places
<1>8. CASE ReadLog
  <2>1. todo # <<>> /\ at = "read"
    BY <1>8 DEF ReportInv, ReadLog, LegsAgree, InLeg
  <2>2. LegsAgree'
    <3>1. CASE Len(todo) = 1
      <4>1. todo' = <<>> /\ at' = "judge"
        BY <1>8, <2>1, <3>1, CurrentLeg DEF ReportInv, ReadLog
      <4>2. Len(results) = 0 \/ Len(results) = 1
        BY <2>1, <3>1, BothLegs DEF ReportInv, LegsAgree
      <4>3. Len(results') = 1 \/ Len(results') = 2
        BY <1>8, <4>2 DEF ReportInv, ReadLog, ProbeTyped
      <4> QED
        BY <4>1, <4>3 DEF LegsAgree, InLeg
    <3>2. CASE Len(todo) = 2
      <4>1. todo = Both /\ results = <<>>
        BY <2>1, <3>2, CurrentLeg DEF ReportInv
      <4>2. todo' = <<Both[2]>> /\ Len(results') = 1
        BY <1>8, <4>1, BothLegs DEF ReadLog
      <4> QED
        BY <4>2 DEF LegsAgree
    <3> QED
      BY <2>1, <3>1, <3>2, CurrentLeg DEF ReportInv
  <2>3. Verdict(log) \in {"none"} \cup Pictures
    BY <2>1, VerdictOfLeg
  <2>4. [result EXCEPT !.verdict = Verdict(log)] \in LegResults
    BY <2>3 DEF ReportInv, ProbeTyped, LegResults
  <2>5. results' \in Seq(LegResults) /\ NoResult \in LegResults
    <3>1. results' = Append(results, [result EXCEPT !.verdict = Verdict(log)])
      BY <1>8 DEF ReadLog
    <3>2. results \in Seq(LegResults)
      BY DEF ReportInv, ProbeTyped
    <3>3. NoResult \in LegResults
      BY DEF NoResult, LegResults
    <3> QED
      BY <2>4, <3>1, <3>2, <3>3
  <2>6. ProbeTyped' /\ WorldTyped'
    BY <1>8, <2>5 DEF ReportInv, ReadLog, products, ProbeTyped, WorldTyped, Places
  <2> QED
    BY <2>2, <2>6
<1>9. CASE Boots \/ Announces \/ Presents
  BY <1>9 DEF ReportInv, Boots, Announces, Presents, probe, LegsAgree, ProbeTyped, WorldTyped
<1>10. CASE Stalls \/ Exits \/ OthersComeAndGo
  BY <1>10 DEF ReportInv, Stalls, Exits, OthersComeAndGo, probe, LegsAgree, ProbeTyped, WorldTyped
<1>11. CASE UNCHANGED vars
  BY <1>11 DEF ReportInv, vars, probe, products, LegsAgree, ProbeTyped, WorldTyped
<1> QED
  BY <1>1, <1>2, <1>3, <1>4, <1>5, <1>6, <1>7, <1>8, <1>9, <1>10, <1>11
     DEF Next, ProbeStep, Environment, Ended

\* Captures and logs keep their types; nobody but the product of the leg writes
\* its log.
LEMMA FilesKept ==
  ASSUME ReportInv, Next \/ UNCHANGED vars
  PROVE  FilesTyped'
<1> USE DEF ReportInv
<1>1. CASE UNCHANGED <<files, history>>
  BY <1>1 DEF files, history, FilesTyped
<1>2. CASE Begin \/ GivesUp \/ Poll \/ Connect \/ AskFrames \/ AskGuest \/ WaitAgain \/ Judge
  BY <1>1, <1>2 DEF Begin, GivesUp, Poll, Connect, AskFrames, AskGuest, WaitAgain, Judge
<1>3. CASE StartLeg
  <2>1. CASE UNCHANGED <<log, stale>>
    BY <1>3, <2>1 DEF StartLeg, FilesTyped
  <2>2. CASE log' \in {<<>>, <<"wide">>} /\ stale' = (log' # <<>>)
    <3>1. /\ <<>> \in Seq(Lines) /\ Len(<<>>) = 0
          /\ <<"wide">> \in Seq(Lines) /\ Len(<<"wide">>) = 1
      BY DEF Lines, Pictures
    <3>2. MaxLines \in Nat /\ 1 <= MaxLines
      BY MaxLinesAssumption
    <3>3. log' \in Seq(Lines) /\ Len(log') <= MaxLines
      <4>1. CASE log' = <<>>
        BY <3>1, <3>2, <4>1
      <4>2. CASE log' = <<"wide">>
        BY <3>1, <3>2, <4>2
      <4> QED
        BY <2>2, <4>1, <4>2
    <3>4. stale' \in BOOLEAN
      BY <2>2, Zenon
    <3> QED
      BY <1>3, <3>3, <3>4 DEF StartLeg, FilesTyped
  <2> QED
    BY <1>3, <2>1, <2>2 DEF StartLeg
<1>4. CASE Shoot
  BY <1>4 DEF Shoot, history, FilesTyped, ProbeTyped
<1>5. CASE Quit \/ Wait \/ Stalls \/ Exits \/ Presents \/ OthersComeAndGo \/ UNCHANGED vars
  BY <1>1, <1>5 DEF Quit, Wait, Stalls, Exits, Presents, OthersComeAndGo, vars
<1>6. CASE ReadLog
  BY <1>6, MaxLinesAssumption DEF ReadLog, history, FilesTyped
<1>7. CASE Boots
  <2>1. UNCHANGED <<capture, had>>
    BY <1>7 DEF Boots
  <2>2. CASE log' = <<>> /\ stale' = FALSE
    <3>1. <<>> \in Seq(Lines) /\ Len(<<>>) = 0 /\ 0 <= MaxLines
      BY MaxLinesAssumption
    <3> QED
      BY <2>1, <2>2, <3>1 DEF FilesTyped
  <2>3. CASE UNCHANGED <<log, stale>>
    BY <2>1, <2>3 DEF FilesTyped
  <2> QED
    BY <1>7, <2>2, <2>3 DEF Boots
<1>8. CASE Announces
  <2>1. PICK line \in Lines : log' = Append(log, line)
    BY <1>8 DEF Announces
  <2>2. log' \in Seq(Lines) /\ Len(log') <= MaxLines
    BY <1>8, <2>1, MaxLinesAssumption DEF Announces, FilesTyped
  <2> QED
    BY <1>8, <2>2 DEF Announces, history, FilesTyped
<1> QED
  BY <1>2, <1>3, <1>4, <1>5, <1>6, <1>7, <1>8 DEF Next, ProbeStep, Environment, Ended

\* A leg comes to its report with its shot or with a note.
LEMMA HonestyKept ==
  ASSUME ReportInv, Next \/ UNCHANGED vars
  PROVE  LegIsHonest'
<1> USE DEF ReportInv
<1>1. CASE Begin \/ StartLeg \/ Connect \/ Judge
  BY <1>1 DEF Begin, StartLeg, Connect, Judge, Exit, LegIsHonest, NoSilentLeg
<1>2. CASE GivesUp \/ Poll \/ AskFrames
  BY <1>2 DEF GivesUp, Poll, AskFrames, EndsLoop, Note, LegIsHonest, NoSilentLeg, ProbeTyped,
              LegResults
<1>3. CASE Shoot \/ AskGuest \/ Quit
  BY <1>3 DEF Shoot, AskGuest, Quit, Note, LegIsHonest, NoSilentLeg, ProbeTyped, LegResults
<1>4. CASE Wait \/ WaitAgain
  <2>1. UNCHANGED <<raised, result, results>> /\ (at' = "read" => ~raised)
        /\ at \in {"wait", "terminate"} /\ at' \in {"read", "raised", "terminate"}
    BY <1>4 DEF Wait, WaitAgain, AfterWait, Unkillable
  <2> QED
    BY <2>1 DEF LegIsHonest, NoSilentLeg
<1>5. CASE ReadLog
  <2> DEFINE report == [result EXCEPT !.verdict = Verdict(log)]
  <2>1. results' = Append(results, report) /\ at' \in {"judge", "start"}
    BY <1>5 DEF ReadLog
  <2>2. report.note = "" => report.reached /\ report.shot
    BY <1>5 DEF ReadLog, LegIsHonest, ProbeTyped, LegResults
  <2>3. report \in LegResults /\ results \in Seq(LegResults)
    BY <1>5, VerdictOfLeg DEF ReadLog, ProbeTyped, LegResults
  <2> HIDE DEF report
  <2>4. \A i \in DOMAIN results' :
          \/ i \in DOMAIN results /\ results'[i] = results[i]
          \/ results'[i] = report
    BY <2>1, <2>3
  <2>5. NoSilentLeg'
    BY <2>2, <2>4 DEF NoSilentLeg, LegIsHonest
  <2> QED
    BY <2>1, <2>5 DEF LegIsHonest
<1>6. CASE Environment \/ UNCHANGED vars
  <2>1. UNCHANGED probe
    BY <1>6 DEF Environment, Boots, Announces, Presents, Stalls, Exits, OthersComeAndGo, vars
  <2> QED
    BY <2>1 DEF probe, LegIsHonest, NoSilentLeg
<1> QED
  BY <1>1, <1>2, <1>3, <1>4, <1>5, <1>6 DEF Next, ProbeStep, Ended

\* A step within a leg that leaves the log and the picture alone.
LEMMA SameWidth ==
  ASSUME ReportInv, at \in InLeg, at' \in InLeg \cup {"raised"},
         UNCHANGED <<log, stale, picture>>
  PROVE  WidthAgrees'
<1>1. at' \notin BetweenLegs /\ at' \notin {"main", "start", "judge"}
  BY DEF InLeg, BetweenLegs
<1>2. IF picture' = "none"
      THEN WideLines(log') = {} \/ (stale' /\ LastWide(log', "wide"))
      ELSE LastWide(log', picture')
  BY DEF ReportInv, WidthAgrees
<1> QED
  BY <1>1, <1>2 DEF WidthAgrees, VerdictIsSteadyState

\* A product that lives is that of a leg that is being run.
LEMMA LivesInLeg ==
  ASSUME ReportInv, Current
  PROVE  at \in InLeg /\ Leg \in Legs
<1>1. Leg \in Legs
  BY CurrentLeg DEF ReportInv, Current
<1>2. at \notin BetweenLegs
  BY <1>1 DEF ReportInv, WidthAgrees, Current
<1> QED
  BY <1>1, <1>2 DEF ReportInv, ProbeTyped, Places, InLeg, BetweenLegs, Current, Over

\* The width a leg reports is the one announced last.
LEMMA WidthKept ==
  ASSUME ReportInv, Next \/ UNCHANGED vars
  PROVE  WidthAgrees'
<1>1. CASE Begin \/ Judge
  BY <1>1 DEF ReportInv, Begin, Judge, Exit, products, files, WidthAgrees, VerdictIsSteadyState,
              InLeg, BetweenLegs
<1>2. CASE StartLeg
  <2>1. CASE at' = "refused"
    BY <2>1 DEF WidthAgrees, VerdictIsSteadyState, InLeg, BetweenLegs
  <2>2. CASE at' = "loop"
    <3>1. picture' = "none" /\ log' \in {<<>>, <<"wide">>} /\ stale' = (log' # <<>>)
      BY <1>2, <2>2 DEF StartLeg, Exit
    <3>2. WideLines(log') = {} \/ (stale' /\ LastWide(log', "wide"))
      <4>1. CASE log' = <<>>
        BY <4>1 DEF WideLines
      <4>2. CASE log' = <<"wide">>
        <5>1. LastWide(log', "wide")
          BY <4>2 DEF LastWide, WideLines, Pictures
        <5>2. <<"wide">> # <<>>
          OBVIOUS
        <5> QED
          BY <3>1, <4>2, <5>1, <5>2
      <4> QED
        BY <3>1, <4>1, <4>2
    <3> QED
      BY <2>2, <3>1, <3>2 DEF WidthAgrees, VerdictIsSteadyState, InLeg, BetweenLegs
  <2> QED
    BY <1>2, <2>1, <2>2 DEF StartLeg, Exit
<1>3. CASE GivesUp \/ Poll \/ Connect \/ AskFrames \/ Shoot \/ AskGuest \/ WaitAgain
  <2>1. /\ at \in InLeg /\ at' \in InLeg \cup {"raised"}
        /\ UNCHANGED <<log, stale, picture>>
    BY <1>3 DEF GivesUp, Poll, Connect, AskFrames, Shoot, AskGuest, WaitAgain, AfterWait,
                Unkillable, EndsLoop, InLeg, files, products, history
  <2> QED
    BY <2>1, SameWidth
<1>4. CASE Quit \/ Wait
  <2>1. /\ at \in InLeg /\ at' \in InLeg \cup {"raised"}
        /\ UNCHANGED <<log, stale, picture>>
    BY <1>4 DEF Quit, Wait, AfterWait, InLeg, files, history
  <2> QED
    BY <2>1, SameWidth
<1>5. CASE ReadLog
  <2> DEFINE report == [result EXCEPT !.verdict = Verdict(log)]
  <2>1. results' = Append(results, report) /\ at' \in {"judge", "start"} /\ picture' = picture
        /\ stale' = stale /\ product' = product
    BY <1>5 DEF ReadLog, products, history
  <2>2. ~stale \/ picture # "none" => report.verdict = picture
    BY <1>5, VerdictOfLeg DEF ReadLog, ReportInv, ProbeTyped, LegResults
  <2>3. results \in Seq(LegResults) /\ report \in LegResults
    BY <1>5, VerdictOfLeg DEF ReadLog, ReportInv, ProbeTyped, LegResults
  <2> HIDE DEF report
  <2>4. Last(results') = report
    BY <2>1, <2>3 DEF Last
  <2>5. \A leg \in Legs : product'[leg] \notin Alive
    BY <1>5, <2>1, NoneLives DEF ReadLog, ReportInv, Inv, GoneBeforeItsReport
  <2> QED
    BY <2>1, <2>2, <2>4, <2>5 DEF WidthAgrees, VerdictIsSteadyState, InLeg
<1>6. CASE Boots
  <2>1. at \in InLeg /\ at' = at /\ picture' = picture
    BY <1>6, LivesInLeg DEF Boots, probe
  <2>2. CASE UNCHANGED <<log, stale>>
    BY <2>1, <2>2, SameWidth
  <2>3. CASE log' = <<>>
    <3>1. picture' = "none"
      BY <1>6, <2>1, LivesInLeg DEF Boots, ReportInv, SilentWhileBooting
    <3>2. WideLines(log') = {}
      BY <2>3 DEF WideLines
    <3> QED
      BY <2>1, <3>1, <3>2 DEF WidthAgrees, VerdictIsSteadyState, InLeg, BetweenLegs
  <2> QED
    BY <1>6, <2>2, <2>3 DEF Boots
<1>7. CASE Announces
  <2>1. at \in InLeg /\ at' = at /\ log \in Seq(Lines) /\ stale' = stale
    BY <1>7, LivesInLeg DEF Announces, probe, history, ReportInv, FilesTyped
  <2>2. PICK line \in Lines : /\ picture' = (IF line \in Pictures THEN line ELSE picture)
                              /\ log' = Append(log, line)
    BY <1>7 DEF Announces
  <2>3. CASE line \in Pictures
    BY <2>1, <2>2, <2>3, NewLineIsLast DEF WidthAgrees, VerdictIsSteadyState, InLeg, BetweenLegs,
                                           Pictures
  <2>4. CASE line \notin Pictures
    <3>1. picture' = picture /\ WideLines(log') = WideLines(log)
          /\ \A width : LastWide(log, width) => LastWide(log', width)
      BY <2>1, <2>2, <2>4, OtherLineIsNot
    <3> QED
      BY <2>1, <3>1 DEF ReportInv, WidthAgrees, VerdictIsSteadyState, InLeg, BetweenLegs
  <2> QED
    BY <2>3, <2>4
<1>8. CASE Presents \/ Stalls \/ Exits
  <2>1. Current /\ at' = at /\ UNCHANGED <<log, stale, picture>>
    BY <1>8 DEF Presents, Stalls, Exits, probe, files, history
  <2> QED
    BY <2>1, LivesInLeg, SameWidth
<1>9. CASE OthersComeAndGo \/ UNCHANGED vars
  <2>1. UNCHANGED <<at, results, log, stale, product, picture>>
    BY <1>9 DEF OthersComeAndGo, vars, probe, files, products, history
  <2> QED
    BY <2>1 DEF ReportInv, WidthAgrees, VerdictIsSteadyState
<1> QED
  BY <1>1, <1>2, <1>3, <1>4, <1>5, <1>6, <1>7, <1>8, <1>9
     DEF Next, ProbeStep, Environment, Ended

\* Only StartLeg launches a product, and only one that is up announces.
LEMMA SilenceKept ==
  ASSUME ReportInv, Next \/ UNCHANGED vars
  PROVE  SilentWhileBooting'
<1> USE DEF ReportInv, SilentWhileBooting
<1>1. CASE picture' = picture /\ product' = product
  BY <1>1
<1>2. CASE Begin \/ GivesUp \/ Poll \/ Connect \/ AskFrames \/ Shoot \/ AskGuest \/ WaitAgain
           \/ ReadLog \/ Judge \/ Presents \/ OthersComeAndGo \/ UNCHANGED vars
  BY <1>1, <1>2 DEF Begin, GivesUp, Poll, Connect, AskFrames, Shoot, AskGuest, WaitAgain, ReadLog,
     Judge, Presents, OthersComeAndGo, vars, products
<1>3. CASE StartLeg
  BY <1>1, <1>3 DEF StartLeg, products
<1>4. ASSUME NEW state \in {"up", "stalled", "gone", "leaving", "signalled"}, picture' = picture,
             product' = [product EXCEPT ![Leg] = state]
      PROVE  SilentWhileBooting'
  BY <1>4 DEF Inv, ProductsTyped
<1>5. CASE Quit \/ Wait \/ Boots \/ Stalls \/ Exits
  BY <1>1, <1>4, <1>5 DEF Quit, Wait, Boots, Stalls, Exits
<1>6. CASE Announces
  <2>1. \A leg \in Legs : product'[leg] # "booting"
    BY <1>6 DEF Announces, Inv, OnlyTheCurrentLives, Alive
  <2> QED
    BY <2>1
<1> QED
  BY <1>2, <1>3, <1>5, <1>6 DEF Next, ProbeStep, Environment, Ended

\* The captures are those of earlier invocations and of shots.
LEMMA ShotsKept ==
  ASSUME ReportInv, Next \/ UNCHANGED vars
  PROVE  ShotsAgree'
<1> USE DEF ReportInv
<1>1. CASE UNCHANGED <<todo, result, results, capture, had>>
  BY <1>1 DEF ShotsAgree
<1>2. CASE Begin \/ StartLeg \/ Connect \/ Quit \/ Wait \/ WaitAgain \/ Judge \/ UNCHANGED vars
  BY <1>1, <1>2 DEF Begin, StartLeg, Connect, Quit, Wait, WaitAgain, Judge, Exit, files, vars,
                    probe, history
<1>3. CASE Environment
  BY <1>1, <1>3 DEF Environment, Boots, Announces, Presents, Stalls, Exits, OthersComeAndGo, probe,
                    files, history
<1>4. CASE GivesUp \/ Poll \/ AskFrames \/ AskGuest
  <2>1. UNCHANGED <<todo, results, capture, had>> /\ (Shot(result) => Shot(result'))
    BY <1>4 DEF GivesUp, Poll, AskFrames, AskGuest, EndsLoop, files, history, Shot, ProbeTyped,
              LegResults
  <2> QED
    BY <2>1 DEF ShotsAgree
<1>5. CASE Shoot
  <2>1. UNCHANGED <<todo, results, had>> /\ todo # <<>>
    BY <1>5 DEF Shoot, LegsAgree, InLeg, history
  <2>2. CASE capture' = capture /\ result' = result
    BY <1>1, <2>1, <2>2
  <2>3. CASE capture' \in {capture, [capture EXCEPT ![Leg] = client]} /\ Shot(result')
    <3> SUFFICES ASSUME Len(results) + Len(todo) = 2, NEW i \in 1 .. 2
                 PROVE  \/ Both[i] \in had \/ capture'[Both[i]] = "none"
                        \/ i <= Len(results) /\ Shot(results[i])
                        \/ i = Len(results) + 1 /\ Shot(result')
      BY <2>1 DEF ShotsAgree
    <3>1. Leg = Both[Len(results) + 1] /\ Len(results) \in 0 .. 1
      BY <2>1, CurrentLeg
    <3>2. CASE i = Len(results) + 1
      BY <2>3, <3>2
    <3>3. CASE i # Len(results) + 1
      <4>1. Both[i] # Leg
        <5>1. CASE Len(results) = 0
          BY <3>1, <3>3, <5>1, BothLegs
        <5>2. CASE Len(results) = 1
          BY <3>1, <3>3, <5>2, BothLegs
        <5> QED
          BY <3>1, <5>1, <5>2
      <4>2. capture'[Both[i]] = capture[Both[i]]
        BY <2>3, <4>1, BothLegs DEF FilesTyped
      <4> QED
        BY <3>3, <4>2 DEF ShotsAgree
    <3> QED
      BY <3>2, <3>3
  <2>4. Shot(result') \/ (capture' = capture /\ result' = result)
    BY <1>5 DEF Shoot, Shot, LegIsHonest, ProbeTyped, LegResults
  <2> QED
    BY <1>5, <2>2, <2>3, <2>4 DEF Shoot
<1>6. CASE ReadLog
  <2> DEFINE report == [result EXCEPT !.verdict = Verdict(log)]
  <2>1. /\ results' = Append(results, report) /\ todo' = Tail(todo)
        /\ UNCHANGED <<capture, had>> /\ todo # <<>>
    BY <1>6 DEF ReadLog, LegsAgree, InLeg, history
  <2>2. results \in Seq(LegResults) /\ report \in LegResults /\ (Shot(result) => Shot(report))
    BY <1>6, VerdictOfLeg DEF ReadLog, ProbeTyped, LegResults, Shot
  <2> HIDE DEF report
  <2>3. /\ Len(results') = Len(results) + 1 /\ Len(results) \in Nat
        /\ results'[Len(results) + 1] = report
        /\ \A k \in 1 .. Len(results) : results'[k] = results[k]
    BY <2>1, <2>2
  <2>4. Len(todo') = Len(todo) - 1 /\ Len(todo) \in Nat
    <3>1. CASE Len(todo) = 1
      BY <2>1, <3>1, CurrentLeg
    <3>2. CASE Len(todo) = 2
      BY <2>1, <3>2, CurrentLeg, BothLegs
    <3> QED
      BY <2>1, <3>1, <3>2, CurrentLeg
  <2> SUFFICES ASSUME Len(results') + Len(todo') = 2, NEW i \in 1 .. 2
               PROVE  \/ Both[i] \in had \/ capture[Both[i]] = "none"
                      \/ i <= Len(results') /\ Shot(results'[i])
                      \/ i = Len(results') + 1 /\ Shot(result')
    BY <2>1 DEF ShotsAgree
  <2>5. Len(results) + Len(todo) = 2
    BY <2>3, <2>4
  <2>6. CASE Both[i] \in had \/ capture[Both[i]] = "none"
    BY <2>6
  <2>7. CASE i <= Len(results) /\ Shot(results[i])
    BY <2>3, <2>7
  <2>8. CASE i = Len(results) + 1 /\ Shot(result)
    BY <2>2, <2>3, <2>8
  <2> QED
    BY <2>5, <2>6, <2>7, <2>8 DEF ShotsAgree
<1> QED
  BY <1>2, <1>3, <1>4, <1>5, <1>6 DEF Next, ProbeStep, Ended

\* Captures are compared of a pair of results only.
LEMMA ComparisonKept ==
  ASSUME ReportInv, Next \/ UNCHANGED vars
  PROVE  ComparesWhatItShot'
<1>1. CASE at' # "compared"
  BY <1>1 DEF ComparesWhatItShot
<1>2. CASE Judge /\ at' = "compared"
  <2>1. /\ Len(results) = 2 /\ UNCHANGED <<results, had>>
        /\ \A leg \in Legs : capture[leg] # "none"
    BY <1>2 DEF Judge, Exit, IsFile, history
  <2>2. Len(todo) = 0
    BY <1>2, <2>1, BothLegs DEF ReportInv, LegsAgree, Judge
  <2>3. \A i \in 1 .. 2 : Both[i] \in had \/ Shot(results[i])
    <3> SUFFICES ASSUME NEW i \in 1 .. 2 PROVE Both[i] \in had \/ Shot(results[i])
      OBVIOUS
    <3>1. capture[Both[i]] # "none"
      BY <2>1, BothLegs
    <3> QED
      BY <2>1, <2>2, <3>1 DEF ReportInv, ShotsAgree
  <2> QED
    BY <2>1, <2>3 DEF ComparesWhatItShot, Shot
<1>3. CASE at = "compared" /\ UNCHANGED <<at, results, had>>
  BY <1>3 DEF ReportInv, ComparesWhatItShot
<1>4. \/ at' # "compared" \/ (Judge /\ at' = "compared")
      \/ (at = "compared" /\ UNCHANGED <<at, results, had>>)
  BY DEF Next, ProbeStep, Environment, Ended, Begin, StartLeg, Exit, GivesUp, Poll, Connect,
         AskFrames, Shoot, AskGuest, EndsLoop, Quit, Wait, AfterWait, WaitAgain, Unkillable, ReadLog,
         Judge, Boots, Announces, Presents, Stalls, Exits, OthersComeAndGo, vars, probe,
         history
<1> QED
  BY <1>1, <1>2, <1>3, <1>4

LEMMA ReportInvKept == ReportInv /\ [Next]_vars => ReportInv'
BY NextKeeps, TypesKept, FilesKept, HonestyKept, WidthKept, SilenceKept, ShotsKept, ComparisonKept
   DEF ReportInv

LEMMA ReportInvHolds == Init => ReportInv
<1> SUFFICES ASSUME Init PROVE ReportInv
  OBVIOUS
<1>1. LegsAgree
  BY BothLegs DEF Init, LegsAgree
<1>2. ProbeTyped /\ FilesTyped /\ WorldTyped
  <2>1. log = <<>> /\ results = <<>> /\ result = NoResult /\ at = "main"
    BY DEF Init
  <2>2. NoResult \in LegResults
    BY DEF NoResult, LegResults
  <2>3. log \in Seq(Lines) /\ Len(log) <= MaxLines
    BY <2>1, MaxLinesAssumption
  <2>4. \A leg \in Legs : capture[leg] \in {"none", "old"}
    BY DEF Init
  <2>5. capture \in [Legs -> {"none", "old", "own", "other"}]
    BY <2>4 DEF Init
  <2>6. FilesTyped
    BY <2>3, <2>4, <2>5 DEF Init, FilesTyped
  <2>7. results \in Seq(LegResults)
    BY <2>1
  <2>8. ProbeTyped /\ WorldTyped
    BY <2>1, <2>2, <2>7 DEF Init, ProbeTyped, WorldTyped, Places
  <2> QED
    BY <2>6, <2>8
<1>3. LegIsHonest /\ WidthAgrees /\ SilentWhileBooting /\ ComparesWhatItShot
  BY DEF Init, LegIsHonest, NoSilentLeg, SilentWhileBooting, WidthAgrees, VerdictIsSteadyState, ComparesWhatItShot,
         InLeg, BetweenLegs, Alive
<1>4. ShotsAgree
  <2>1. \A i \in 1 .. 2 : Both[i] \in Legs
    BY BothLegs
  <2> QED
    BY <2>1 DEF Init, ShotsAgree
<1> QED
  BY <1>1, <1>2, <1>3, <1>4, InitEstablishes DEF ReportInv

\* What the pair probe reports, as far as earlier invocations left nothing: no leg
\* ends in silence, each width is the one its own product announced last, none if
\* it announced none and opened its log, and no capture is compared that was
\* neither shot at the checkpoint nor left by an earlier invocation (run_leg,
\* classify_wide, main).
THEOREM PairReportsWhatItSaw == Spec => []ReportsWhatItSaw
<1>1. ReportInv => ReportsWhatItSaw
  <2> SUFFICES ASSUME ReportInv PROVE TypeOK
    BY DEF ReportInv, ReportsWhatItSaw, LegIsHonest, WidthAgrees
  <2>1. todo \in {Both, <<>>} \cup {<<leg>> : leg \in Legs}
    BY BothLegs DEF ReportInv, LegsAgree
  <2>2. {result} \cup ToSet(results) \subseteq LegResults
    BY DEF ReportInv, ProbeTyped, ToSet
  <2>3. ToSet(log) \subseteq Lines
    BY DEF ReportInv, FilesTyped, ToSet
  <2> QED
    BY <2>1, <2>2, <2>3 DEF TypeOK, ReportInv, Inv, ProductsTyped, ProbeTyped, FilesTyped,
                            WorldTyped, Places, LegResults
<1> QED
  BY <1>1, ReportInvHolds, ReportInvKept, PTL DEF Spec

-----------------------------------------------------------------------------
(***************************************************************************)
(* The probes that wait for somebody else's product.  Both hold one        *)
(* connection from the endpoint's first sign of life to their end.         *)
(***************************************************************************)
ConnectedPlaces == {"hello", "ready", "read", "sample"}
UnconnectedPlaces == {"connect", "sleep", "no endpoint", "refused", "done"}

Holds == connected = TRUE /\ sockets = 1
HoldsNone == connected = FALSE /\ sockets = 0

EndpointAgrees ==
  /\ endpoint \in {"closed", "deaf", "answers"}
  /\ Holds \/ HoldsNone
  /\ place \in ConnectedPlaces => Holds
  /\ place \in UnconnectedPlaces => HoldsNone

LEMMA ClosesOne == ASSUME Holds, Completion!Close PROVE HoldsNone'
<1>1. connected' = FALSE /\ sockets' = sockets - 1 /\ sockets = 1
  BY DEF Holds, Completion!Close
<1>2. sockets' = 0
  BY <1>1
<1> QED
  BY <1>1, <1>2 DEF HoldsNone

LEMMA StaysHeld ==
  ASSUME UNCHANGED <<connected, sockets>>
  PROVE  (Holds => Holds') /\ (HoldsNone => HoldsNone')
BY DEF Holds, HoldsNone

LEMMA WaitKeepsEndpoint ==
  ASSUME EndpointAgrees, Completion!WaitStep
  PROVE  EndpointAgrees' /\ place' \in {"connect", "hello", "sleep", "ready", "no endpoint"}
<1>1. endpoint' = endpoint
  BY DEF Completion!WaitStep, Completion!Connect, Completion!Hello, Completion!Sleep,
         Completion!GivesUp
<1>2. CASE place = "connect" /\ place' = "hello" /\ connected' = TRUE /\ sockets' = sockets + 1
  <2>1. sockets = 0
    BY <1>2 DEF EndpointAgrees, UnconnectedPlaces, HoldsNone
  <2>2. Holds'
    BY <1>2, <2>1 DEF Holds
  <2> QED
    BY <1>1, <1>2, <2>2 DEF EndpointAgrees, UnconnectedPlaces
<1>3. CASE place = "hello" /\ place' = "sleep" /\ Completion!Close
  <2>1. HoldsNone'
    BY <1>3, ClosesOne DEF EndpointAgrees, ConnectedPlaces
  <2> QED
    BY <1>1, <1>3, <2>1 DEF EndpointAgrees, ConnectedPlaces
<1>4. CASE /\ UNCHANGED <<connected, sockets>>
           /\ \/ place = "hello" /\ place' = "ready"
              \/ place = "connect" /\ place' \in {"sleep", "no endpoint"}
              \/ place = "sleep" /\ place' = "connect"
  BY <1>1, <1>4, StaysHeld DEF EndpointAgrees, ConnectedPlaces, UnconnectedPlaces
<1> QED
  BY <1>2, <1>3, <1>4 DEF Completion!WaitStep, Completion!Connect, Completion!Hello,
                          Completion!Sleep, Completion!GivesUp, Completion!TimeIsUp

LEMMA EndpointMayChange ==
  ASSUME EndpointAgrees, Completion!EndpointChanges
  PROVE  EndpointAgrees' /\ place' = place
BY StaysHeld DEF EndpointAgrees, Completion!EndpointChanges, Completion!Endpoints

(***************************************************************************)
(* The completion probe.  No word of the command is outstanding unless its *)
(* chain is in flight, and of the two words that make the flight verdict   *)
(* the one read first settles it when the other one does not.              *)
(***************************************************************************)
CompletionPlaces == {"connect", "hello", "sleep", "ready", "read",
                     "no endpoint", "raised", "refused", "done"}

GuestAgrees ==
  \/ chain = 1 /\ outstanding = 0
  \/ chain = 2 /\ outstanding = 0
  \/ chain = 2 /\ outstanding = 1

Seen(inFlight) == inFlight \in truth

WordsTyped == got \in Seq(-1 .. 2) /\ Len(got) <= 7 /\ truth \subseteq BOOLEAN

ChainWasSo ==
  Len(got) >= 3 => \/ got[3] = -1
                   \/ got[3] = 1 /\ Seen(FALSE)
                   \/ got[3] = 2 /\ Seen(TRUE)

CommandWasSo ==
  Len(got) >= 4 => \/ got[4] = -1
                   \/ got[4] = 0
                   \/ got[4] = 1 /\ Seen(TRUE)

VerdictWords == {"stat", "mask", "chain", "outstanding", "registered", "block", "polled", "flight"}

FlightWasSo(line) ==
  line.of = "flight" => \/ line.line = "in flight" /\ Seen(TRUE)
                        \/ line.line = "no command" /\ Seen(FALSE)

SaidAgrees == \A line \in said : line.of \in VerdictWords /\ FlightWasSo(line)

CompletionInv ==
  /\ place \in CompletionPlaces
  /\ EndpointAgrees /\ GuestAgrees
  /\ WordsTyped /\ ChainWasSo /\ CommandWasSo
  /\ SaidAgrees

\* The history only grows.
LEMMA SeenStays ==
  ASSUME \E b \in BOOLEAN : truth' \in {truth, truth \cup {b}}
  PROVE  /\ Seen(TRUE) => Seen(TRUE)'
         /\ Seen(FALSE) => Seen(FALSE)'
         /\ truth \subseteq BOOLEAN => truth' \subseteq BOOLEAN
BY Zenon DEF Seen

LEMMA SaidStays ==
  ASSUME SaidAgrees, said' = said, Seen(TRUE) => Seen(TRUE)', Seen(FALSE) => Seen(FALSE)'
  PROVE  SaidAgrees'
<1> SUFFICES ASSUME NEW line \in said PROVE line.of \in VerdictWords /\ FlightWasSo(line)'
  BY DEF SaidAgrees
<1> QED
  BY Zenon DEF SaidAgrees, FlightWasSo

LEMMA WordsStay ==
  ASSUME ChainWasSo, CommandWasSo, got' = got,
         Seen(TRUE) => Seen(TRUE)', Seen(FALSE) => Seen(FALSE)'
  PROVE  ChainWasSo' /\ CommandWasSo'
BY DEF ChainWasSo, CommandWasSo

\* The words in the order they are read.
LEMMA ReadOrder ==
  /\ Len(Completion!Reads) = 7 /\ DOMAIN Completion!Reads = 1 .. 7
  /\ {Completion!Reads[i] : i \in DOMAIN Completion!Reads} \cup {"flight"} = VerdictWords
  /\ \A i \in 1 .. 7 : Completion!Reads[i] = "chain" <=> i = 3
  /\ \A i \in 1 .. 7 : Completion!Reads[i] = "outstanding" <=> i = 4
<1>1. /\ Len(Completion!Reads) = 7 /\ DOMAIN Completion!Reads = 1 .. 7
      /\ Completion!Reads[1] = "stat" /\ Completion!Reads[2] = "mask"
      /\ Completion!Reads[3] = "chain" /\ Completion!Reads[4] = "outstanding"
      /\ Completion!Reads[5] = "registered" /\ Completion!Reads[6] = "block"
      /\ Completion!Reads[7] = "polled"
  BY DEF Completion!Reads
<1>2. \A i \in 1 .. 7 : i = 1 \/ i = 2 \/ i = 3 \/ i = 4 \/ i = 5 \/ i = 6 \/ i = 7
  OBVIOUS
<1>3. {Completion!Reads[i] : i \in 1 .. 7} =
        {"stat", "mask", "chain", "outstanding", "registered", "block", "polled"}
  BY <1>1, <1>2
<1> QED
  BY <1>1, <1>2, <1>3 DEF VerdictWords

LEMMA ValueOfCommand ==
  Completion!Value("chain") = got[3] /\ Completion!Value("outstanding") = got[4]
<1>1. /\ (CHOOSE i \in DOMAIN Completion!Reads : Completion!Reads[i] = "chain") = 3
      /\ (CHOOSE i \in DOMAIN Completion!Reads : Completion!Reads[i] = "outstanding") = 4
  BY ReadOrder
<1> QED
  BY <1>1 DEF Completion!Value

\* One word more is read, and what it says of the command is the case.
LEMMA ReadKeeps ==
  ASSUME CompletionInv, Completion!Read
  PROVE  CompletionInv'
<1> DEFINE word == Completion!Reads[Len(got) + 1]
<1>1. PICK value \in {-1} \cup Completion!ValuesOf(word) : got' = Append(got, value)
  BY DEF Completion!Read, Completion!Unreadable
<1>2. /\ Len(got) < 7 /\ Len(got) \in Nat /\ got \in Seq(-1 .. 2) /\ truth \subseteq BOOLEAN
      /\ truth' = truth \cup {Completion!InFlight}
      /\ UNCHANGED <<place, connected, sockets, endpoint, chain, outstanding, said>>
  BY ReadOrder DEF Completion!Read, Completion!guest, CompletionInv, WordsTyped
<1>3. chain \in 1 .. 2 /\ outstanding \in 0 .. 1 /\ Len(got) \in Nat
  BY <1>2 DEF CompletionInv, GuestAgrees
<1>4. Len(got) + 1 = 3 => value = -1 \/ value = chain
  <2> SUFFICES ASSUME Len(got) + 1 = 3 PROVE value = -1 \/ value = chain
    OBVIOUS
  <2>1. word = "chain"
    BY ReadOrder
  <2> HIDE DEF word
  <2> QED
    BY <1>1, <2>1 DEF Completion!ValuesOf
<1>5. Len(got) + 1 = 4 => value = -1 \/ value = outstanding
  <2> SUFFICES ASSUME Len(got) + 1 = 4 PROVE value = -1 \/ value = outstanding
    OBVIOUS
  <2>1. word = "outstanding"
    BY ReadOrder
  <2> HIDE DEF word
  <2> QED
    BY <1>1, <2>1 DEF Completion!ValuesOf
<1>6. value \in -1 .. 2
  <2>1. Completion!ValuesOf(word) \subseteq 0 .. 2
    <3> HIDE DEF word
    <3> QED
      BY <1>3 DEF Completion!ValuesOf
  <2> HIDE DEF word
  <2> QED
    BY <1>1, <2>1
<1>7. /\ got' \in Seq(-1 .. 2) /\ Len(got') = Len(got) + 1 /\ Len(got') <= 7
      /\ got'[Len(got) + 1] = value
      /\ \A k \in 1 .. Len(got) : got'[k] = got[k]
  BY <1>1, <1>2, <1>6
<1>8. Completion!InFlight \in BOOLEAN
  BY DEF Completion!InFlight
<1>9. /\ Seen(TRUE) => Seen(TRUE)'
      /\ Seen(FALSE) => Seen(FALSE)'
      /\ truth' \subseteq BOOLEAN
  BY <1>2, <1>8, SeenStays, Zenon
<1>10. (chain = 2 \/ outstanding = 1 => Seen(TRUE)') /\ (chain = 1 => Seen(FALSE)')
  <2>1. CASE chain = 2 \/ outstanding = 1
    <3>1. chain = 2 /\ chain # 1
      BY <2>1 DEF CompletionInv, GuestAgrees
    <3>2. Completion!InFlight = TRUE
      BY <3>1 DEF Completion!InFlight
    <3> QED
      BY <1>2, <3>1, <3>2, Zenon DEF Seen
  <2>2. CASE ~(chain = 2 \/ outstanding = 1)
    <3>1. chain = 1 /\ outstanding = 0
      BY <2>2 DEF CompletionInv, GuestAgrees
    <3>2. Completion!InFlight = FALSE
      BY <3>1 DEF Completion!InFlight
    <3> QED
      BY <1>2, <2>2, <3>2, Zenon DEF Seen
  <2> QED
    BY <2>1, <2>2
<1>11. ChainWasSo'
  <2>1. CASE Len(got) >= 3
    <3>1. got'[3] = got[3]
      BY <1>2, <1>7, <2>1
    <3> QED
      BY <1>9, <2>1, <3>1 DEF CompletionInv, ChainWasSo
  <2>2. CASE Len(got) = 2
    <3>1. got'[3] = value /\ (value = -1 \/ value = chain)
      BY <1>4, <1>7, <2>2
    <3> QED
      BY <1>10, <3>1 DEF CompletionInv, GuestAgrees, ChainWasSo
  <2>3. CASE Len(got) < 2
    <3>1. ~(Len(got') >= 3)
      BY <1>2, <1>7, <2>3
    <3> QED
      BY <3>1 DEF ChainWasSo
  <2>4. Len(got) < 2 \/ Len(got) = 2 \/ Len(got) >= 3
    <3>1. \A k \in Nat : k < 2 \/ k = 2 \/ k >= 3
      OBVIOUS
    <3> QED
      BY <1>3, <3>1, Zenon
  <2> QED
    BY <2>1, <2>2, <2>3, <2>4, Zenon
<1>12. CommandWasSo'
  <2>1. CASE Len(got) >= 4
    <3>1. got'[4] = got[4]
      BY <1>2, <1>7, <2>1
    <3> QED
      BY <1>9, <2>1, <3>1 DEF CompletionInv, CommandWasSo
  <2>2. CASE Len(got) = 3
    <3>1. got'[4] = value /\ (value = -1 \/ value = outstanding)
      BY <1>5, <1>7, <2>2
    <3> QED
      BY <1>10, <3>1 DEF CompletionInv, GuestAgrees, CommandWasSo
  <2>3. CASE Len(got) < 3
    <3>1. ~(Len(got') >= 4)
      BY <1>2, <1>7, <2>3
    <3> QED
      BY <3>1 DEF CommandWasSo
  <2>4. Len(got) < 3 \/ Len(got) = 3 \/ Len(got) >= 4
    <3>1. \A k \in Nat : k < 3 \/ k = 3 \/ k >= 4
      OBVIOUS
    <3> QED
      BY <1>3, <3>1, Zenon
  <2> QED
    BY <2>1, <2>2, <2>3, <2>4, Zenon
<1>13. SaidAgrees'
  BY <1>2, <1>9, SaidStays, Zenon DEF CompletionInv
<1>14. EndpointAgrees' /\ GuestAgrees' /\ place' \in CompletionPlaces
  BY <1>2, StaysHeld DEF CompletionInv, EndpointAgrees, GuestAgrees
<1> QED
  BY <1>7, <1>9, <1>11, <1>12, <1>13, <1>14 DEF CompletionInv, WordsTyped

\* The verdict is about words that were read; the flight verdict was the case when
\* the word that settles it was read.
LEMMA ConcludeKeeps ==
  ASSUME CompletionInv, Completion!Conclude
  PROVE  CompletionInv'
<1>1. /\ place = "read" /\ place' \in {"done", "refused"} /\ Completion!Close
      /\ UNCHANGED <<endpoint, chain, outstanding, got, truth>>
  BY DEF Completion!Conclude, Completion!guest
<1>2. EndpointAgrees'
  <2>1. HoldsNone'
    BY <1>1, ClosesOne DEF CompletionInv, EndpointAgrees, ConnectedPlaces
  <2> QED
    BY <1>1, <2>1 DEF CompletionInv, EndpointAgrees, ConnectedPlaces
<1>3. Seen(TRUE)' = Seen(TRUE) /\ Seen(FALSE)' = Seen(FALSE)
  BY <1>1 DEF Seen
<1>4. SaidAgrees'
  <2>1. CASE said' = said
    BY <1>3, <2>1, SaidStays, Zenon DEF CompletionInv
  <2>2. CASE Completion!Required /\ said' = Completion!Verdict
    <3>1. Len(got) = 7
      BY ReadOrder DEF Completion!Conclude
    <3>2. got[3] # -1 /\ got[4] # -1
      BY <2>2, ValueOfCommand DEF Completion!Required, Completion!Unreadable
    <3>3. Completion!NoCommand <=> got[4] = 0 /\ got[3] # 2
      BY ValueOfCommand DEF Completion!NoCommand
    <3>4. Len(got) >= 3 /\ Len(got) >= 4
      BY <3>1
    <3>5. \/ got[3] = 1 /\ Seen(FALSE)
          \/ got[3] = 2 /\ Seen(TRUE)
      BY <3>2, <3>4, Zenon DEF CompletionInv, ChainWasSo
    <3>6. got[4] = 0 \/ (got[4] = 1 /\ Seen(TRUE))
      BY <3>2, <3>4, Zenon DEF CompletionInv, CommandWasSo
    <3> DEFINE flight == Completion!Says("flight", IF Completion!NoCommand
                                                    THEN "no command" ELSE "in flight")
    <3>7. \A line \in said' : line.of \in VerdictWords /\ (line.of = "flight" => line = flight)
      <4>1. \A of, what : Completion!Says(of, what).of = of
        BY DEF Completion!Says
      <4>2. SUFFICES ASSUME NEW line \in said'
                     PROVE  line.of \in VerdictWords /\ (line.of = "flight" => line = flight)
        OBVIOUS
      <4>3. \/ line = flight
            \/ \E of \in {"stat", "mask", "registered", "block", "polled"} :
                 \E what : line = Completion!Says(of, what)
        BY <2>2 DEF Completion!Verdict
      <4> HIDE DEF flight
      <4>4. CASE line = flight
        <5>1. flight.of = "flight"
          BY <4>1 DEF flight
        <5> QED
          BY <4>4, <5>1 DEF VerdictWords
      <4>5. CASE line # flight
        BY <4>1, <4>3, <4>5 DEF VerdictWords
      <4> QED
        BY <4>4, <4>5
    <3>8. FlightWasSo(flight)
      <4>1. CASE Completion!NoCommand
        <5>1. flight.line = "no command" /\ got[3] # 2
          BY <3>3, <4>1 DEF Completion!Says
        <5> QED
          BY <3>5, <5>1 DEF FlightWasSo
      <4>2. CASE ~Completion!NoCommand
        <5>1. flight.line = "in flight" /\ (got[4] # 0 \/ got[3] = 2)
          BY <3>3, <4>2 DEF Completion!Says
        <5>2. Seen(TRUE)
          <6>1. CASE got[4] # 0
            BY <3>6, <6>1, Zenon
          <6>2. CASE got[3] = 2
            <7>1. got[3] # 1
              BY <6>2
            <7> QED
              BY <3>5, <7>1, Zenon
          <6> QED
            BY <5>1, <6>1, <6>2, Zenon
        <5> HIDE DEF flight
        <5> QED
          BY <5>1, <5>2, Zenon DEF FlightWasSo
      <4> QED
        BY <4>1, <4>2
    <3> HIDE DEF flight
    <3> SUFFICES ASSUME NEW line \in said'
                 PROVE  line.of \in VerdictWords /\ FlightWasSo(line)'
      BY DEF SaidAgrees
    <3> QED
      BY <1>3, <3>7, <3>8, Zenon DEF FlightWasSo
  <2> QED
    BY <2>1, <2>2 DEF Completion!Conclude
<1>5. ChainWasSo' /\ CommandWasSo'
  BY <1>1, <1>3, WordsStay DEF CompletionInv
<1> QED
  BY <1>1, <1>2, <1>4, <1>5 DEF CompletionInv, CompletionPlaces, GuestAgrees, WordsTyped

\* The guest goes on while the words are read.
LEMMA GuestRunKeeps ==
  ASSUME CompletionInv, Completion!GuestRuns
  PROVE  CompletionInv'
<1>1. /\ UNCHANGED <<place, connected, sockets, endpoint, got, said>>
      /\ truth' \in {truth, truth \cup {chain' = 2 \/ outstanding' # 0}}
  BY DEF Completion!GuestRuns, Completion!waitVars
<1>2. /\ Seen(TRUE) => Seen(TRUE)'
      /\ Seen(FALSE) => Seen(FALSE)'
      /\ truth \subseteq BOOLEAN => truth' \subseteq BOOLEAN
  <2>1. (chain' = 2 \/ outstanding' # 0) \in BOOLEAN
    OBVIOUS
  <2> QED
    BY <1>1, <2>1, SeenStays, Zenon
<1>3. GuestAgrees'
  <2>1. \/ chain = 1 /\ chain' = 2 /\ outstanding' = outstanding
        \/ chain = 2 /\ outstanding = 0 /\ outstanding' = 1 /\ chain' = chain
        \/ outstanding = 1 /\ outstanding' = 0 /\ chain' = chain
        \/ chain = 2 /\ outstanding = 0 /\ chain' = 1 /\ outstanding' = outstanding
    BY DEF Completion!GuestRuns
  <2>2. GuestAgrees
    BY DEF CompletionInv
  <2> QED
    BY <2>1, <2>2 DEF GuestAgrees
<1>4. EndpointAgrees'
  BY <1>1, StaysHeld DEF CompletionInv, EndpointAgrees
<1>5. SaidAgrees'
  BY <1>1, <1>2, SaidStays, Zenon DEF CompletionInv
<1>6. ChainWasSo' /\ CommandWasSo'
  BY <1>1, <1>2, WordsStay, Zenon DEF CompletionInv
<1> QED
  BY <1>1, <1>2, <1>3, <1>4, <1>5, <1>6 DEF CompletionInv, WordsTyped

LEMMA CompletionKeeps == CompletionInv /\ [Completion!Next]_(Completion!vars) => CompletionInv'
<1> SUFFICES ASSUME CompletionInv, [Completion!Next]_(Completion!vars) PROVE CompletionInv'
  OBVIOUS
<1> DEFINE Still == UNCHANGED <<chain, outstanding, got, said, truth>>
<1>1. ASSUME Still PROVE GuestAgrees' /\ WordsTyped' /\ ChainWasSo' /\ CommandWasSo' /\ SaidAgrees'
  <2>1. (Seen(TRUE) => Seen(TRUE)') /\ (Seen(FALSE) => Seen(FALSE)')
    BY <1>1 DEF Seen
  <2>2. ChainWasSo' /\ CommandWasSo' /\ SaidAgrees'
    BY <1>1, <2>1, WordsStay, SaidStays, Zenon DEF CompletionInv
  <2> QED
    BY <1>1, <2>2 DEF CompletionInv, GuestAgrees, WordsTyped
<1>2. CASE Completion!Waiting
  BY <1>1, <1>2, WaitKeepsEndpoint
     DEF Completion!Waiting, Completion!guest, CompletionInv, CompletionPlaces
<1>3. CASE Completion!Sample
  <2>1. /\ Still /\ place = "ready" /\ place' \in {"read", "raised"}
        /\ UNCHANGED <<connected, sockets, endpoint>>
    BY <1>3 DEF Completion!Sample, Completion!guest
  <2>2. EndpointAgrees'
    BY <2>1, StaysHeld DEF CompletionInv, EndpointAgrees, ConnectedPlaces, UnconnectedPlaces
  <2> QED
    BY <1>1, <2>1, <2>2 DEF CompletionInv, CompletionPlaces
<1>4. CASE Completion!Read
  BY <1>4, ReadKeeps
<1>5. CASE Completion!Conclude
  BY <1>5, ConcludeKeeps
<1>6. CASE Completion!GuestRuns
  BY <1>6, GuestRunKeeps
<1>7. CASE Completion!ProductChanges
  BY <1>1, <1>7, EndpointMayChange
     DEF Completion!ProductChanges, Completion!guest, CompletionInv, CompletionPlaces
<1>8. CASE UNCHANGED Completion!vars
  <2>1. Still /\ UNCHANGED <<place, connected, sockets, endpoint>>
    BY <1>8 DEF Completion!vars, Completion!waitVars, Completion!guest
  <2>2. EndpointAgrees'
    BY <2>1, StaysHeld DEF CompletionInv, EndpointAgrees
  <2> QED
    BY <1>1, <2>1, <2>2 DEF CompletionInv
<1> QED
  BY <1>2, <1>3, <1>4, <1>5, <1>6, <1>7, <1>8
     DEF Completion!Next, Completion!ProbeStep, Completion!Ended

LEMMA CompletionBegins == Completion!Init => CompletionInv
<1> SUFFICES ASSUME Completion!Init PROVE CompletionInv
  OBVIOUS
<1>1. EndpointAgrees /\ place = "connect"
  BY DEF Completion!Init, Completion!EndpointInit, EndpointAgrees, HoldsNone, ConnectedPlaces
<1>2. Len(got) = 0 /\ got \in Seq(-1 .. 2) /\ said = {} /\ truth = {}
  BY DEF Completion!Init
<1>3. GuestAgrees
  BY DEF Completion!Init, GuestAgrees
<1>4. WordsTyped
  BY <1>2 DEF WordsTyped
<1>5. ChainWasSo /\ CommandWasSo
  BY <1>2 DEF ChainWasSo, CommandWasSo
<1> QED
  BY <1>1, <1>2, <1>3, <1>4, <1>5 DEF CompletionInv, CompletionPlaces, SaidAgrees

LEMMA CompletionIsTruthful ==
  ASSUME CompletionInv
  PROVE  Completion!TypeOK /\ Completion!OneConnection /\ Completion!FlightVerdictWasTrue
<1>1. connected \in BOOLEAN /\ sockets \in Nat
  <2>1. \/ connected = TRUE /\ sockets = 1
        \/ connected = FALSE /\ sockets = 0
    BY DEF CompletionInv, EndpointAgrees, Holds, HoldsNone
  <2>2. connected \in BOOLEAN
    BY <2>1, Zenon
  <2>3. sockets \in Nat
    BY <2>1
  <2> QED
    BY <2>2, <2>3
<1>2. /\ Len(got) <= Len(Completion!Reads)
      /\ \A i \in DOMAIN got : got[i] \in -1 .. 2
  BY ReadOrder DEF CompletionInv, WordsTyped
<1>3. \A line \in said :
        line.of \in {Completion!Reads[i] : i \in DOMAIN Completion!Reads} \cup {"flight"}
  BY ReadOrder DEF CompletionInv, SaidAgrees
<1>4. Completion!TypeOK
  <2>1. chain \in 1 .. 2 /\ outstanding \in 0 .. 1
    BY DEF CompletionInv, GuestAgrees
  <2>2. endpoint \in Completion!Endpoints /\ truth \subseteq BOOLEAN
    BY Zenon DEF CompletionInv, EndpointAgrees, Completion!Endpoints, WordsTyped
  <2>3. place \in {"connect", "hello", "sleep", "ready", "read"} \cup
                  {"no endpoint", "raised", "refused", "done"}
    BY DEF CompletionInv, CompletionPlaces
  <2> QED
    BY <1>1, <1>2, <1>3, <2>1, <2>2, <2>3, Zenon DEF Completion!TypeOK
<1>5. Completion!OneConnection
  <2>1. place = "done" => connected = FALSE
    BY DEF CompletionInv, EndpointAgrees, UnconnectedPlaces, HoldsNone
  <2>2. sockets = IF connected THEN 1 ELSE 0
    <3>1. CASE Holds
      BY <3>1, Zenon DEF Holds
    <3>2. CASE HoldsNone
      BY <3>2, Zenon DEF HoldsNone
    <3> QED
      BY <3>1, <3>2 DEF CompletionInv, EndpointAgrees
  <2> QED
    BY <2>1, <2>2 DEF Completion!OneConnection
<1>6. Completion!FlightVerdictWasTrue
  <2> SUFFICES ASSUME NEW line \in said, line.of = "flight"
               PROVE  (line.line = "in flight") \in truth
    BY DEF Completion!FlightVerdictWasTrue
  <2>1. CASE line.line = "in flight" /\ Seen(TRUE)
    <3>1. (line.line = "in flight") = TRUE
      BY <2>1
    <3> QED
      BY <2>1, <3>1, Zenon DEF Seen
  <2>2. CASE line.line = "no command" /\ Seen(FALSE)
    <3>1. (line.line = "in flight") = FALSE
      BY <2>2
    <3> QED
      BY <2>2, <3>1, Zenon DEF Seen
  <2> QED
    BY <2>1, <2>2 DEF CompletionInv, SaidAgrees, FlightWasSo
<1> QED
  BY <1>4, <1>5, <1>6

(***************************************************************************)
(* The loader probe.  The row compared with is the last one printed.       *)
(***************************************************************************)
LoaderPlaces == {"connect", "hello", "sleep", "ready", "sample", "no endpoint", "raised", "done"}

LEMMA TheSameWait ==
  /\ Loader!WaitStep <=> Completion!WaitStep
  /\ Loader!EndpointChanges <=> Completion!EndpointChanges
  /\ Loader!Close <=> Completion!Close
BY Zenon
   DEF Loader!WaitStep, Loader!Connect, Loader!Hello, Loader!Sleep, Loader!GivesUp,
       Loader!TimeIsUp, Loader!Answered, Loader!Close, Loader!EndpointChanges, Loader!Endpoints,
       Completion!WaitStep, Completion!Connect, Completion!Hello, Completion!Sleep,
       Completion!GivesUp, Completion!TimeIsUp, Completion!Answered, Completion!Close,
       Completion!EndpointChanges, Completion!Endpoints

ProductTyped == field \in 0 .. LastField /\ memory \in [1 .. Words -> Values]

RowTyped == row \in Seq(Values) /\ Len(row) <= Words

PrintedRows == [words : Seq(Values), marked : SUBSET (1 .. Words)]

PrintedTyped ==
  /\ printed \in Seq(PrintedRows) /\ Len(printed) <= Rows
  /\ \A n \in 1 .. Len(printed) : Len(printed[n].words) = Words

ComparesWithTheLast ==
  \/ Len(printed) = 0 /\ previous = <<>>
  \/ Len(printed) > 0 /\ previous = printed[Len(printed)].words

BeganTyped == began \in -1 .. LastField

InTime == late = FALSE
FromFirst == (place \in {"sample", "done"} /\ InTime) => began >= First

LoaderInv ==
  /\ place \in LoaderPlaces /\ late \in BOOLEAN
  /\ EndpointAgrees
  /\ ProductTyped
  /\ RowTyped /\ PrintedTyped /\ ComparesWithTheLast /\ Loader!MarksTellTheHistory
  /\ BeganTyped /\ FromFirst

LEMMA LoaderConstants ==
  LastField \in Nat /\ First \in 0 .. LastField /\ Rows \in Nat \ {0} /\ Words \in Nat \ {0}
BY LoaderAssumption DEF Loader!Bounds

RowsKeep == RowTyped /\ PrintedTyped /\ ComparesWithTheLast /\ Loader!MarksTellTheHistory

LEMMA RowsStay ==
  ASSUME RowsKeep, UNCHANGED <<row, previous, printed>>
  PROVE  RowsKeep'
BY DEF RowsKeep, RowTyped, PrintedTyped, ComparesWithTheLast, Loader!MarksTellTheHistory

\* The wait for the first field ends at that field, or with its time up.
LEMMA AwaitKeeps ==
  ASSUME LoaderInv, Loader!AwaitField
  PROVE  BeganTyped' /\ FromFirst'
<1>1. Loader!FrameNumber \in -1 .. LastField
  BY LoaderConstants DEF Loader!FrameNumber, Loader!NoField, LoaderInv, ProductTyped
<1>2. began' = Loader!FrameNumber /\ late' = late /\ (Loader!FrameNumber >= First \/ late)
  BY <1>1, LoaderConstants DEF Loader!AwaitField, Loader!TooEarly
<1>3. InTime' => Loader!FrameNumber >= First
  BY <1>2, Zenon DEF InTime
<1> QED
  BY <1>1, <1>2, <1>3 DEF BeganTyped, FromFirst

LEMMA ReadWordKeeps ==
  ASSUME LoaderInv, Loader!ReadWord
  PROVE  RowsKeep'
<1>1. Len(row) < Words /\ UNCHANGED <<previous, printed>>
  BY DEF Loader!ReadWord
<1>2. row' \in {row, Append(row, memory[Len(row) + 1])}
  BY DEF Loader!ReadWord
<1>3. row \in Seq(Values) /\ Len(row) \in Nat /\ memory[Len(row) + 1] \in Values
  BY <1>1, LoaderConstants DEF LoaderInv, RowTyped, ProductTyped
<1>4. RowTyped'
  BY <1>1, <1>2, <1>3, LoaderConstants DEF LoaderInv, RowTyped
<1> QED
  BY <1>1, <1>4 DEF RowsKeep, LoaderInv, PrintedTyped, ComparesWithTheLast,
                    Loader!MarksTellTheHistory

\* What a row marks is where it differs from the one printed before it.
LEMMA PrintRowKeeps ==
  ASSUME LoaderInv, Loader!PrintRow
  PROVE  RowsKeep'
<1> DEFINE line == [words |-> row, marked |-> Loader!Changed]
<1>1. /\ Len(printed) < Rows /\ Len(row) = Words
      /\ printed' = Append(printed, line) /\ previous' = row /\ row' = <<>>
  BY DEF Loader!PrintRow, Loader!KeepRow
<1>2. row \in Seq(Values) /\ printed \in Seq(PrintedRows) /\ Len(printed) \in Nat
  BY DEF LoaderInv, RowTyped, PrintedTyped
<1>3. Loader!Changed \in SUBSET (1 .. Words)
  BY DEF Loader!Changed
<1>4. line \in PrintedRows /\ line.words = row /\ line.marked = Loader!Changed
  BY <1>2, <1>3 DEF PrintedRows
<1> HIDE DEF line
<1>5. /\ printed' \in Seq(PrintedRows) /\ Len(printed') = Len(printed) + 1
      /\ printed'[Len(printed) + 1] = line
      /\ \A k \in 1 .. Len(printed) : printed'[k] = printed[k]
  BY <1>1, <1>2, <1>4
<1>6. RowTyped'
  BY <1>1, LoaderConstants DEF RowTyped
<1>7. PrintedTyped'
  <2> SUFFICES ASSUME NEW n \in 1 .. Len(printed') PROVE Len(printed'[n].words) = Words
    BY <1>1, <1>2, <1>5, LoaderConstants DEF PrintedTyped
  <2>1. CASE n = Len(printed) + 1
    BY <1>1, <1>4, <1>5, <2>1
  <2>2. CASE n \in 1 .. Len(printed)
    BY <1>5, <2>2 DEF LoaderInv, PrintedTyped
  <2> QED
    BY <1>2, <1>5, <2>1, <2>2
<1>8. ComparesWithTheLast'
  BY <1>1, <1>2, <1>4, <1>5 DEF ComparesWithTheLast
<1>9. Loader!MarksTellTheHistory'
  <2> SUFFICES ASSUME NEW i \in 1 .. Words, NEW n \in 2 .. Len(printed')
               PROVE  i \in printed'[n].marked <=> printed'[n].words[i] # printed'[n - 1].words[i]
    BY DEF Loader!MarksTellTheHistory
  <2>1. CASE n \in 2 .. Len(printed)
    <3>1. printed'[n] = printed[n] /\ printed'[n - 1] = printed[n - 1]
      BY <1>2, <1>5, <2>1
    <3> QED
      BY <2>1, <3>1 DEF LoaderInv, Loader!MarksTellTheHistory
  <2>2. CASE n = Len(printed) + 1
    <3>1. Len(printed) > 0 /\ n - 1 = Len(printed)
      BY <1>2, <2>2
    <3>2. previous = printed[Len(printed)].words /\ Len(previous) = Words
      BY <1>2, <3>1 DEF LoaderInv, ComparesWithTheLast, PrintedTyped
    <3>3. previous # <<>>
      BY <3>2, LoaderConstants
    <3>4. i \in line.marked <=> row[i] # previous[i]
      BY <1>4, <3>3 DEF Loader!Changed
    <3>5. printed'[n] = line /\ printed'[n - 1].words = previous
      BY <1>2, <1>5, <2>2, <3>1, <3>2
    <3> QED
      BY <1>4, <3>4, <3>5
  <2>3. n \in 2 .. Len(printed) \/ n = Len(printed) + 1
    BY <1>2, <1>5
  <2> QED
    BY <2>1, <2>2, <2>3
<1> QED
  BY <1>6, <1>7, <1>8, <1>9 DEF RowsKeep

LEMMA LoaderKeeps == LoaderInv /\ [Loader!Next]_(Loader!vars) => LoaderInv'
<1> SUFFICES ASSUME LoaderInv, [Loader!Next]_(Loader!vars) PROVE LoaderInv'
  OBVIOUS
<1> USE DEF LoaderPlaces
<1>1. RowsKeep
  BY DEF LoaderInv, RowsKeep
<1>2. ASSUME UNCHANGED <<row, previous, printed>> PROVE RowsKeep'
  BY <1>1, <1>2, RowsStay
<1>3. ASSUME UNCHANGED <<field, memory>> PROVE ProductTyped'
  BY <1>3 DEF LoaderInv, ProductTyped
<1>4. ASSUME UNCHANGED <<late, began>>,
             place' \in {"sample", "done"} => place \in {"sample", "done"}
      PROVE  late' \in BOOLEAN /\ BeganTyped' /\ FromFirst'
  <2>1. InTime' = InTime
    BY <1>4 DEF InTime
  <2>2. late' \in BOOLEAN /\ BeganTyped'
    BY <1>4, Zenon DEF LoaderInv, BeganTyped
  <2> QED
    BY <1>4, <2>1, <2>2 DEF LoaderInv, FromFirst
<1>5. ASSUME UNCHANGED <<connected, sockets, endpoint>>,
             \/ place' = place
             \/ place = "ready" /\ place' = "sample"
             \/ place = "sample" /\ place' = "raised"
      PROVE  EndpointAgrees' /\ place' \in LoaderPlaces
  BY <1>5, StaysHeld DEF LoaderInv, EndpointAgrees, ConnectedPlaces, UnconnectedPlaces
<1>6. CASE Loader!Waiting
  <2>1. /\ Loader!WaitStep
        /\ UNCHANGED <<field, memory>> /\ UNCHANGED <<row, previous, printed>>
        /\ UNCHANGED <<late, began>>
    BY <1>6 DEF Loader!Waiting, Loader!product, Loader!rows
  <2>2. EndpointAgrees' /\ place' \in {"connect", "hello", "sleep", "ready", "no endpoint"}
    BY <2>1, TheSameWait, WaitKeepsEndpoint DEF LoaderInv
  <2> QED
    BY <1>2, <1>3, <1>4, <2>1, <2>2 DEF LoaderInv, RowsKeep
<1>7. CASE Loader!AwaitField
  <2>1. /\ place = "ready" /\ place' = "sample" /\ late' = late
        /\ UNCHANGED <<connected, sockets, endpoint>>
        /\ UNCHANGED <<field, memory>> /\ UNCHANGED <<row, previous, printed>>
    BY <1>7 DEF Loader!AwaitField, Loader!product, Loader!rows
  <2>2. late' \in BOOLEAN
    BY <2>1, Zenon DEF LoaderInv
  <2> QED
    BY <1>2, <1>3, <1>5, <1>7, <2>1, <2>2, AwaitKeeps DEF LoaderInv, RowsKeep
<1>8. CASE Loader!DeadlinePasses
  <2>1. /\ place = "ready" /\ place' = place /\ late' = TRUE /\ began' = began
        /\ UNCHANGED <<connected, sockets, endpoint>>
        /\ UNCHANGED <<field, memory>> /\ UNCHANGED <<row, previous, printed>>
    BY <1>8 DEF Loader!DeadlinePasses, Loader!waitVars, Loader!product, Loader!rows
  <2>2. late' \in BOOLEAN /\ BeganTyped'
    BY <2>1, Zenon DEF LoaderInv, BeganTyped
  <2>3. FromFirst'
    BY <2>1 DEF FromFirst
  <2> QED
    BY <1>2, <1>3, <1>5, <2>1, <2>2, <2>3 DEF LoaderInv, RowsKeep
<1>9. CASE Loader!ReadWord
  <2>1. /\ place = "sample" /\ place' \in {"sample", "raised"}
        /\ UNCHANGED <<connected, sockets, endpoint>>
        /\ UNCHANGED <<field, memory>> /\ UNCHANGED <<late, began>>
    BY <1>9 DEF Loader!ReadWord, Loader!product
  <2>2. EndpointAgrees' /\ place' \in LoaderPlaces
    BY <1>5, <2>1
  <2>3. late' \in BOOLEAN /\ BeganTyped' /\ FromFirst'
    BY <1>4, <2>1
  <2> QED
    BY <1>3, <1>9, <2>1, <2>2, <2>3, ReadWordKeeps DEF LoaderInv, RowsKeep
<1>10. CASE Loader!PrintRow
  <2>1. /\ place' = place
        /\ UNCHANGED <<connected, sockets, endpoint>>
        /\ UNCHANGED <<field, memory>> /\ UNCHANGED <<late, began>>
    BY <1>10 DEF Loader!PrintRow, Loader!waitVars, Loader!product
  <2>2. EndpointAgrees' /\ place' \in LoaderPlaces
    BY <1>5, <2>1
  <2>3. late' \in BOOLEAN /\ BeganTyped' /\ FromFirst'
    BY <1>4, <2>1
  <2> QED
    BY <1>3, <1>10, <2>1, <2>2, <2>3, PrintRowKeeps DEF LoaderInv, RowsKeep
<1>11. CASE Loader!Finish
  <2>1. /\ place = "sample" /\ endpoint' = endpoint
        /\ \/ place' = "done" /\ Loader!Close
           \/ place' = "raised" /\ UNCHANGED <<connected, sockets>>
        /\ UNCHANGED <<field, memory>> /\ UNCHANGED <<row, previous, printed>>
        /\ UNCHANGED <<late, began>>
    BY <1>11 DEF Loader!Finish, Loader!product, Loader!rows
  <2>2. late' \in BOOLEAN /\ BeganTyped' /\ FromFirst'
    BY <1>4, <2>1
  <2>3. EndpointAgrees' /\ place' \in LoaderPlaces
    <3>1. CASE place' = "done" /\ Loader!Close
      <4>1. HoldsNone'
        BY <2>1, <3>1, TheSameWait, ClosesOne DEF LoaderInv, EndpointAgrees, ConnectedPlaces
      <4> QED
        BY <2>1, <3>1, <4>1 DEF LoaderInv, EndpointAgrees, ConnectedPlaces
    <3>2. CASE place' = "raised" /\ UNCHANGED <<connected, sockets>>
      BY <1>5, <2>1, <3>2
    <3> QED
      BY <2>1, <3>1, <3>2
  <2> QED
    BY <1>2, <1>3, <2>1, <2>2, <2>3 DEF LoaderInv, RowsKeep
<1>12. CASE Loader!ProductRuns
  <2>1. /\ place' = place
        /\ UNCHANGED <<connected, sockets, endpoint>>
        /\ UNCHANGED <<row, previous, printed>> /\ UNCHANGED <<late, began>>
    BY <1>12 DEF Loader!ProductRuns, Loader!waitVars, Loader!rows
  <2>2. ProductTyped'
    <3>1. field \in 0 .. LastField /\ memory \in [1 .. Words -> Values]
      BY DEF LoaderInv, ProductTyped
    <3>2. field' \in 0 .. LastField
      BY <1>12, <3>1, LoaderConstants DEF Loader!ProductRuns
    <3>3. PICK i \in 1 .. Words, v \in Values : memory' = [memory EXCEPT ![i] = v]
      BY <1>12 DEF Loader!ProductRuns
    <3>4. memory' \in [1 .. Words -> Values]
      BY <3>1, <3>3
    <3> QED
      BY <3>2, <3>4 DEF ProductTyped
  <2> QED
    BY <1>2, <1>4, <1>5, <2>1, <2>2 DEF LoaderInv, RowsKeep
<1>13. CASE Loader!ProductChanges
  <2>1. /\ Loader!EndpointChanges
        /\ UNCHANGED <<field, memory>> /\ UNCHANGED <<row, previous, printed>>
        /\ UNCHANGED <<late, began>>
    BY <1>13 DEF Loader!ProductChanges, Loader!product, Loader!rows
  <2>2. EndpointAgrees' /\ place' = place
    BY <2>1, TheSameWait, EndpointMayChange DEF LoaderInv
  <2> QED
    BY <1>2, <1>3, <1>4, <2>1, <2>2 DEF LoaderInv, RowsKeep
<1>14. CASE UNCHANGED Loader!vars
  <2>1. /\ place' = place
        /\ UNCHANGED <<connected, sockets, endpoint>>
        /\ UNCHANGED <<field, memory>> /\ UNCHANGED <<row, previous, printed>>
        /\ UNCHANGED <<late, began>>
    BY <1>14 DEF Loader!vars, Loader!waitVars, Loader!product, Loader!rows
  <2> QED
    BY <1>2, <1>3, <1>4, <1>5, <2>1 DEF LoaderInv, RowsKeep
<1> QED
  BY <1>6, <1>7, <1>8, <1>9, <1>10, <1>11, <1>12, <1>13, <1>14
     DEF Loader!Next, Loader!ProbeStep, Loader!Ended

LEMMA LoaderBegins == Loader!Init => LoaderInv
<1> SUFFICES ASSUME Loader!Init PROVE LoaderInv
  OBVIOUS
<1>1. EndpointAgrees /\ place = "connect"
  BY DEF Loader!Init, Loader!EndpointInit, EndpointAgrees, HoldsNone, ConnectedPlaces
<1>2. /\ row \in Seq(Values) /\ Len(row) = 0 /\ previous = <<>>
      /\ printed \in Seq(PrintedRows) /\ Len(printed) = 0
      /\ field = 0 /\ began = -1 /\ memory \in [1 .. Words -> Values]
  BY DEF Loader!Init, Loader!NoField
<1>3. late \in BOOLEAN
  BY Zenon DEF Loader!Init
<1>4. ProductTyped /\ BeganTyped
  BY <1>2, LoaderConstants DEF ProductTyped, BeganTyped
<1>5. RowTyped /\ PrintedTyped /\ ComparesWithTheLast /\ Loader!MarksTellTheHistory
  BY <1>2, LoaderConstants
     DEF RowTyped, PrintedTyped, ComparesWithTheLast, Loader!MarksTellTheHistory
<1> QED
  BY <1>1, <1>3, <1>4, <1>5 DEF LoaderInv, LoaderPlaces, FromFirst

LEMMA LoaderIsTruthful ==
  ASSUME LoaderInv
  PROVE  Loader!TypeOK /\ Loader!SamplesFromFirst /\ Loader!MarksTellTheHistory
<1>1. connected \in BOOLEAN /\ sockets \in 0 .. 1
  <2>1. \/ connected = TRUE /\ sockets = 1
        \/ connected = FALSE /\ sockets = 0
    BY DEF LoaderInv, EndpointAgrees, Holds, HoldsNone
  <2>2. connected \in BOOLEAN
    BY <2>1, Zenon
  <2>3. sockets \in 0 .. 1
    BY <2>1
  <2> QED
    BY <2>2, <2>3
<1>2. Len(previous) \in {0, Words}
  <2>1. CASE Len(printed) = 0 /\ previous = <<>>
    BY <2>1
  <2>2. CASE Len(printed) > 0 /\ previous = printed[Len(printed)].words
    <3>1. Len(printed) \in Nat
      BY DEF LoaderInv, PrintedTyped
    <3> QED
      BY <2>2, <3>1 DEF LoaderInv, PrintedTyped
  <2> QED
    BY <2>1, <2>2 DEF LoaderInv, ComparesWithTheLast
<1>3. endpoint \in Loader!Endpoints
  BY DEF LoaderInv, EndpointAgrees, Loader!Endpoints
<1>4. place \in {"connect", "hello", "sleep", "ready", "sample"} \cup
                {"no endpoint", "raised", "done"}
  BY DEF LoaderInv, LoaderPlaces
<1>5. Loader!TypeOK
  BY <1>1, <1>2, <1>3, <1>4, Zenon
     DEF Loader!TypeOK, Loader!NoField, LoaderInv, ProductTyped, RowTyped, PrintedTyped, BeganTyped
<1>6. Loader!SamplesFromFirst
  BY Zenon DEF Loader!SamplesFromFirst, LoaderInv, FromFirst, InTime
<1> QED
  BY <1>5, <1>6 DEF LoaderInv

-----------------------------------------------------------------------------
(***************************************************************************)
(* Whichever probe is run.                                                 *)
(***************************************************************************)
ToolInv ==
  /\ tool = "completion" => CompletionInv
  /\ tool = "loader" => LoaderInv

LEMMA ToolInvHolds == ToolInit => ToolInv
BY CompletionBegins, LoaderBegins DEF ToolInit, ToolInv

LEMMA ToolInvKept == ToolInv /\ [ToolNext]_toolVars => ToolInv'
<1> SUFFICES ASSUME ToolInv, [ToolNext]_toolVars PROVE ToolInv'
  OBVIOUS
<1>1. CASE tool = "pair" /\ tool' = tool
  BY <1>1 DEF ToolInv
<1>2. CASE CompletionDoes(Completion!Next)
  <2>1. tool = "completion" /\ tool' = tool /\ Completion!Next
    BY <1>2 DEF CompletionDoes
  <2> QED
    BY <2>1, CompletionKeeps DEF ToolInv
<1>3. CASE LoaderDoes(Loader!Next)
  <2>1. tool = "loader" /\ tool' = tool /\ Loader!Next
    BY <1>3 DEF LoaderDoes
  <2> QED
    BY <2>1, LoaderKeeps DEF ToolInv
<1>4. CASE UNCHANGED toolVars
  <2>1. UNCHANGED Completion!vars /\ UNCHANGED Loader!vars /\ tool' = tool
    BY <1>4 DEF toolVars, endpointVars, completionVars, loaderVars, Completion!vars,
                Completion!waitVars, Completion!guest, Loader!vars, Loader!waitVars,
                Loader!product, Loader!rows
  <2> QED
    BY <2>1, CompletionKeeps, LoaderKeeps DEF ToolInv
<1> QED
  BY <1>1, <1>2, <1>3, <1>4 DEF ToolNext, PairDoes

LEMMA ToolInvAlways == ToolSpec => []ToolInv
BY ToolInvHolds, ToolInvKept, PTL DEF ToolSpec

\* Of the verdicts only the one about a CD command in flight: it was the case of
\* the two command words at a moment when they were being read, whatever the guest
\* did between the reads; and the one connection is closed when the probe is done
\* (wait_for_endpoint, main of probe_cd_completion.py).
THEOREM CompletionTellsTheTruth == ToolSpec => []CompletionProbeIsTruthful
<1>1. ToolInv => CompletionProbeIsTruthful
  BY CompletionIsTruthful DEF ToolInv, CompletionProbeIsTruthful
<1> QED
  BY <1>1, ToolInvAlways, PTL

\* Rows are sampled from the field that was asked for on unless the wait's time was
\* up, and every row but the first marks exactly the words that differ from the row
\* printed before it, for any number of rows and words (main of
\* probe_loader_state.py).
THEOREM LoaderTellsTheTruth == ToolSpec => []LoaderProbeIsTruthful
<1>1. ToolInv => LoaderProbeIsTruthful
  BY LoaderIsTruthful DEF ToolInv, LoaderProbeIsTruthful
<1> QED
  BY <1>1, ToolInvAlways, PTL

\* What is proved of the pair probe holds of it among the three.
THEOREM PairProbeAmongThem == ToolSpec => [](OneProductAtATime /\ ReportsWhatItSaw)
<1>1. ToolInit => Init
  BY DEF ToolInit, PairIdle
<1>2. [ToolNext]_toolVars => [Next]_vars
  BY DEF ToolNext, PairDoes, CompletionDoes, LoaderDoes, toolVars
<1>3. ToolSpec => Spec
  BY <1>1, <1>2, PTL DEF ToolSpec, Spec
<1> QED
  BY <1>3, OneProductAlwaysAtATime, PairReportsWhatItSaw, PTL
=============================================================================
