----------------------------- MODULE PairProbe -----------------------------
(***************************************************************************)
(* tools/probe_widescreen_pair.py: the product is run once per aspect, one *)
(* leg after the other, driven over its debug endpoint to a checkpoint,    *)
(* shot, and stopped; then the two captures are compared.                  *)
(*                                                                         *)
(* The products are environment.  They boot, announce their picture, stall *)
(* (nobody reads the pipe of their output) or exit when they like, and one *)
(* the probe did not launch may hold the port a leg uses.                  *)
(***************************************************************************)
EXTENDS Naturals, SequencesExt

CONSTANTS
  Legs,          (* the aspects                                            *)
  Both,          (* the order a pair is run in; --leg runs one alone       *)
  MaxLines       (* bound: lines of a log, an older log's among them       *)

ASSUME LegsAssumption ==
  Both \in Seq(Legs) /\ Len(Both) = 2 /\ Legs = {Both[1], Both[2]} /\ Both[1] # Both[2]
ASSUME MaxLinesAssumption == MaxLines \in Nat \ {0, 1}

VARIABLES
  todo,          (* the legs still to run, the current one first           *)
  at,            (* the place of the probe                                 *)
  raised,        (* an exception is on its way through the finally         *)
  client,        (* the product the client is connected to                 *)
  result,        (* the current leg's                                      *)
  results,       (* those of the legs that are done                        *)
  capture,       (* per leg, shots/<leg>-f<frame>.ppm: who wrote it        *)
  log,           (* the lines of the current leg's leg_<leg>.log           *)
  product,       (* per leg, the process launched for it                   *)
  shown,         (* it has presented the target frame                      *)
  picture,       (* the picture it announced last                          *)
  other,         (* a product launched by somebody else                    *)
  port,          (* who listens on the leg's port                          *)
  had,           (* history: the captures there before this invocation     *)
  stale          (* history: the log holds lines of an earlier invocation  *)

probe == <<todo, at, raised, client, result, results>>
files == <<capture, log>>
products == <<product, shown, picture, other, port>>
history == <<had, stale>>
vars == <<probe, files, products, history>>

Pictures == {"narrow", "wide"}
Lines == Pictures \cup {"other"}
Leg == Head(todo)

\* A process; "leaving" has been told to quit, "signalled" to terminate.
Alive == {"booting", "up", "stalled", "leaving", "signalled"}

NoResult == [reached |-> FALSE, shot |-> FALSE, note |-> "", verdict |-> "none"]

\* A client call is answered by a listener that is up.
Answers(who) == who = port /\ (who = "own" => product[Leg] = "up")

-----------------------------------------------------------------------------
(***************************************************************************)
(* The receipt: what is read from a log.                                   *)
(***************************************************************************)
\* parse_wide_lines and classify_wide: the last announced picture is the
\* steady state, and no announcement is no answer.
WideLines(lines) == {i \in DOMAIN lines : lines[i] \in Pictures}
\* Mutated: the first announcement is the answer.
FirstVerdict(lines) == IF WideLines(lines) = {} THEN "none" ELSE lines[Min(WideLines(lines))]
Verdict(lines) == IF WideLines(lines) = {} THEN "none" ELSE lines[Max(WideLines(lines))]

-----------------------------------------------------------------------------
(***************************************************************************)
(* A leg.                                                                  *)
(***************************************************************************)
Exit(how) == at' = how /\ UNCHANGED <<todo, raised, client, result, results>>

\* main: a disc and a binary, or nothing is measured.
Begin ==
  /\ at = "main"
  /\ Exit("start") \/ Exit("refused")
  /\ UNCHANGED <<files, products, history>>

\* other_product_running passes over a product of this title.
Busy == other = "foreign"

\* What an earlier invocation left in the log is there until the product
\* opens it.
StartLeg ==
  /\ at = "start"
  /\ \/ Exit("refused") /\ UNCHANGED <<log, products, stale>>   \* no settings file
     \/ Busy /\ Exit("refused") /\ UNCHANGED <<log, products, stale>>
     \/ /\ ~Busy
        /\ log' \in {<<>>, <<"wide">>} /\ stale' = (log' # <<>>)
        /\ product' = [product EXCEPT ![Leg] = "booting"]
        /\ shown' = FALSE /\ picture' = "none"
        /\ port' = IF other = "tekken3" THEN "other" ELSE "none"
        /\ at' = "loop"
        /\ UNCHANGED <<todo, raised, client, result, results, other>>
  /\ UNCHANGED <<capture, had>>

\* A leg that ends without its checkpoint says why.  Mutated: it does not.
NoNote(note) == ""
Note(note) == note

EndsLoop(note) == at' = "wait" /\ result' = [result EXCEPT !.note = Note(note)]

\* The while's condition fails: the deadline has passed.
GivesUp ==
  /\ at = "loop" /\ EndsLoop("never reached")
  /\ UNCHANGED <<todo, raised, client, results, files, products, history>>

\* process.poll()
Poll ==
  /\ at = "loop"
  /\ IF product[Leg] = "gone" THEN EndsLoop("exited")
     ELSE at' = "ask" /\ UNCHANGED result
  /\ UNCHANGED <<todo, raised, client, results, files, products, history>>

\* LiveClient; a port nobody listens on is an OSError.
Connect ==
  /\ at = "ask" /\ client = "none"
  /\ client' = port
  /\ at' = IF port = "none" THEN "loop" ELSE "ask"
  /\ UNCHANGED <<todo, raised, result, results, files, products, history>>

\* client.frames(); an error drops the client and the loop tries again.
AskFrames ==
  /\ at = "ask" /\ client # "none"
  /\ \/ /\ Answers(client) /\ (client = "own" => shown)
        /\ at' = "shoot" /\ result' = [result EXCEPT !.reached = TRUE]
        /\ UNCHANGED client
     \/ /\ Answers(client) /\ (client = "own" => ~shown)
        /\ at' = "loop" /\ UNCHANGED <<result, client>>
     \/ /\ ~Answers(client)
        /\ at' = "loop" /\ client' = "none" /\ UNCHANGED result
  /\ UNCHANGED <<todo, raised, results, files, products, history>>

\* client.shot: the product writes the file or answers that it could not; an
\* error here is caught by nobody.
Shoot ==
  /\ at = "shoot"
  /\ \/ /\ Answers(client)
        /\ capture' \in {capture, [capture EXCEPT ![Leg] = client]}
        /\ at' = "guest" /\ result' = [result EXCEPT !.shot = TRUE]
        /\ UNCHANGED raised
     \/ /\ ~Answers(client)
        /\ at' = "wait" /\ raised' = TRUE /\ UNCHANGED <<capture, result>>
  /\ UNCHANGED <<todo, client, results, log, products, history>>

AskGuest ==
  /\ at = "guest"
  /\ at' = "quit"
  /\ \/ Answers(client) /\ UNCHANGED result
     \/ result' = [result EXCEPT !.note = Note("no telemetry")]
  /\ UNCHANGED <<todo, raised, client, results, files, products, history>>

\* client.quit(), whose errors are passed over.
Quit ==
  /\ at = "quit" /\ at' = "wait"
  /\ IF Answers(client)
     THEN IF client = "own"
          THEN product' = [product EXCEPT ![Leg] = "leaving"] /\ UNCHANGED <<other, port>>
          ELSE other' = "none" /\ port' = "none" /\ UNCHANGED product
     ELSE UNCHANGED <<product, other, port>>
  /\ UNCHANGED <<todo, raised, client, result, results, files, shown, picture, history>>

-----------------------------------------------------------------------------
\* The finally: an exception goes on after it.
AfterWait == at' = IF raised THEN "raised" ELSE "read"

\* process.wait(timeout=120), then terminate.
Wait ==
  /\ at = "wait"
  /\ IF product[Leg] = "gone"
     THEN AfterWait /\ UNCHANGED product
     ELSE /\ at' = "terminate"
          /\ product' = [product EXCEPT ![Leg] = "signalled"]
  /\ UNCHANGED <<todo, raised, client, result, results, files, shown, picture,
                 other, port, history>>

\* process.wait(timeout=60); TimeoutExpired escapes.  Mutated: the probe goes
\* on without the process, or waits without a limit.
GoesOn == at' = "read"
WaitsForEver == at' = "terminate"
Unkillable == at' = "raised"

WaitAgain ==
  /\ at = "terminate"
  /\ IF product[Leg] = "gone" THEN AfterWait ELSE Unkillable
  /\ UNCHANGED <<todo, raised, client, result, results, files, products, history>>

\* The log is read, leg_<leg>.json written, and the leg reported.
ReadLog ==
  /\ at = "read"
  /\ results' = Append(results, [result EXCEPT !.verdict = Verdict(log)])
  /\ result' = NoResult /\ client' = "none" /\ log' = <<>>
  /\ todo' = Tail(todo)
  /\ at' = IF Len(todo) = 1 THEN "judge" ELSE "start"
  /\ UNCHANGED <<raised, capture, products, history>>

\* main: one leg is no pair; a capture that is not there refuses.
\* Mutated: captures are taken to be there.
Taken(leg) == TRUE
IsFile(leg) == capture[leg] # "none"
Judge ==
  /\ at = "judge"
  /\ IF Len(results) # 2 THEN Exit("single")
     ELSE IF \E leg \in Legs : ~IsFile(leg) THEN Exit("refused")
     ELSE Exit("compared")
  /\ UNCHANGED <<files, products, history>>

-----------------------------------------------------------------------------
(***************************************************************************)
(* The products and the clock.                                             *)
(***************************************************************************)
Over == at \in {"refused", "raised", "single", "compared"}
Current == todo # <<>> /\ ~Over /\ product[Leg] \in Alive

\* It opens its log, truncating it or not, and listens unless the port is taken.
Boots ==
  /\ Current /\ product[Leg] = "booting"
  /\ product' = [product EXCEPT ![Leg] = "up"]
  /\ \/ log' = <<>> /\ stale' = FALSE
     \/ UNCHANGED <<log, stale>>
  /\ port' = IF port = "none" THEN "own" ELSE port
  /\ UNCHANGED <<probe, capture, shown, picture, other, had>>

\* Announcements print on change; between them are other lines.
Announces ==
  /\ Current /\ product[Leg] = "up" /\ Len(log) < MaxLines
  /\ \E line \in Lines \ {picture} :
       /\ picture' = IF line \in Pictures THEN line ELSE picture
       /\ log' = Append(log, line)
  /\ UNCHANGED <<probe, capture, product, shown, other, port, history>>

Presents ==
  /\ Current /\ product[Leg] = "up" /\ ~shown /\ shown' = TRUE
  /\ UNCHANGED <<probe, files, product, picture, other, port, history>>

Stalls ==
  /\ Current /\ product[Leg] \in {"booting", "up", "leaving"}
  /\ product' = [product EXCEPT ![Leg] = "stalled"]
  /\ UNCHANGED <<probe, files, shown, picture, other, port, history>>

Exits ==
  /\ Current
  /\ product' = [product EXCEPT ![Leg] = "gone"]
  /\ port' = IF port = "own" THEN "none" ELSE port
  /\ UNCHANGED <<probe, files, shown, picture, other, history>>

\* Another product starts or ends: of another title, or of this one on the
\* leg's port.
OthersComeAndGo ==
  /\ ~Over
  /\ other' \in {"none", "foreign", "tekken3"} \ {other}
  /\ port' = IF port = "other" THEN "none"
             ELSE IF other' = "tekken3" /\ port = "none" THEN "other" ELSE port
  /\ UNCHANGED <<probe, files, product, shown, picture, history>>

\* What products do after the probe has ended is nobody's concern.
Ended == Over /\ UNCHANGED vars

-----------------------------------------------------------------------------
\* Earlier invocations have left captures and logs, or not.
Init ==
  /\ todo \in {Both} \cup {<<leg>> : leg \in Legs}
  /\ at = "main" /\ raised = FALSE /\ client = "none"
  /\ result = NoResult /\ results = <<>>
  /\ capture \in [Legs -> {"none", "old"}]
  /\ log = <<>>
  /\ product = [leg \in Legs |-> "none"]
  /\ shown = FALSE /\ picture = "none"
  /\ other = "none" /\ port = "none"
  /\ had = {leg \in Legs : capture[leg] = "old"} /\ stale = FALSE

ProbeStep ==
  \/ Begin \/ StartLeg \/ GivesUp \/ Poll \/ Connect \/ AskFrames \/ Shoot \/ AskGuest \/ Quit
  \/ Wait \/ WaitAgain \/ ReadLog \/ Judge

Environment == Boots \/ Announces \/ Presents \/ Stalls \/ Exits \/ OthersComeAndGo

Next == ProbeStep \/ Environment \/ Ended

Spec == Init /\ [][Next]_vars

-----------------------------------------------------------------------------
TypeOK ==
  /\ todo \in {Both, <<>>} \cup {<<leg>> : leg \in Legs}
  /\ at \in {"main", "start", "loop", "ask", "shoot", "guest", "quit", "wait", "terminate", "read",
             "judge", "refused", "raised", "single", "compared"}
  /\ raised \in BOOLEAN /\ shown \in BOOLEAN
  /\ client \in {"none", "own", "other"} /\ port \in {"none", "own", "other"}
  /\ {result} \cup ToSet(results) \subseteq
       [reached : BOOLEAN, shot : BOOLEAN,
        note : {"", "never reached", "exited", "no telemetry"},
        verdict : {"none"} \cup Pictures]
  /\ capture \in [Legs -> {"none", "old", "own", "other"}]
  /\ Len(log) <= MaxLines /\ ToSet(log) \subseteq Lines
  /\ product \in [Legs -> {"none", "gone"} \cup Alive]
  /\ picture \in Pictures \cup {"none"} /\ other \in {"none", "foreign", "tekken3"}
  /\ had \subseteq Legs /\ stale \in BOOLEAN

\* Two legs' products are never alive together, however the first one ended
\* or failed to: a leg that cannot be stopped ends the probe.
OneProductAtATime ==
  \A a, b \in Legs : product[a] \in Alive /\ product[b] \in Alive => a = b

\* A reported leg took its shot at the checkpoint or says why not.
NoSilentLeg ==
  \A i \in DOMAIN results : results[i].note = "" => results[i].reached /\ results[i].shot

\* The width a leg reports is the one its product announced last before it
\* ended, whatever it announced earlier and whatever an earlier log held; of a
\* product that announced none there is no verdict, unless the lines of an
\* earlier invocation are still in its log.
VerdictIsSteadyState ==
  at \in {"start", "judge"} /\ results # <<>> /\ (~stale \/ picture # "none") =>
    Last(results).verdict = picture

\* Captures are compared only when both legs took theirs at the checkpoint,
\* unless an earlier invocation left one.
ComparesWhatItShot ==
  at = "compared" =>
    \A i \in 1..2 : Both[i] \notin had => results[i].reached /\ results[i].shot

\* No leg ends in silence, each width is its own product's last, and no pair is
\* made up, as far as earlier invocations left no log and no capture.
ReportsWhatItSaw == TypeOK /\ NoSilentLeg /\ VerdictIsSteadyState /\ ComparesWhatItShot
=============================================================================
