----------------------------- MODULE VsyncGate -----------------------------
(***************************************************************************)
(* tools/verify_vsync_field_clock.py: the gate that compares the shipping  *)
(* header game/fieldclock/field_clock.h with the installed executable, and *)
(* its selftest.  The executable is a file the provisioner, or the user,   *)
(* may replace while the gate runs; the gate reads it more than once.      *)
(*                                                                         *)
(* Of an executable only what the gate can tell is kept; `text` is that of *)
(* the image that is measured.                                             *)
(***************************************************************************)
EXTENDS VsyncCensus

CONSTANTS
  Images,        (* executables there may be                               *)
  Replacements,  (* those the file may be replaced by                      *)
  Headers

\* form: an executable, another file or none.  rest: all that is not measured
\* is as in the retail image.  field and writers: the word the instruction
\* reads or writes, or that its base is no lui.
ASSUME ImagesAssumption ==
  Replacements \subseteq Images /\
  Images \subseteq [form : {"exe", "other", "absent"}, size : BOOLEAN, pinned : BOOLEAN,
                    field : {"counter", "elsewhere", "no lui"},
                    writers : {"counter", "elsewhere", "no lui"},
                    shape : BOOLEAN, rest : BOOLEAN]

\* What a header declares for each name.
ASSUME HeadersAssumption ==
  Headers \subseteq [there : BOOLEAN, entry : {"vsync", "off", "none"},
                     counter : {"counter", "off", "none"}]

VARIABLES
  file,          (* scratch/bin/tekken3/SLUS_004.02                        *)
  manifest,      (* "none", without a hash, or "full"                      *)
  header,        (* the shipping header                                    *)
  mode,          (* "check" or "selftest"                                  *)
  at,
  image,         (* what load_image returned                               *)
  exit,          (* 0, 1, 2, or 3 for an exception no one catches           *)
  replaced       (* history: the file was replaced during the run          *)

gateVars == <<file, manifest, header, mode, at, image, exit, replaced>>
censusVars == <<text, record, scan, guest>>

Retail == [form |-> "exe", size |-> TRUE, pinned |-> TRUE, field |-> "counter",
           writers |-> "counter", shape |-> TRUE, rest |-> TRUE]

Running == 9

-----------------------------------------------------------------------------
(***************************************************************************)
(* check(): a refusal, or the set of its problems.                         *)
(***************************************************************************)
Refused(img, hdr) ==
  \/ ~img.pinned
  \/ img.field = "no lui" \/ img.writers = "no lui"
  \/ hdr.entry = "none" \/ hdr.counter = "none"

\* The header's counter against the measured one.  Mutated: not compared.
CounterUnchecked(img, hdr) == FALSE
CounterDiffers(img, hdr) == hdr.counter # img.field

Problems(img, hdr) ==
  {p \in {"shape", "writers", "sites", "counter"} :
     \/ p = "shape" /\ ~img.shape
     \/ p = "writers" /\ img.writers # img.field
     \/ p = "sites" /\ (hdr.entry = "off" \/ verdict # "accepted")
     \/ p = "counter" /\ CounterDiffers(img, hdr)}

\* How the shipping comparison ends.
ExitOf(img, hdr) ==
  IF Refused(img, hdr) THEN 2 ELSE IF Problems(img, hdr) # {} THEN 1 ELSE 0

\* The selftest's five cases on an image and a header.  A header that cannot be
\* perturbed is a failure of its own; a refusal outside the cases that ask for
\* one ends the selftest as a refusal.
SelftestExit(img, hdr) ==
  LET wrong == [hdr EXCEPT !.counter = "off"]
      reachesNothing == [hdr EXCEPT !.entry = IF hdr.entry = "none" THEN "none" ELSE "off"]
      failures ==
        {c \in 1..5 :
           \/ c = 1 /\ (hdr.counter = "none" \/ "counter" \notin Problems(img, wrong))
           \/ c = 2 /\ "sites" \notin Problems(img, reachesNothing)
           \/ c = 3 /\ hdr.counter = "none"
           \/ c = 4 /\ ~Refused([img EXCEPT !.pinned = FALSE], hdr)
           \/ c = 5 /\ Problems(img, hdr) # {}}
  IN  IF Refused(img, hdr) THEN 2 ELSE IF failures # {} THEN 1 ELSE 0

-----------------------------------------------------------------------------
(***************************************************************************)
(* main                                                                    *)
(***************************************************************************)
\* Mutated: the refusal is reported and the run goes on.
Reports(code) == exit' = code /\ UNCHANGED at
Ends(code) == exit' = code /\ at' = "over"
Goes(place) == at' = place /\ UNCHANGED exit

\* load_image: a file, readable as an executable; then the size of what is there
\* by then against the recorded one, unless it is gone, which no one catches.
Load(next) ==
  /\ image' = file
  /\ IF file.form # "exe" THEN Ends(2) ELSE Goes(next)
  /\ UNCHANGED <<file, manifest, header, mode, replaced>>

CheckSize(next) ==
  /\ IF manifest = "none" THEN Goes(next)
     ELSE IF file.form = "absent" THEN Ends(3)
     ELSE IF ~file.size THEN Ends(2)
     ELSE Goes(next)
  /\ UNCHANGED <<file, manifest, header, mode, image, replaced>>

LoadImage == at = "load" /\ Load("size")
SizeOfLoaded == at = "size" /\ CheckSize("identify")

\* The file is read again and hashed; without a manifest, or without a hash in
\* it, nothing is compared.  Mutated: the size is enough.
SizeMatches == file.size
HashMatches == file = Retail

Identify ==
  /\ at = "identify"
  /\ IF manifest = "none" THEN Goes("dispatch")
     ELSE IF file.form = "absent" THEN Ends(3)
     ELSE IF manifest = "full" /\ ~HashMatches THEN Ends(2)
     ELSE Goes("dispatch")
  /\ UNCHANGED <<file, manifest, header, mode, image, replaced>>

\* The selftest loads the file once more.
Selftest ==
  /\ at = "dispatch" /\ mode = "selftest"
  /\ Load("size again")

SizeOfReloaded == at = "size again" /\ CheckSize("measure")

\* Without the header the selftest ends by an exception.
ReadHeader ==
  /\ at = "dispatch" /\ mode = "check"
  /\ IF header.there THEN Goes("measure") ELSE Ends(2)
  /\ UNCHANGED <<file, manifest, header, mode, image, replaced>>

\* The calls are counted, unless something is refused before.
Measure == at = "measure" /\ ~Refused(image, header) /\ (ScanWord \/ Compare)

Judge ==
  /\ at = "measure"
  /\ Refused(image, header) \/ verdict # "none"
  /\ Ends(IF ~header.there THEN 3
          ELSE IF mode = "selftest" THEN SelftestExit(image, header) ELSE ExitOf(image, header))
  /\ UNCHANGED <<file, manifest, header, mode, image, replaced>>

\* The provisioner installs an executable, or the user copies one there.
ReplaceFile ==
  /\ at # "over"
  /\ file' \in Replacements \ {file}
  /\ replaced' = TRUE
  /\ UNCHANGED <<manifest, header, mode, at, image, exit>>

\* The image that was measured is run.
Play == at = "over" /\ (Execute \/ Returned)

Over == at = "over" /\ verdict = "none" /\ UNCHANGED <<gateVars, censusVars>>

GateInit ==
  /\ Init
  /\ file \in Images /\ header \in Headers
  /\ manifest \in {"none", "no hash", "full"}
  /\ mode \in {"check", "selftest"}
  /\ at = "load" /\ image = file /\ exit = Running /\ replaced = FALSE

GateNext ==
  \/ /\ \/ LoadImage \/ SizeOfLoaded \/ Identify \/ Selftest \/ SizeOfReloaded \/ ReadHeader
        \/ Judge \/ ReplaceFile
     /\ UNCHANGED censusVars
  \/ (Measure \/ Play) /\ UNCHANGED gateVars
  \/ Over

GateSpec == GateInit /\ [][GateNext]_<<gateVars, censusVars>>

-----------------------------------------------------------------------------
GateTypeOK ==
  /\ TypeOK
  /\ file \in Images /\ header \in Headers /\ image \in Images
  /\ manifest \in {"none", "no hash", "full"} /\ mode \in {"check", "selftest"}
  /\ at \in {"load", "size", "identify", "dispatch", "size again", "measure", "over"}
  /\ exit \in 0..3 \cup {Running} /\ (at = "over" <=> exit # Running)
  /\ replaced \in BOOLEAN

\* What was measured when the gate or its selftest passed: an image whose field
\* read, writers, arm and call sites all agree with the header, whatever became
\* of the file meanwhile.
PassMeansAgreement ==
  exit = 0 =>
    /\ image.pinned /\ image.shape /\ verdict = "accepted"
    /\ header.there /\ header.entry = "vsync"
    /\ header.counter = "counter" /\ image.field = "counter" /\ image.writers = "counter"

\* A pass is of the retail image, if the manifest has its hash and nobody
\* replaced the file between reading and hashing it.
UndisturbedPassIsRetail ==
  exit = 0 /\ manifest = "full" /\ ~replaced => image = Retail

\* So when the image that passed is run, it waits nowhere but at the recorded
\* site, the recorded unresolved ones and those the census is misled about.
PassHidesNoWait ==
  exit = 0 /\ passed # NoCall /\ passed.mode >= 0 =>
    \/ passed.site = record.wait
    \/ passed.site \in record.unresolved
    \/ Misled(passed.site)

\* A pass is of an image that agrees with the header, and of the retail image if
\* there was a hash to compare with and nobody replaced the file meanwhile.
PassIsEarned == GateTypeOK /\ PassMeansAgreement /\ UndisturbedPassIsRetail
=============================================================================
