------------------------------ MODULE LzExtent ------------------------------
(***************************************************************************)
(* game/execution/finite_guest_call.cpp: what is reported of a guest call  *)
(* that was cut off inside the game's decompressor.                        *)
(*                                                                         *)
(* The report scans the compressed stream in memory, as the decompressor   *)
(* has left it at that moment, and says how much output the whole call     *)
(* would have had.  The process then aborts; here the decompressor goes on *)
(* as it would have with a longer budget, so that the report can be        *)
(* compared with what it would have done.  The decompressor is the game's: *)
(* it is modelled from the registers and the format the report relies on.  *)
(* An address is its offset in main memory; a reference may reach any byte. *)
(***************************************************************************)
EXTENDS Integers

CONSTANTS
  RamSize,
  ByteModulus,   (* 256                                                    *)
  LengthUnit,    (* 8: the length is the upper five bits of a token        *)
  RamImages,     (* contents of main memory                                *)
  Calls          (* [entry, output, limit, listed]: the stream, where it   *)
                 (* goes, the wrapper's bound, and whether the wrapper     *)
                 (* called and its registers name this entry of its table  *)

Address == 0..(RamSize - 1)
Byte == 0..(ByteModulus - 1)
MaxLength == ByteModulus \div LengthUnit

ASSUME SizesAssumption ==
  /\ RamSize \in Nat \ {0} /\ LengthUnit \in Nat \ {0}
  /\ ByteModulus \in Nat \ {0, 1} /\ ByteModulus % LengthUnit = 0
ASSUME RamImagesAssumption == RamImages \subseteq [Address -> Byte]
ASSUME CallsAssumption ==
  Calls \subseteq [entry : Address, output : Address, limit : Nat, listed : BOOLEAN]

VARIABLES
  call,
  ram,
  source,        (* a0: the next byte of the stream                        *)
  destination,   (* a1: where the next byte goes                           *)
  outputStart,   (* t1, once the decompressor has set it                   *)
  control,       (* token bits still to come, with a 1 above them          *)
  length,        (* a2, and what of it is left to copy                     *)
  stage,
  report

vars == <<call, ram, source, destination, outputStart, control, length, stage, report>>

Stages == {"prologue", "control", "token", "copy", "done", "strayed"}
NoReport == [scan |-> "none", sourceBytes |-> 0, outputBytes |-> 0, consumed |-> 0,
             consistent |-> FALSE]
Unresolved == [NoReport EXCEPT !.scan = "not-run"]

-----------------------------------------------------------------------------
(***************************************************************************)
(* scanLzExtent.                                                           *)
(***************************************************************************)
\* (token >> 11) & 31, with 0 for 32; mutated: 0 is 0.
UpperBits(high) == high \div LengthUnit
TokenLength(high) == IF UpperBits(high) = 0 THEN MaxLength ELSE UpperBits(high)

\* A token's output fits; mutated: not when it fills the limit, or always.
LeavesRoom(size, limit, output) == size < limit - output
AlwaysFits(size, limit, output) == TRUE
Fits(size, limit, output) == size <= limit - output

Extent(status, input, output) ==
  [status |-> status, sourceBytes |-> input, outputBytes |-> output]

\* A point of the loop: input and output so far, and the bits of tokens to come.
Points == Nat \X Nat \X Byte

BytesOf(bits) == IF bits % 2 = 1 THEN 1 ELSE 2
SizeOf(bits, high) == IF bits % 2 = 1 THEN 1 ELSE TokenLength(high)

\* The stream that begins at from, up to the end of memory, from any point on.
ScanFrom(memory, from, limit) ==
  LET left(p) == RamSize - from - p[1]
      next(p) == memory[from + p[1]]
      Scan[p \in Points] ==
        IF p[3] > 1 THEN
          IF BytesOf(p[3]) > left(p) THEN Extent("truncated", p[1], p[2])
          ELSE IF ~Fits(SizeOf(p[3], next(p)), limit, p[2])
            THEN Extent("exceeds", p[1] + BytesOf(p[3]), p[2])
          ELSE Scan[<<p[1] + BytesOf(p[3]), p[2] + SizeOf(p[3], next(p)), p[3] \div 2>>]
        ELSE IF left(p) <= 0 THEN Extent("missing", p[1], p[2])
        ELSE IF next(p) = 0 THEN Extent("complete", p[1] + 1, p[2])
        ELSE Scan[<<p[1] + 1, p[2], next(p)>>]
  IN  Scan

Start == <<0, 0, 1>>
ScanLzExtent(from, limit) == ScanFrom(ram, from, limit)[Start]

-----------------------------------------------------------------------------
(***************************************************************************)
(* imageWrapperExtent and describe.                                        *)
(***************************************************************************)
IsMapped(a) == a \in Address

\* The wrapper's entry is the one being decompressed and both pointers are
\* still in memory.
EntryResolves ==
  /\ call.listed /\ call.output = outputStart
  /\ IsMapped(source) /\ IsMapped(outputStart) /\ IsMapped(destination)
  /\ source >= call.entry /\ destination >= outputStart

\* The output would run over its own stream; mutated: nobody looks.
NeverOverlaps(extent) == FALSE
OverlapsOutput(extent) ==
  /\ call.entry < outputStart + extent.outputBytes
  /\ outputStart < call.entry + extent.sourceBytes

Consistent(extent) ==
  /\ extent.status = "complete"
  /\ source - call.entry <= extent.sourceBytes
  /\ destination - outputStart <= extent.outputBytes
  /\ outputStart + extent.outputBytes <= RamSize
  /\ ~OverlapsOutput(extent)

Describe ==
  IF EntryResolves
    THEN LET extent == ScanLzExtent(call.entry, call.limit)
         IN  [scan |-> extent.status, sourceBytes |-> extent.sourceBytes,
              outputBytes |-> extent.outputBytes, consumed |-> source - call.entry,
              consistent |-> Consistent(extent)]
    ELSE Unresolved

\* The budget ends inside the decompressor (callToReturn).
CutOff ==
  /\ report = NoReport /\ stage \in {"prologue", "control", "token", "copy"}
  /\ report' = Describe
  /\ UNCHANGED <<call, ram, source, destination, outputStart, control, length, stage>>

-----------------------------------------------------------------------------
(***************************************************************************)
(* The game's decompressor.                                                *)
(***************************************************************************)
SetOutputStart ==
  /\ stage = "prologue"
  /\ outputStart' = destination /\ stage' = "control"
  /\ UNCHANGED <<call, ram, source, destination, control, length, report>>

\* What it does outside main memory is not followed.
Strays ==
  /\ \/ stage = "control" /\ ~IsMapped(source)
     \/ stage = "token" /\ (~IsMapped(source) \/ (control % 2 = 0 /\ ~IsMapped(source + 1)))
     \/ stage \in {"token", "copy"} /\ ~IsMapped(destination)
  /\ stage' = "strayed"
  /\ UNCHANGED <<call, ram, source, destination, outputStart, control, length, report>>

AfterControl(bits) == IF bits > 1 THEN "token" ELSE "control"

ReadControl ==
  /\ stage = "control" /\ IsMapped(source)
  /\ source' = source + 1 /\ control' = ram[source]
  /\ stage' = IF ram[source] = 0 THEN "done" ELSE AfterControl(ram[source])
  /\ UNCHANGED <<call, ram, destination, outputStart, length, report>>

CopyLiteral ==
  /\ stage = "token" /\ control % 2 = 1 /\ IsMapped(source) /\ IsMapped(destination)
  /\ ram' = [ram EXCEPT ![destination] = ram[source]]
  /\ source' = source + 1 /\ destination' = destination + 1
  /\ control' = control \div 2 /\ stage' = AfterControl(control \div 2)
  /\ UNCHANGED <<call, outputStart, length, report>>

\* The length as the game has it: of the bits the highest ones, none for all.
ReadReference ==
  /\ stage = "token" /\ control % 2 = 0 /\ IsMapped(source + 1) /\ IsMapped(destination)
  /\ length' = CHOOSE n \in 1..MaxLength : n % MaxLength = ram[source] \div LengthUnit
  /\ source' = source + 2 /\ stage' = "copy"
  /\ UNCHANGED <<call, ram, destination, outputStart, control, report>>

CopyByte ==
  /\ stage = "copy" /\ IsMapped(destination)
  /\ \E from \in Address : ram' = [ram EXCEPT ![destination] = ram[from]]
  /\ destination' = destination + 1 /\ length' = length - 1
  /\ IF length = 1
       THEN control' = control \div 2 /\ stage' = AfterControl(control \div 2)
       ELSE UNCHANGED <<control, stage>>
  /\ UNCHANGED <<call, source, outputStart, report>>

\* Returned, or lost.
Over == stage \in {"done", "strayed"} /\ UNCHANGED vars

-----------------------------------------------------------------------------
\* t1 holds something else until the decompressor sets it.
Init ==
  /\ call \in Calls /\ ram \in RamImages
  /\ source = call.entry /\ destination = call.output
  /\ outputStart \in {0, call.output}
  /\ control = 0 /\ length = 0
  /\ stage = "prologue" /\ report = NoReport

Decompress ==
  \/ SetOutputStart
  \/ Strays
  \/ ReadControl
  \/ CopyLiteral
  \/ ReadReference
  \/ CopyByte

Next == CutOff \/ Decompress \/ Over

Spec == Init /\ [][Next]_vars

-----------------------------------------------------------------------------
\* The types; no scan reports more output than the wrapper's bound.
TypeOK ==
  /\ call \in Calls /\ ram \in [Address -> Byte]
  /\ source \in 0..RamSize /\ destination \in 0..RamSize /\ outputStart \in Address
  /\ control \in Byte /\ length \in 0..MaxLength /\ stage \in Stages
  /\ report.scan \in {"none", "not-run", "complete", "truncated", "exceeds", "missing"}
  /\ report.sourceBytes \in 0..RamSize /\ report.outputBytes \in 0..call.limit
  /\ report.consumed \in 0..RamSize /\ report.consistent \in BOOLEAN

\* "consistent=1 expected_output_from_RAM=n": the call would have returned
\* after exactly this much output and this much of the stream, although the
\* stream was read back from memory the decompressor had been writing to.
ConsistentReportComesTrue ==
  report.consistent =>
    /\ stage # "strayed"
    /\ stage = "done" =>
         /\ destination - call.output = report.outputBytes
         /\ source - call.entry = report.sourceBytes

\* The report is well formed, and a consistent one comes true.
ReportIsSound == TypeOK /\ ConsistentReportComesTrue

\* A call that returns, within the wrapper's bound and without its output
\* touching its stream, was not reported as anything else wherever the budget
\* ended: not as truncated, unterminated or too long.
OrderlyCallIsConsistent ==
  /\ stage = "done"
  /\ destination - call.output <= call.limit
  /\ call.entry >= destination \/ call.output >= source
  => report \in {NoReport, Unresolved} \/ report.consistent
=============================================================================
