---------------------------- MODULE LoaderProbe ----------------------------
(***************************************************************************)
(* tools/probe_loader_state.py: waits for a field of a running product,    *)
(* then prints a few rows of the loader's words, read one after the other  *)
(* while the product runs, and marks what changed from row to row.         *)
(***************************************************************************)
EXTENDS EndpointWait, Sequences

CONSTANTS
  Words,         (* how many words a row has                               *)
  Rows,          (* how many rows                                          *)
  First,         (* the field to sample from                               *)
  LastField,     (* bound: fields of the product                           *)
  Values         (* of a word                                              *)

Bounds ==
  LastField \in Nat /\ First \in 0..LastField /\ {Rows, Words} \subseteq Nat \ {0} /\ Values # {}

VARIABLES
  field,         (* of the product                                         *)
  memory,        (* its words                                              *)
  late,          (* the deadline of the wait for First has passed          *)
  row,           (* the words of this row read so far                      *)
  previous,      (* the last row, or none                                  *)
  printed,       (* the rows printed: what was read, what was marked       *)
  began          (* history: the field at which the wait ended             *)

product == <<field, memory>>
rows == <<row, previous, printed>>
vars == <<waitVars, product, late, rows, began>>

NoField == -1

\* frame_number: -1 for a product that does not answer.
FrameNumber == IF Answered THEN field ELSE NoField

-----------------------------------------------------------------------------
Init ==
  /\ EndpointInit
  /\ field = 0 /\ memory \in [1..Words -> Values]
  /\ late = FALSE /\ row = <<>> /\ previous = <<>> /\ printed = <<>>
  /\ began = NoField

Waiting == WaitStep /\ UNCHANGED <<product, late, rows, began>>

\* The wait's condition; mutated: one field early.
BeforeLast == FrameNumber < First - 1
TooEarly == FrameNumber < First

\* while frame_number() < first and time.time() < deadline
AwaitField ==
  /\ at = "ready" /\ ~(TooEarly /\ ~late)
  /\ at' = "sample" /\ began' = FrameNumber
  /\ UNCHANGED <<client, sockets, endpoint, product, late, rows>>

DeadlinePasses ==
  /\ at = "ready" /\ ~late /\ late' = TRUE
  /\ UNCHANGED <<waitVars, product, rows, began>>

\* One word of a row; a call that is not answered raises.
ReadWord ==
  /\ at = "sample" /\ Len(printed) < Rows /\ Len(row) < Words
  /\ IF Answered THEN row' = Append(row, memory[Len(row) + 1]) /\ UNCHANGED at
     ELSE at' = "raised" /\ UNCHANGED row
  /\ UNCHANGED <<client, sockets, endpoint, product, late, previous, printed, began>>

\* Mutated: the row stays the one compared with.
KeepFirst == previous' = IF previous = <<>> THEN row ELSE previous
KeepRow == previous' = row

Changed == IF previous = <<>> THEN {} ELSE {i \in 1..Words : row[i] # previous[i]}

PrintRow ==
  /\ at = "sample" /\ Len(printed) < Rows /\ Len(row) = Words
  /\ printed' = Append(printed, [words |-> row, marked |-> Changed])
  /\ KeepRow /\ row' = <<>>
  /\ UNCHANGED <<waitVars, product, late, began>>

\* client.send("guest"), printed, and the client is closed.
Finish ==
  /\ at = "sample" /\ Len(printed) = Rows
  /\ IF Answered THEN at' = "done" /\ Close
     ELSE at' = "raised" /\ UNCHANGED <<client, sockets>>
  /\ UNCHANGED <<endpoint, product, late, rows, began>>

-----------------------------------------------------------------------------
\* A field goes by and the guest writes a word.
ProductRuns ==
  /\ field' \in {field, field + 1} /\ field' <= LastField
  /\ \E i \in 1..Words, v \in Values : memory' = [memory EXCEPT ![i] = v]
  /\ UNCHANGED <<waitVars, late, rows, began>>

ProductChanges == EndpointChanges /\ UNCHANGED <<product, late, rows, began>>

Over == at \in {"no endpoint", "raised", "done"}
Ended == Over /\ UNCHANGED vars

ProbeStep == Waiting \/ AwaitField \/ ReadWord \/ PrintRow \/ Finish

Next == ProbeStep \/ DeadlinePasses \/ (~Over /\ (ProductRuns \/ ProductChanges)) \/ Ended

Spec == Init /\ [][Next]_vars

-----------------------------------------------------------------------------
TypeOK ==
  /\ at \in {"connect", "hello", "sleep", "ready", "sample"} \cup
            {"no endpoint", "raised", "done"}
  /\ client \in BOOLEAN /\ sockets \in 0..1 /\ endpoint \in Endpoints
  /\ field \in 0..LastField /\ memory \in [1..Words -> Values] /\ late \in BOOLEAN
  /\ Len(row) <= Words /\ Len(previous) \in {0, Words} /\ Len(printed) <= Rows
  /\ began \in NoField..LastField

\* Rows are sampled from the field asked for on, however often the product
\* stopped answering during the wait, unless the wait's time was up.
SamplesFromFirst == at \in {"sample", "done"} /\ ~late => began >= First

\* A word no row marks is the same in every row printed, and a marked one is not
\* what the row before it showed.
MarksTellTheHistory ==
  \A i \in 1..Words, n \in 2..Len(printed) :
    i \in printed[n].marked <=> printed[n].words[i] # printed[n - 1].words[i]
=============================================================================
