---------------------------- MODULE GhidraQuery ----------------------------
(***************************************************************************)
(* tools/ghidra_query.py: one question to a saved Ghidra program.  The     *)
(* modes func, calls, data, disasm and scan; a word is an address.  Of     *)
(* calls only the status is kept: its answer is a list of Ghidra's.        *)
(*                                                                         *)
(* Of the program a mode can tell which words are disassembled, which      *)
(* function contains a word (a body may have holes), and which             *)
(* instructions have the mnemonic that scan looks for.                     *)
(***************************************************************************)
EXTENDS Naturals, Sequences, SequencesExt, FiniteSets

CONSTANTS
  Words,         (* words of memory                                        *)
  Functions,
  NoFunction,
  MaxArgs        (* bound on the addresses of a command line               *)

Bounds ==
  Words \in Nat \ {0} /\ MaxArgs \in Nat \ {0} /\ NoFunction \notin Functions

VARIABLES
  code,          (* disassembled words                                     *)
  owner,         (* getFunctionContaining                                  *)
  match,         (* instructions with the mnemonic                         *)
  mode, args,    (* the command line                                       *)
  at, pos,       (* place; words or addresses done with                    *)
  hits,          (* instructions printed or kept, in order                 *)
  listed,        (* functions printed, in order                            *)
  miss,          (* addresses counted as unresolved                        *)
  exit           (* 0, 1, 2, or 3 for an exception                         *)

program == <<code, owner, match>>
question == <<mode, args>>
answer == <<hits, listed, miss>>
vars == <<program, question, at, pos, answer, exit>>

Memory == 0 .. Words - 1
Running == 9

\* What getAddress makes of an argument: a word, one past memory, or None.
None == Words + 1
Addresses == 0 .. Words

Owner(a) == IF a \in Memory THEN owner[a] ELSE NoFunction

Ends(status) == at' = "over" /\ exit' = status
Goes(place) == at' = place /\ UNCHANGED exit

-----------------------------------------------------------------------------
Modes == {"func", "calls", "data", "disasm", "scan"}

\* The command line: too short, a malformed first address, and what disasm
\* asks of its range.
Refuses ==
  \/ args = <<>>
  \/ mode # "scan" /\ args[1] = None
  \/ mode = "disasm" /\ (Len(args) # 2 \/ args[2] = None \/ args[1] >= args[2])

Dispatch ==
  /\ at = "start"
  /\ IF Refuses THEN Ends(2) ELSE Goes(mode)
  /\ pos' = IF mode \in {"data", "disasm"} /\ ~Refuses THEN args[1] ELSE 0
  /\ UNCHANGED <<program, question, answer>>

\* func: the next address.  A function that Ghidra fails to decompile counts as
\* decompiled; a malformed address is an exception.  Mutated: the batch ends at
\* the first address that no function contains.
SkipRest == pos' = Len(args) /\ miss' = miss + 1 /\ UNCHANGED listed
SkipOne == pos' = pos + 1 /\ miss' = miss + 1 /\ UNCHANGED listed

Decompile ==
  /\ at = "func" /\ pos < Len(args)
  /\ LET a == args[pos + 1]
     IN  IF a = None THEN Ends(3) /\ UNCHANGED <<pos, listed, miss>>
         ELSE /\ IF Owner(a) = NoFunction THEN SkipOne
                 ELSE pos' = pos + 1 /\ listed' = Append(listed, Owner(a)) /\ UNCHANGED miss
              /\ UNCHANGED <<at, exit>>
  /\ UNCHANGED <<program, question, hits>>

DecompileOver ==
  /\ at = "func" /\ pos = Len(args)
  /\ Ends(IF listed = <<>> THEN 1 ELSE 0)
  /\ UNCHANGED <<program, question, pos, answer>>

\* calls: the callees of the function at the address.
Calls ==
  /\ at = "calls"
  /\ Ends(IF Owner(args[1]) = NoFunction THEN 1 ELSE 0)
  /\ UNCHANGED <<program, question, pos, answer>>

\* data: words from the address on, as many as the second argument says; a word
\* outside memory is an exception, with the words before it printed.
DataWords == IF Len(args) > 1 THEN args[2] ELSE 8

Data ==
  /\ at = "data"
  /\ IF pos = args[1] + DataWords THEN Ends(0) /\ UNCHANGED <<pos, hits>>
     ELSE IF pos \notin Memory THEN Ends(3) /\ UNCHANGED <<pos, hits>>
     ELSE pos' = pos + 1 /\ hits' = Append(hits, pos) /\ UNCHANGED <<at, exit>>
  /\ UNCHANGED <<program, question, listed, miss>>

\* The listing, in address order.
NextInstruction == {a \in code : a >= pos /\ \A b \in code : b >= pos => a <= b}

\* disasm: up to the exclusive end.  Mutated: the end belongs to it.
BeyondEnd(a) == a > args[2]
AtEnd(a) == a >= args[2]

Disassemble ==
  /\ at = "disasm"
  /\ IF \E a \in NextInstruction : ~AtEnd(a)
       THEN \E a \in NextInstruction :
              pos' = a + 1 /\ hits' = Append(hits, a) /\ UNCHANGED <<at, exit>>
       ELSE Ends(IF hits = <<>> THEN 1 ELSE 0) /\ UNCHANGED <<pos, hits>>
  /\ UNCHANGED <<program, question, listed, miss>>

\* scan: the whole listing.
Scan ==
  /\ at = "scan"
  /\ IF NextInstruction # {}
       THEN \E a \in NextInstruction :
              /\ pos' = a + 1
              /\ hits' = IF a \in match THEN Append(hits, a) ELSE hits
              /\ UNCHANGED <<at, exit>>
       ELSE Goes("enclosing") /\ pos' = 0 /\ UNCHANGED hits
  /\ UNCHANGED <<program, question, listed, miss>>

\* ... then the function around each hit, if there is one not seen yet.
\* Mutated: only the function before is remembered.
SeenLast(f) == listed # <<>> /\ Last(listed) = f
Seen(f) == f \in ToSet(listed)

ListEnclosing ==
  /\ at = "enclosing"
  /\ IF pos < Len(hits)
       THEN LET f == Owner(hits[pos + 1])
            IN  /\ pos' = pos + 1
                /\ listed' = IF f = NoFunction \/ Seen(f) THEN listed ELSE Append(listed, f)
                /\ UNCHANGED <<at, exit>>
       ELSE Ends(IF hits = <<>> THEN 1 ELSE 0) /\ UNCHANGED <<pos, listed>>
  /\ UNCHANGED <<program, question, hits, miss>>

Over == at = "over" /\ UNCHANGED vars

Init ==
  /\ code \in SUBSET Memory /\ match \in SUBSET code
  /\ owner \in [Memory -> Functions \cup {NoFunction}]
  /\ mode \in Modes /\ args \in BoundedSeq(0 .. None, MaxArgs)
  /\ at = "start" /\ pos = 0 /\ exit = Running
  /\ hits = <<>> /\ listed = <<>> /\ miss = 0

Next ==
  Dispatch \/ Decompile \/ DecompileOver \/ Calls \/ Data \/ Disassemble \/ Scan
  \/ ListEnclosing \/ Over

-----------------------------------------------------------------------------
\* The types; a run is over when its status is known.
TypeOK ==
  /\ code \subseteq Memory /\ match \subseteq code
  /\ owner \in [Memory -> Functions \cup {NoFunction}]
  /\ mode \in Modes /\ args \in BoundedSeq(0 .. None, MaxArgs)
  /\ at \in {"start", "enclosing", "over"} \cup Modes
  /\ pos \in 0 .. Words + MaxArgs /\ miss \in 0 .. MaxArgs
  /\ ToSet(hits) \subseteq Memory /\ ToSet(listed) \subseteq Functions
  /\ (at = "over" <=> exit # Running)

\* A batch that came to its end accounts for every address: what was listed and
\* what was counted as unresolved are the requested addresses, and what was
\* listed for each address is its function, in the order they were asked for.
\* It ends with 1 when there is no function at all, with 0 when there is one.
Resolved(n) == {i \in 1 .. n : Owner(args[i]) # NoFunction}

BatchAccountsForAll ==
  mode = "func" /\ exit \in {0, 1} =>
    /\ Len(listed) + miss = Len(args)
    /\ Len(listed) = Cardinality(Resolved(Len(args)))
    /\ \A i \in Resolved(Len(args)) : listed[Cardinality(Resolved(i))] = Owner(args[i])
    /\ exit = 1 <=> Resolved(Len(args)) = {}

\* A batch breaks off exactly when one of its addresses is malformed, wherever
\* it stands.
BatchBreaksAtMalformed ==
  mode = "func" /\ exit \in {0, 1, 3} => (exit = 3 <=> \E i \in 1 .. Len(args) : args[i] = None)

\* data prints the words asked for and no others, in order; it breaks off only
\* at the first word outside memory, with all before it printed.
DataPrintsTheWords ==
  mode = "data" /\ exit \in {0, 1, 3} =>
    /\ \A i \in 1 .. Len(hits) : hits[i] = args[1] + i - 1
    /\ \/ exit = 0 /\ Len(hits) = DataWords
       \/ exit = 3 /\ Len(hits) < DataWords /\ args[1] + Len(hits) \notin Memory

\* calls succeeds exactly when a function contains its address.
CallsNeedsItsFunction ==
  mode = "calls" /\ exit \in {0, 1, 3} => exit = IF Owner(args[1]) = NoFunction THEN 1 ELSE 0

\* Of whatever mode, a command line is refused exactly when it is malformed.
RefusesTheMalformed == exit # Running => (exit = 2 <=> Refuses)

InOrder(s) == \A i, j \in 1 .. Len(s) : i < j => s[i] < s[j]

\* disasm lists the instructions of its half-open range, all and only those, in
\* order, and refuses exactly when there are none, holes in the listing or not.
DisasmListsTheRange ==
  mode = "disasm" /\ exit \in {0, 1} =>
    LET range == {a \in code : args[1] <= a /\ a < args[2]}
    IN  /\ ToSet(hits) = range /\ InOrder(hits)
        /\ exit = 1 <=> range = {}

\* scan lists each function around a match once, however the matches of
\* different functions alternate, and misses none; only matches in no function
\* have none listed.  It ends with 1 exactly when nothing matches.
ScanListsEachFunctionOnce ==
  mode = "scan" /\ exit \in {0, 1} =>
    /\ ToSet(hits) = match
    /\ IsInjective(listed)
    /\ ToSet(listed) = {owner[a] : a \in match} \ {NoFunction}
    /\ exit = 1 <=> match = {}

\* func, data, disasm and scan answer in full, and the status of every mode says
\* how it ended.
AnswersInFull ==
  /\ TypeOK /\ RefusesTheMalformed
  /\ BatchAccountsForAll /\ BatchBreaksAtMalformed /\ CallsNeedsItsFunction
  /\ DataPrintsTheWords /\ DisasmListsTheRange /\ ScanListsEachFunctionOnce
=============================================================================
