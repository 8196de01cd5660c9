-------------------------- MODULE CompletionProbe --------------------------
(***************************************************************************)
(* tools/probe_cd_completion.py: reads the words a CD command's completion *)
(* depends on, one after the other while the product runs, and says what   *)
(* follows from them.  A word that cannot be read is -1.                   *)
(***************************************************************************)
EXTENDS EndpointWait, Sequences

VARIABLES
  chain,         (* guest: 0x8009B750, 2 while a command is in flight      *)
  outstanding,   (* guest: 0x8009B774, nonzero while one is                *)
  got,           (* the words read so far                                  *)
  said,          (* the verdict: what is said of which word                *)
  truth          (* history: was a command in flight, while they were read *)

guest == <<chain, outstanding>>
vars == <<waitVars, guest, got, said, truth>>

\* The words the verdict is made of, in the order they are read.
Reads == <<"stat", "mask", "chain", "outstanding", "registered", "block", "polled">>
Unreadable == -1
Value(word) == got[CHOOSE i \in DOMAIN Reads : Reads[i] = word]

\* Bit tests and comparisons as Python makes them: every bit of -1 is set.
BitSet(value) == value # 0
IsPointer(value) == value = 1

InFlight == chain = 2 \/ outstanding # 0

-----------------------------------------------------------------------------
Init ==
  /\ EndpointInit
  /\ chain = 1 /\ outstanding = 0
  /\ got = <<>> /\ said = {} /\ truth = {}

Waiting == WaitStep /\ UNCHANGED <<guest, got, said, truth>>

\* Six rows of words are printed; a "frame" that is not answered raises.
Sample ==
  /\ at = "ready"
  /\ at' = IF Answered THEN "read" ELSE "raised"
  /\ UNCHANGED <<client, sockets, endpoint, guest, got, said, truth>>

\* What a word may read as: the two words of the command as they are, bits of
\* the others either way.
ValuesOf(word) ==
  CASE word = "chain" -> {chain}
    [] word = "outstanding" -> {outstanding}
    [] OTHER -> {0, 1}

\* read_word and read_half; the polled halfword is read where block points.
Read ==
  /\ at = "read" /\ Len(got) < Len(Reads)
  /\ LET word == Reads[Len(got) + 1]
     IN  got' \in IF ~Answered \/ (word = "polled" /\ ~IsPointer(Value("block")))
                  THEN {Append(got, Unreadable)}
                  ELSE {Append(got, value) : value \in ValuesOf(word) \cup {Unreadable}}
  /\ truth' = truth \cup {InFlight}
  /\ UNCHANGED <<at, client, sockets, endpoint, guest, said>>

\* The two words without which there is no verdict.
Required == Value("outstanding") # Unreadable /\ Value("chain") # Unreadable

\* Mutated: the chain is not asked.
NothingOutstanding == Value("outstanding") = 0
NoCommand == Value("outstanding") = 0 /\ Value("chain") # 2

Says(word, line) == [of |-> word, line |-> line]

Verdict ==
  {Says("flight", IF NoCommand THEN "no command" ELSE "in flight"),
   Says("stat", IF BitSet(Value("stat")) THEN "pending" ELSE "not pending")}
  \cup (IF BitSet(Value("mask")) THEN {} ELSE {Says("mask", "masked")})
  \cup (IF Value("registered") = 0 THEN {Says("registered", "never registered")} ELSE {})
  \cup (IF ~IsPointer(Value("block")) THEN {Says("block", "uninitialised")}
        ELSE {Says("polled", IF Value("polled") > 0 THEN "set" ELSE "clear")})

Conclude ==
  /\ at = "read" /\ Len(got) = Len(Reads)
  /\ IF Required THEN at' = "done" /\ said' = Verdict
     ELSE at' = "refused" /\ UNCHANGED said
  /\ Close
  /\ UNCHANGED <<endpoint, guest, got, truth>>

-----------------------------------------------------------------------------
(***************************************************************************)
(* The guest and the endpoint, between any two reads.                      *)
(***************************************************************************)
Reading == at = "read" /\ Len(got) \in 1..Len(Reads) - 1

\* A chain is submitted, each command of it is written and completes, and the
\* chain ends.
GuestRuns ==
  /\ \/ chain = 1 /\ chain' = 2 /\ UNCHANGED outstanding
     \/ chain = 2 /\ outstanding = 0 /\ outstanding' = 1 /\ UNCHANGED chain
     \/ outstanding = 1 /\ outstanding' = 0 /\ UNCHANGED chain
     \/ chain = 2 /\ outstanding = 0 /\ chain' = 1 /\ UNCHANGED outstanding
  /\ truth' = IF Reading THEN truth \cup {chain' = 2 \/ outstanding' # 0} ELSE truth
  /\ UNCHANGED <<waitVars, got, said>>

ProductChanges == EndpointChanges /\ UNCHANGED <<guest, got, said, truth>>

Over == at \in {"no endpoint", "raised", "refused", "done"}
Ended == Over /\ UNCHANGED vars

ProbeStep == Waiting \/ Sample \/ Read \/ Conclude

Next == ProbeStep \/ (~Over /\ (GuestRuns \/ ProductChanges)) \/ Ended

Spec == Init /\ [][Next]_vars

-----------------------------------------------------------------------------
TypeOK ==
  /\ at \in {"connect", "hello", "sleep", "ready", "read"} \cup
            {"no endpoint", "raised", "refused", "done"}
  /\ client \in BOOLEAN /\ sockets \in Nat /\ endpoint \in Endpoints
  /\ chain \in 1..2 /\ outstanding \in 0..1
  /\ Len(got) <= Len(Reads) /\ \A i \in DOMAIN got : got[i] \in -1..2
  /\ \A line \in said : line.of \in {Reads[i] : i \in DOMAIN Reads} \cup {"flight"}
  /\ truth \subseteq BOOLEAN

\* However often it connected and was not answered, the probe holds the one
\* connection of its client, and none once it has ended in order.
OneConnection == sockets = (IF client THEN 1 ELSE 0) /\ (at = "done" => ~client)

\* What is said of a command in flight was the case at some moment while the
\* words were read, though they are read at different ones.
FlightVerdictWasTrue ==
  \A line \in said : line.of = "flight" => (line.line = "in flight") \in truth
=============================================================================
