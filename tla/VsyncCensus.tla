---------------------------- MODULE VsyncCensus ----------------------------
(***************************************************************************)
(* tools/verify_vsync_field_clock.py: the census of the calls of VSync in  *)
(* the guest's text.  Each call's mode, the value of a0, is named from its *)
(* delay slot or from a walk back along straight-line code, or it is left  *)
(* unresolved; then the sites are compared with the recorded ones.         *)
(*                                                                         *)
(* The same text is executed, so that a mode named can be held against     *)
(* the mode passed.                                                        *)
(***************************************************************************)
EXTENDS Integers, FiniteSets, FiniteSetsExt

CONSTANTS
  Texts,         (* functions from 1..Size to instructions                 *)
  Size,
  WalkLimit,     (* 12 in the code                                         *)
  Records        (* recorded censuses: waits, unresolved, total            *)

\* A mode: a query, a wait, and 0xFFFF, an immediate that is a query's with its
\* sign extended.
Query == -1
Wait == 0
Wide == 65535
Modes == {Query, Wait, Wide}

\* What the decoder tells of an instruction.  A literal writes a register
\* from an immediate alone; simm is the immediate with its sign extended and
\* value what the register holds after it.
Literal(register, simm, value) ==
  [kind |-> "literal", register |-> register, simm |-> simm, value |-> value, target |-> 0]
Plain(kind) == [kind |-> kind, register |-> "none", simm |-> 0, value |-> 0, target |-> 0]
CopyToA0 == [Plain("copy") EXCEPT !.register = "a0"]
BranchTo(target) == [Plain("branch") EXCEPT !.target = target]

Instructions ==
  {Literal(register, mode, mode) : register \in {"a0", "v0"}, mode \in {Query, Wait}}
  \cup {Literal("a0", Query, Wide), CopyToA0}
  \cup {Plain(kind) : kind \in {"store", "source", "other", "call", "vsync"}}
  \cup {BranchTo(target) : target \in 1..Size}

IsControl(ins) == ins.kind \in {"branch", "call", "vsync"}

\* Nothing that transfers control is in a delay slot, or at the end.
WellFormed(text) ==
  /\ ~IsControl(text[Size])
  /\ \A a \in 1..Size - 1 : IsControl(text[a]) => ~IsControl(text[a + 1])

ASSUME SizeAssumption == Size \in Nat \ {0} /\ WalkLimit \in Nat \ {0}
ASSUME TextsAssumption ==
  \A text \in Texts : text \in [1..Size -> Instructions] /\ WellFormed(text)
ASSUME RecordsAssumption ==
  \A r \in Records : r.wait \in 1..Size /\ r.unresolved \subseteq 1..Size /\ r.total \in Nat

VARIABLES
  text,
  record,        (* what was measured once and is expected                 *)
  addr,          (* the next word to scan                                  *)
  sites,         (* calls of VSync found so far, with their modes          *)
  verdict,       (* "none", "accepted" or "rejected"                       *)
  pc, slot,      (* the guest: where it is, and where its delay slot leads *)
  a0,
  passed         (* history: the site just called and the mode passed      *)

scan == <<addr, sites, verdict>>
guest == <<pc, slot, a0, passed>>
vars == <<text, record, scan, guest>>

None == 2
NoCall == [site |-> 0, mode |-> None]
Outside == 0

-----------------------------------------------------------------------------
(***************************************************************************)
(* Naming a mode.                                                          *)
(***************************************************************************)
LiteralMode(ins) == IF ins.kind = "literal" THEN ins.simm ELSE None

\* An instruction whose second source is a0 counts as a write.
WritesA0(ins) == ins.register = "a0" \/ ins.kind = "source"

\* Where the walk back from a call stops; mutated: at a write only.
StopsAtWrite(a) == WritesA0(text[a])
Stops(a) == IsControl(text[a]) \/ WritesA0(text[a])

\* The nearest stop in the limit and in the text, or Outside.
StopOf(call) ==
  LET window == {a \in 1..call - 1 : a >= call - WalkLimit /\ Stops(a)}
  IN  IF window = {} THEN Outside ELSE Max(window)

ResolveByWalk(call) ==
  LET a == StopOf(call)
  IN  IF a = Outside \/ IsControl(text[a]) THEN None ELSE LiteralMode(text[a])

ModeOf(call) ==
  LET delay == text[call + 1]
  IN  IF LiteralMode(delay) = None /\ delay.kind # "store" THEN ResolveByWalk(call)
      ELSE LiteralMode(delay)

-----------------------------------------------------------------------------
(***************************************************************************)
(* The census and its comparison.                                          *)
(***************************************************************************)
ScanWord ==
  /\ addr <= Size
  /\ addr' = addr + 1
  /\ sites' = IF text[addr].kind = "vsync"
              THEN sites \cup {[site |-> addr, mode |-> ModeOf(addr)]} ELSE sites
  /\ UNCHANGED <<text, record, verdict, guest>>

Queries == {s.site : s \in {t \in sites : t.mode < 0}}
Waits == {s.site : s \in {t \in sites : t.mode # None /\ t.mode >= 0}}
Unresolved == {s.site : s \in {t \in sites : t.mode = None}}

\* "A new unexamined call site is where a WAIT could hide"; mutated: only how
\* many there are counts.
UnresolvedCounted == Cardinality(Unresolved) = Cardinality(record.unresolved)
UnresolvedAsRecorded == Unresolved = record.unresolved

Agrees ==
  /\ Cardinality(sites) = record.total
  /\ Waits = {record.wait}
  /\ UnresolvedAsRecorded
  /\ Cardinality(Queries) + Cardinality(Unresolved) = record.total - 1
  /\ sites # {}

Compare ==
  /\ addr > Size /\ verdict = "none"
  /\ verdict' = IF Agrees THEN "accepted" ELSE "rejected"
  /\ UNCHANGED <<text, record, addr, sites, guest>>

-----------------------------------------------------------------------------
(***************************************************************************)
(* The guest runs the text, entered at its start with any a0.              *)
(***************************************************************************)
A0After(ins) ==
  IF ins.register # "a0" THEN {a0} ELSE IF ins.kind = "literal" THEN {ins.value} ELSE Modes

\* slot is the control instruction whose delay slot pc is in.
Execute ==
  /\ verdict # "none" /\ pc \in 1..Size
  /\ LET ins == text[pc]
     IN  IF IsControl(ins)
         THEN slot' = pc /\ pc' = pc + 1 /\ UNCHANGED <<a0, passed>>
         ELSE IF slot = Outside
         THEN /\ a0' \in A0After(ins) /\ pc' = pc + 1
              /\ passed' = NoCall /\ UNCHANGED slot
         ELSE \E mode \in A0After(ins) :
                /\ slot' = Outside
                /\ IF text[slot].kind = "branch"
                   THEN a0' = mode /\ pc' \in {pc + 1, text[slot].target}
                   ELSE a0' \in Modes /\ pc' = pc + 1
                /\ passed' = IF text[slot].kind = "vsync"
                             THEN [site |-> slot, mode |-> mode] ELSE NoCall
  /\ UNCHANGED <<text, record, scan>>

Returned == pc > Size /\ UNCHANGED vars

Init ==
  /\ text \in Texts /\ record \in Records
  /\ addr = 1 /\ sites = {} /\ verdict = "none"
  /\ pc = 1 /\ slot = Outside /\ a0 \in Modes /\ passed = NoCall

-----------------------------------------------------------------------------
TypeOK ==
  /\ text \in Texts /\ record \in Records
  /\ addr \in 1..Size + 1
  /\ sites \subseteq [site : 1..Size, mode : {Query, Wait, None}]
  /\ verdict \in {"none", "accepted", "rejected"}
  /\ pc \in 1..Size + 1 /\ slot \in 0..Size /\ a0 \in Modes
  /\ passed = NoCall \/ passed \in [site : 1..Size, mode : Modes]

Named(call) == CHOOSE mode \in {s.mode : s \in {t \in sites : t.site = call}} : TRUE

\* The literal a mode named stands on: in the delay slot, or last before the
\* call, whatever is between.
LiteralOf(call) ==
  IF text[call + 1].kind = "literal" THEN call + 1
  ELSE Max({Outside} \cup {a \in 1..call - 1 : text[a].register = "a0"})

\* What the census does not see of a call whose mode it names.
Misled(call) ==
  LET write == LiteralOf(call)
  IN  /\ Named(call) # None /\ write # Outside
      /\ \/ text[write].register # "a0"                 \* another register's literal
         \/ text[write].simm # text[write].value        \* an unsigned immediate
         \/ /\ write < call                             \* a0 changes in the delay slot
            /\ text[call + 1].register = "a0"
         \/ /\ write \in 2..call - 1                    \* another call's delay slot
            /\ text[write - 1].kind \in {"call", "vsync"}
         \/ /\ write < call                             \* a branch behind the write
            /\ \E a \in 1..Size : /\ text[a].kind = "branch"
                                  /\ text[a].target \in write + 1..call

\* "The mode comes from the call's delay slot or a straight-line walk back to
\* the a0 write; crossing a branch leaves the site unresolved": a mode named is
\* the mode passed, but for the five things the walk does not look at.
NamedUnlessMisled ==
  passed # NoCall /\ ~Misled(passed.site) =>
    Named(passed.site) \in {None, passed.mode}
=============================================================================
