---------------------------- MODULE MCImageTools ----------------------------
(***************************************************************************)
(* A small instance of ImageTools.                                         *)
(***************************************************************************)
EXTENDS ImageTools

-----------------------------------------------------------------------------
\* The texts.  Every well-formed one of the instructions given that calls VSync.
TextsOf(instructions) ==
  {t \in [1..Size -> instructions] :
     WellFormed(t) /\ \E a \in 1..Size : t[a].kind = "vsync"}

\* One call near the end, everything before it.
MCWindows ==
  {t \in TextsOf(Instructions) : \A a \in 1..Size : t[a].kind = "vsync" <=> a = Size - 1}

\* Two or more calls.
MCManyCalls ==
  {t \in TextsOf({Literal("a0", Query, Query), Literal("a0", Wait, Wait), CopyToA0,
                  Plain("vsync")}) :
     Cardinality({a \in 1..Size : t[a].kind = "vsync"}) >= 2}

\* One of the calls is unresolved, one waits.
MCSample ==
  [a \in 1..Size |-> CASE a \in {1, 3} -> Plain("vsync")
                     [] a = 4 -> Literal("a0", Wait, Wait)
                     [] OTHER -> CopyToA0]

MCTexts == MCWindows \cup MCManyCalls

MCAnyRecord == [wait |-> 1, unresolved |-> {}, total |-> 1]
MCRecords ==
  [wait : 1..Size, unresolved : {{a} : a \in 1..Size} \cup {{}}, total : {2, 3}]
  \cup {MCAnyRecord}

-----------------------------------------------------------------------------
\* The executables: everything the gate can tell of one.
Absent == [Retail EXCEPT !.form = "absent"]

MCImages ==
  {Absent, [Retail EXCEPT !.form = "other"]} \cup
  [form : {"exe"}, size : BOOLEAN, pinned : BOOLEAN,
   field : {"counter", "elsewhere", "no lui"}, writers : {"counter", "elsewhere", "no lui"},
   shape : BOOLEAN, rest : BOOLEAN]

\* The provisioner's, a patched one, one of another size, one with its pins moved,
\* none.
MCReplacements ==
  {Retail, [Retail EXCEPT !.rest = FALSE], [Retail EXCEPT !.rest = FALSE, !.size = FALSE],
   [Retail EXCEPT !.pinned = FALSE], Absent}

MCHeaders ==
  [there : {TRUE}, entry : {"vsync", "off", "none"}, counter : {"counter", "off", "none"}]
  \cup {[there |-> FALSE, entry |-> "none", counter |-> "none"]}

Good == [there |-> TRUE, entry |-> "vsync", counter |-> "counter"]

-----------------------------------------------------------------------------
\* Every text against the shipping header, and every executable and header with
\* one text and the record it agrees or disagrees with.  Only then is the file
\* replaced.
OneText == text = MCSample /\ record.total = 2 /\ record.wait = 3

ManyTexts ==
  /\ \/ text \in MCWindows /\ record = MCAnyRecord
     \/ text \in MCManyCalls /\ record \in MCRecords
  /\ file = Retail /\ header = Good /\ manifest = "none" /\ mode = "check"

ManyImages == text = MCSample /\ record \in [wait : {3}, unresolved : {{}, {1}}, total : {2}]

GateIdle ==
  /\ text = MCSample /\ record = MCAnyRecord /\ a0 = Query
  /\ file = Retail /\ header = Good /\ manifest = "none" /\ mode = "check"

GhidraIdle ==
  code = {} /\ match = {} /\ owner = [a \in 0..2 |-> NoFunction] /\ question = "func" /\ args = <<>>

MCInit ==
  \/ tool = "gate" /\ (ManyTexts \/ ManyImages) /\ GhidraIdle /\ ToolInit
  \/ tool = "query" /\ GateIdle /\ ToolInit

MCNext == ToolNext /\ (replaced' => OneText)

MCSpec == MCInit /\ [][MCNext]_toolVars
=============================================================================
