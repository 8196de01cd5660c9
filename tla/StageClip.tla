------------------------------ MODULE StageClip ------------------------------
(***************************************************************************)
(* game/widescreen/widescreen.cpp: the projection plan a view change       *)
(* publishes, and the two clippers that consume it.  A clipper turns the   *)
(* commands the guest hands it into packets, written one after another     *)
(* where the guest's cursor points, and pushes each onto the front of an   *)
(* ordering table the GPU later walks.                                     *)
(*                                                                         *)
(* Words of packets are reduced to the header: the next packet and the     *)
(* count of words behind it.  Addresses count words of the packet buffer;  *)
(* a vertex is its column and its row.                                     *)
(***************************************************************************)
EXTENDS Integers, FiniteSetsExt, Sequences

CONSTANTS
  Tables,       (* indices of the ordering tables of a frame               *)
  Plans,        (* what the framework may latch: records                   *)
  Primitives,   (* commands of the stage: records                          *)
  Effects,      (* effect sprites: tuples of four vertices                 *)
  Batch,        (* most commands of one call                               *)
  Capacity,     (* most packets a call may produce                         *)
  Room          (* words of the packet buffer                              *)

ASSUME TablesAssumption ==
  Tables # {} /\ Tables \subseteq Nat /\ \A t \in Tables : t >= 5 => t - 5 \in Tables
ASSUME PlansAssumption ==
  Plans \subseteq [wide : BOOLEAN, presentation : Nat, draw : Nat]
ASSUME PrimitivesAssumption ==
  \A p \in Primitives :
    /\ p.opcode \in {"quadTextured", "triangleTextured", "quadFlat", "unknown"}
    /\ p.vertices \in Seq(Int \X Int)
ASSUME BoundsAssumption == Batch \in Nat /\ Capacity \in Nat /\ Room \in Nat

VARIABLES
  plan,         (* the session's projection plan                           *)
  heads,        (* the word of each ordering table                         *)
  packets,      (* the headers in the packet buffer                        *)
  cursor,       (* where the guest puts its next packet                    *)
  call,         (* the stage call in progress                              *)
  drawn         (* history: the packets linked to each table, in order     *)

vars == <<plan, heads, packets, cursor, call, drawn>>

End == -1
NoPlan == [wide |-> FALSE, presentation |-> 0, draw |-> 0]
Headers == [next : Int, words : Nat]

\* command: the command word pointer; inputRemaining, capacityRemaining,
\* packet and producedBytes (in words) as in the code.  given and kept are
\* history: the capacity on entry and the commands whose packet was linked.
NoCall == [active |-> FALSE, commands |-> <<>>, command |-> 1, inputRemaining |-> 0,
           capacityRemaining |-> 0, given |-> 0, packet |-> 0, produced |-> 0,
           table |-> CHOOSE t \in Tables : TRUE, kept |-> {}]

-----------------------------------------------------------------------------
(***************************************************************************)
(* The helpers of the clippers.                                            *)
(***************************************************************************)
X(vertex) == vertex[1]
Y(vertex) == vertex[2]

\* C++ division by two goes toward zero.
Half(n) == IF n >= 0 THEN n \div 2 ELSE -((-n) \div 2)

\* The columns the canvas shows; mutated: those the guest draws.
DrawColumns(p) == [left |-> 0, right |-> p.draw]
CanvasColumns(p) ==
  LET margin == Half(p.presentation - p.draw)
  IN  [left |-> -margin, right |-> p.draw + margin]

Visible(vertices, columns) ==
  LET corners == {vertices[i] : i \in DOMAIN vertices}
  IN  /\ \E v \in corners : Y(v) >= 0
      /\ \E v \in corners : X(v) >= columns.left
      /\ \E v \in corners : X(v) < columns.right

\* The words of a packet with its header.
PacketWords(opcode) ==
  CASE opcode = "quadTextured" -> 10
    [] opcode = "triangleTextured" -> 8
    [] opcode = "quadFlat" -> 6
    [] opcode = "unknown" -> 0

\* linkPacket's header: what the table pointed at before.  Mutated: the table
\* is written first.
HeadFirst(t, packet) == packet
OldHead(t, packet) == heads[t]

Link(t, packet, words) ==
  /\ packets' = [a \in DOMAIN packets \cup {packet} |->
                   IF a = packet THEN [next |-> OldHead(t, packet), words |-> words - 1]
                                 ELSE packets[a]]
  /\ heads' = [heads EXCEPT ![t] = packet]
  /\ drawn' = [drawn EXCEPT ![t] = Append(@, packet)]

-----------------------------------------------------------------------------
(***************************************************************************)
(* The guest around the overrides.                                         *)
(***************************************************************************)
Init ==
  /\ plan = NoPlan
  /\ heads = [t \in Tables |-> End]
  /\ packets = [a \in {} |-> [next |-> End, words |-> 0]]
  /\ cursor = 0
  /\ call = NoCall
  /\ drawn = [t \in Tables |-> <<>>]

\* A new frame clears the tables and starts the packet buffer again.
ClearTables ==
  /\ ~call.active
  /\ heads' = [t \in Tables |-> End]
  /\ packets' = [a \in {} |-> [next |-> End, words |-> 0]]
  /\ cursor' = 0
  /\ drawn' = [t \in Tables |-> <<>>]
  /\ UNCHANGED <<plan, call>>

\* publishDimensions: the plan for the guest's new dimensions is latched, and
\* the clippers use it from then on.  It aborts the process on dimensions or a
\* projected width that cannot be.
PublishDimensions ==
  /\ ~call.active
  /\ plan' \in Plans
  /\ UNCHANGED <<heads, packets, cursor, call, drawn>>

\* A call of clipStagePrimitives.  The guest offers no more capacity than the
\* buffer has room for.
BeginStageClip ==
  /\ ~call.active
  /\ \E n \in 0 .. Batch, capacity \in 0 .. Capacity, t \in Tables :
       \E commands \in [1 .. n -> Primitives] :
         /\ cursor + 10 * capacity <= Room
         /\ call' = [active |-> TRUE, commands |-> commands, command |-> 1,
                     inputRemaining |-> n, capacityRemaining |-> capacity, given |-> capacity,
                     packet |-> cursor, produced |-> 0, table |-> t, kept |-> {}]
  /\ UNCHANGED <<plan, heads, packets, cursor, drawn>>

-----------------------------------------------------------------------------
(***************************************************************************)
(* clipStagePrimitives.  Without a wide plan the guest's own body runs: it *)
(* is the same loop, and which primitives it keeps is its own affair.      *)
(***************************************************************************)
Current == call.commands[call.command]

Keeps(p) ==
  /\ p.opcode # "unknown"
  /\ plan.wide => Visible(p.vertices, CanvasColumns(plan))

\* Room is used by what is produced; mutated: by every command.
EveryInput(keeps) == 1
CapacityUsed(keeps) == IF keeps THEN 1 ELSE 0

\* The pointer moves past what was written; mutated: past the counted words.
CountedWords(opcode) == PacketWords(opcode) - 1
PacketStep(opcode) == PacketWords(opcode)

\* An opcode of no known kind uses up an input and leaves the pointer on it.
Advance(keeps) ==
  call' = [call EXCEPT
             !.command = IF Current.opcode = "unknown" THEN @ ELSE @ + 1,
             !.inputRemaining = @ - 1,
             !.capacityRemaining = @ - CapacityUsed(keeps),
             !.packet = IF keeps THEN @ + PacketStep(Current.opcode) ELSE @,
             !.produced = IF keeps THEN @ + PacketStep(Current.opcode) ELSE @,
             !.kept = IF keeps THEN @ \cup {call.command} ELSE @]

IgnoresCapacity == call.active /\ call.inputRemaining > 0
LoopRuns == call.active /\ call.inputRemaining > 0 /\ call.capacityRemaining > 0

KeepPrimitive ==
  /\ LoopRuns
  /\ Keeps(Current)
  /\ Link(call.table, call.packet, PacketWords(Current.opcode))
  /\ Advance(TRUE)
  /\ UNCHANGED <<plan, cursor>>

DropPrimitive ==
  /\ LoopRuns
  /\ plan.wide => ~Keeps(Current)
  /\ Advance(FALSE)
  /\ UNCHANGED <<plan, heads, packets, cursor, drawn>>

\* The counts are written back, and the guest moves its cursor by the bytes.
ReturnFromStageClip ==
  /\ call.active /\ ~LoopRuns
  /\ cursor' = cursor + call.produced
  /\ call' = NoCall
  /\ UNCHANGED <<plan, heads, packets, drawn>>

(***************************************************************************)
(* clipEffectPrimitive: one sprite, whose table is the command's index     *)
(* less five when the context asks for it; a negative index draws nothing. *)
(* The slot is the guest's whether it is used or not.                      *)
(***************************************************************************)
Top == 20
Bottom == 468

EffectVisible(vertices, columns) ==
  /\ X(vertices[1]) <= columns.right
  /\ X(vertices[2]) >= columns.left
  /\ Y(vertices[1]) <= Bottom
  /\ Y(vertices[3]) >= Top

ClipEffectPrimitive ==
  /\ ~call.active
  /\ cursor + 10 <= Room
  /\ \E effect \in Effects, index \in Tables, nearer \in BOOLEAN :
       LET t == IF nearer THEN index - 5 ELSE index
           kept == t >= 0 /\ (plan.wide => EffectVisible(effect, CanvasColumns(plan)))
       IN  \/ kept /\ Link(t, cursor, 10)
           \/ (plan.wide => ~kept) /\ UNCHANGED <<heads, packets, drawn>>
  /\ cursor' = cursor + 10
  /\ UNCHANGED <<plan, call>>

Next ==
  \/ ClearTables
  \/ PublishDimensions
  \/ BeginStageClip
  \/ KeepPrimitive
  \/ DropPrimitive
  \/ ReturnFromStageClip
  \/ ClipEffectPrimitive

Spec == Init /\ [][Next]_vars

-----------------------------------------------------------------------------
TypeOK ==
  /\ plan \in Plans \cup {NoPlan}
  /\ heads \in [Tables -> 0 .. Room \cup {End}]
  /\ DOMAIN packets \subseteq 0 .. Room
  /\ \A a \in DOMAIN packets : packets[a] \in [next : 0 .. Room \cup {End}, words : {5, 7, 9}]
  /\ cursor \in 0 .. Room
  /\ call.inputRemaining \in 0 .. Batch
  /\ call.capacityRemaining \in 0 .. Capacity
  /\ call.packet \in 0 .. Room
  /\ call.active => call.packet = cursor + call.produced

\* The GPU's walk of a table visits exactly the packets linked to it in this
\* frame, the last one first, and ends: no packet is in a table twice or in
\* two tables, and none points back into the list.
TableIsAList ==
  /\ \A t \in Tables :
       LET list == drawn[t]
           Before(i) == IF i = 1 THEN End ELSE list[i - 1]
       IN  /\ heads[t] = Before(Len(list) + 1)
           /\ \A i \in DOMAIN list : packets[list[i]].next = Before(i)
  /\ \A t, u \in Tables : \A i \in DOMAIN drawn[t], j \in DOMAIN drawn[u] :
       drawn[t][i] = drawn[u][j] => t = u /\ i = j

\* No packet is written over another or past the buffer, whichever clipper
\* wrote it: the size a packet's header counts, the step to the next packet
\* and the bytes reported to the guest agree.
PacketsDisjoint ==
  /\ \A a, b \in DOMAIN packets : a < b => a + packets[a].words < b
  /\ \A a \in DOMAIN packets : a + packets[a].words < Room

\* What the GPU is given: lists of packets, each whole.
TablesAreSound == TypeOK /\ TableIsAList /\ PacketsDisjoint

\* What is written back to the guest: the capacity less one for every packet
\* linked, and the words of those packets.
CountsAreOfPackets ==
  LET Of(opcode) == Cardinality({c \in call.kept : call.commands[c].opcode = opcode})
  IN  call.active =>
        /\ call.given - call.capacityRemaining = Cardinality(call.kept)
        /\ call.produced =
             10 * Of("quadTextured") + 8 * Of("triangleTextured") + 6 * Of("quadFlat")

\* A reference for what a primitive covers: the GPU draws a quad as the
\* triangles of its first three and its last three vertices.
Turn(a, b, c) == (X(b) - X(a)) * (Y(c) - Y(a)) - (Y(b) - Y(a)) * (X(c) - X(a))
InTriangle(p, a, b, c) ==
  LET turns == {Turn(a, b, p), Turn(b, c, p), Turn(c, a, p)}
  IN  /\ (\A d \in turns : d >= 0) \/ (\A d \in turns : d <= 0)
      /\ Turn(a, b, c) # 0
Covers(vertices, p) ==
  \E i \in 1 .. Len(vertices) - 2 : InTriangle(p, vertices[i], vertices[i + 1], vertices[i + 2])

\* The canvas is centred on the columns the guest draws; rows above 0 are not
\* shown.
Shown(p) == 2 * X(p) >= plan.draw - plan.presentation /\ 2 * X(p) < plan.draw + plan.presentation
Pixels(vertices) ==
  LET corners == {vertices[i] : i \in DOMAIN vertices}
      columns == Min({X(v) : v \in corners}) .. Max({X(v) : v \in corners})
      rows == 0 .. Max({Y(v) : v \in corners} \cup {0})
  IN  {p \in columns \X rows : Covers(vertices, p) /\ Shown(p)}

\* A wide call drops no primitive of which the canvas shows a pixel, in the
\* margins as in the columns the guest draws (docs/issues/0026), except behind
\* an opcode of no known kind or when the capacity is used up.
OnlyTheHiddenIsDropped ==
  call.active /\ ~LoopRuns /\ plan.wide /\ call.capacityRemaining > 0 =>
    \A c \in DOMAIN call.commands :
      /\ \A b \in 1 .. c : call.commands[b].opcode # "unknown"
      /\ Pixels(call.commands[c].vertices) # {}
      => c \in call.kept
=============================================================================
