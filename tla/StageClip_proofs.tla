-------------------------- MODULE StageClip_proofs --------------------------
(***************************************************************************)
(* Proofs about StageClip, for any ordering tables, plans, primitives and  *)
(* sizes of batch, capacity and buffer: every table stays one finite list  *)
(* of the packets linked to it, packets never overlap, the counts returned *)
(* are those of the packets linked, and only what no pixel shows is        *)
(* dropped.                                                                *)
(***************************************************************************)
EXTENDS StageClip, FiniteSetTheorems, TLAPS

-----------------------------------------------------------------------------
(***************************************************************************)
(* The inductive invariant.                                                *)
(***************************************************************************)
Calls ==
  [active : BOOLEAN, commands : Seq(Primitives), command : Nat \ {0}, inputRemaining : Nat,
   capacityRemaining : Nat, given : Nat, packet : Nat, produced : Nat, table : Tables,
   kept : SUBSET Nat]

\* A call's pointers agree with its counts, and what it may still produce fits.
CallAgrees ==
  /\ call \in Calls
  /\ call.inputRemaining <= Batch /\ call.capacityRemaining <= Capacity
  /\ call.packet <= Room
  /\ call.active =>
       /\ call.packet = cursor + call.produced
       /\ call.command + call.inputRemaining <= Len(call.commands) + 1
       /\ call.packet + 10 * call.capacityRemaining <= Room

\* Where the next packet goes.
Fill == IF call.active THEN call.packet ELSE cursor

Links == 0 .. Room \cup {End}

\* Packets are behind one another, and all before the next one's place.
HeadersFit(limit) ==
  /\ DOMAIN packets \subseteq Nat
  /\ \A a \in DOMAIN packets : packets[a] \in [next : Links, words : {5, 7, 9}]
  /\ \A a \in DOMAIN packets : a + packets[a].words < limit
  /\ \A a, b \in DOMAIN packets : a < b => a + packets[a].words < b

Before(list, i) == IF i = 1 THEN End ELSE list[i - 1]

ListAgrees(t) ==
  /\ heads[t] = Before(drawn[t], Len(drawn[t]) + 1)
  /\ \A i \in DOMAIN drawn[t] : packets[drawn[t][i]].next = Before(drawn[t], i)

TablesApart ==
  \A t, u \in Tables : \A i \in DOMAIN drawn[t], j \in DOMAIN drawn[u] :
    drawn[t][i] = drawn[u][j] => t = u /\ i = j

ListsAgree ==
  /\ heads \in [Tables -> Links]
  /\ drawn \in [Tables -> Seq(DOMAIN packets)]
  /\ \A t \in Tables : ListAgrees(t)
  /\ TablesApart

Inv ==
  /\ plan \in Plans \cup {NoPlan}
  /\ cursor \in 0 .. Room
  /\ CallAgrees
  /\ HeadersFit(Fill)
  /\ ListsAgree

LEMMA InvIsSound == Inv => TablesAreSound
<1> SUFFICES ASSUME Inv PROVE TablesAreSound
  OBVIOUS
<1>1. Fill \in 0 .. Room
  BY BoundsAssumption DEF Inv, CallAgrees, Calls, Fill
<1>2. TypeOK
  <2>1. DOMAIN packets \subseteq 0 .. Room
    <3>1. \A a \in DOMAIN packets : a \in Nat /\ packets[a].words \in {5, 7, 9}
                                    /\ a + packets[a].words < Fill
      BY DEF Inv, HeadersFit
    <3> QED
      BY <1>1, <3>1, BoundsAssumption
  <2>2. call.inputRemaining \in 0 .. Batch /\ call.capacityRemaining \in 0 .. Capacity
        /\ call.packet \in 0 .. Room
    BY BoundsAssumption DEF Inv, CallAgrees, Calls
  <2> QED
    BY <2>1, <2>2 DEF Inv, TypeOK, ListsAgree, HeadersFit, CallAgrees, Links
<1>3. TableIsAList
  BY DEF Inv, ListsAgree, ListAgrees, TablesApart, TableIsAList, Before
<1>4. PacketsDisjoint
  <2>1. \A a \in DOMAIN packets : a \in Nat /\ packets[a].words \in {5, 7, 9}
                                  /\ a + packets[a].words < Fill
    BY DEF Inv, HeadersFit
  <2>2. \A a \in DOMAIN packets : a + packets[a].words < Room
    BY <1>1, <2>1, BoundsAssumption
  <2> QED
    BY <2>2 DEF Inv, HeadersFit, PacketsDisjoint
<1> QED
  BY <1>2, <1>3, <1>4 DEF TablesAreSound

-----------------------------------------------------------------------------
(***************************************************************************)
(* Linking one packet behind all others.                                   *)
(***************************************************************************)
LEMMA LinkKeepsHeaders ==
  ASSUME NEW t \in Tables, NEW packet \in Nat, NEW words \in {6, 8, 10},
         NEW limit \in Nat, limit = packet + words, limit <= Room,
         HeadersFit(packet), heads \in [Tables -> Links],
         Link(t, packet, words)
  PROVE  HeadersFit(limit)'
<1> DEFINE header == [next |-> heads[t], words |-> words - 1]
<1>1. packets' = [a \in DOMAIN packets \cup {packet} |-> IF a = packet THEN header ELSE packets[a]]
  BY DEF Link, OldHead
<1>2. header \in [next : Links, words : {5, 7, 9}] /\ header.words = words - 1
  OBVIOUS
<1>3. DOMAIN packets' = DOMAIN packets \cup {packet}
  BY <1>1
<1>4. packets'[packet] = header
  BY <1>1
<1>5. \A a \in DOMAIN packets : /\ a \in Nat /\ packets[a].words \in {5, 7, 9}
                                /\ a + packets[a].words < packet
  BY DEF HeadersFit
<1>6. \A a \in DOMAIN packets : a < packet /\ a # packet /\ packets'[a] = packets[a]
  BY <1>1, <1>5
<1> HIDE DEF header
<1>7. DOMAIN packets' \subseteq Nat
  BY <1>3, <1>5
<1>8. \A a \in DOMAIN packets' : packets'[a] \in [next : Links, words : {5, 7, 9}]
  BY <1>2, <1>3, <1>4, <1>6 DEF HeadersFit
<1>9. \A a \in DOMAIN packets' : a + packets'[a].words < limit
  BY <1>2, <1>3, <1>4, <1>5, <1>6
<1>10. \A a, b \in DOMAIN packets' : a < b => a + packets'[a].words < b
  <2> SUFFICES ASSUME NEW a \in DOMAIN packets', NEW b \in DOMAIN packets', a < b
               PROVE  a + packets'[a].words < b
    OBVIOUS
  <2>1. CASE b = packet
    BY <2>1, <1>3, <1>5, <1>6
  <2>2. CASE b # packet
    <3>1. b \in DOMAIN packets /\ b < packet
      BY <2>2, <1>3, <1>6
    <3>2. a \in DOMAIN packets
      BY <3>1, <1>3, <1>5
    <3> QED
      BY <3>1, <3>2, <1>6 DEF HeadersFit
  <2> QED
    BY <2>1, <2>2
<1> QED
  BY <1>7, <1>8, <1>9, <1>10 DEF HeadersFit, Links

LEMMA LinkKeepsLists ==
  ASSUME NEW t \in Tables, NEW packet \in 0 .. Room, NEW words \in {6, 8, 10},
         HeadersFit(packet), ListsAgree, Link(t, packet, words)
  PROVE  ListsAgree'
<1>1. \A a \in DOMAIN packets : a \in Nat /\ a # packet
  BY BoundsAssumption DEF HeadersFit
<1>2. DOMAIN packets' = DOMAIN packets \cup {packet}
  BY DEF Link
<1>3. \A a \in DOMAIN packets : packets'[a] = packets[a]
  BY <1>1 DEF Link
<1>4. packets'[packet].next = heads[t]
  BY DEF Link, OldHead
<1>5. heads \in [Tables -> Links] /\ drawn \in [Tables -> Seq(DOMAIN packets)]
  BY DEF ListsAgree
<1>6. heads'[t] = packet /\ \A u \in Tables \ {t} : heads'[u] = heads[u]
  BY <1>5 DEF Link
<1>7. drawn'[t] = Append(drawn[t], packet) /\ \A u \in Tables \ {t} : drawn'[u] = drawn[u]
  BY <1>5 DEF Link
<1>8. \A u \in Tables : drawn[u] \in Seq(DOMAIN packets) /\ Len(drawn[u]) \in Nat
                        /\ DOMAIN drawn[u] = 1 .. Len(drawn[u])
                        /\ \A i \in DOMAIN drawn[u] : drawn[u][i] \in DOMAIN packets
  BY <1>5
<1>9. /\ Len(drawn'[t]) = Len(drawn[t]) + 1
      /\ DOMAIN drawn'[t] = 1 .. Len(drawn[t]) + 1
      /\ drawn'[t][Len(drawn[t]) + 1] = packet
      /\ \A i \in 1 .. Len(drawn[t]) : drawn'[t][i] = drawn[t][i]
  BY <1>7, <1>8
<1>10. heads' \in [Tables -> Links]
  BY <1>5 DEF Link, Links
<1>11. drawn' \in [Tables -> Seq(DOMAIN packets')]
  <2>1. \A u \in Tables : drawn[u] \in Seq(DOMAIN packets')
    BY <1>2, <1>8
  <2>2. Append(drawn[t], packet) \in Seq(DOMAIN packets')
    BY <1>2, <2>1
  <2> QED
    BY <1>5, <2>1, <2>2 DEF Link
<1>12. \A u \in Tables : ListAgrees(u)'
  <2> SUFFICES ASSUME NEW u \in Tables PROVE ListAgrees(u)'
    OBVIOUS
  <2>1. ListAgrees(u)
    BY DEF ListsAgree
  <2>2. CASE u # t
    BY <1>3, <1>6, <1>7, <1>8, <2>1, <2>2 DEF ListAgrees, Before
  <2>3. CASE u = t
    <3>1. heads'[t] = Before(drawn'[t], Len(drawn'[t]) + 1)
      BY <1>6, <1>8, <1>9 DEF Before
    <3>2. ASSUME NEW i \in 1 .. Len(drawn[t])
          PROVE  packets'[drawn'[t][i]].next = Before(drawn'[t], i)
      <4>1. packets'[drawn'[t][i]].next = Before(drawn[t], i)
        BY <1>3, <1>8, <1>9, <2>1, <2>3 DEF ListAgrees
      <4>2. Before(drawn[t], i) = Before(drawn'[t], i)
        BY <1>8, <1>9 DEF Before
      <4> QED
        BY <4>1, <4>2
    <3>3. packets'[drawn'[t][Len(drawn[t]) + 1]].next = Before(drawn'[t], Len(drawn[t]) + 1)
      <4>1. heads[t] = Before(drawn[t], Len(drawn[t]) + 1)
        BY <2>1, <2>3 DEF ListAgrees
      <4>2. Before(drawn[t], Len(drawn[t]) + 1) = Before(drawn'[t], Len(drawn[t]) + 1)
        BY <1>8, <1>9 DEF Before
      <4> QED
        BY <1>4, <1>9, <4>1, <4>2
    <3>4. \A i \in DOMAIN drawn'[t] : i \in 1 .. Len(drawn[t]) \/ i = Len(drawn[t]) + 1
      BY <1>8, <1>9
    <3> QED
      BY <2>3, <3>1, <3>2, <3>3, <3>4 DEF ListAgrees
  <2> QED
    BY <2>2, <2>3
<1>13. TablesApart'
  <2> SUFFICES ASSUME NEW u \in Tables, NEW v \in Tables,
                      NEW i \in DOMAIN drawn'[u], NEW j \in DOMAIN drawn'[v],
                      drawn'[u][i] = drawn'[v][j]
               PROVE  u = v /\ i = j
    BY DEF TablesApart
  <2> DEFINE IsNew(w, k) == w = t /\ k = Len(drawn[t]) + 1
  <2>1. ASSUME NEW w \in Tables, NEW k \in DOMAIN drawn'[w]
        PROVE  IF IsNew(w, k) THEN drawn'[w][k] = packet
               ELSE /\ k \in DOMAIN drawn[w]
                    /\ drawn'[w][k] = drawn[w][k]
                    /\ drawn'[w][k] # packet
    <3>1. CASE w # t
      BY <1>1, <1>7, <1>8, <3>1
    <3>2. CASE w = t /\ k = Len(drawn[t]) + 1
      BY <1>9, <3>2
    <3>3. CASE w = t /\ k \in 1 .. Len(drawn[t])
      BY <1>1, <1>8, <1>9, <3>3
    <3> QED
      BY <1>8, <1>9, <3>1, <3>2, <3>3
  <2>2. CASE IsNew(u, i)
    <3>1. drawn'[v][j] = packet
      BY <2>1, <2>2
    <3>2. IsNew(v, j)
      BY <2>1, <3>1
    <3> QED
      BY <2>2, <3>2
  <2>3. CASE ~IsNew(u, i)
    <3>1. ~IsNew(v, j)
      BY <2>1, <2>3
    <3> QED
      BY <2>1, <2>3, <3>1 DEF ListsAgree, TablesApart
  <2> QED
    BY <2>2, <2>3
<1> QED
  BY <1>10, <1>11, <1>12, <1>13 DEF ListsAgree, Links

-----------------------------------------------------------------------------
(***************************************************************************)
(* Every action preserves the invariant.                                   *)
(***************************************************************************)
LEMMA NoCallIsCall == NoCall \in Calls /\ NoCall.active = FALSE
<1>1. (CHOOSE t \in Tables : TRUE) \in Tables
  BY TablesAssumption
<1> QED
  BY <1>1 DEF NoCall, Calls

\* What holds before the first packet of a frame.
LEMMA EmptyTables ==
  ASSUME heads = [t \in Tables |-> End], drawn = [t \in Tables |-> <<>>],
         packets = [a \in {} |-> [next |-> End, words |-> 0]]
  PROVE  ListsAgree /\ \A limit : HeadersFit(limit)
<1>1. DOMAIN packets = {}
  OBVIOUS
<1>2. ListsAgree
  BY <1>1 DEF ListsAgree, ListAgrees, TablesApart, Before, Links
<1> QED
  BY <1>1, <1>2 DEF HeadersFit

LEMMA InitEstablishes == Init => Inv
<1> SUFFICES ASSUME Init PROVE Inv
  OBVIOUS
<1>1. ListsAgree /\ HeadersFit(Fill)
  BY EmptyTables DEF Init
<1>2. CallAgrees
  BY NoCallIsCall, BoundsAssumption DEF Init, CallAgrees, NoCall
<1> QED
  BY <1>1, <1>2, BoundsAssumption DEF Init, Inv

LEMMA ClearTablesKeeps == Inv /\ ClearTables => Inv'
<1> SUFFICES ASSUME Inv, ClearTables PROVE Inv'
  OBVIOUS
<1>1. DOMAIN packets' = {}
  BY DEF ClearTables
<1>2. ListsAgree'
  BY <1>1 DEF ClearTables, ListsAgree, ListAgrees, TablesApart, Before, Links
<1>3. HeadersFit(Fill)'
  BY <1>1 DEF HeadersFit
<1>4. CallAgrees'
  BY DEF Inv, ClearTables, CallAgrees
<1> QED
  BY <1>2, <1>3, <1>4, BoundsAssumption DEF Inv, ClearTables

LEMMA PublishDimensionsKeeps == Inv /\ PublishDimensions => Inv'
  BY DEF Inv, PublishDimensions, CallAgrees, HeadersFit, Fill, ListsAgree, ListAgrees, TablesApart,
         Before, Links

\* Nothing in the buffer changes.
LEMMA SameBuffer ==
  ASSUME ListsAgree, UNCHANGED <<heads, packets, drawn>>
  PROVE  ListsAgree' /\ \A limit : HeadersFit(limit) => HeadersFit(limit)'
  BY DEF ListsAgree, ListAgrees, TablesApart, HeadersFit, Before, Links

LEMMA BeginStageClipKeeps == Inv /\ BeginStageClip => Inv'
<1> SUFFICES ASSUME Inv, BeginStageClip PROVE Inv'
  OBVIOUS
<1>1. PICK n \in 0 .. Batch, capacity \in 0 .. Capacity, t \in Tables :
        \E commands \in [1 .. n -> Primitives] :
          /\ cursor + 10 * capacity <= Room
          /\ call' = [active |-> TRUE, commands |-> commands, command |-> 1,
                      inputRemaining |-> n, capacityRemaining |-> capacity, given |-> capacity,
                      packet |-> cursor, produced |-> 0, table |-> t, kept |-> {}]
  BY DEF BeginStageClip
<1>2. PICK commands \in [1 .. n -> Primitives] :
        /\ cursor + 10 * capacity <= Room
        /\ call' = [active |-> TRUE, commands |-> commands, command |-> 1,
                    inputRemaining |-> n, capacityRemaining |-> capacity, given |-> capacity,
                    packet |-> cursor, produced |-> 0, table |-> t, kept |-> {}]
  BY <1>1
<1>3. n \in Nat /\ n <= Batch /\ capacity \in Nat /\ capacity <= Capacity /\ cursor \in Nat
  BY BoundsAssumption DEF Inv
<1>4. commands \in Seq(Primitives) /\ Len(commands) = n
  BY <1>3
<1>5. call' \in Calls
  BY <1>2, <1>3, <1>4 DEF Calls
<1>6. cursor' = cursor /\ cursor <= Room
  BY BoundsAssumption DEF Inv, BeginStageClip
<1>7. CallAgrees'
  BY <1>2, <1>3, <1>4, <1>5, <1>6 DEF CallAgrees
<1>8. Fill' = Fill
  BY <1>2 DEF Fill, BeginStageClip
<1>9. ListsAgree' /\ HeadersFit(Fill)'
  BY <1>8, SameBuffer DEF Inv, BeginStageClip, HeadersFit
<1> QED
  BY <1>7, <1>9 DEF Inv, BeginStageClip

\* The loop's command is one of the call's.
LEMMA CurrentIsPrimitive ==
  ASSUME Inv, LoopRuns
  PROVE  Current \in Primitives /\ call \in Calls /\ call.active
<1>1. call \in Calls /\ call.active /\ call.command \in 1 .. Len(call.commands)
  BY DEF Inv, CallAgrees, Calls, LoopRuns
<1> QED
  BY <1>1 DEF Current, Calls

\* Whatever becomes of the command, the call's pointers agree with its counts.
LEMMA AdvanceKeeps ==
  ASSUME Inv, LoopRuns, NEW keeps \in BOOLEAN, Advance(keeps), cursor' = cursor,
         keeps => PacketWords(Current.opcode) \in {6, 8, 10}
  PROVE  /\ CallAgrees'
         /\ Fill' = IF keeps THEN Fill + PacketWords(Current.opcode) ELSE Fill
<1>1. call \in Calls /\ call.active /\ cursor \in Nat
  BY CurrentIsPrimitive, BoundsAssumption DEF Inv
<1>2. /\ call.inputRemaining \in Nat /\ call.inputRemaining > 0
      /\ call.capacityRemaining \in Nat /\ call.capacityRemaining > 0
      /\ call.command \in Nat \ {0} /\ call.packet \in Nat /\ call.produced \in Nat
      /\ call.kept \in SUBSET Nat
  BY <1>1 DEF LoopRuns, Calls
<1> DEFINE step == IF keeps THEN PacketWords(Current.opcode) ELSE 0
<1>3. step \in Nat /\ step <= 10 * CapacityUsed(keeps) /\ CapacityUsed(keeps) \in {0, 1}
  BY DEF CapacityUsed
<1>4. /\ call'.active = call.active /\ call'.commands = call.commands
      /\ call'.command = IF Current.opcode = "unknown" THEN call.command ELSE call.command + 1
      /\ call'.inputRemaining = call.inputRemaining - 1
      /\ call'.capacityRemaining = call.capacityRemaining - CapacityUsed(keeps)
      /\ call'.packet = call.packet + step
      /\ call'.produced = call.produced + step
  <2>1. /\ call'.active = call.active /\ call'.commands = call.commands
        /\ call'.command = IF Current.opcode = "unknown" THEN call.command ELSE call.command + 1
    BY <1>1 DEF Advance, Calls
  <2>2. /\ call'.inputRemaining = call.inputRemaining - 1
        /\ call'.capacityRemaining = call.capacityRemaining - CapacityUsed(keeps)
    BY <1>1 DEF Advance, Calls
  <2>3. /\ call'.packet = IF keeps THEN call.packet + PacketWords(Current.opcode) ELSE call.packet
        /\ call'.produced =
             IF keeps THEN call.produced + PacketWords(Current.opcode) ELSE call.produced
    BY <1>1 DEF Advance, PacketStep, Calls
  <2> QED
    BY <1>2, <2>1, <2>2, <2>3
<1>5. call' \in Calls
  <2>1. /\ call'.command \in Nat \ {0} /\ call'.inputRemaining \in Nat
        /\ call'.capacityRemaining \in Nat /\ call'.packet \in Nat /\ call'.produced \in Nat
    BY <1>2, <1>3, <1>4
  <2>2. call'.kept \in SUBSET Nat /\ call'.table = call.table /\ call'.given = call.given
    BY <1>1, <1>2 DEF Advance, Calls
  <2>3. call' = [active |-> call'.active, commands |-> call'.commands, command |-> call'.command,
                 inputRemaining |-> call'.inputRemaining,
                 capacityRemaining |-> call'.capacityRemaining, given |-> call'.given,
                 packet |-> call'.packet, produced |-> call'.produced, table |-> call'.table,
                 kept |-> call'.kept]
    BY <1>1 DEF Advance, Calls
  <2> QED
    BY <1>1, <1>4, <2>1, <2>2, <2>3 DEF Calls
<1> HIDE DEF step
<1>6. /\ call.inputRemaining <= Batch /\ call.capacityRemaining <= Capacity
      /\ call.packet = cursor + call.produced
      /\ call.command + call.inputRemaining <= Len(call.commands) + 1
      /\ call.packet + 10 * call.capacityRemaining <= Room
      /\ Len(call.commands) \in Nat
  BY <1>1 DEF Inv, CallAgrees, Calls
<1>7. CallAgrees'
  <2>1. call'.inputRemaining <= Batch /\ call'.capacityRemaining <= Capacity
    BY <1>2, <1>3, <1>4, <1>6, BoundsAssumption
  <2>2. call'.packet = cursor' + call'.produced
    BY <1>1, <1>2, <1>3, <1>4, <1>6
  <2>3. call'.command + call'.inputRemaining <= Len(call'.commands) + 1
    BY <1>2, <1>4, <1>6
  <2>4. /\ call'.packet + 10 * call'.capacityRemaining <= Room
        /\ call'.packet <= Room
    <3>1. /\ call.packet + step + 10 * (call.capacityRemaining - CapacityUsed(keeps)) <= Room
          /\ call.capacityRemaining - CapacityUsed(keeps) >= 0
      BY <1>2, <1>3, <1>6, BoundsAssumption
    <3> QED
      BY <1>2, <1>3, <1>4, <3>1, BoundsAssumption
  <2> QED
    BY <1>5, <2>1, <2>2, <2>3, <2>4 DEF CallAgrees
<1>8. Fill' = Fill + step
  BY <1>1, <1>4 DEF Fill
<1> QED
  BY <1>1, <1>2, <1>7, <1>8 DEF step, Fill

LEMMA KeepPrimitiveKeeps == Inv /\ KeepPrimitive => Inv'
<1> SUFFICES ASSUME Inv, KeepPrimitive PROVE Inv'
  OBVIOUS
<1> DEFINE words == PacketWords(Current.opcode)
<1>1. LoopRuns /\ Current \in Primitives /\ call \in Calls /\ call.active
  BY CurrentIsPrimitive DEF KeepPrimitive
<1>2. words \in {6, 8, 10}
  BY <1>1, PrimitivesAssumption DEF KeepPrimitive, Keeps, PacketWords
<1>3. CallAgrees' /\ Fill' = Fill + words
  BY <1>1, <1>2, AdvanceKeeps DEF KeepPrimitive
<1>4. call.packet \in Nat /\ call.table \in Tables /\ Fill = call.packet
  BY <1>1 DEF Calls, Fill
<1>5. call.packet + words <= Room
  <2>1. call.packet + 10 * call.capacityRemaining <= Room /\ call.capacityRemaining \in Nat
        /\ call.capacityRemaining > 0
    BY <1>1 DEF Inv, CallAgrees, Calls, LoopRuns
  <2> QED
    BY <1>2, <1>4, <2>1, BoundsAssumption
<1>6. Link(call.table, call.packet, words)
  BY DEF KeepPrimitive
<1> HIDE DEF words
<1>7. HeadersFit(call.packet) /\ ListsAgree /\ heads \in [Tables -> Links]
  BY <1>4 DEF Inv, ListsAgree
<1>8. PICK limit \in Nat : limit = call.packet + words
  BY <1>2, <1>4
<1>9. ListsAgree'
  <2>1. call.packet \in 0 .. Room
    BY <1>2, <1>4, <1>5, BoundsAssumption
  <2> QED
    BY <1>2, <1>4, <1>6, <1>7, <2>1, LinkKeepsLists
<1>10. HeadersFit(Fill)'
  <2>1. HeadersFit(limit)'
    BY <1>2, <1>4, <1>5, <1>6, <1>7, <1>8, LinkKeepsHeaders
  <2> QED
    BY <1>3, <1>4, <1>8, <2>1 DEF HeadersFit
<1> QED
  BY <1>3, <1>9, <1>10 DEF Inv, KeepPrimitive

LEMMA DropPrimitiveKeeps == Inv /\ DropPrimitive => Inv'
<1> SUFFICES ASSUME Inv, DropPrimitive PROVE Inv'
  OBVIOUS
<1>1. CallAgrees' /\ Fill' = Fill
  BY AdvanceKeeps DEF DropPrimitive
<1>2. ListsAgree' /\ HeadersFit(Fill)'
  BY <1>1, SameBuffer DEF Inv, DropPrimitive, HeadersFit
<1> QED
  BY <1>1, <1>2 DEF Inv, DropPrimitive

LEMMA ReturnKeeps == Inv /\ ReturnFromStageClip => Inv'
<1> SUFFICES ASSUME Inv, ReturnFromStageClip PROVE Inv'
  OBVIOUS
<1>1. call.active /\ call \in Calls /\ call.packet = cursor + call.produced /\ call.packet <= Room
  BY DEF Inv, CallAgrees, ReturnFromStageClip
<1>2. cursor' = call.packet /\ cursor' \in 0 .. Room
  BY <1>1, BoundsAssumption DEF ReturnFromStageClip, Calls
<1>3. CallAgrees'
  BY NoCallIsCall, BoundsAssumption DEF ReturnFromStageClip, CallAgrees, NoCall
<1>4. Fill' = Fill
  BY <1>1, <1>2, NoCallIsCall DEF Fill, ReturnFromStageClip
<1>5. ListsAgree' /\ HeadersFit(Fill)'
  BY <1>4, SameBuffer DEF Inv, ReturnFromStageClip, HeadersFit
<1> QED
  BY <1>2, <1>3, <1>5 DEF Inv, ReturnFromStageClip

LEMMA ClipEffectKeeps == Inv /\ ClipEffectPrimitive => Inv'
<1> SUFFICES ASSUME Inv, ClipEffectPrimitive PROVE Inv'
  OBVIOUS
<1>1. /\ ~call.active /\ cursor \in Nat /\ cursor + 10 <= Room
      /\ cursor' = cursor + 10 /\ call' = call /\ plan' = plan
  BY BoundsAssumption DEF Inv, ClipEffectPrimitive
<1>2. CallAgrees' /\ cursor' \in 0 .. Room /\ Fill = cursor /\ Fill' = cursor + 10
  BY <1>1, BoundsAssumption DEF Inv, CallAgrees, Fill
<1>3. HeadersFit(cursor) /\ ListsAgree /\ heads \in [Tables -> Links]
  BY <1>2 DEF Inv, ListsAgree
<1>4. PICK limit \in Nat : limit = cursor + 10
  BY <1>1
<1>5. HeadersFit(limit)' /\ ListsAgree'
  <2>1. CASE UNCHANGED <<heads, packets, drawn>>
    <3>1. \A a \in DOMAIN packets : a \in Nat /\ packets[a].words \in {5, 7, 9}
                                    /\ a + packets[a].words < cursor
      BY <1>3 DEF HeadersFit
    <3>2. \A a \in DOMAIN packets : a + packets[a].words < limit
      BY <1>1, <1>4, <3>1
    <3>3. HeadersFit(limit)
      BY <1>3, <3>2 DEF HeadersFit
    <3> QED
      BY <1>1, <1>3, <2>1, <3>3, SameBuffer DEF HeadersFit
  <2>2. ASSUME NEW index \in Tables, NEW nearer \in BOOLEAN,
               NEW t, t = IF nearer THEN index - 5 ELSE index,
               t >= 0, Link(t, cursor, 10)
        PROVE  HeadersFit(limit)' /\ ListsAgree'
    <3>1. t \in Tables
      BY <2>2, TablesAssumption
    <3>2. cursor \in 0 .. Room
      BY <1>1, BoundsAssumption
    <3> QED
      BY <1>1, <1>3, <1>4, <2>2, <3>1, <3>2, LinkKeepsHeaders, LinkKeepsLists
  <2> QED
    BY <2>1, <2>2 DEF ClipEffectPrimitive
<1>6. HeadersFit(Fill)'
  BY <1>1, <1>2, <1>4, <1>5 DEF HeadersFit
<1> QED
  BY <1>1, <1>2, <1>5, <1>6 DEF Inv

LEMMA NextKeeps == Inv /\ [Next]_vars => Inv'
<1> SUFFICES ASSUME Inv, [Next]_vars PROVE Inv'
  OBVIOUS
<1>1. CASE UNCHANGED vars
  <2>1. ListsAgree' /\ HeadersFit(Fill)'
    BY <1>1, SameBuffer DEF Inv, vars, Fill, HeadersFit
  <2> QED
    BY <1>1, <2>1 DEF Inv, vars, CallAgrees
<1> QED
  BY <1>1, ClearTablesKeeps, PublishDimensionsKeeps, BeginStageClipKeeps, KeepPrimitiveKeeps,
     DropPrimitiveKeeps, ReturnKeeps, ClipEffectKeeps DEF Next

-----------------------------------------------------------------------------
\* Whatever the guest hands the clippers, and whatever they keep, every table is
\* one finite list of the packets linked to it, no packet is written over
\* another, and all lie in the buffer (widescreen.cpp:204-300).
THEOREM TablesAreAlwaysSound == Spec => []TablesAreSound
  BY InvIsSound, InitEstablishes, NextKeeps, PTL DEF Spec
-----------------------------------------------------------------------------
(***************************************************************************)
(* The counts.  What a call has kept are commands it has passed, and it    *)
(* has passed as many as its counts say unless it stands on an opcode of   *)
(* no known kind.                                                          *)
(***************************************************************************)
KeptOf(opcode) == {c \in call.kept : call.commands[c].opcode = opcode}

CountsAgree ==
  call.active =>
    /\ call.kept \subseteq 1 .. call.command - 1
    /\ call.given - call.capacityRemaining = Cardinality(call.kept)
    /\ call.produced = 10 * Cardinality(KeptOf("quadTextured"))
                       + 8 * Cardinality(KeptOf("triangleTextured"))
                       + 6 * Cardinality(KeptOf("quadFlat"))

\* No command passed was dropped while the canvas could show it.
PassedAgree ==
  call.active =>
    /\ plan.wide => \A c \in 1 .. call.command - 1 :
                      Visible(call.commands[c].vertices, CanvasColumns(plan)) => c \in call.kept
    /\ \/ call.command + call.inputRemaining = Len(call.commands) + 1
       \/ Current.opcode = "unknown"

CountInv == Inv /\ CountsAgree /\ PassedAgree

\* What one turn of the loop does to the call.
LEMMA AdvanceMoves ==
  ASSUME call \in Calls, NEW keeps \in BOOLEAN, Advance(keeps)
  PROVE  /\ call'.active = call.active /\ call'.commands = call.commands
         /\ call'.given = call.given
         /\ call'.command = IF Current.opcode = "unknown" THEN call.command ELSE call.command + 1
         /\ call'.inputRemaining = call.inputRemaining - 1
         /\ call'.capacityRemaining = call.capacityRemaining - CapacityUsed(keeps)
         /\ call'.produced =
              IF keeps THEN call.produced + PacketWords(Current.opcode) ELSE call.produced
         /\ call'.kept = IF keeps THEN call.kept \cup {call.command} ELSE call.kept
<1>1. /\ call'.active = call.active /\ call'.commands = call.commands
      /\ call'.given = call.given
      /\ call'.command = IF Current.opcode = "unknown" THEN call.command ELSE call.command + 1
  BY DEF Advance, Calls
<1>2. /\ call'.inputRemaining = call.inputRemaining - 1
      /\ call'.capacityRemaining = call.capacityRemaining - CapacityUsed(keeps)
  BY DEF Advance, Calls
<1>3. call'.produced =
        IF keeps THEN call.produced + PacketWords(Current.opcode) ELSE call.produced
  BY DEF Advance, PacketStep, Calls
<1>4. call'.kept = IF keeps THEN call.kept \cup {call.command} ELSE call.kept
  BY DEF Advance, Calls
<1> QED
  BY <1>1, <1>2, <1>3, <1>4

LEMMA KeptIsFinite ==
  ASSUME CountInv, call.active
  PROVE  /\ IsFiniteSet(call.kept) /\ Cardinality(call.kept) \in Nat
         /\ \A opcode : IsFiniteSet(KeptOf(opcode)) /\ Cardinality(KeptOf(opcode)) \in Nat
<1>1. call.command \in Nat /\ call.kept \subseteq 1 .. call.command - 1
  BY DEF CountInv, Inv, CallAgrees, Calls, CountsAgree
<1>2. IsFiniteSet(1 .. call.command - 1)
  BY <1>1, FS_Interval
<1>3. IsFiniteSet(call.kept) /\ Cardinality(call.kept) \in Nat
  BY <1>1, <1>2, FS_Subset, FS_CardinalityType
<1>4. ASSUME NEW opcode
      PROVE  IsFiniteSet(KeptOf(opcode)) /\ Cardinality(KeptOf(opcode)) \in Nat
  <2>1. KeptOf(opcode) \in SUBSET call.kept
    BY DEF KeptOf
  <2> QED
    BY <1>3, <2>1, FS_Subset, FS_CardinalityType
<1> QED
  BY <1>3, <1>4

\* A command whose packet is linked adds its words and takes one from the
\* capacity, whatever its opcode.
LEMMA KeepPrimitiveKeepsCounts == CountInv /\ KeepPrimitive => CountsAgree'
<1> SUFFICES ASSUME CountInv, KeepPrimitive PROVE CountsAgree'
  OBVIOUS
<1>1. LoopRuns /\ Current \in Primitives /\ call \in Calls /\ call.active /\ Advance(TRUE)
      /\ Current.opcode # "unknown"
  BY CurrentIsPrimitive DEF CountInv, KeepPrimitive, Keeps
<1>2. /\ call'.active = call.active /\ call'.commands = call.commands
      /\ call'.given = call.given
      /\ call'.command = call.command + 1
      /\ call'.capacityRemaining = call.capacityRemaining - 1
      /\ call'.produced = call.produced + PacketWords(Current.opcode)
      /\ call'.kept = call.kept \cup {call.command}
  BY <1>1, AdvanceMoves DEF CapacityUsed
<1>3. /\ call.command \in Nat \ {0} /\ call.given \in Nat /\ call.capacityRemaining \in Nat
      /\ call.produced \in Nat
      /\ call.kept \subseteq 1 .. call.command - 1
  BY <1>1 DEF CountInv, CountsAgree, Calls
<1>4. call.command \notin call.kept
  BY <1>3
<1>5. call'.kept \subseteq 1 .. call'.command - 1
  BY <1>2, <1>3
<1>6. Cardinality(call'.kept) = Cardinality(call.kept) + 1
  BY <1>1, <1>2, <1>4, KeptIsFinite, FS_AddElement
<1>7. ASSUME NEW opcode
      PROVE  Cardinality(KeptOf(opcode)') =
               Cardinality(KeptOf(opcode)) + IF Current.opcode = opcode THEN 1 ELSE 0
  <2>1. CASE Current.opcode = opcode
    <3>1. KeptOf(opcode)' = KeptOf(opcode) \cup {call.command}
      BY <1>2, <2>1 DEF KeptOf, Current
    <3>2. call.command \notin KeptOf(opcode)
      BY <1>4 DEF KeptOf
    <3> QED
      BY <1>1, <2>1, <3>1, <3>2, KeptIsFinite, FS_AddElement
  <2>2. CASE Current.opcode # opcode
    <3>1. KeptOf(opcode)' = KeptOf(opcode)
      BY <1>2, <2>2 DEF KeptOf, Current
    <3> QED
      BY <1>1, <2>2, <3>1, KeptIsFinite
  <2> QED
    BY <2>1, <2>2
<1>8. /\ Current.opcode \in {"quadTextured", "triangleTextured", "quadFlat"}
      /\ PacketWords(Current.opcode) =
           10 * (IF Current.opcode = "quadTextured" THEN 1 ELSE 0)
           + 8 * (IF Current.opcode = "triangleTextured" THEN 1 ELSE 0)
           + 6 * (IF Current.opcode = "quadFlat" THEN 1 ELSE 0)
  BY <1>1, PrimitivesAssumption DEF PacketWords
<1>9. /\ call.given - call.capacityRemaining = Cardinality(call.kept)
      /\ call.produced = 10 * Cardinality(KeptOf("quadTextured"))
                         + 8 * Cardinality(KeptOf("triangleTextured"))
                         + 6 * Cardinality(KeptOf("quadFlat"))
  BY <1>1 DEF CountInv, CountsAgree
<1>10. call'.given - call'.capacityRemaining = Cardinality(call'.kept)
  BY <1>1, <1>2, <1>3, <1>6, <1>9, KeptIsFinite
<1>11. call'.produced = 10 * Cardinality(KeptOf("quadTextured")')
                        + 8 * Cardinality(KeptOf("triangleTextured")')
                        + 6 * Cardinality(KeptOf("quadFlat")')
  <2>1. PICK q, t, f \in Nat : /\ q = Cardinality(KeptOf("quadTextured"))
                               /\ t = Cardinality(KeptOf("triangleTextured"))
                               /\ f = Cardinality(KeptOf("quadFlat"))
    BY <1>1, KeptIsFinite
  <2>2. /\ Cardinality(KeptOf("quadTextured")') =
             q + IF Current.opcode = "quadTextured" THEN 1 ELSE 0
        /\ Cardinality(KeptOf("triangleTextured")') =
             t + IF Current.opcode = "triangleTextured" THEN 1 ELSE 0
        /\ Cardinality(KeptOf("quadFlat")') =
             f + IF Current.opcode = "quadFlat" THEN 1 ELSE 0
    BY <1>7, <2>1
  <2> QED
    BY <1>2, <1>3, <1>8, <1>9, <2>1, <2>2
<1> QED
  BY <1>5, <1>10, <1>11 DEF CountsAgree

LEMMA DropPrimitiveKeepsCounts == CountInv /\ DropPrimitive => CountsAgree'
<1> SUFFICES ASSUME CountInv, DropPrimitive PROVE CountsAgree'
  OBVIOUS
<1>1. LoopRuns /\ call \in Calls /\ call.active /\ Advance(FALSE)
  BY CurrentIsPrimitive DEF CountInv, DropPrimitive
<1>2. /\ call'.active = call.active /\ call'.commands = call.commands
      /\ call'.given = call.given
      /\ call'.command \in {call.command, call.command + 1}
      /\ call'.capacityRemaining = call.capacityRemaining - 0
      /\ call'.produced = call.produced /\ call'.kept = call.kept
  BY <1>1, AdvanceMoves DEF CapacityUsed
<1>3. call.command \in Nat /\ call.capacityRemaining \in Nat
  BY <1>1 DEF Calls
<1>4. \A opcode : KeptOf(opcode)' = KeptOf(opcode)
  BY <1>2 DEF KeptOf
<1> QED
  BY <1>1, <1>2, <1>3, <1>4 DEF CountInv, CountsAgree

\* Either way the loop goes on behind a command it has looked at.
LEMMA LoopKeepsPassed ==
  ASSUME CountInv, NEW keeps \in BOOLEAN, LoopRuns, Advance(keeps), UNCHANGED plan,
         keeps \/ (plan.wide => ~Keeps(Current))
  PROVE  PassedAgree'
<1>1. Current \in Primitives /\ call \in Calls /\ call.active
  BY CurrentIsPrimitive DEF CountInv
<1>2. /\ call'.active = call.active /\ call'.commands = call.commands
      /\ call'.command = IF Current.opcode = "unknown" THEN call.command ELSE call.command + 1
      /\ call'.inputRemaining = call.inputRemaining - 1
      /\ call'.kept = IF keeps THEN call.kept \cup {call.command} ELSE call.kept
  BY <1>1, AdvanceMoves
<1>3. call.command \in Nat \ {0} /\ call.inputRemaining \in Nat /\ Len(call.commands) \in Nat
  BY <1>1 DEF Calls
<1>4. ASSUME plan.wide, NEW c \in 1 .. call'.command - 1,
             Visible(call.commands[c].vertices, CanvasColumns(plan))
      PROVE  c \in call'.kept
  <2>1. CASE c \in 1 .. call.command - 1
    BY <1>1, <1>2, <1>4, <2>1 DEF CountInv, PassedAgree
  <2>2. CASE c = call.command /\ Current.opcode # "unknown"
    <3>1. keeps
      BY <1>4, <2>2 DEF Keeps, Current
    <3> QED
      BY <1>2, <2>2, <3>1
  <2> QED
    BY <1>2, <1>3, <2>1, <2>2
<1>5. \/ call'.command + call'.inputRemaining = Len(call'.commands) + 1
      \/ Current'.opcode = "unknown"
  <2>1. CASE Current.opcode = "unknown"
    BY <1>2, <2>1 DEF Current
  <2>2. CASE Current.opcode # "unknown"
    BY <1>1, <1>2, <1>3, <2>2 DEF CountInv, PassedAgree
  <2> QED
    BY <2>1, <2>2
<1> QED
  BY <1>2, <1>4, <1>5 DEF PassedAgree

LEMMA BeginKeepsCounts == CountInv /\ BeginStageClip => CountsAgree' /\ PassedAgree'
<1> SUFFICES ASSUME CountInv, BeginStageClip PROVE CountsAgree' /\ PassedAgree'
  OBVIOUS
<1>1. /\ call'.command = 1 /\ call'.produced = 0 /\ call'.kept = {}
      /\ call'.given = call'.capacityRemaining
  BY DEF BeginStageClip
<1>2. call' \in Calls
  BY BeginStageClipKeeps DEF CountInv, Inv, CallAgrees
<1>3. call'.inputRemaining = Len(call'.commands)
  <2>1. PICK n \in 0 .. Batch :
          \E commands \in [1 .. n -> Primitives] :
            call'.commands = commands /\ call'.inputRemaining = n
    BY DEF BeginStageClip
  <2> QED
    BY <2>1, BoundsAssumption
<1>4. Cardinality(call'.kept) = 0 /\ \A opcode : Cardinality(KeptOf(opcode)') = 0
  <2>1. \A opcode : KeptOf(opcode)' = {}
    BY <1>1 DEF KeptOf
  <2> QED
    BY <1>1, <2>1, FS_EmptySet
<1>5. call'.given \in Nat /\ call'.given - call'.capacityRemaining = 0
  BY <1>1, <1>2 DEF Calls
<1>6. CountsAgree'
  BY <1>1, <1>4, <1>5 DEF CountsAgree
<1>7. PassedAgree'
  BY <1>1, <1>2, <1>3 DEF PassedAgree, Calls
<1> QED
  BY <1>6, <1>7

LEMMA CountsEstablished == Init => CountInv
<1>1. Init => CountsAgree /\ PassedAgree
  BY NoCallIsCall DEF Init, CountsAgree, PassedAgree
<1> QED
  BY <1>1, InitEstablishes DEF CountInv

LEMMA NextKeepsCounts == CountInv /\ [Next]_vars => CountInv'
<1> SUFFICES ASSUME CountInv, [Next]_vars PROVE CountInv'
  OBVIOUS
<1> SUFFICES CountsAgree' /\ PassedAgree'
  BY NextKeeps DEF CountInv
<1>2. CASE UNCHANGED <<plan, call>>
  BY <1>2 DEF CountInv, CountsAgree, PassedAgree, KeptOf, Current
<1>3. CASE ~call'.active
  BY <1>3 DEF CountsAgree, PassedAgree
<1>4. CASE KeepPrimitive
  BY <1>4, KeepPrimitiveKeepsCounts, LoopKeepsPassed DEF KeepPrimitive
<1>5. CASE DropPrimitive
  BY <1>5, DropPrimitiveKeepsCounts, LoopKeepsPassed DEF DropPrimitive
<1>6. CASE BeginStageClip
  BY <1>6, BeginKeepsCounts
<1>7. CASE ClearTables \/ ClipEffectPrimitive \/ UNCHANGED vars
  BY <1>2, <1>7 DEF ClearTables, ClipEffectPrimitive, vars
<1>8. CASE PublishDimensions \/ ReturnFromStageClip
  BY <1>3, <1>8, NoCallIsCall DEF PublishDimensions, ReturnFromStageClip
<1> QED
  BY <1>2, <1>3, <1>4, <1>5, <1>6, <1>7, <1>8 DEF Next

\* What a stage call writes back to the guest counts exactly the packets it has
\* linked, whatever it was given (widescreen.cpp:238-252).
THEOREM CountsAreAlwaysOfPackets == Spec => []CountsAreOfPackets
<1>1. CountInv => CountsAreOfPackets
  BY DEF CountInv, CountsAgree, CountsAreOfPackets, KeptOf
<1> QED
  BY <1>1, CountsEstablished, NextKeepsCounts, PTL DEF Spec

-----------------------------------------------------------------------------
(***************************************************************************)
(* Nothing shown is dropped.  A point of a triangle is the mean of its     *)
(* corners, weighted with the turns around it, so that it lies between the *)
(* least and the greatest of their columns and of their rows.              *)
(***************************************************************************)
Triples == Int \X Int \X Int

IsMean(q, weights, values) ==
  weights[1] * values[1] + weights[2] * values[2] + weights[3] * values[3]
    = (weights[1] + weights[2] + weights[3]) * q

LEMMA TurnsWeigh ==
  ASSUME NEW a \in Int \X Int, NEW b \in Int \X Int, NEW c \in Int \X Int, NEW p \in Int \X Int
  PROVE  /\ {Turn(a, b, p), Turn(b, c, p), Turn(c, a, p)} \subseteq Int
         /\ Turn(b, c, p) + Turn(c, a, p) + Turn(a, b, p) = Turn(a, b, c)
         /\ IsMean(X(p), <<Turn(b, c, p), Turn(c, a, p), Turn(a, b, p)>>, <<X(a), X(b), X(c)>>)
         /\ IsMean(Y(p), <<Turn(b, c, p), Turn(c, a, p), Turn(a, b, p)>>, <<Y(a), Y(b), Y(c)>>)
<1>1. /\ X(a) \in Int /\ X(b) \in Int /\ X(c) \in Int /\ X(p) \in Int
      /\ Y(a) \in Int /\ Y(b) \in Int /\ Y(c) \in Int /\ Y(p) \in Int
  BY DEF X, Y
<1> HIDE DEF X, Y
<1>2. PICK ax \in Int, ay \in Int, bx \in Int, by \in Int, cx \in Int, cy \in Int,
           px \in Int, py \in Int :
        /\ X(a) = ax /\ Y(a) = ay /\ X(b) = bx /\ Y(b) = by
        /\ X(c) = cx /\ Y(c) = cy /\ X(p) = px /\ Y(p) = py
  BY <1>1
<1>3. /\ Turn(b, c, p) = (cx - bx) * (py - by) - (cy - by) * (px - bx)
      /\ Turn(c, a, p) = (ax - cx) * (py - cy) - (ay - cy) * (px - cx)
      /\ Turn(a, b, p) = (bx - ax) * (py - ay) - (by - ay) * (px - ax)
      /\ Turn(a, b, c) = (bx - ax) * (cy - ay) - (by - ay) * (cx - ax)
  BY <1>2 DEF Turn
<1>4. PICK u \in Int, v \in Int, w \in Int, t \in Int :
        /\ u = (cx - bx) * (py - by) - (cy - by) * (px - bx)
        /\ v = (ax - cx) * (py - cy) - (ay - cy) * (px - cx)
        /\ w = (bx - ax) * (py - ay) - (by - ay) * (px - ax)
        /\ t = (bx - ax) * (cy - ay) - (by - ay) * (cx - ax)
  OBVIOUS
<1>5. /\ u + v + w = t
      /\ u * ax + v * bx + w * cx = (u + v + w) * px
      /\ u * ay + v * by + w * cy = (u + v + w) * py
  BY <1>4
<1> QED
  BY <1>2, <1>3, <1>4, <1>5 DEF IsMean

\* A mean of values none of which is above a bound is not above it.
LEMMA MeanBelow ==
  ASSUME NEW u \in Nat, NEW v \in Nat, NEW w \in Nat, u + v + w > 0,
         NEW x \in Int, NEW y \in Int, NEW z \in Int, NEW p \in Int,
         u * x + v * y + w * z = (u + v + w) * p,
         NEW m \in Int, x <= m, y <= m, z <= m
  PROVE  p <= m
<1>1. u * x <= u * m /\ v * y <= v * m /\ w * z <= w * m
  OBVIOUS
<1>2. (u + v + w) * p <= (u + v + w) * m
  BY <1>1
<1>3. p > m => (u + v + w) * p >= (u + v + w) * (m + 1)
  OBVIOUS
<1>4. (u + v + w) * (m + 1) = (u + v + w) * m + (u + v + w)
  OBVIOUS
<1> QED
  BY <1>2, <1>3, <1>4

\* The weights may have either sign, and the bound may be on either side.
AreWeights(weights) ==
  /\ weights[1] + weights[2] + weights[3] # 0
  /\ (\A i \in 1 .. 3 : weights[i] >= 0) \/ (\A i \in 1 .. 3 : weights[i] <= 0)

LEMMA MeanBetween ==
  ASSUME NEW weights \in Triples, AreWeights(weights),
         NEW values \in Triples, NEW q \in Int, IsMean(q, weights, values), NEW m \in Int
  PROVE  /\ (\A i \in 1 .. 3 : values[i] <= m) => q <= m
         /\ (\A i \in 1 .. 3 : values[i] >= m) => q >= m
<1>1. PICK u \in Int, v \in Int, w \in Int, x \in Int, y \in Int, z \in Int :
        /\ weights[1] = u /\ weights[2] = v /\ weights[3] = w
        /\ values[1] = x /\ values[2] = y /\ values[3] = z
  BY DEF Triples
<1>2. u * x + v * y + w * z = (u + v + w) * q
  BY <1>1 DEF IsMean
<1>3. u + v + w # 0 /\ ((u >= 0 /\ v >= 0 /\ w >= 0) \/ (u <= 0 /\ v <= 0 /\ w <= 0))
  BY <1>1 DEF AreWeights
<1>4. ASSUME x <= m, y <= m, z <= m PROVE q <= m
  <2>1. CASE u >= 0 /\ v >= 0 /\ w >= 0
    BY <1>2, <1>3, <1>4, <2>1, MeanBelow
  <2>2. CASE u <= 0 /\ v <= 0 /\ w <= 0
    <3>1. (-u) * x + (-v) * y + (-w) * z = ((-u) + (-v) + (-w)) * q
      BY <1>2
    <3> QED
      BY <1>3, <1>4, <2>2, <3>1, MeanBelow
  <2> QED
    BY <1>3, <2>1, <2>2
<1>5. ASSUME x >= m, y >= m, z >= m PROVE q >= m
  <2>1. CASE u >= 0 /\ v >= 0 /\ w >= 0
    <3>1. u * (-x) + v * (-y) + w * (-z) = (u + v + w) * (-q)
      BY <1>2
    <3>2. -q <= -m
      BY <1>3, <1>5, <2>1, <3>1, MeanBelow
    <3> QED
      BY <3>2
  <2>2. CASE u <= 0 /\ v <= 0 /\ w <= 0
    <3>1. (-u) * (-x) + (-v) * (-y) + (-w) * (-z) = ((-u) + (-v) + (-w)) * (-q)
      BY <1>2
    <3>2. -q <= -m
      BY <1>3, <1>5, <2>2, <3>1, MeanBelow
    <3> QED
      BY <3>2
  <2> QED
    BY <1>3, <2>1, <2>2
<1> QED
  BY <1>1, <1>4, <1>5

LEMMA TurnsAddUp ==
  ASSUME NEW a \in Int \X Int, NEW b \in Int \X Int, NEW c \in Int \X Int, NEW p \in Int \X Int
  PROVE  Turn(b, c, p) + Turn(c, a, p) + Turn(a, b, p) = Turn(a, b, c)
<1>1. PICK ax \in Int, ay \in Int, bx \in Int, by \in Int, cx \in Int, cy \in Int,
           px \in Int, py \in Int :
        /\ X(a) = ax /\ Y(a) = ay /\ X(b) = bx /\ Y(b) = by
        /\ X(c) = cx /\ Y(c) = cy /\ X(p) = px /\ Y(p) = py
  BY DEF X, Y
<1> QED
  BY <1>1 DEF Turn

LEMMA PointIsBetweenCorners ==
  ASSUME NEW a \in Int \X Int, NEW b \in Int \X Int, NEW c \in Int \X Int, NEW p \in Int \X Int,
         InTriangle(p, a, b, c), NEW m \in Int
  PROVE  /\ X(a) <= m /\ X(b) <= m /\ X(c) <= m => X(p) <= m
         /\ X(a) >= m /\ X(b) >= m /\ X(c) >= m => X(p) >= m
         /\ Y(a) <= m /\ Y(b) <= m /\ Y(c) <= m => Y(p) <= m
<1>1. /\ X(a) \in Int /\ X(b) \in Int /\ X(c) \in Int /\ X(p) \in Int
      /\ Y(a) \in Int /\ Y(b) \in Int /\ Y(c) \in Int /\ Y(p) \in Int
  BY DEF X, Y
<1> DEFINE weights == <<Turn(b, c, p), Turn(c, a, p), Turn(a, b, p)>>
           columns == <<X(a), X(b), X(c)>>
           rows == <<Y(a), Y(b), Y(c)>>
<1>2. weights \in Triples /\ IsMean(X(p), weights, columns) /\ IsMean(Y(p), weights, rows)
  BY TurnsWeigh DEF Triples
<1>3. columns \in Triples /\ rows \in Triples
  BY <1>1 DEF Triples
<1>4. AreWeights(weights)
  <2>1. weights[1] = Turn(b, c, p) /\ weights[2] = Turn(c, a, p) /\ weights[3] = Turn(a, b, p)
    OBVIOUS
  <2>2. Turn(b, c, p) + Turn(c, a, p) + Turn(a, b, p) = Turn(a, b, c)
    BY TurnsAddUp
  <2>3. Turn(a, b, c) # 0
    BY DEF InTriangle
  <2>4. \/ Turn(a, b, p) >= 0 /\ Turn(b, c, p) >= 0 /\ Turn(c, a, p) >= 0
        \/ Turn(a, b, p) <= 0 /\ Turn(b, c, p) <= 0 /\ Turn(c, a, p) <= 0
    BY DEF InTriangle
  <2> HIDE DEF weights
  <2>5. (\A i \in 1 .. 3 : weights[i] >= 0) \/ (\A i \in 1 .. 3 : weights[i] <= 0)
    BY <2>1, <2>4
  <2> QED
    BY <2>1, <2>2, <2>3, <2>5 DEF AreWeights
<1>5. /\ columns[1] = X(a) /\ columns[2] = X(b) /\ columns[3] = X(c)
      /\ rows[1] = Y(a) /\ rows[2] = Y(b) /\ rows[3] = Y(c)
  OBVIOUS
<1> HIDE DEF weights, columns, rows
<1>6. /\ (\A i \in 1 .. 3 : columns[i] <= m) => X(p) <= m
      /\ (\A i \in 1 .. 3 : columns[i] >= m) => X(p) >= m
      /\ (\A i \in 1 .. 3 : rows[i] <= m) => Y(p) <= m
  BY <1>1, <1>2, <1>3, <1>4, MeanBetween
<1> QED
  BY <1>5, <1>6

\* The margin of the canvas has the same width on both sides.
EvenMargins == \A p \in Plans : (p.presentation - p.draw) % 2 = 0

\* A primitive of which the canvas shows a pixel passes the clipper's test,
\* even with every corner outside the canvas.
LEMMA ShownIsVisible ==
  ASSUME NEW vertices \in Seq(Int \X Int), Pixels(vertices) # {},
         plan \in Plans, EvenMargins
  PROVE  Visible(vertices, CanvasColumns(plan))
<1>1. PICK p : p \in Pixels(vertices)
  OBVIOUS
<1>2. p \in Int \X Int /\ Y(p) >= 0 /\ Covers(vertices, p) /\ Shown(p)
  BY <1>1 DEF Pixels, Y
<1>3. PICK i \in 1 .. Len(vertices) - 2 :
        InTriangle(p, vertices[i], vertices[i + 1], vertices[i + 2])
  BY <1>2 DEF Covers
<1> DEFINE a == vertices[i]
           b == vertices[i + 1]
           c == vertices[i + 2]
           corners == {vertices[k] : k \in DOMAIN vertices}
<1>4. {i, i + 1, i + 2} \subseteq DOMAIN vertices
  BY <1>3
<1>5. a \in Int \X Int /\ b \in Int \X Int /\ c \in Int \X Int
  BY <1>4
<1>6. a \in corners /\ b \in corners /\ c \in corners
  BY <1>4
<1>7. /\ X(a) \in Int /\ X(b) \in Int /\ X(c) \in Int /\ X(p) \in Int
      /\ Y(a) \in Int /\ Y(b) \in Int /\ Y(c) \in Int /\ Y(p) \in Int
  BY <1>2, <1>5 DEF X, Y
<1>8. InTriangle(p, a, b, c)
  BY <1>3
<1> HIDE DEF a, b, c, corners
<1>9. \E v \in corners : Y(v) >= 0
  <2> SUFFICES ASSUME \A v \in corners : ~(Y(v) >= 0) PROVE FALSE
    OBVIOUS
  <2>1. Y(a) <= -1 /\ Y(b) <= -1 /\ Y(c) <= -1
    BY <1>6, <1>7
  <2>2. Y(p) <= -1
    BY <1>2, <1>5, <1>8, <2>1, PointIsBetweenCorners
  <2> QED
    BY <1>2, <1>7, <2>2
<1>10. PICK draw \in Nat, presentation \in Nat :
         plan.draw = draw /\ plan.presentation = presentation
  BY PlansAssumption
<1>11. PICK margin \in Int : presentation - draw = 2 * margin
  <2>1. (presentation - draw) % 2 = 0
    BY <1>10 DEF EvenMargins
  <2>2. presentation - draw = 2 * ((presentation - draw) \div 2)
    BY <2>1
  <2> QED
    BY <2>2
<1>12. PICK left \in Int, right \in Int :
         /\ left = -margin /\ right = draw + margin
         /\ CanvasColumns(plan) = [left |-> left, right |-> right]
  <2>1. Half(2 * margin) = margin
    BY DEF Half
  <2> QED
    BY <1>10, <1>11, <2>1 DEF CanvasColumns
<1>13. X(p) >= left /\ X(p) <= right - 1
  <2>1. PICK x \in Int : x = X(p)
    BY <1>7
  <2>2. 2 * x >= draw - presentation /\ 2 * x < draw + presentation
    BY <1>2, <1>10, <2>1 DEF Shown
  <2>3. 2 * x >= 2 * left /\ 2 * x < 2 * right
    BY <1>11, <1>12, <2>2
  <2> QED
    BY <2>1, <2>3
<1>14. \E v \in corners : X(v) >= left
  <2> SUFFICES ASSUME \A v \in corners : ~(X(v) >= left) PROVE FALSE
    OBVIOUS
  <2>1. X(a) <= left - 1 /\ X(b) <= left - 1 /\ X(c) <= left - 1
    BY <1>6, <1>7
  <2>2. X(p) <= left - 1
    BY <1>2, <1>5, <1>8, <2>1, PointIsBetweenCorners
  <2> QED
    BY <1>7, <1>13, <2>2
<1>15. \E v \in corners : X(v) < right
  <2> SUFFICES ASSUME \A v \in corners : ~(X(v) < right) PROVE FALSE
    OBVIOUS
  <2>1. X(a) >= right /\ X(b) >= right /\ X(c) >= right
    BY <1>6, <1>7
  <2>2. X(p) >= right
    BY <1>2, <1>5, <1>8, <2>1, PointIsBetweenCorners
  <2> QED
    BY <1>7, <1>13, <2>2
<1>16. CanvasColumns(plan).left = left /\ CanvasColumns(plan).right = right
  BY <1>12
<1> HIDE DEF CanvasColumns
<1>17. Visible(vertices, CanvasColumns(plan)) <=>
        /\ \E v \in corners : Y(v) >= 0
        /\ \E v \in corners : X(v) >= CanvasColumns(plan).left
        /\ \E v \in corners : X(v) < CanvasColumns(plan).right
  BY DEF Visible, corners
<1> QED
  BY <1>9, <1>14, <1>15, <1>16, <1>17

\* With margins of a whole number of columns, a wide call drops no primitive of
\* which the canvas shows a pixel, however its corners lie (widescreen.cpp:65-83,
\* docs/issues/0026).
THEOREM OnlyTheHiddenIsEverDropped ==
  ASSUME EvenMargins
  PROVE  Spec => []OnlyTheHiddenIsDropped
<1>1. CountInv => OnlyTheHiddenIsDropped
  <2> SUFFICES ASSUME CountInv, call.active, ~LoopRuns, plan.wide, call.capacityRemaining > 0,
                      NEW c \in DOMAIN call.commands,
                      \A b \in 1 .. c : call.commands[b].opcode # "unknown",
                      Pixels(call.commands[c].vertices) # {}
               PROVE  c \in call.kept
    BY DEF OnlyTheHiddenIsDropped
  <2>1. /\ call \in Calls /\ plan \in Plans
        /\ call.commands[c] \in Primitives
        /\ c \in 1 .. Len(call.commands)
    BY DEF CountInv, Inv, CallAgrees, Calls, NoPlan
  <2>2. Visible(call.commands[c].vertices, CanvasColumns(plan))
    BY <2>1, ShownIsVisible, PrimitivesAssumption
  <2>3. call.inputRemaining = 0 /\ call.command \in Nat \ {0}
    BY <2>1 DEF LoopRuns, Calls
  <2>4. c \in 1 .. call.command - 1
    <3>1. CASE call.command + call.inputRemaining = Len(call.commands) + 1
      BY <2>1, <2>3, <3>1
    <3>2. CASE Current.opcode = "unknown"
      <4>1. call.command \notin 1 .. c
        BY <3>2 DEF Current
      <4> QED
        BY <2>1, <2>3, <4>1
    <3> QED
      BY <3>1, <3>2 DEF CountInv, PassedAgree
  <2> QED
    BY <2>2, <2>4 DEF CountInv, PassedAgree
<1> QED
  BY <1>1, CountsEstablished, NextKeepsCounts, PTL DEF Spec

=============================================================================
