-------------------------- MODULE PeerTablesProofs ---------------------------
(***************************************************************************)
(* What PeerTables guarantees for every number of nodes, every table size  *)
(* and every time-out.                                                     *)
(***************************************************************************)
EXTENDS PeerTables, TLAPS, WellFoundedInduction

SenderRecord == [active : {TRUE}, mac : Beaconing, lastSeen : 0 .. ClockSpan - 1]
ReceiverRecord ==
  [active : {TRUE}, mac : Reporting, lastSeen : 0 .. ClockSpan - 1, connected : BOOLEAN]

SenderTable == [SenderSlot -> {Free} \union SenderRecord]
ReceiverTable == [ReceiverSlot -> {Free} \union ReceiverRecord]

-----------------------------------------------------------------------------
(* The tables' helpers. *)

\* The search loops return a slot of the set they scan.
LEMMA FirstOfMember ==
  ASSUME NEW S, S \subseteq Nat, S # {}
  PROVE  FirstOf(S) \in S
<1>1. PICK x \in S : \A y \in S : ~(<<y, x>> \in OpToRel(<, Nat))
  BY NatLessThanWellFounded, WFMin
<1>2. ASSUME NEW y \in S PROVE x <= y
  <2>1. <<y, x>> \in Nat \X Nat
    OBVIOUS
  <2>2. ~(<<y, x>>[1] < <<y, x>>[2])
    BY <1>1, <2>1 DEF OpToRel
  <2>. QED
    BY <2>2
<1>. QED
  BY <1>2, Zenon DEF FirstOf

\* The two slot ranges hold natural numbers, zero among them.
LEMMA Slots ==
  /\ SenderSlot \subseteq Nat /\ 0 \in SenderSlot
  /\ ReceiverSlot \subseteq Nat /\ 0 \in ReceiverSlot
BY PeerTablesAssumption DEF SenderSlot, ReceiverSlot

\* An entry found is one of the node's, an entry taken is a free one.
LEMMA SlotFound ==
  ASSUME NEW m, NEW table, NEW Slot, Slot \subseteq Nat
  PROVE  /\ EntriesOf(m, table, Slot) # {} =>
              LET i == FirstOf(EntriesOf(m, table, Slot))
              IN  i \in Slot /\ table[i].active /\ table[i].mac = m
         /\ FreeIn(table, Slot) # {} =>
              LET i == FirstOf(FreeIn(table, Slot))
              IN  i \in Slot /\ ~table[i].active
<1>1. EntriesOf(m, table, Slot) \subseteq Nat /\ FreeIn(table, Slot) \subseteq Nat
  BY DEF EntriesOf, FreeIn
<1>2. EntriesOf(m, table, Slot) # {} =>
        FirstOf(EntriesOf(m, table, Slot)) \in EntriesOf(m, table, Slot)
  BY <1>1, FirstOfMember
<1>3. FreeIn(table, Slot) # {} => FirstOf(FreeIn(table, Slot)) \in FreeIn(table, Slot)
  BY <1>1, FirstOfMember
<1>. QED
  BY <1>2, <1>3 DEF EntriesOf, FreeIn

NextMillis == (now + 1) % ClockSpan

\* What millis() arithmetic returns.
LEMMA ClockRange ==
  /\ 0 \in 0 .. ClockSpan - 1
  /\ now \in 0 .. ClockSpan - 1 => NextMillis \in 0 .. ClockSpan - 1
  /\ Forgotten \in 0 .. Forgotten /\ 0 \in 0 .. Forgotten
  /\ \A n \in 0 .. Forgotten : Older(n) \in 0 .. Forgotten
BY PeerTablesAssumption DEF NextMillis, Forgotten, Older

\* What TypeOK says of the tables, by the names above.
LEMMA TableTypes ==
  TypeOK => senderTable \in SenderTable /\ receiverTable \in ReceiverTable
BY DEF TypeOK, SenderTable, ReceiverTable, SenderRecord, ReceiverRecord

\* An entry in use is a record of its table.
LEMMA ActiveEntries ==
  ASSUME TypeOK
  PROVE  /\ \A i \in SenderSlot : senderTable[i].active => senderTable[i] \in SenderRecord
         /\ \A i \in ReceiverSlot :
              receiverTable[i].active => receiverTable[i] \in ReceiverRecord
<1>1. ~Free.active
  BY DEF Free
<1>2. \A i \in SenderSlot : senderTable[i] \in {Free} \union SenderRecord
  BY TableTypes DEF SenderTable
<1>3. \A i \in ReceiverSlot : receiverTable[i] \in {Free} \union ReceiverRecord
  BY TableTypes DEF ReceiverTable
<1>. QED
  BY <1>1, <1>2, <1>3, Zenon

LEMMA SenderEntryType ==
  ASSUME NEW table \in SenderTable, NEW i \in SenderSlot, NEW m \in Beaconing,
         NEW t \in 0 .. ClockSpan - 1
  PROVE  [table EXCEPT ![i] = SenderEntry(m, t)] \in SenderTable
BY DEF SenderTable, SenderRecord, SenderEntry

LEMMA ReceiverEntryType ==
  ASSUME NEW table \in ReceiverTable, NEW i \in ReceiverSlot, NEW m \in Reporting,
         NEW t \in 0 .. ClockSpan - 1
  PROVE  [table EXCEPT ![i] = ReceiverEntry(m, t, TRUE)] \in ReceiverTable
BY DEF ReceiverTable, ReceiverRecord, ReceiverEntry

-----------------------------------------------------------------------------
(* Type correctness. *)

LEMMA InitType == Init => TypeOK
<1>. SUFFICES ASSUME Init PROVE TypeOK
  OBVIOUS
<1>1. nodeRole \in Roles /\ senderModeEnabled \in BOOLEAN /\ polled \in BOOLEAN
  BY DEF Init
<1>2. senderTable \in [SenderSlot -> {Free} \union SenderRecord]
  BY DEF Init
<1>3. receiverTable \in [ReceiverSlot -> {Free} \union ReceiverRecord]
  BY DEF Init
<1>4. /\ senderSilence \in [Beaconing -> 0 .. Forgotten]
      /\ receiverSilence \in [Reporting -> 0 .. Forgotten]
  BY ClockRange DEF Init
<1>. QED
  BY <1>1, <1>2, <1>3, <1>4, ClockRange DEF Init, TypeOK, SenderRecord, ReceiverRecord

LEMMA BeaconType ==
  ASSUME TypeOK, NEW m \in Beaconing, handleSenderBeacon(m)
  PROVE  TypeOK'
<1>. DEFINE known == EntriesOf(m, senderTable, SenderSlot)
            free == FreeIn(senderTable, SenderSlot)
<1>1. senderTable' \in SenderTable
  <2>1. CASE known \union free = {}
    BY <2>1, TableTypes DEF handleSenderBeacon
  <2>2. CASE known # {}
    BY <2>2, TableTypes, Slots, SlotFound, SenderEntryType DEF handleSenderBeacon, TypeOK
  <2>3. CASE known = {} /\ free # {}
    BY <2>3, TableTypes, Slots, SlotFound, SenderEntryType DEF handleSenderBeacon, TypeOK
  <2>. QED
    BY <2>1, <2>2, <2>3
<1>2. wifi' = WifiIdle \/ wifi' \in [pc : {"add"}, mac : Beaconing \union Reporting]
  BY DEF handleSenderBeacon, Registering
<1>3. senderSilence' \in [Beaconing -> 0 .. Forgotten]
  BY ClockRange DEF handleSenderBeacon, TypeOK
<1>4. UNCHANGED <<receiverTable, peers, role, esp, clock, told, receiverSilence>>
  BY DEF handleSenderBeacon
<1>. QED
  BY <1>1, <1>2, <1>3, <1>4 DEF TypeOK, role, clock, SenderTable, SenderRecord

LEMMA ReportType ==
  ASSUME TypeOK, NEW m \in Reporting, handleReceiverInfo(m)
  PROVE  TypeOK'
<1>. DEFINE known == EntriesOf(m, receiverTable, ReceiverSlot)
            free == FreeIn(receiverTable, ReceiverSlot)
<1>1. receiverTable' \in ReceiverTable
  <2>1. CASE known \union free = {}
    BY <2>1, TableTypes DEF handleReceiverInfo
  <2>2. CASE known # {}
    BY <2>2, TableTypes, Slots, SlotFound, ReceiverEntryType
    DEF handleReceiverInfo, TypeOK, Reported, ReceiverSlotFor
  <2>3. CASE known = {} /\ free # {}
    BY <2>3, TableTypes, Slots, SlotFound, ReceiverEntryType
    DEF handleReceiverInfo, TypeOK, Reported, ReceiverSlotFor
  <2>. QED
    BY <2>1, <2>2, <2>3
<1>2. wifi' = WifiIdle \/ wifi' \in [pc : {"add"}, mac : Beaconing \union Reporting]
  BY DEF handleReceiverInfo, Registering
<1>3. receiverSilence' \in [Reporting -> 0 .. Forgotten]
  BY ClockRange DEF handleReceiverInfo, TypeOK
<1>4. UNCHANGED <<senderTable, peers, role, esp, clock, told, senderSilence>>
  BY DEF handleReceiverInfo
<1>. QED
  BY <1>1, <1>2, <1>3, <1>4 DEF TypeOK, role, clock, ReceiverTable, ReceiverRecord

\* The states of ESPNOW_Task.
EspState ==
  {EspAsleep} \union [pc : {"report"}, now : 0 .. ClockSpan - 1]
    \union [pc : {"receiver", "free receiver"}, now : 0 .. ClockSpan - 1, slot : ReceiverSlot]
    \union [pc : {"sender", "free sender"}, now : 0 .. ClockSpan - 1, slot : SenderSlot]

OnReceivers == [pc : {"receiver", "free receiver"}, now : 0 .. ClockSpan - 1, slot : ReceiverSlot]
OnSenders == [pc : {"sender", "free sender"}, now : 0 .. ClockSpan - 1, slot : SenderSlot]

LEMMA EspTypes ==
  /\ TypeOK => esp \in EspState
  /\ esp \in EspState /\ esp.pc \in {"receiver", "free receiver"} => esp \in OnReceivers
  /\ esp \in EspState /\ esp.pc \in {"sender", "free sender"} => esp \in OnSenders
<1>1. TypeOK => esp \in EspState
  BY DEF TypeOK, EspState
<1>2. esp = EspAsleep => esp.pc = "asleep"
  BY DEF EspAsleep
<1>3. esp \in [pc : {"report"}, now : 0 .. ClockSpan - 1] => esp.pc = "report"
  OBVIOUS
<1>4. esp \in OnReceivers => esp.pc \in {"receiver", "free receiver"}
  BY DEF OnReceivers
<1>5. esp \in OnSenders => esp.pc \in {"sender", "free sender"}
  BY DEF OnSenders
<1>6. /\ "asleep" \notin {"receiver", "free receiver", "sender", "free sender"}
      /\ "report" \notin {"receiver", "free receiver", "sender", "free sender"}
      /\ {"receiver", "free receiver"} \intersect {"sender", "free sender"} = {}
  OBVIOUS
<1>. QED
  BY <1>1, <1>2, <1>3, <1>4, <1>5, <1>6, Zenon DEF EspState, OnReceivers, OnSenders

\* The slot after one that is not the last.
LEMMA NextSlot ==
  ASSUME NEW N \in Nat \ {0}, NEW i \in 0 .. N - 1, i # N - 1
  PROVE  i + 1 \in 0 .. N - 1
OBVIOUS

LEMMA AsleepPc == EspAsleep.pc = "asleep"
BY DEF EspAsleep

LEMMA PastReceiverType ==
  ASSUME esp \in EspState, esp.pc \in {"receiver", "free receiver"}
  PROVE  PastReceiver \in EspState
<1>1. esp.now \in 0 .. ClockSpan - 1 /\ esp.slot \in 0 .. MAX_RECEIVERS - 1
  BY EspTypes DEF OnReceivers, ReceiverSlot
<1>2. CASE esp.slot = MAX_RECEIVERS - 1
  BY <1>1, <1>2 DEF PastReceiver, EspState
<1>3. CASE esp.slot # MAX_RECEIVERS - 1
  <2>1. esp.slot + 1 \in ReceiverSlot
    BY <1>1, <1>3, NextSlot, PeerTablesAssumption, Zenon DEF ReceiverSlot
  <2>2. [pc |-> "receiver", now |-> esp.now, slot |-> esp.slot + 1] \in OnReceivers
    BY <1>1, <2>1 DEF OnReceivers
  <2>3. PastReceiver = [pc |-> "receiver", now |-> esp.now, slot |-> esp.slot + 1]
    BY <1>3 DEF PastReceiver
  <2>4. OnReceivers \subseteq EspState
    BY Zenon DEF EspState, OnReceivers
  <2>. QED
    BY <2>2, <2>3, <2>4, Zenon
<1>. QED
  BY <1>2, <1>3

LEMMA PastSenderType ==
  ASSUME esp \in EspState, esp.pc \in {"sender", "free sender"}
  PROVE  PastSender \in EspState
<1>1. esp.now \in 0 .. ClockSpan - 1 /\ esp.slot \in 0 .. MAX_SENDERS - 1
  BY EspTypes DEF OnSenders, SenderSlot
<1>2. CASE esp.slot = MAX_SENDERS - 1
  BY <1>1, <1>2 DEF PastSender, EspState
<1>3. CASE esp.slot # MAX_SENDERS - 1
  <2>1. esp.slot + 1 \in SenderSlot
    BY <1>1, <1>3, NextSlot, PeerTablesAssumption, Zenon DEF SenderSlot
  <2>2. [pc |-> "sender", now |-> esp.now, slot |-> esp.slot + 1] \in OnSenders
    BY <1>1, <2>1 DEF OnSenders
  <2>3. PastSender = [pc |-> "sender", now |-> esp.now, slot |-> esp.slot + 1]
    BY <1>3 DEF PastSender
  <2>4. OnSenders \subseteq EspState
    BY Zenon DEF EspState, OnSenders
  <2>. QED
    BY <2>2, <2>3, <2>4, Zenon
<1>. QED
  BY <1>2, <1>3

LEMMA EspType ==
  ASSUME TypeOK, Esp
  PROVE  TypeOK'
<1>0. esp \in EspState /\ senderTable \in SenderTable /\ receiverTable \in ReceiverTable
  BY EspTypes, TableTypes
<1>. SUFFICES /\ esp' \in EspState /\ receiverTable' \in ReceiverTable
              /\ senderTable' \in SenderTable /\ peers' \subseteq peers
              /\ told' \subseteq Beaconing /\ polled' \in BOOLEAN
              /\ UNCHANGED <<role, wifi, now, senderSilence, receiverSilence>>
  BY DEF TypeOK, EspState, SenderTable, SenderRecord, ReceiverTable, ReceiverRecord, role
<1>1. CASE Wake
  BY <1>0, <1>1, Slots DEF Wake, TypeOK, tables, history, EspState
<1>2. CASE CheckReceiver
  <2>1. receiverTable' \in ReceiverTable
    <3>1. esp.slot \in ReceiverSlot
      BY <1>0, <1>2, EspTypes DEF CheckReceiver, OnReceivers
    <3>2. CASE ~receiverTable[esp.slot].active
      BY <1>0, <1>2, <3>2 DEF CheckReceiver
    <3>3. CASE receiverTable[esp.slot].active
      <4>1. receiverTable[esp.slot] \in ReceiverRecord
        BY <1>0, <3>1, <3>3 DEF ReceiverTable, Free
      <4>2. [receiverTable[esp.slot] EXCEPT !.connected = @ /\ ~Missing] \in ReceiverRecord
        BY <4>1 DEF ReceiverRecord
      <4>. QED
        BY <1>0, <1>2, <3>1, <3>3, <4>2 DEF CheckReceiver, ReceiverTable
    <3>. QED
      BY <3>2, <3>3
  <2>2. esp' \in EspState
    <3>1. PastReceiver \in EspState
      BY <1>0, <1>2, PastReceiverType DEF CheckReceiver
    <3>2. [esp EXCEPT !.pc = "free receiver"] \in EspState
      BY <1>0, <1>2, EspTypes DEF CheckReceiver, EspState, OnReceivers
    <3>. QED
      BY <1>2, <3>1, <3>2 DEF CheckReceiver
  <2>3. peers' \subseteq peers
    BY <1>2 DEF CheckReceiver
  <2>. QED
    BY <1>0, <1>2, <2>1, <2>2, <2>3 DEF CheckReceiver, TypeOK, clock, history
<1>3. CASE FreeReceiver
  BY <1>0, <1>3, PastReceiverType DEF FreeReceiver, TypeOK, ReceiverTable, clock, history
<1>4. CASE sendReceiverInfo
  <2>1. told' \subseteq Beaconing
    <3>1. \A i \in SenderSlot : senderTable[i].active => senderTable[i].mac \in Beaconing
      BY ActiveEntries DEF SenderRecord
    <3>. QED
      BY <1>4, <3>1 DEF sendReceiverInfo
  <2>. QED
    BY <1>0, <1>4, <2>1, Slots DEF sendReceiverInfo, ToSenders, TypeOK, tables, clock, EspState
<1>5. CASE ReportNotDue
  BY <1>0, <1>5, Slots DEF ReportNotDue, ToSenders, TypeOK, tables, clock, history, EspState
<1>6. CASE CheckSender
  <2>1. esp' \in EspState
    <3>1. PastSender \in EspState
      BY <1>0, <1>6, PastSenderType DEF CheckSender
    <3>2. [esp EXCEPT !.pc = "free sender"] \in EspState
      BY <1>0, <1>6, EspTypes DEF CheckSender, EspState, OnSenders
    <3>. QED
      BY <1>6, <3>1, <3>2 DEF CheckSender
  <2>. QED
    BY <1>0, <1>6, <2>1 DEF CheckSender, TypeOK, tables, clock, history
<1>7. CASE FreeSender
  BY <1>0, <1>7, PastSenderType DEF FreeSender, TypeOK, SenderTable, clock, history
<1>. QED
  BY <1>1, <1>2, <1>3, <1>4, <1>5, <1>6, <1>7 DEF Esp

\* A step of any action keeps the types.
LEMMA NextType == TypeOK /\ [Next]_vars => TypeOK'
<1>. SUFFICES ASSUME TypeOK, [Next]_vars PROVE TypeOK'
  OBVIOUS
<1>1. CASE \E m \in Beaconing : handleSenderBeacon(m)
  BY <1>1, BeaconType
<1>2. CASE \E m \in Reporting : handleReceiverInfo(m)
  BY <1>2, ReportType
<1>3. CASE AddPeer
  <2>1. wifi.mac \in Beaconing \union Reporting
    <3>1. wifi.pc = "add"
      BY <1>3 DEF AddPeer
    <3>2. wifi = WifiIdle \/ wifi \in [pc : {"add"}, mac : Beaconing \union Reporting]
      BY DEF TypeOK
    <3>. QED
      BY <3>1, <3>2 DEF WifiIdle
  <2>. QED
    BY <1>3, <2>1 DEF AddPeer, TypeOK, tables, role, clock, history
<1>4. CASE Esp
  BY <1>4, EspType
<1>5. ASSUME NEW r \in Roles, applyRole(r) PROVE TypeOK'
  <2>1. /\ receiverTable' \in ReceiverTable
        /\ peers' \subseteq peers
        /\ nodeRole' \in Roles
    BY <1>5, TableTypes DEF applyRole, ReceiverTable
  <2>2. senderModeEnabled' \in BOOLEAN
    BY <1>5 DEF applyRole, TypeOK
  <2>. QED
    BY <1>5, <2>1, <2>2 DEF applyRole, TypeOK, ReceiverTable, ReceiverRecord, clock, history
<1>6. CASE EnterSenderMode
  BY <1>6 DEF EnterSenderMode, TypeOK, tables, clock, history
<1>7. CASE Tick
  BY <1>7, ClockRange DEF Tick, NextMillis, TypeOK, tables, role
<1>8. CASE UNCHANGED vars
  BY <1>8 DEF vars, tables, role, clock, history, TypeOK
<1>. QED
  BY <1>1, <1>2, <1>3, <1>4, <1>5, <1>6, <1>7, <1>8 DEF Next

\* The tables, the clock and the tasks keep their types, whoever is heard and whatever
\* the time-outs.
THEOREM TypeCorrect == Spec => []TypeOK
BY InitType, NextType, PTL DEF Spec

-----------------------------------------------------------------------------
(* No node is listed twice, and everyone listed has a peer. *)

\* No two slots in use hold the same node.
Once(table, Slot) ==
  \A i, j \in Slot :
    table[i].active /\ table[j].active /\ table[i].mac = table[j].mac => i = j

\* Every slot in use of `new` was in use by the same node in `old`.
Kept(old, new, Slot) ==
  \A i \in Slot : new[i].active => old[i].active /\ new[i].mac = old[i].mac

\* `new` differs from `old` by an entry of m, which had none, in the free slot i.
Added(old, new, Slot, i, m) ==
  /\ i \in Slot /\ ~old[i].active
  /\ EntriesOf(m, old, Slot) = {}
  /\ new[i].active /\ new[i].mac = m
  /\ \A j \in Slot \ {i} : new[j] = old[j]

LEMMA KeptOnce ==
  ASSUME NEW old, NEW new, NEW Slot, Once(old, Slot), Kept(old, new, Slot)
  PROVE  Once(new, Slot)
BY DEF Once, Kept

LEMMA AddedOnce ==
  ASSUME NEW old, NEW new, NEW Slot, NEW i, NEW m,
         Once(old, Slot), Added(old, new, Slot, i, m)
  PROVE  Once(new, Slot)
<1>. SUFFICES ASSUME NEW j \in Slot, NEW k \in Slot,
                     new[j].active, new[k].active, new[j].mac = new[k].mac
              PROVE  j = k
  BY DEF Once
<1>1. \A l \in Slot : old[l].active => old[l].mac # m
  BY DEF Added, EntriesOf
<1>. QED
  BY <1>1 DEF Added, Once

\* What a beacon does to senderTable.
LEMMA BeaconEffect ==
  ASSUME TypeOK, NEW m \in Beaconing, handleSenderBeacon(m)
  PROVE  /\ UNCHANGED <<receiverTable, peers, esp>> /\ wifi = WifiIdle
         /\ \/ Kept(senderTable, senderTable', SenderSlot)
            \/ /\ wifi' = Registering(m)
               /\ \E i \in SenderSlot : Added(senderTable, senderTable', SenderSlot, i, m)
<1>. DEFINE known == EntriesOf(m, senderTable, SenderSlot)
            free == FreeIn(senderTable, SenderSlot)
<1>1. UNCHANGED <<receiverTable, peers, esp>> /\ wifi = WifiIdle
  BY DEF handleSenderBeacon
<1>2. CASE known \union free = {}
  BY <1>2 DEF handleSenderBeacon, Kept
<1>3. CASE known # {}
  <2>1. senderTable' = [senderTable EXCEPT ![FirstOf(known)] = SenderEntry(m, now)]
    BY <1>3 DEF handleSenderBeacon
  <2>2. senderTable[FirstOf(known)].active /\ senderTable[FirstOf(known)].mac = m
    <3>1. known \subseteq Nat
      BY Slots DEF EntriesOf
    <3>2. FirstOf(known) \in known
      BY <1>3, <3>1, FirstOfMember
    <3>. QED
      BY <3>2 DEF EntriesOf
  <2>. QED
    BY <1>1, <2>1, <2>2, TableTypes DEF Kept, SenderEntry, SenderTable
<1>4. CASE known = {} /\ free # {}
  <2>1. /\ senderTable' = [senderTable EXCEPT ![FirstOf(free)] = SenderEntry(m, now)]
        /\ wifi' = Registering(m)
    BY <1>4 DEF handleSenderBeacon
  <2>2. FirstOf(free) \in SenderSlot /\ ~senderTable[FirstOf(free)].active
    BY <1>4, Slots, SlotFound
  <2>3. Added(senderTable, senderTable', SenderSlot, FirstOf(free), m)
    BY <1>4, <2>1, <2>2, TableTypes DEF Added, SenderEntry, SenderTable
  <2>. QED
    BY <1>1, <2>1, <2>2, <2>3
<1>. QED
  BY <1>1, <1>2, <1>3, <1>4

\* What a report does to receiverTable.
LEMMA ReportEffect ==
  ASSUME TypeOK, NEW m \in Reporting, handleReceiverInfo(m)
  PROVE  /\ UNCHANGED <<senderTable, peers, esp>> /\ wifi = WifiIdle
         /\ \/ Kept(receiverTable, receiverTable', ReceiverSlot)
            \/ /\ wifi' = Registering(m)
               /\ \E i \in ReceiverSlot :
                    Added(receiverTable, receiverTable', ReceiverSlot, i, m)
<1>. DEFINE known == EntriesOf(m, receiverTable, ReceiverSlot)
            free == FreeIn(receiverTable, ReceiverSlot)
            entry == ReceiverEntry(m, now, TRUE)
<1>1. UNCHANGED <<senderTable, peers, esp>> /\ wifi = WifiIdle
  BY DEF handleReceiverInfo
<1>2. CASE known \union free = {}
  BY <1>2 DEF handleReceiverInfo, Kept
<1>3. CASE known # {}
  <2>1. receiverTable' = [receiverTable EXCEPT ![FirstOf(known)] = entry]
    BY <1>3 DEF handleReceiverInfo, Reported, ReceiverSlotFor
  <2>2. receiverTable[FirstOf(known)].active /\ receiverTable[FirstOf(known)].mac = m
    <3>1. known \subseteq Nat
      BY Slots DEF EntriesOf
    <3>2. FirstOf(known) \in known
      BY <1>3, <3>1, FirstOfMember
    <3>. QED
      BY <3>2 DEF EntriesOf
  <2>. QED
    BY <1>1, <2>1, <2>2, TableTypes DEF Kept, ReceiverEntry, ReceiverTable
<1>4. CASE known = {} /\ free # {}
  <2>1. /\ receiverTable' = [receiverTable EXCEPT ![FirstOf(free)] = entry]
        /\ wifi' = Registering(m)
    BY <1>4 DEF handleReceiverInfo, Reported, ReceiverSlotFor
  <2>2. FirstOf(free) \in ReceiverSlot /\ ~receiverTable[FirstOf(free)].active
    BY <1>4, Slots, SlotFound
  <2>3. Added(receiverTable, receiverTable', ReceiverSlot, FirstOf(free), m)
    BY <1>4, <2>1, <2>2, TableTypes DEF Added, ReceiverEntry, ReceiverTable
  <2>. QED
    BY <1>1, <2>1, <2>2, <2>3
<1>. QED
  BY <1>1, <1>2, <1>3, <1>4

\* Every other action only takes entries away.
Others ==
  AddPeer \/ Esp \/ (\E r \in Roles : applyRole(r)) \/ EnterSenderMode \/ Tick
    \/ UNCHANGED vars

LEMMA OthersKeep ==
  ASSUME TypeOK, Others
  PROVE  /\ Kept(senderTable, senderTable', SenderSlot)
         /\ Kept(receiverTable, receiverTable', ReceiverSlot)
<1>0. senderTable \in SenderTable /\ receiverTable \in ReceiverTable /\ ~Free.active
  BY TableTypes DEF Free
<1>1. CASE UNCHANGED tables
  BY <1>1 DEF tables, Kept
<1>2. CASE CheckReceiver
  <2>1. CASE receiverTable[esp.slot].active
    <3>1. /\ receiverTable' = [receiverTable EXCEPT ![esp.slot].connected = @ /\ ~Missing]
          /\ senderTable' = senderTable
      BY <1>2, <2>1 DEF CheckReceiver
    <3>2. esp.slot \in ReceiverSlot
      BY <1>2, EspTypes DEF CheckReceiver, OnReceivers
    <3>3. receiverTable[esp.slot] \in ReceiverRecord
      BY <2>1, <3>2, ActiveEntries
    <3>4. [receiverTable[esp.slot] EXCEPT !.connected = @ /\ ~Missing].mac
            = receiverTable[esp.slot].mac
      BY <3>3 DEF ReceiverRecord
    <3>. QED
      BY <1>0, <2>1, <3>1, <3>2, <3>4 DEF Kept, ReceiverTable
  <2>2. CASE ~receiverTable[esp.slot].active
    BY <1>2, <2>2 DEF CheckReceiver, Kept
  <2>. QED
    BY <2>1, <2>2
<1>3. CASE FreeReceiver
  BY <1>0, <1>3 DEF FreeReceiver, Kept, ReceiverTable
<1>4. CASE FreeSender
  BY <1>0, <1>4 DEF FreeSender, Kept, SenderTable
<1>5. ASSUME NEW r \in Roles, applyRole(r)
      PROVE  /\ Kept(senderTable, senderTable', SenderSlot)
             /\ Kept(receiverTable, receiverTable', ReceiverSlot)
  BY <1>0, <1>5 DEF applyRole, Kept
<1>6. AddPeer \/ Wake \/ sendReceiverInfo \/ ReportNotDue \/ CheckSender \/ EnterSenderMode
        \/ Tick \/ UNCHANGED vars => UNCHANGED tables
  BY DEF AddPeer, Wake, sendReceiverInfo, ReportNotDue, CheckSender, EnterSenderMode, Tick,
     vars, tables
<1>. QED
  BY <1>1, <1>2, <1>3, <1>4, <1>5, <1>6 DEF Others, Esp

LEMMA NextCases ==
  [Next]_vars =>
    \/ \E m \in Beaconing : handleSenderBeacon(m)
    \/ \E m \in Reporting : handleReceiverInfo(m)
    \/ Others
BY DEF Next, Others

LEMMA OnceStep == TypeOK /\ ListedOnce /\ [Next]_vars => ListedOnce'
<1>. SUFFICES ASSUME TypeOK, ListedOnce, [Next]_vars
              PROVE  Once(senderTable', SenderSlot) /\ Once(receiverTable', ReceiverSlot)
  BY DEF ListedOnce, Once
<1>0. Once(senderTable, SenderSlot) /\ Once(receiverTable, ReceiverSlot)
  BY DEF ListedOnce, Once
<1>1. ASSUME NEW m \in Beaconing, handleSenderBeacon(m)
      PROVE  Once(senderTable', SenderSlot) /\ Once(receiverTable', ReceiverSlot)
  BY <1>0, <1>1, BeaconEffect, KeptOnce, AddedOnce
<1>2. ASSUME NEW m \in Reporting, handleReceiverInfo(m)
      PROVE  Once(senderTable', SenderSlot) /\ Once(receiverTable', ReceiverSlot)
  BY <1>0, <1>2, ReportEffect, KeptOnce, AddedOnce
<1>3. CASE Others
  BY <1>0, <1>3, OthersKeep, KeptOnce
<1>. QED
  BY <1>1, <1>2, <1>3, NextCases

LEMMA InitOnce == Init => ListedOnce
BY DEF Init, ListedOnce, Free

\* No node ever has two entries, whatever registration on one core and clean-up on the
\* other overlap.
THEOREM NobodyListedTwice == Spec => []ListedOnce
<1>1. TypeOK /\ ListedOnce /\ [Next]_vars => (TypeOK /\ ListedOnce)'
  BY NextType, OnceStep
<1>. QED
  BY InitType, InitOnce, <1>1, PTL DEF Spec

\* A step leaves an entry of senderTable with its peer.
LEMMA SenderPeerStep ==
  ASSUME TypeOK, ListedOnce, EntriesHavePeers, [Next]_vars,
         NEW i \in SenderSlot, senderTable'[i].active, senderTable'[i].mac \notin Reporting
  PROVE  \/ senderTable'[i].mac \in peers'
         \/ wifi' = Registering(senderTable'[i].mac)
         \/ esp'.pc = "free sender" /\ esp'.slot = i
<1>. DEFINE mac == senderTable'[i].mac
            Safe == \/ mac \in peers'
                    \/ wifi' = Registering(mac)
                    \/ esp'.pc = "free sender" /\ esp'.slot = i
<1>0. senderTable[i].active /\ senderTable[i].mac = mac =>
        \/ mac \in peers
        \/ wifi = Registering(mac)
        \/ esp.pc = "free sender" /\ esp.slot = i
  BY DEF EntriesHavePeers, Going
<1>1. WifiIdle # Registering(mac)
  BY DEF WifiIdle, Registering
<1>2. ASSUME NEW m \in Beaconing, handleSenderBeacon(m) PROVE Safe
  <2>1. /\ UNCHANGED <<peers, esp>> /\ wifi = WifiIdle
        /\ \/ Kept(senderTable, senderTable', SenderSlot)
           \/ /\ wifi' = Registering(m)
              /\ \E k \in SenderSlot : Added(senderTable, senderTable', SenderSlot, k, m)
    BY <1>2, BeaconEffect
  <2>2. CASE Kept(senderTable, senderTable', SenderSlot)
    BY <1>0, <1>1, <2>1, <2>2 DEF Kept
  <2>3. CASE ~Kept(senderTable, senderTable', SenderSlot)
    <3>1. PICK k \in SenderSlot : Added(senderTable, senderTable', SenderSlot, k, m)
      BY <2>1, <2>3
    <3>. QED
      BY <1>0, <1>1, <2>1, <2>3, <3>1 DEF Added
  <2>. QED
    BY <2>2, <2>3
<1>3. ASSUME NEW m \in Reporting, handleReceiverInfo(m) PROVE Safe
  BY <1>0, <1>1, <1>3, ReportEffect
<1>4. CASE Others
  <2>0. senderTable[i].active /\ senderTable[i].mac = mac
    BY <1>4, OthersKeep DEF Kept
  <2>1. CASE AddPeer
    <3>1. wifi = Registering(mac) => wifi.mac = mac
      BY DEF Registering
    <3>2. peers' = peers \union {wifi.mac} /\ UNCHANGED esp
      BY <2>1 DEF AddPeer
    <3>. QED
      BY <1>0, <2>0, <3>1, <3>2
  <2>2. CASE Wake \/ sendReceiverInfo \/ ReportNotDue
    <3>1. UNCHANGED <<peers, wifi>>
      BY <2>2 DEF Wake, sendReceiverInfo, ReportNotDue
    <3>2. esp = EspAsleep \/ esp.pc = "report"
      BY <2>2 DEF Wake, sendReceiverInfo, ReportNotDue
    <3>3. esp.pc # "free sender"
      <4>1. EspAsleep.pc = "asleep"
        BY DEF EspAsleep
      <4>. QED
        BY <3>2, <4>1
    <3>. QED
      BY <1>0, <2>0, <3>1, <3>3
  <2>3. CASE CheckSender
    <3>1. esp.slot \in SenderSlot /\ esp.pc = "sender" /\ UNCHANGED wifi
      BY <2>3, EspTypes DEF CheckSender, OnSenders
    <3>2. CASE UNCHANGED peers
      BY <1>0, <2>0, <3>1, <3>2
    <3>3. CASE ~UNCHANGED peers
      <4>1. /\ peers' = peers \ {senderTable[esp.slot].mac} /\ senderTable[esp.slot].active
            /\ esp' = [esp EXCEPT !.pc = "free sender"]
        BY <2>3, <3>3 DEF CheckSender, SenderGone
      <4>2. esp'.pc = "free sender" /\ esp'.slot = esp.slot
        BY <2>3, <4>1, EspTypes DEF CheckSender, OnSenders
      <4>3. i # esp.slot => mac # senderTable[esp.slot].mac
        BY <2>0, <3>1, <4>1 DEF ListedOnce
      <4>. QED
        BY <1>0, <2>0, <3>1, <4>1, <4>2, <4>3
    <3>. QED
      BY <3>2, <3>3
  <2>4. CASE FreeSender
    <3>1. i # esp.slot
      BY <2>4, TableTypes DEF FreeSender, Free, SenderTable
    <3>. QED
      BY <1>0, <2>0, <2>4, <3>1 DEF FreeSender
  <2>5. CASE CheckReceiver
    <3>1. esp.slot \in ReceiverSlot /\ esp.pc = "receiver" /\ UNCHANGED wifi
      BY <2>5, EspTypes DEF CheckReceiver, OnReceivers
    <3>2. receiverTable[esp.slot].active => receiverTable[esp.slot].mac # mac
      BY <3>1, ActiveEntries DEF ReceiverRecord
    <3>3. mac \in peers => mac \in peers'
      BY <2>5, <3>2 DEF CheckReceiver, SenderGone
    <3>. QED
      BY <1>0, <2>0, <3>1, <3>3
  <2>6. CASE FreeReceiver
    BY <1>0, <2>0, <2>6 DEF FreeReceiver
  <2>7. ASSUME NEW r \in Roles, applyRole(r) PROVE Safe
    <3>1. UNCHANGED <<wifi, esp>>
      BY <2>7 DEF applyRole
    <3>2. mac \in peers => mac \in peers'
      <4>1. \A j \in ReceiverSlot : receiverTable[j].active => receiverTable[j].mac # mac
        BY ActiveEntries DEF ReceiverRecord
      <4>. QED
        BY <2>7, <4>1 DEF applyRole
    <3>. QED
      BY <1>0, <2>0, <3>1, <3>2
  <2>8. CASE EnterSenderMode \/ Tick \/ UNCHANGED vars
    BY <1>0, <2>0, <2>8 DEF EnterSenderMode, Tick, vars
  <2>. QED
    BY <1>4, <2>1, <2>2, <2>3, <2>4, <2>5, <2>6, <2>7, <2>8 DEF Others, Esp
<1>. QED
  BY <1>2, <1>3, <1>4, NextCases

\* A step leaves an entry of receiverTable with its peer.
LEMMA ReceiverPeerStep ==
  ASSUME TypeOK, ListedOnce, EntriesHavePeers, [Next]_vars,
         NEW i \in ReceiverSlot, receiverTable'[i].active, receiverTable'[i].mac \notin Beaconing
  PROVE  \/ receiverTable'[i].mac \in peers'
         \/ wifi' = Registering(receiverTable'[i].mac)
         \/ esp'.pc = "free receiver" /\ esp'.slot = i
<1>. DEFINE mac == receiverTable'[i].mac
            Safe == \/ mac \in peers'
                    \/ wifi' = Registering(mac)
                    \/ esp'.pc = "free receiver" /\ esp'.slot = i
<1>0. receiverTable[i].active /\ receiverTable[i].mac = mac =>
        \/ mac \in peers
        \/ wifi = Registering(mac)
        \/ esp.pc = "free receiver" /\ esp.slot = i
  BY DEF EntriesHavePeers, Going
<1>1. WifiIdle # Registering(mac)
  BY DEF WifiIdle, Registering
<1>2. ASSUME NEW m \in Reporting, handleReceiverInfo(m) PROVE Safe
  <2>1. /\ UNCHANGED <<peers, esp>> /\ wifi = WifiIdle
        /\ \/ Kept(receiverTable, receiverTable', ReceiverSlot)
           \/ /\ wifi' = Registering(m)
              /\ \E k \in ReceiverSlot : Added(receiverTable, receiverTable', ReceiverSlot, k, m)
    BY <1>2, ReportEffect
  <2>2. CASE Kept(receiverTable, receiverTable', ReceiverSlot)
    BY <1>0, <1>1, <2>1, <2>2 DEF Kept
  <2>3. CASE ~Kept(receiverTable, receiverTable', ReceiverSlot)
    <3>1. PICK k \in ReceiverSlot : Added(receiverTable, receiverTable', ReceiverSlot, k, m)
      BY <2>1, <2>3
    <3>. QED
      BY <1>0, <1>1, <2>1, <2>3, <3>1 DEF Added
  <2>. QED
    BY <2>2, <2>3
<1>3. ASSUME NEW m \in Beaconing, handleSenderBeacon(m) PROVE Safe
  BY <1>0, <1>1, <1>3, BeaconEffect
<1>4. CASE Others
  <2>0. receiverTable[i].active /\ receiverTable[i].mac = mac
    BY <1>4, OthersKeep DEF Kept
  <2>1. CASE AddPeer
    <3>1. wifi = Registering(mac) => wifi.mac = mac
      BY DEF Registering
    <3>2. peers' = peers \union {wifi.mac} /\ UNCHANGED esp
      BY <2>1 DEF AddPeer
    <3>. QED
      BY <1>0, <2>0, <3>1, <3>2
  <2>2. CASE Wake \/ sendReceiverInfo \/ ReportNotDue
    <3>1. UNCHANGED <<peers, wifi>>
      BY <2>2 DEF Wake, sendReceiverInfo, ReportNotDue
    <3>2. esp = EspAsleep \/ esp.pc = "report"
      BY <2>2 DEF Wake, sendReceiverInfo, ReportNotDue
    <3>3. esp.pc # "free receiver"
      <4>1. EspAsleep.pc = "asleep"
        BY DEF EspAsleep
      <4>. QED
        BY <3>2, <4>1
    <3>. QED
      BY <1>0, <2>0, <3>1, <3>3
  <2>3. CASE CheckReceiver
    <3>1. esp.slot \in ReceiverSlot /\ esp.pc = "receiver" /\ UNCHANGED wifi
      BY <2>3, EspTypes DEF CheckReceiver, OnReceivers
    <3>2. CASE UNCHANGED peers
      BY <1>0, <2>0, <3>1, <3>2
    <3>3. CASE ~UNCHANGED peers
      <4>1. /\ peers' = peers \ {receiverTable[esp.slot].mac} /\ receiverTable[esp.slot].active
            /\ esp' = [esp EXCEPT !.pc = "free receiver"]
        BY <2>3, <3>3 DEF CheckReceiver, SenderGone
      <4>2. esp'.pc = "free receiver" /\ esp'.slot = esp.slot
        BY <2>3, <4>1, EspTypes DEF CheckReceiver, OnReceivers
      <4>3. i # esp.slot => mac # receiverTable[esp.slot].mac
        BY <2>0, <3>1, <4>1 DEF ListedOnce
      <4>. QED
        BY <1>0, <2>0, <3>1, <4>1, <4>2, <4>3
    <3>. QED
      BY <3>2, <3>3
  <2>4. CASE FreeReceiver
    <3>1. i # esp.slot
      BY <2>4, TableTypes DEF FreeReceiver, Free, ReceiverTable
    <3>. QED
      BY <1>0, <2>0, <2>4, <3>1 DEF FreeReceiver
  <2>5. CASE CheckSender
    <3>1. esp.slot \in SenderSlot /\ esp.pc = "sender" /\ UNCHANGED wifi
      BY <2>5, EspTypes DEF CheckSender, OnSenders
    <3>2. senderTable[esp.slot].active => senderTable[esp.slot].mac # mac
      BY <3>1, ActiveEntries DEF SenderRecord
    <3>3. mac \in peers => mac \in peers'
      BY <2>5, <3>2 DEF CheckSender, SenderGone
    <3>. QED
      BY <1>0, <2>0, <3>1, <3>3
  <2>6. CASE FreeSender
    BY <1>0, <2>0, <2>6 DEF FreeSender
  <2>7. ASSUME NEW r \in Roles, applyRole(r) PROVE Safe
    <3>1. UNCHANGED <<wifi, esp>>
      BY <2>7 DEF applyRole
    <3>2. mac \in peers => mac \in peers'
      BY <2>7 DEF applyRole, Free
    <3>. QED
      BY <1>0, <2>0, <3>1, <3>2
  <2>8. CASE EnterSenderMode \/ Tick \/ UNCHANGED vars
    BY <1>0, <2>0, <2>8 DEF EnterSenderMode, Tick, vars
  <2>. QED
    BY <1>4, <2>1, <2>2, <2>3, <2>4, <2>5, <2>6, <2>7, <2>8 DEF Others, Esp
<1>. QED
  BY <1>2, <1>3, <1>4, NextCases

IInv == TypeOK /\ ListedOnce /\ EntriesHavePeers

LEMMA InitPeers == Init => EntriesHavePeers
<1>. SUFFICES ASSUME Init PROVE EntriesHavePeers
  OBVIOUS
<1>1. /\ \A i \in SenderSlot : ~senderTable[i].active
      /\ \A i \in ReceiverSlot : ~receiverTable[i].active
  BY DEF Init, Free
<1>. QED
  BY <1>1 DEF EntriesHavePeers

LEMMA InvariantStep == IInv /\ [Next]_vars => IInv'
<1>. SUFFICES ASSUME IInv, [Next]_vars PROVE IInv'
  OBVIOUS
<1>1. TypeOK' /\ ListedOnce'
  BY NextType, OnceStep DEF IInv
<1>2. EntriesHavePeers'
  BY SenderPeerStep, ReceiverPeerStep DEF IInv, EntriesHavePeers, Going
<1>. QED
  BY <1>1, <1>2 DEF IInv

\* Every entry in use has its peer, for nodes heard in one capacity: the radio can send
\* to everyone the tables list, save in the middle of a registration or a removal.
THEOREM ListedAreReachable == Spec => []EntriesHavePeers
<1>1. Init => IInv
  BY InitType, InitOnce, InitPeers DEF IInv
<1>2. IInv => EntriesHavePeers
  BY DEF IInv
<1>. QED
  BY <1>1, <1>2, InvariantStep, PTL DEF Spec

-----------------------------------------------------------------------------
(* The tables keep to their time-outs. *)

\* A pass in progress read millis() in this unit, or in the last one if ESPNOW_Task has
\* not woken in this one.
PassIsRecent ==
  esp # EspAsleep => esp.now = now \/ (~polled /\ Elapsed(now, esp.now) = 1)

\* Only a sender has receivers.
SendersHaveReceivers ==
  \A i \in ReceiverSlot : receiverTable[i].active => senderModeEnabled

\* What is left of the pass: slot i of receiverTable, of senderTable.
ReceiverAhead(i) == esp.pc \in {"receiver", "free receiver"} /\ esp.slot <= i
SenderAhead(i) ==
  \/ esp.pc \in {"receiver", "free receiver", "report"}
  \/ esp.pc \in {"sender", "free sender"} /\ esp.slot <= i

\* An entry that outlives its time-out has not been reached since: by the pass of the
\* first unit, which goes on in the second and has to end there.
WithinLimit(silence, limit, ahead) ==
  /\ silence <= limit + 2
  /\ silence = limit + 1 /\ polled => ahead
  /\ silence = limit + 2 => ahead /\ ~polled

ReceiverRecent(i) ==
  LET e == receiverTable[i]
      silence == receiverSilence[e.mac]
  IN  e.active =>
        /\ Elapsed(now, e.lastSeen) = silence
        /\ WithinLimit(silence, RECEIVER_REMOVAL_MS, ReceiverAhead(i))
        /\ e.connected => WithinLimit(silence, RECEIVER_TIMEOUT_MS, ReceiverAhead(i))

SenderRecent(i) ==
  LET e == senderTable[i]
      silence == senderSilence[e.mac]
  IN  e.active =>
        /\ Elapsed(now, e.lastSeen) = silence
        /\ WithinLimit(silence, SENDER_TIMEOUT_MS, SenderAhead(i))

RecentInv ==
  /\ TypeOK /\ ListedOnce
  /\ PassIsRecent /\ SendersHaveReceivers
  /\ \A i \in ReceiverSlot : ReceiverRecent(i)
  /\ \A i \in SenderSlot : SenderRecent(i)

LEMMA NowRange == TypeOK => now \in 0 .. ClockSpan - 1
BY DEF TypeOK

\* The clock can tell every time-out from a wrap.
LEMMA Limits ==
  /\ SENDER_TIMEOUT_MS \in Nat /\ SENDER_TIMEOUT_MS + 2 < ClockSpan
  /\ RECEIVER_TIMEOUT_MS \in Nat /\ RECEIVER_TIMEOUT_MS < RECEIVER_REMOVAL_MS
  /\ RECEIVER_REMOVAL_MS \in Nat /\ RECEIVER_REMOVAL_MS + 2 < ClockSpan
  /\ ClockSpan \in Nat /\ 0 < ClockSpan - 1
  /\ SENDER_TIMEOUT_MS + 2 < Forgotten /\ Forgotten = RECEIVER_REMOVAL_MS + 3
BY PeerTablesAssumption DEF Forgotten

\* Subtraction and increment of millis(), without the modulus.
LEMMA Remainder ==
  ASSUME NEW C \in Nat, C > 0, NEW x \in 0 .. 2 * C - 1
  PROVE  x % C = IF x < C THEN x ELSE x - C
OBVIOUS

LEMMA ElapsedIs ==
  ASSUME NEW a \in 0 .. ClockSpan - 1, NEW b \in 0 .. ClockSpan - 1
  PROVE  Elapsed(a, b) = IF b <= a THEN a - b ELSE a + ClockSpan - b
<1>1. a + ClockSpan - b \in 0 .. 2 * ClockSpan - 1 /\ ClockSpan \in Nat /\ ClockSpan > 0
  BY PeerTablesAssumption
<1>. QED
  BY <1>1, Remainder DEF Elapsed

LEMMA ElapsedRange ==
  ASSUME NEW a \in 0 .. ClockSpan - 1, NEW b \in 0 .. ClockSpan - 1
  PROVE  Elapsed(a, b) \in 0 .. ClockSpan - 1
<1>1. ClockSpan \in Nat
  BY PeerTablesAssumption
<1>. QED
  BY <1>1, ElapsedIs

LEMMA NextIs ==
  ASSUME now \in 0 .. ClockSpan - 1
  PROVE  NextMillis = IF now = ClockSpan - 1 THEN 0 ELSE now + 1
<1>1. now + 1 \in 0 .. 2 * ClockSpan - 1 /\ ClockSpan \in Nat /\ ClockSpan > 0
  BY PeerTablesAssumption
<1>. QED
  BY <1>1, Remainder DEF NextMillis

\* One unit later every age has grown by one, short of a wrap.
LEMMA ElapsedGrows ==
  ASSUME now \in 0 .. ClockSpan - 1, NEW b \in 0 .. ClockSpan - 1,
         Elapsed(now, b) < ClockSpan - 1
  PROVE  Elapsed(NextMillis, b) = Elapsed(now, b) + 1
<1>1. ClockSpan \in Nat /\ NextMillis \in 0 .. ClockSpan - 1
  BY PeerTablesAssumption, ClockRange
<1>2. Elapsed(now, b) = IF b <= now THEN now - b ELSE now + ClockSpan - b
  BY ElapsedIs
<1>3. /\ NextMillis = IF now = ClockSpan - 1 THEN 0 ELSE now + 1
      /\ Elapsed(NextMillis, b) = IF b <= NextMillis THEN NextMillis - b
                                  ELSE NextMillis + ClockSpan - b
  BY <1>1, NextIs, ElapsedIs
<1>. QED
  BY <1>1, <1>2, <1>3

\* A reading of millis() one unit old sees every age but zero one less.
LEMMA ElapsedLate ==
  ASSUME now \in 0 .. ClockSpan - 1, NEW a \in 0 .. ClockSpan - 1,
         NEW b \in 0 .. ClockSpan - 1, Elapsed(now, a) = 1, Elapsed(now, b) > 0
  PROVE  Elapsed(a, b) = Elapsed(now, b) - 1
<1>1. ClockSpan \in Nat
  BY PeerTablesAssumption
<1>2. Elapsed(now, a) = IF a <= now THEN now - a ELSE now + ClockSpan - a
  BY ElapsedIs
<1>3. Elapsed(now, b) = IF b <= now THEN now - b ELSE now + ClockSpan - b
  BY ElapsedIs
<1>4. Elapsed(a, b) = IF b <= a THEN a - b ELSE a + ClockSpan - b
  BY ElapsedIs
<1>. QED
  BY <1>1, <1>2, <1>3, <1>4

\* A pass that finds an entry within its limit may leave it behind.
LEMMA LeftBehind ==
  ASSUME PassIsRecent, esp # EspAsleep, esp.now \in 0 .. ClockSpan - 1,
         now \in 0 .. ClockSpan - 1, NEW b \in 0 .. ClockSpan - 1, NEW limit \in Nat,
         Elapsed(esp.now, b) <= limit
  PROVE  WithinLimit(Elapsed(now, b), limit, FALSE)
<1>1. Elapsed(now, b) \in Nat
  BY ElapsedRange
<1>2. CASE esp.now = now
  BY <1>1, <1>2 DEF WithinLimit
<1>3. CASE ~polled /\ Elapsed(now, esp.now) = 1
  <2>1. Elapsed(now, b) > 0 => Elapsed(esp.now, b) = Elapsed(now, b) - 1
    BY <1>3, ElapsedLate
  <2>. QED
    BY <1>1, <1>3, <2>1 DEF WithinLimit
<1>. QED
  BY <1>2, <1>3 DEF PassIsRecent

\* Where a pass goes it takes its reading of millis() along.
LEMMA PastNow ==
  /\ PastReceiver.now = esp.now /\ PastReceiver.pc \in {"receiver", "report"}
  /\ PastSender # EspAsleep => PastSender.now = esp.now
BY DEF PastReceiver, PastSender

LEMMA PassStep == TypeOK /\ PassIsRecent /\ [Next]_vars => PassIsRecent'
<1>. SUFFICES ASSUME TypeOK, PassIsRecent, [Next]_vars, esp' # EspAsleep
              PROVE  esp'.now = now' \/ (~polled' /\ Elapsed(now', esp'.now) = 1)
  BY DEF PassIsRecent, EspAsleep
<1>1. CASE UNCHANGED <<now, polled>> /\ esp' = esp
  BY <1>1 DEF PassIsRecent
<1>2. CASE UNCHANGED <<now, polled>> /\ esp # EspAsleep /\ esp'.now = esp.now
  BY <1>2 DEF PassIsRecent
<1>3. CASE now' = now /\ esp'.now = now
  BY <1>3
<1>4. CASE Tick
  <2>1. esp.now = now /\ esp' = esp /\ now' = NextMillis /\ ~polled'
    BY <1>4 DEF Tick, NextMillis
  <2>2. now \in 0 .. ClockSpan - 1 /\ 0 < ClockSpan - 1
    BY NowRange, Limits
  <2>3. Elapsed(now, now) = 0
    BY <2>2, ElapsedIs
  <2>. QED
    BY <2>1, <2>2, <2>3, ElapsedGrows
<1>5. CASE CheckReceiver \/ FreeReceiver \/ CheckSender \/ FreeSender
  <2>1. UNCHANGED <<now, polled>> /\ esp.pc \in {"receiver", "free receiver", "sender", "free sender"}
    BY <1>5 DEF CheckReceiver, FreeReceiver, CheckSender, FreeSender, clock
  <2>2. esp # EspAsleep
    BY <2>1, AsleepPc
  <2>3. \/ esp' = PastReceiver \/ esp' = PastSender
        \/ esp' = [esp EXCEPT !.pc = "free receiver"] \/ esp' = [esp EXCEPT !.pc = "free sender"]
    BY <1>5 DEF CheckReceiver, FreeReceiver, CheckSender, FreeSender
  <2>4. esp \in OnReceivers \/ esp \in OnSenders
    BY <2>1, EspTypes
  <2>5. esp'.now = esp.now
    BY <2>3, <2>4, PastNow DEF OnReceivers, OnSenders
  <2>. QED
    BY <1>2, <2>1, <2>2, <2>5
<1>6. CASE Wake \/ sendReceiverInfo \/ ReportNotDue
  BY <1>3, <1>6 DEF Wake, sendReceiverInfo, ReportNotDue, ToSenders, clock
<1>7. CASE UNCHANGED vars
  BY <1>1, <1>7 DEF vars, clock
<1>8. CASE \/ \E m \in Beaconing : handleSenderBeacon(m)
           \/ \E m \in Reporting : handleReceiverInfo(m)
  BY <1>1, <1>8 DEF handleSenderBeacon, handleReceiverInfo, clock
<1>9. CASE AddPeer \/ (\E r \in Roles : applyRole(r)) \/ EnterSenderMode
  BY <1>1, <1>9 DEF AddPeer, applyRole, EnterSenderMode, clock
<1>. QED
  BY <1>4, <1>5, <1>6, <1>7, <1>8, <1>9 DEF Next, Esp

LEMMA SendingStep == TypeOK /\ SendersHaveReceivers /\ [Next]_vars => SendersHaveReceivers'
<1>. SUFFICES ASSUME TypeOK, SendersHaveReceivers, [Next]_vars,
                     NEW i \in ReceiverSlot, receiverTable'[i].active
              PROVE  senderModeEnabled'
  BY DEF SendersHaveReceivers
<1>1. CASE \E m \in Reporting : handleReceiverInfo(m)
  BY <1>1 DEF handleReceiverInfo, role
<1>2. CASE \E m \in Beaconing : handleSenderBeacon(m)
  BY <1>2 DEF handleSenderBeacon, SendersHaveReceivers, role
<1>3. CASE Others
  <2>1. senderModeEnabled
    BY <1>3, OthersKeep DEF Kept, SendersHaveReceivers
  <2>2. ASSUME NEW r \in Roles, applyRole(r) PROVE senderModeEnabled'
    BY <2>1, <2>2 DEF applyRole, Free
  <2>. QED
    BY <1>3, <2>1, <2>2 DEF Others, Esp, AddPeer, EnterSenderMode, Tick, vars, role, Wake,
       CheckReceiver, FreeReceiver, sendReceiverInfo, ReportNotDue, CheckSender, FreeSender
<1>. QED
  BY <1>1, <1>2, <1>3, NextCases

\* What the callbacks store, entry by entry.
LEMMA ReportStores ==
  ASSUME TypeOK, ListedOnce, NEW m \in Reporting, handleReceiverInfo(m),
         NEW i \in ReceiverSlot, receiverTable'[i].active
  PROVE  \/ receiverTable'[i] = ReceiverEntry(m, now, TRUE)
         \/ /\ receiverTable'[i] = receiverTable[i]
            /\ receiverTable[i].mac # m
<1>. DEFINE known == EntriesOf(m, receiverTable, ReceiverSlot)
            free == FreeIn(receiverTable, ReceiverSlot)
            slot == ReceiverSlotFor(known, free)
<1>1. known \subseteq Nat /\ free \subseteq Nat
  BY Slots DEF EntriesOf, FreeIn
<1>2. CASE known \union free = {}
  BY <1>2 DEF handleReceiverInfo, EntriesOf
<1>3. CASE known # {}
  <2>1. slot \in known
    BY <1>1, <1>3, FirstOfMember DEF ReceiverSlotFor
  <2>2. receiverTable' = [receiverTable EXCEPT ![slot] = ReceiverEntry(m, now, TRUE)]
    BY <1>3 DEF handleReceiverInfo, Reported
  <2>3. CASE i = slot
    BY <2>2, <2>3, TableTypes DEF ReceiverTable
  <2>4. CASE i # slot
    <3>1. receiverTable'[i] = receiverTable[i]
      BY <2>2, <2>4, TableTypes DEF ReceiverTable
    <3>2. receiverTable[slot].active /\ receiverTable[slot].mac = m /\ slot \in ReceiverSlot
      BY <2>1 DEF EntriesOf
    <3>. QED
      BY <2>4, <3>1, <3>2 DEF ListedOnce
  <2>. QED
    BY <2>3, <2>4
<1>4. CASE known = {} /\ free # {}
  <2>1. receiverTable' = [receiverTable EXCEPT ![slot] = ReceiverEntry(m, now, TRUE)]
    BY <1>4 DEF handleReceiverInfo, Reported
  <2>2. i = slot \/ receiverTable'[i] = receiverTable[i]
    BY <2>1, TableTypes DEF ReceiverTable
  <2>3. i = slot => receiverTable'[i] = ReceiverEntry(m, now, TRUE)
    BY <2>1, TableTypes DEF ReceiverTable
  <2>4. receiverTable'[i] = receiverTable[i] => receiverTable[i].mac # m
    BY <1>4 DEF EntriesOf
  <2>. QED
    BY <2>2, <2>3, <2>4
<1>. QED
  BY <1>2, <1>3, <1>4

LEMMA BeaconStores ==
  ASSUME TypeOK, ListedOnce, NEW m \in Beaconing, handleSenderBeacon(m),
         NEW i \in SenderSlot, senderTable'[i].active
  PROVE  \/ senderTable'[i] = SenderEntry(m, now)
         \/ /\ senderTable'[i] = senderTable[i]
            /\ senderTable[i].mac # m
<1>. DEFINE known == EntriesOf(m, senderTable, SenderSlot)
            free == FreeIn(senderTable, SenderSlot)
            slot == FirstOf(IF known # {} THEN known ELSE free)
<1>1. known \subseteq Nat /\ free \subseteq Nat
  BY Slots DEF EntriesOf, FreeIn
<1>2. CASE known \union free = {}
  BY <1>2 DEF handleSenderBeacon, EntriesOf
<1>3. CASE known # {}
  <2>1. slot \in known
    BY <1>1, <1>3, FirstOfMember
  <2>2. senderTable' = [senderTable EXCEPT ![slot] = SenderEntry(m, now)]
    BY <1>3 DEF handleSenderBeacon
  <2>3. CASE i = slot
    BY <2>2, <2>3, TableTypes DEF SenderTable
  <2>4. CASE i # slot
    <3>1. senderTable'[i] = senderTable[i]
      BY <2>2, <2>4, TableTypes DEF SenderTable
    <3>2. senderTable[slot].active /\ senderTable[slot].mac = m /\ slot \in SenderSlot
      BY <2>1 DEF EntriesOf
    <3>. QED
      BY <2>4, <3>1, <3>2 DEF ListedOnce
  <2>. QED
    BY <2>3, <2>4
<1>4. CASE known = {} /\ free # {}
  <2>1. senderTable' = [senderTable EXCEPT ![slot] = SenderEntry(m, now)]
    BY <1>4 DEF handleSenderBeacon
  <2>2. i = slot \/ senderTable'[i] = senderTable[i]
    BY <2>1, TableTypes DEF SenderTable
  <2>3. i = slot => senderTable'[i] = SenderEntry(m, now)
    BY <2>1, TableTypes DEF SenderTable
  <2>4. senderTable'[i] = senderTable[i] => senderTable[i].mac # m
    BY <1>4 DEF EntriesOf
  <2>. QED
    BY <2>2, <2>3, <2>4
<1>. QED
  BY <1>2, <1>3, <1>4

LEMMA NextUpTo ==
  ASSUME NEW n \in Nat, NEW slot \in 0 .. n - 1, NEW i \in 0 .. n - 1, slot < i
  PROVE  slot # n - 1 /\ slot + 1 <= i
OBVIOUS

LEMMA AtOrBefore ==
  ASSUME NEW slot \in Nat, NEW i \in Nat
  PROVE  (slot <= i /\ slot # i => slot < i) /\ (slot = i => slot <= i)
OBVIOUS

\* A pass leaves one slot behind at a time.
LEMMA StillAheadOfReceiver ==
  ASSUME TypeOK, esp.pc \in {"receiver", "free receiver"}, NEW i \in ReceiverSlot, esp.slot < i
  PROVE  PastReceiver.pc = "receiver" /\ PastReceiver.slot <= i
<1>1. esp.slot \in 0 .. MAX_RECEIVERS - 1 /\ i \in 0 .. MAX_RECEIVERS - 1
  BY EspTypes DEF OnReceivers, ReceiverSlot
<1>2. MAX_RECEIVERS \in Nat
  BY PeerTablesAssumption
<1>3. esp.slot # MAX_RECEIVERS - 1 /\ esp.slot + 1 <= i
  BY <1>1, <1>2, NextUpTo
<1>. QED
  BY <1>3 DEF PastReceiver

LEMMA StillAheadOfSender ==
  ASSUME TypeOK, esp.pc \in {"sender", "free sender"}, NEW i \in SenderSlot, esp.slot < i
  PROVE  PastSender.pc = "sender" /\ PastSender.slot <= i
<1>1. esp.slot \in 0 .. MAX_SENDERS - 1 /\ i \in 0 .. MAX_SENDERS - 1
  BY EspTypes DEF OnSenders, SenderSlot
<1>2. MAX_SENDERS \in Nat
  BY PeerTablesAssumption
<1>3. esp.slot # MAX_SENDERS - 1 /\ esp.slot + 1 <= i
  BY <1>1, <1>2, NextUpTo
<1>. QED
  BY <1>3 DEF PastSender

\* A step that leaves the entry, the clock and what is ahead alone.
LEMMA ReceiverFrame ==
  ASSUME NEW i, ReceiverRecent(i), UNCHANGED <<now, polled>>,
         receiverTable'[i].active =>
           /\ receiverTable'[i] = receiverTable[i]
           /\ receiverSilence'[receiverTable[i].mac] = receiverSilence[receiverTable[i].mac],
         ReceiverAhead(i) => ReceiverAhead(i)'
  PROVE  ReceiverRecent(i)'
BY DEF ReceiverRecent, WithinLimit

LEMMA SenderFrame ==
  ASSUME NEW i, SenderRecent(i), UNCHANGED <<now, polled>>,
         senderTable'[i].active =>
           /\ senderTable'[i] = senderTable[i]
           /\ senderSilence'[senderTable[i].mac] = senderSilence[senderTable[i].mac],
         SenderAhead(i) => SenderAhead(i)'
  PROVE  SenderRecent(i)'
BY DEF SenderRecent, WithinLimit

LEMMA ReceiverReport ==
  ASSUME RecentInv, NEW i \in ReceiverSlot, NEW m \in Reporting, handleReceiverInfo(m)
  PROVE  ReceiverRecent(i)'
<1>. SUFFICES ASSUME receiverTable'[i].active PROVE ReceiverRecent(i)'
  BY DEF ReceiverRecent
<1>0. TypeOK /\ ListedOnce /\ ReceiverRecent(i)
  BY DEF RecentInv
<1>1. /\ UNCHANGED <<esp, now, polled>>
      /\ receiverSilence' = [receiverSilence EXCEPT ![m] = 0]
  BY DEF handleReceiverInfo, clock
<1>2. receiverSilence \in [Reporting -> 0 .. Forgotten]
  BY <1>0 DEF TypeOK
<1>3. CASE receiverTable'[i] = ReceiverEntry(m, now, TRUE)
  <2>1. receiverTable'[i].mac = m /\ receiverTable'[i].lastSeen = now
    BY <1>3 DEF ReceiverEntry
  <2>2. receiverSilence'[m] = 0
    BY <1>1, <1>2
  <2>3. Elapsed(now, now) = 0
    BY <1>0, NowRange, ElapsedIs
  <2>. QED
    BY <1>1, <2>1, <2>2, <2>3, Limits DEF ReceiverRecent, WithinLimit
<1>4. CASE receiverTable'[i] = receiverTable[i] /\ receiverTable[i].mac # m
  <2>1. receiverSilence'[receiverTable[i].mac] = receiverSilence[receiverTable[i].mac]
    <3>1. receiverTable[i].mac \in Reporting
      BY <1>0, <1>4, ActiveEntries DEF ReceiverRecord
    <3>. QED
      BY <1>1, <1>2, <1>4, <3>1
  <2>. QED
    BY <1>0, <1>1, <1>4, <2>1, ReceiverFrame DEF ReceiverAhead
<1>. QED
  BY <1>0, <1>3, <1>4, ReportStores

LEMMA SenderBeacon ==
  ASSUME RecentInv, NEW i \in SenderSlot, NEW m \in Beaconing, handleSenderBeacon(m)
  PROVE  SenderRecent(i)'
<1>. SUFFICES ASSUME senderTable'[i].active PROVE SenderRecent(i)'
  BY DEF SenderRecent
<1>0. TypeOK /\ ListedOnce /\ SenderRecent(i)
  BY DEF RecentInv
<1>1. /\ UNCHANGED <<esp, now, polled>>
      /\ senderSilence' = [senderSilence EXCEPT ![m] = 0]
  BY DEF handleSenderBeacon, clock
<1>2. senderSilence \in [Beaconing -> 0 .. Forgotten]
  BY <1>0 DEF TypeOK
<1>3. CASE senderTable'[i] = SenderEntry(m, now)
  <2>1. senderTable'[i].mac = m /\ senderTable'[i].lastSeen = now
    BY <1>3 DEF SenderEntry
  <2>2. senderSilence'[m] = 0
    BY <1>1, <1>2
  <2>3. Elapsed(now, now) = 0
    BY <1>0, NowRange, ElapsedIs
  <2>. QED
    BY <1>1, <2>1, <2>2, <2>3, Limits DEF SenderRecent, WithinLimit
<1>4. CASE senderTable'[i] = senderTable[i] /\ senderTable[i].mac # m
  <2>1. senderSilence'[senderTable[i].mac] = senderSilence[senderTable[i].mac]
    <3>1. senderTable[i].mac \in Beaconing
      BY <1>0, <1>4, ActiveEntries DEF SenderRecord
    <3>. QED
      BY <1>1, <1>2, <1>4, <3>1
  <2>. QED
    BY <1>0, <1>1, <1>4, <2>1, SenderFrame DEF SenderAhead
<1>. QED
  BY <1>0, <1>3, <1>4, BeaconStores

\* What RecentInv says of an entry in use.
LEMMA ReceiverFacts ==
  ASSUME RecentInv, NEW i \in ReceiverSlot, receiverTable[i].active
  PROVE  LET e == receiverTable[i]
             silence == receiverSilence[e.mac]
         IN  /\ e \in ReceiverRecord
             /\ e.mac \in Reporting /\ e.lastSeen \in 0 .. ClockSpan - 1
             /\ silence \in Nat /\ Elapsed(now, e.lastSeen) = silence
             /\ WithinLimit(silence, RECEIVER_REMOVAL_MS, ReceiverAhead(i))
             /\ e.connected => WithinLimit(silence, RECEIVER_TIMEOUT_MS, ReceiverAhead(i))
             /\ senderModeEnabled
<1>1. TypeOK /\ ReceiverRecent(i) /\ senderModeEnabled
  BY DEF RecentInv, SendersHaveReceivers
<1>2. receiverTable[i] \in ReceiverRecord
  BY <1>1, ActiveEntries
<1>3. receiverTable[i].mac \in Reporting /\ receiverTable[i].lastSeen \in 0 .. ClockSpan - 1
  BY <1>2 DEF ReceiverRecord
<1>4. receiverSilence \in [Reporting -> 0 .. Forgotten]
  BY <1>1 DEF TypeOK
<1>5. receiverSilence[receiverTable[i].mac] \in Nat
  BY <1>3, <1>4
<1>. QED
  BY <1>1, <1>2, <1>3, <1>5 DEF ReceiverRecent

LEMMA SenderFacts ==
  ASSUME RecentInv, NEW i \in SenderSlot, senderTable[i].active
  PROVE  LET e == senderTable[i]
             silence == senderSilence[e.mac]
         IN  /\ e.mac \in Beaconing /\ e.lastSeen \in 0 .. ClockSpan - 1
             /\ silence \in Nat /\ Elapsed(now, e.lastSeen) = silence
             /\ WithinLimit(silence, SENDER_TIMEOUT_MS, SenderAhead(i))
<1>1. TypeOK /\ SenderRecent(i)
  BY DEF RecentInv
<1>2. senderTable[i] \in SenderRecord
  BY <1>1, ActiveEntries
<1>3. senderTable[i].mac \in Beaconing /\ senderTable[i].lastSeen \in 0 .. ClockSpan - 1
  BY <1>2 DEF SenderRecord
<1>4. senderSilence \in [Beaconing -> 0 .. Forgotten]
  BY <1>1 DEF TypeOK
<1>5. senderSilence[senderTable[i].mac] \in Nat
  BY <1>3, <1>4
<1>. QED
  BY <1>1, <1>3, <1>5 DEF SenderRecent

\* A unit ends: every entry is a unit older.
LEMMA SilenceGrows ==
  ASSUME TypeOK, NEW b \in 0 .. ClockSpan - 1, NEW silence \in Nat,
         Elapsed(now, b) = silence, silence + 1 <= RECEIVER_REMOVAL_MS + 2
  PROVE  Older(silence) = silence + 1 /\ Elapsed(NextMillis, b) = silence + 1
<1>1. silence < Forgotten /\ silence < ClockSpan - 1
  BY Limits
<1>2. Older(silence) = silence + 1
  BY <1>1 DEF Older
<1>. QED
  BY <1>1, <1>2, NowRange, ElapsedGrows

LEMMA ReceiverTick ==
  ASSUME RecentInv, NEW i \in ReceiverSlot, Tick
  PROVE  ReceiverRecent(i)'
<1>. DEFINE e == receiverTable[i]
            silence == receiverSilence[e.mac]
<1>. SUFFICES ASSUME receiverTable'[i].active PROVE ReceiverRecent(i)'
  BY DEF ReceiverRecent
<1>1. /\ UNCHANGED <<receiverTable, esp>> /\ polled /\ ~polled' /\ now' = NextMillis
      /\ receiverSilence' = [m \in Reporting |-> Older(receiverSilence[m])]
  BY DEF Tick, NextMillis, tables
<1>2. /\ e.mac \in Reporting /\ e.lastSeen \in 0 .. ClockSpan - 1
      /\ silence \in Nat /\ Elapsed(now, e.lastSeen) = silence
      /\ WithinLimit(silence, RECEIVER_REMOVAL_MS, ReceiverAhead(i))
      /\ e.connected => WithinLimit(silence, RECEIVER_TIMEOUT_MS, ReceiverAhead(i))
  BY <1>1, ReceiverFacts
<1>3. TypeOK /\ RECEIVER_REMOVAL_MS \in Nat /\ RECEIVER_TIMEOUT_MS \in Nat
  BY Limits DEF RecentInv
<1>4. silence + 1 <= RECEIVER_REMOVAL_MS + 2
  BY <1>1, <1>2, <1>3 DEF WithinLimit
<1>5. receiverSilence'[e.mac] = silence + 1 /\ Elapsed(now', e.lastSeen) = silence + 1
  <2>1. Older(silence) = silence + 1 /\ Elapsed(NextMillis, e.lastSeen) = silence + 1
    BY <1>2, <1>3, <1>4, SilenceGrows
  <2>2. e.mac \in Reporting
    BY <1>2
  <2>3. receiverSilence'[e.mac] = Older(receiverSilence[e.mac])
    BY <1>1, <2>2
  <2>. QED
    BY <1>1, <2>1, <2>3
<1>6. silence + 1 = RECEIVER_REMOVAL_MS + 2 => ReceiverAhead(i)
  BY <1>1, <1>2, <1>3 DEF WithinLimit
<1>7. e.connected => /\ silence + 1 <= RECEIVER_TIMEOUT_MS + 2
                     /\ silence + 1 = RECEIVER_TIMEOUT_MS + 2 => ReceiverAhead(i)
  BY <1>1, <1>2, <1>3 DEF WithinLimit
<1>8. ReceiverAhead(i)' <=> ReceiverAhead(i)
  BY <1>1 DEF ReceiverAhead
<1>. QED
  BY <1>1, <1>4, <1>5, <1>6, <1>7, <1>8 DEF ReceiverRecent, WithinLimit

\* A pass that begins in a unit will reach every entry of a sender.
LEMMA ReceiverWake ==
  ASSUME RecentInv, NEW i \in ReceiverSlot, Wake
  PROVE  ReceiverRecent(i)'
<1>. SUFFICES ASSUME receiverTable'[i].active PROVE ReceiverRecent(i)'
  BY DEF ReceiverRecent
<1>1. UNCHANGED <<receiverTable, receiverSilence, now>> /\ esp = EspAsleep
  BY DEF Wake, tables, history
<1>2. senderModeEnabled /\ ReceiverRecent(i) /\ i \in Nat
  BY <1>1, ReceiverFacts, Slots DEF RecentInv
<1>3. ~ReceiverAhead(i)
  BY <1>1, AsleepPc DEF ReceiverAhead
<1>4. ReceiverAhead(i)'
  BY <1>2 DEF Wake, ReceiverAhead
<1>. QED
  BY <1>1, <1>2, <1>3, <1>4, Limits DEF ReceiverRecent, WithinLimit

LEMMA ReceiverCheck ==
  ASSUME RecentInv, NEW i \in ReceiverSlot, CheckReceiver
  PROVE  ReceiverRecent(i)'
<1>. SUFFICES ASSUME receiverTable'[i].active PROVE ReceiverRecent(i)'
  BY DEF ReceiverRecent
<1>. DEFINE e == receiverTable[i]
<1>0. TypeOK /\ ReceiverRecent(i) /\ PassIsRecent
  BY DEF RecentInv
<1>1. UNCHANGED <<now, polled, receiverSilence>> /\ esp.pc = "receiver" /\ esp # EspAsleep
  BY AsleepPc DEF CheckReceiver, clock, history
<1>2. /\ esp.slot \in ReceiverSlot /\ esp.now \in 0 .. ClockSpan - 1
      /\ esp' = PastReceiver \/ (esp'.pc = "free receiver" /\ esp'.slot = esp.slot)
  <2>1. esp \in OnReceivers
    BY <1>0, <1>1, EspTypes
  <2>. QED
    BY <2>1 DEF CheckReceiver, OnReceivers
<1>3. receiverTable \in ReceiverTable
  BY <1>0, TableTypes
<1>4. CASE i # esp.slot
  <2>1. receiverTable'[i] = receiverTable[i]
    BY <1>2, <1>3, <1>4 DEF CheckReceiver, ReceiverTable
  <2>2. ReceiverAhead(i) => ReceiverAhead(i)'
    <3>0. i \in Nat /\ esp.slot \in Nat
      BY <1>2, Slots
    <3>1. ReceiverAhead(i) => esp.slot < i
      BY <1>4, <3>0, AtOrBefore DEF ReceiverAhead
    <3>2. ReceiverAhead(i) /\ esp' = PastReceiver => esp'.pc = "receiver" /\ esp'.slot <= i
      BY <1>0, <1>1, <3>1, StillAheadOfReceiver
    <3>. QED
      BY <1>2, <3>2 DEF ReceiverAhead
  <2>. QED
    BY <1>0, <1>1, <2>1, <2>2, ReceiverFrame
<1>5. CASE i = esp.slot
  <2>1. e.active
    BY <1>5 DEF CheckReceiver
  <2>2. /\ e \in ReceiverRecord /\ e.lastSeen \in 0 .. ClockSpan - 1
        /\ Elapsed(now, e.lastSeen) = receiverSilence[e.mac]
        /\ WithinLimit(receiverSilence[e.mac], RECEIVER_REMOVAL_MS, ReceiverAhead(i))
    BY <2>1, ReceiverFacts
  <2>3. /\ receiverTable'[i] = [e EXCEPT !.connected = @ /\ ~Missing]
        /\ ReceiverAge = Elapsed(esp.now, e.lastSeen)
    BY <1>3, <1>5, <2>1 DEF CheckReceiver, ReceiverTable, ReceiverAge
  <2>4. /\ receiverTable'[i].mac = e.mac /\ receiverTable'[i].lastSeen = e.lastSeen
        /\ receiverTable'[i].connected => ~Missing
    BY <2>2, <2>3 DEF ReceiverRecord
  <2>5. ReceiverAge \in Nat /\ RECEIVER_TIMEOUT_MS \in Nat /\ RECEIVER_REMOVAL_MS \in Nat
    <3>1. Elapsed(esp.now, e.lastSeen) \in 0 .. ClockSpan - 1
      BY <1>2, <2>2, ElapsedRange
    <3>. QED
      BY <2>3, <3>1, Limits
  <2>6. receiverTable'[i].connected =>
          WithinLimit(receiverSilence[e.mac], RECEIVER_TIMEOUT_MS, FALSE)
    <3>1. receiverTable'[i].connected => ReceiverAge <= RECEIVER_TIMEOUT_MS
      BY <2>4, <2>5 DEF Missing
    <3>. QED
      BY <1>0, <1>1, <1>2, <2>2, <2>3, <2>5, <3>1, LeftBehind, NowRange
  <2>7. ReceiverAge <= RECEIVER_REMOVAL_MS =>
          WithinLimit(receiverSilence[e.mac], RECEIVER_REMOVAL_MS, FALSE)
    BY <1>0, <1>1, <1>2, <2>2, <2>3, <2>5, LeftBehind, NowRange
  <2>8. ReceiverAge > RECEIVER_REMOVAL_MS => ReceiverAhead(i)'
    <3>1. ReceiverAge > RECEIVER_REMOVAL_MS => esp'.pc = "free receiver" /\ esp'.slot = i
      BY <1>0, <1>1, <1>5, <2>1, EspTypes DEF CheckReceiver, OnReceivers
    <3>2. i <= i
      BY Slots, AtOrBefore
    <3>. QED
      BY <3>1, <3>2 DEF ReceiverAhead
  <2>9. WithinLimit(receiverSilence[e.mac], RECEIVER_REMOVAL_MS, ReceiverAhead(i)')
    <3>1. ReceiverAge <= RECEIVER_REMOVAL_MS \/ ReceiverAge > RECEIVER_REMOVAL_MS
      BY <2>5
    <3>. QED
      BY <2>2, <2>7, <2>8, <3>1 DEF WithinLimit
  <2>10. receiverTable'[i].connected =>
           WithinLimit(receiverSilence[e.mac], RECEIVER_TIMEOUT_MS, ReceiverAhead(i)')
    BY <2>6 DEF WithinLimit
  <2>. QED
    BY <1>1, <2>2, <2>4, <2>9, <2>10 DEF ReceiverRecent, WithinLimit
<1>. QED
  BY <1>4, <1>5

LEMMA ReceiverFree ==
  ASSUME RecentInv, NEW i \in ReceiverSlot, FreeReceiver
  PROVE  ReceiverRecent(i)'
<1>0. TypeOK /\ ReceiverRecent(i) /\ receiverTable \in ReceiverTable
  BY TableTypes DEF RecentInv
<1>1. /\ UNCHANGED <<now, polled, receiverSilence>> /\ esp.pc = "free receiver"
      /\ esp' = PastReceiver
  BY DEF FreeReceiver, clock, history
<1>2. esp.slot \in ReceiverSlot
  BY <1>0, <1>1, EspTypes DEF OnReceivers
<1>3. CASE i = esp.slot
  <2>1. ~receiverTable'[i].active
    BY <1>0, <1>2, <1>3 DEF FreeReceiver, ReceiverTable, Free
  <2>. QED
    BY <2>1 DEF ReceiverRecent
<1>4. CASE i # esp.slot
  <2>1. receiverTable'[i] = receiverTable[i]
    BY <1>0, <1>4 DEF FreeReceiver, ReceiverTable
  <2>2. ReceiverAhead(i) => ReceiverAhead(i)'
    <3>0. i \in Nat /\ esp.slot \in Nat
      BY <1>2, Slots
    <3>1. ReceiverAhead(i) => esp.slot < i
      BY <1>4, <3>0, AtOrBefore DEF ReceiverAhead
    <3>2. ReceiverAhead(i) => esp'.pc = "receiver" /\ esp'.slot <= i
      BY <1>0, <1>1, <3>1, StillAheadOfReceiver
    <3>. QED
      BY <3>2 DEF ReceiverAhead
  <2>. QED
    BY <1>0, <1>1, <2>1, <2>2, ReceiverFrame
<1>. QED
  BY <1>3, <1>4

LEMMA ReceiverStep == RecentInv /\ [Next]_vars => \A i \in ReceiverSlot : ReceiverRecent(i)'
<1>. SUFFICES ASSUME RecentInv, [Next]_vars, NEW i \in ReceiverSlot
              PROVE  ReceiverRecent(i)'
  OBVIOUS
<1>0. ReceiverRecent(i)
  BY DEF RecentInv
<1>1. CASE /\ UNCHANGED <<receiverTable, receiverSilence, now, polled>>
           /\ esp' = esp \/ ~ReceiverAhead(i)
  BY <1>0, <1>1, ReceiverFrame DEF ReceiverAhead
<1>2. ASSUME NEW m \in Reporting, handleReceiverInfo(m) PROVE ReceiverRecent(i)'
  BY <1>2, ReceiverReport
<1>3. CASE \E m \in Beaconing : handleSenderBeacon(m)
  BY <1>1, <1>3 DEF handleSenderBeacon, clock
<1>4. ASSUME NEW r \in Roles, applyRole(r) PROVE ReceiverRecent(i)'
  <2>1. CASE UNCHANGED receiverTable
    BY <1>1, <1>4, <2>1 DEF applyRole, clock, history
  <2>2. CASE receiverTable' = [j \in ReceiverSlot |-> Free]
    BY <2>2 DEF ReceiverRecent, Free
  <2>. QED
    BY <1>4, <2>1, <2>2 DEF applyRole
<1>5. CASE AddPeer \/ EnterSenderMode
  BY <1>1, <1>5 DEF AddPeer, EnterSenderMode, tables, clock, history
<1>6. CASE UNCHANGED vars
  BY <1>1, <1>6 DEF vars, tables, clock, history
<1>7. CASE sendReceiverInfo \/ ReportNotDue \/ CheckSender \/ FreeSender
  <2>1. esp.pc \in {"report", "sender", "free sender"}
    BY <1>7 DEF sendReceiverInfo, ReportNotDue, CheckSender, FreeSender
  <2>2. ~ReceiverAhead(i)
    BY <2>1 DEF ReceiverAhead
  <2>3. UNCHANGED <<receiverTable, receiverSilence, now, polled>>
    BY <1>7 DEF sendReceiverInfo, ReportNotDue, CheckSender, FreeSender, tables, clock, history
  <2>. QED
    BY <1>1, <2>2, <2>3
<1>. QED
  BY <1>2, <1>3, <1>4, <1>5, <1>6, <1>7, ReceiverTick, ReceiverWake, ReceiverCheck, ReceiverFree
  DEF Next, Esp

\* The same of senderTable, which every pass comes to last.
LEMMA SenderTick ==
  ASSUME RecentInv, NEW i \in SenderSlot, Tick
  PROVE  SenderRecent(i)'
<1>. DEFINE e == senderTable[i]
            silence == senderSilence[e.mac]
<1>. SUFFICES ASSUME senderTable'[i].active PROVE SenderRecent(i)'
  BY DEF SenderRecent
<1>1. /\ UNCHANGED <<senderTable, esp>> /\ polled /\ ~polled' /\ now' = NextMillis
      /\ senderSilence' = [m \in Beaconing |-> Older(senderSilence[m])]
  BY DEF Tick, NextMillis, tables
<1>2. /\ e.mac \in Beaconing /\ e.lastSeen \in 0 .. ClockSpan - 1
      /\ silence \in Nat /\ Elapsed(now, e.lastSeen) = silence
      /\ WithinLimit(silence, SENDER_TIMEOUT_MS, SenderAhead(i))
  BY <1>1, SenderFacts
<1>3. TypeOK /\ RECEIVER_REMOVAL_MS \in Nat /\ SENDER_TIMEOUT_MS \in Nat
      /\ SENDER_TIMEOUT_MS <= RECEIVER_REMOVAL_MS
  BY PeerTablesAssumption DEF RecentInv
<1>4. silence + 1 <= SENDER_TIMEOUT_MS + 2
  BY <1>1, <1>2, <1>3 DEF WithinLimit
<1>5. senderSilence'[e.mac] = silence + 1 /\ Elapsed(now', e.lastSeen) = silence + 1
  <2>0. silence + 1 <= RECEIVER_REMOVAL_MS + 2
    BY <1>2, <1>3, <1>4
  <2>1. Older(silence) = silence + 1 /\ Elapsed(NextMillis, e.lastSeen) = silence + 1
    BY <1>2, <1>3, <2>0, SilenceGrows
  <2>2. e.mac \in Beaconing
    BY <1>2
  <2>3. senderSilence'[e.mac] = Older(senderSilence[e.mac])
    BY <1>1, <2>2
  <2>. QED
    BY <1>1, <2>1, <2>3
<1>6. silence + 1 = SENDER_TIMEOUT_MS + 2 => SenderAhead(i)
  BY <1>1, <1>2, <1>3 DEF WithinLimit
<1>7. SenderAhead(i)' <=> SenderAhead(i)
  BY <1>1 DEF SenderAhead
<1>. QED
  BY <1>1, <1>4, <1>5, <1>6, <1>7 DEF SenderRecent, WithinLimit

LEMMA SenderCheck ==
  ASSUME RecentInv, NEW i \in SenderSlot, CheckSender
  PROVE  SenderRecent(i)'
<1>. SUFFICES ASSUME senderTable'[i].active PROVE SenderRecent(i)'
  BY DEF SenderRecent
<1>. DEFINE e == senderTable[i]
            age == Elapsed(esp.now, e.lastSeen)
<1>0. TypeOK /\ SenderRecent(i) /\ PassIsRecent
  BY DEF RecentInv
<1>1. /\ UNCHANGED <<senderTable, now, polled, senderSilence>>
      /\ esp.pc = "sender" /\ esp # EspAsleep
  BY AsleepPc DEF CheckSender, tables, clock, history
<1>2. /\ esp.slot \in SenderSlot /\ esp.now \in 0 .. ClockSpan - 1
      /\ esp' = PastSender \/ (esp'.pc = "free sender" /\ esp'.slot = esp.slot)
  <2>1. esp \in OnSenders
    BY <1>0, <1>1, EspTypes
  <2>. QED
    BY <2>1 DEF CheckSender, OnSenders
<1>4. CASE i # esp.slot
  <2>2. SenderAhead(i) => SenderAhead(i)'
    <3>0. i \in Nat /\ esp.slot \in Nat
      BY <1>2, Slots
    <3>1. SenderAhead(i) => esp.slot < i
      BY <1>1, <1>4, <3>0, AtOrBefore DEF SenderAhead
    <3>2. SenderAhead(i) /\ esp' = PastSender => esp'.pc = "sender" /\ esp'.slot <= i
      BY <1>0, <1>1, <3>1, StillAheadOfSender
    <3>3. SenderAhead(i) /\ esp'.slot = esp.slot => esp'.slot <= i
      BY <1>1 DEF SenderAhead
    <3>. QED
      BY <1>2, <3>2, <3>3 DEF SenderAhead
  <2>. QED
    BY <1>0, <1>1, <2>2, SenderFrame
<1>5. CASE i = esp.slot
  <2>2. /\ e.lastSeen \in 0 .. ClockSpan - 1
        /\ Elapsed(now, e.lastSeen) = senderSilence[e.mac]
        /\ WithinLimit(senderSilence[e.mac], SENDER_TIMEOUT_MS, SenderAhead(i))
    BY <1>1, SenderFacts
  <2>3. age \in Nat /\ SENDER_TIMEOUT_MS \in Nat
    <3>1. age \in 0 .. ClockSpan - 1
      BY <1>2, <2>2, ElapsedRange
    <3>. QED
      BY <3>1, Limits
  <2>4. age <= SENDER_TIMEOUT_MS => WithinLimit(senderSilence[e.mac], SENDER_TIMEOUT_MS, FALSE)
    BY <1>0, <1>1, <1>2, <2>2, <2>3, LeftBehind, NowRange
  <2>5. age > SENDER_TIMEOUT_MS => SenderAhead(i)'
    <3>1. age > SENDER_TIMEOUT_MS => esp'.pc = "free sender" /\ esp'.slot = i
      BY <1>0, <1>1, <1>5, EspTypes DEF CheckSender, SenderGone, OnSenders
    <3>2. i <= i
      BY Slots, AtOrBefore
    <3>. QED
      BY <3>1, <3>2 DEF SenderAhead
  <2>6. age <= SENDER_TIMEOUT_MS \/ age > SENDER_TIMEOUT_MS
    BY <2>3
  <2>7. WithinLimit(senderSilence[e.mac], SENDER_TIMEOUT_MS, SenderAhead(i)')
    BY <2>2, <2>4, <2>5, <2>6 DEF WithinLimit
  <2>. QED
    BY <1>1, <2>2, <2>7 DEF SenderRecent, WithinLimit
<1>. QED
  BY <1>4, <1>5

LEMMA SenderFree ==
  ASSUME RecentInv, NEW i \in SenderSlot, FreeSender
  PROVE  SenderRecent(i)'
<1>0. TypeOK /\ SenderRecent(i) /\ senderTable \in SenderTable
  BY TableTypes DEF RecentInv
<1>1. /\ UNCHANGED <<now, polled, senderSilence>> /\ esp.pc = "free sender"
      /\ esp' = PastSender
  BY DEF FreeSender, clock, history
<1>2. esp.slot \in SenderSlot
  BY <1>0, <1>1, EspTypes DEF OnSenders
<1>3. CASE i = esp.slot
  <2>1. ~senderTable'[i].active
    BY <1>0, <1>2, <1>3 DEF FreeSender, SenderTable, Free
  <2>. QED
    BY <2>1 DEF SenderRecent
<1>4. CASE i # esp.slot
  <2>1. senderTable'[i] = senderTable[i]
    BY <1>0, <1>4 DEF FreeSender, SenderTable
  <2>2. SenderAhead(i) => SenderAhead(i)'
    <3>0. i \in Nat /\ esp.slot \in Nat
      BY <1>2, Slots
    <3>1. SenderAhead(i) => esp.slot < i
      BY <1>1, <1>4, <3>0, AtOrBefore DEF SenderAhead
    <3>2. SenderAhead(i) => esp'.pc = "sender" /\ esp'.slot <= i
      BY <1>0, <1>1, <3>1, StillAheadOfSender
    <3>. QED
      BY <3>2 DEF SenderAhead
  <2>. QED
    BY <1>0, <1>1, <2>1, <2>2, SenderFrame
<1>. QED
  BY <1>3, <1>4

LEMMA SenderWake ==
  ASSUME RecentInv, NEW i \in SenderSlot, Wake
  PROVE  SenderRecent(i)'
<1>1. UNCHANGED <<senderTable, senderSilence, now>> /\ esp = EspAsleep
  BY DEF Wake, tables, history
<1>2. SenderRecent(i)
  BY DEF RecentInv
<1>3. ~SenderAhead(i)
  BY <1>1, AsleepPc DEF SenderAhead
<1>4. SenderAhead(i)'
  BY DEF Wake, SenderAhead
<1>. QED
  BY <1>1, <1>2, <1>3, <1>4, Limits DEF SenderRecent, WithinLimit

LEMMA SenderStep == RecentInv /\ [Next]_vars => \A i \in SenderSlot : SenderRecent(i)'
<1>. SUFFICES ASSUME RecentInv, [Next]_vars, NEW i \in SenderSlot
              PROVE  SenderRecent(i)'
  OBVIOUS
<1>0. SenderRecent(i) /\ TypeOK
  BY DEF RecentInv
<1>1. CASE UNCHANGED <<senderTable, senderSilence, now, polled>> /\ (esp' = esp \/ SenderAhead(i)')
  BY <1>0, <1>1, SenderFrame DEF SenderAhead
<1>2. ASSUME NEW m \in Beaconing, handleSenderBeacon(m) PROVE SenderRecent(i)'
  BY <1>2, SenderBeacon
<1>3. CASE \E m \in Reporting : handleReceiverInfo(m)
  BY <1>1, <1>3 DEF handleReceiverInfo, clock
<1>4. CASE AddPeer \/ (\E r \in Roles : applyRole(r)) \/ EnterSenderMode
  BY <1>1, <1>4 DEF AddPeer, applyRole, EnterSenderMode, tables, clock, history
<1>5. CASE UNCHANGED vars
  BY <1>1, <1>5 DEF vars, tables, clock, history
<1>6. CASE sendReceiverInfo \/ ReportNotDue
  <2>1. esp'.pc = "sender" /\ esp'.slot = 0
    BY <1>6 DEF sendReceiverInfo, ReportNotDue, ToSenders
  <2>2. 0 <= i
    BY Slots
  <2>3. UNCHANGED <<senderTable, senderSilence, now, polled>>
    BY <1>6 DEF sendReceiverInfo, ReportNotDue, tables, clock, history
  <2>. QED
    BY <1>1, <2>1, <2>2, <2>3 DEF SenderAhead
<1>7. CASE CheckReceiver \/ FreeReceiver
  <2>1. esp.pc \in {"receiver", "free receiver"}
    BY <1>7 DEF CheckReceiver, FreeReceiver
  <2>2. esp \in OnReceivers
    BY <1>0, <2>1, EspTypes
  <2>3. esp' = PastReceiver \/ esp' = [esp EXCEPT !.pc = "free receiver"]
    BY <1>7 DEF CheckReceiver, FreeReceiver
  <2>4. SenderAhead(i)'
    BY <2>2, <2>3, PastNow DEF OnReceivers, SenderAhead
  <2>5. UNCHANGED <<senderTable, senderSilence, now, polled>>
    BY <1>7 DEF CheckReceiver, FreeReceiver, clock, history
  <2>. QED
    BY <1>1, <2>4, <2>5
<1>. QED
  BY <1>2, <1>3, <1>4, <1>5, <1>6, <1>7, SenderTick, SenderWake, SenderCheck, SenderFree
  DEF Next, Esp

LEMMA RecentStep == RecentInv /\ [Next]_vars => RecentInv'
BY NextType, OnceStep, PassStep, SendingStep, ReceiverStep, SenderStep DEF RecentInv

LEMMA InitRecent == Init => RecentInv
<1>. SUFFICES ASSUME Init PROVE RecentInv
  OBVIOUS
<1>1. /\ \A i \in SenderSlot : ~senderTable[i].active
      /\ \A i \in ReceiverSlot : ~receiverTable[i].active
      /\ esp = EspAsleep
  BY DEF Init, Free
<1>. QED
  BY <1>1, InitType, InitOnce
  DEF RecentInv, PassIsRecent, SendersHaveReceivers, ReceiverRecent, SenderRecent

\* A slave shown connected, a slave shown at all and a master reported to were heard
\* within their time-outs and two units of the clock: the sleep of ESPNOW_Task and a
\* pass that was under way, however its two cores overlap and millis() wraps.
THEOREM ListsKeepToTimeouts == Spec => []ListsAreRecent
<1>1. RecentInv => ListsAreRecent
  BY DEF RecentInv, ReceiverRecent, SenderRecent, WithinLimit, ListsAreRecent
<1>. QED
  BY <1>1, InitRecent, RecentStep, PTL DEF Spec

=============================================================================
