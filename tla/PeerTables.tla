----------------------------- MODULE PeerTables ------------------------------
(***************************************************************************)
(* Who a node knows: senderTable, receiverTable and the radio's peer list  *)
(* that both feed (src/src/sender_mode.cpp, src/src/receiver_mode.cpp,     *)
(* applyRole in src/src/nowde_state.cpp, the commands of src/src/sysex.cpp *)
(* that change the role).                                                  *)
(*                                                                         *)
(* The WiFi task registers the masters whose beacon it hears and, in       *)
(* sender mode, the slaves that report to it; each new entry makes its MAC *)
(* a peer, without which the radio sends it nothing.  ESPNOW_Task, on the  *)
(* other core, reports to every master known and, slot by slot, drops the  *)
(* entries gone silent together with their peer.                           *)
(*                                                                         *)
(* The other nodes are the environment.  Host commands are served between  *)
(* two callbacks.  The radio has room for a peer per entry.                *)
(***************************************************************************)
EXTENDS Integers

CONSTANTS
  Beaconing,             \* the MACs heard as senders
  Reporting,             \* the MACs heard as receivers
  MAX_SENDERS,
  MAX_RECEIVERS,
  ClockSpan,             \* millis() counts modulo this (2^32)
  SENDER_TIMEOUT_MS,
  RECEIVER_TIMEOUT_MS,
  RECEIVER_REMOVAL_MS,   \* the 10000 of cleanupReceiverTable
  Roles                  \* the roles a node may have

ASSUME PeerTablesAssumption ==
  /\ MAX_SENDERS \in Nat \ {0} /\ MAX_RECEIVERS \in Nat \ {0}
  /\ SENDER_TIMEOUT_MS \in Nat /\ RECEIVER_TIMEOUT_MS \in Nat
  /\ RECEIVER_REMOVAL_MS \in Nat /\ ClockSpan \in Nat
  /\ RECEIVER_TIMEOUT_MS < RECEIVER_REMOVAL_MS
  /\ SENDER_TIMEOUT_MS <= RECEIVER_REMOVAL_MS
  /\ RECEIVER_REMOVAL_MS + 2 < ClockSpan
  /\ Roles # {} /\ Roles \subseteq {"slave", "master", "legacy"}

VARIABLES
  senderTable, receiverTable,
  peers,               \* the MACs esp_now_send can reach, the broadcast one aside
  nodeRole, senderModeEnabled,
  wifi, esp,           \* the tasks
  now, polled,         \* millis(); has ESPNOW_Task woken since it last moved
  told,                \* history: the masters the last sendReceiverInfo reached
  senderSilence,       \* history: units since the last beacon of each master
  receiverSilence      \* history: units since the last report taken from each slave

tables == <<senderTable, receiverTable>>
role == <<nodeRole, senderModeEnabled>>
clock == <<now, polled>>
history == <<told, senderSilence, receiverSilence>>
vars == <<tables, peers, role, wifi, esp, clock, history>>

SenderSlot == 0 .. MAX_SENDERS - 1
ReceiverSlot == 0 .. MAX_RECEIVERS - 1

\* An entry whose `active` is false; what it still holds is never read.
Free == [active |-> FALSE]

SenderEntry(m, seen) == [active |-> TRUE, mac |-> m, lastSeen |-> seen]
ReceiverEntry(m, seen, conn) ==
  [active |-> TRUE, mac |-> m, lastSeen |-> seen, connected |-> conn]

WifiIdle == [pc |-> "idle"]
EspAsleep == [pc |-> "asleep"]

FirstOf(S) == CHOOSE i \in S : \A j \in S : i <= j

\* unsigned long arithmetic: a - b, wrapping below zero as well
Elapsed(a, b) == (a + ClockSpan - b) % ClockSpan

\* The active entries of m, and the free ones, in a table with these slots.
EntriesOf(m, table, Slot) == {i \in Slot : table[i].active /\ table[i].mac = m}
FreeIn(table, Slot) == {i \in Slot : ~table[i].active}

Forgotten == RECEIVER_REMOVAL_MS + 3
Older(n) == IF n < Forgotten THEN n + 1 ELSE n

Init ==
  /\ senderTable = [i \in SenderSlot |-> Free]
  /\ receiverTable = [i \in ReceiverSlot |-> Free]
  /\ peers = {}
  /\ nodeRole \in Roles /\ senderModeEnabled = (nodeRole = "master")
  /\ wifi = WifiIdle /\ esp = EspAsleep
  /\ now = 0 /\ polled = FALSE
  /\ told = {}
  /\ senderSilence = [m \in Beaconing |-> Forgotten]
  /\ receiverSilence = [m \in Reporting |-> Forgotten]

\* One unit of time: ESPNOW_Task gets a pass in it, and a pass sees at most one end.
Tick ==
  /\ polled /\ wifi = WifiIdle
  /\ esp # EspAsleep => esp.now = now
  /\ now' = (now + 1) % ClockSpan
  /\ polled' = FALSE
  /\ senderSilence' = [m \in Beaconing |-> Older(senderSilence[m])]
  /\ receiverSilence' = [m \in Reporting |-> Older(receiverSilence[m])]
  /\ UNCHANGED <<tables, peers, role, wifi, esp, told>>

-----------------------------------------------------------------------------
(* The WiFi task. *)

Registering(m) == [pc |-> "add", mac |-> m]

\* A beacon of m: its entry is refreshed, or made in the first free slot, or there is
\* no room for it.
handleSenderBeacon(m) ==
  /\ wifi = WifiIdle
  /\ LET known == EntriesOf(m, senderTable, SenderSlot)
         free == FreeIn(senderTable, SenderSlot)
         slot == FirstOf(IF known # {} THEN known ELSE free)
     IN  /\ senderTable' = IF known \union free = {} THEN senderTable
                           ELSE [senderTable EXCEPT ![slot] = SenderEntry(m, now)]
         /\ wifi' = IF known = {} /\ free # {} THEN Registering(m) ELSE WifiIdle
  /\ senderSilence' = [senderSilence EXCEPT ![m] = 0]
  /\ UNCHANGED <<receiverTable, peers, role, esp, clock, told, receiverSilence>>

\* Seeded fault: an entry marked missing stays so when its slave is back.
StillMissing(m, slots) ==
  ReceiverEntry(m, now, \A i \in slots : receiverTable[i].connected)

\* The entry of m after a report, whose old one is in `slots` if it has one.
Reported(m, slots) == ReceiverEntry(m, now, TRUE)

\* Seeded fault: the search ends at the first free slot.
FirstKnownOrFree(known, free) == IF free # {} THEN FirstOf(free) ELSE FirstOf(known)

ReceiverSlotFor(known, free) == IF known # {} THEN FirstOf(known) ELSE FirstOf(free)

\* A report of m, which only a sender takes.
handleReceiverInfo(m) ==
  /\ wifi = WifiIdle /\ senderModeEnabled
  /\ LET known == EntriesOf(m, receiverTable, ReceiverSlot)
         free == FreeIn(receiverTable, ReceiverSlot)
         slot == ReceiverSlotFor(known, free)
     IN  /\ receiverTable' = IF known \union free = {} THEN receiverTable
                             ELSE [receiverTable EXCEPT ![slot] = Reported(m, known)]
         /\ wifi' = IF known = {} /\ free # {} THEN Registering(m) ELSE WifiIdle
  /\ receiverSilence' = [receiverSilence EXCEPT ![m] = 0]
  /\ UNCHANGED <<senderTable, peers, role, esp, clock, told, senderSilence>>

\* esp_now_add_peer for the new entry; a MAC that is a peer already stays one.
AddPeer ==
  /\ wifi.pc = "add"
  /\ peers' = peers \union {wifi.mac}
  /\ wifi' = WifiIdle
  /\ UNCHANGED <<tables, role, esp, clock, history>>

-----------------------------------------------------------------------------
(* ESPNOW_Task: one pass of the loop. *)

\* In sender mode the receivers come first, each against one reading of millis().
Wake ==
  /\ esp = EspAsleep
  /\ esp' = IF senderModeEnabled
            THEN [pc |-> "receiver", now |-> now, slot |-> 0]
            ELSE [pc |-> "report", now |-> now]
  /\ polled' = TRUE
  /\ UNCHANGED <<tables, peers, role, wifi, now, history>>

\* Where the loop over receiverTable goes from its slot.
PastReceiver ==
  IF esp.slot = MAX_RECEIVERS - 1 THEN [pc |-> "report", now |-> esp.now]
  ELSE [pc |-> "receiver", now |-> esp.now, slot |-> esp.slot + 1]

ReceiverAge == Elapsed(esp.now, receiverTable[esp.slot].lastSeen)

\* Seeded fault: a slave is missed for the time it takes to remove it.
MissingWhenRemoved == ReceiverAge > RECEIVER_REMOVAL_MS

Missing == ReceiverAge > RECEIVER_TIMEOUT_MS

\* The slave is alive, or missing, or gone: its peer is deleted and the slot is next.
CheckReceiver ==
  /\ esp.pc = "receiver"
  /\ IF ~receiverTable[esp.slot].active
     THEN UNCHANGED <<receiverTable, peers>> /\ esp' = PastReceiver
     ELSE /\ receiverTable' = [receiverTable EXCEPT ![esp.slot].connected = @ /\ ~Missing]
          /\ IF ReceiverAge > RECEIVER_REMOVAL_MS
             THEN /\ peers' = peers \ {receiverTable[esp.slot].mac}
                  /\ esp' = [esp EXCEPT !.pc = "free receiver"]
             ELSE UNCHANGED peers /\ esp' = PastReceiver
  /\ UNCHANGED <<senderTable, role, wifi, clock, history>>

\* Seeded fault: the entry of a slave gone stays in use.
LeaveReceiver ==
  /\ esp.pc = "free receiver"
  /\ esp' = PastReceiver
  /\ UNCHANGED <<tables, peers, role, wifi, clock, history>>

FreeReceiver ==
  /\ esp.pc = "free receiver"
  /\ receiverTable' = [receiverTable EXCEPT ![esp.slot] = Free]
  /\ esp' = PastReceiver
  /\ UNCHANGED <<senderTable, peers, role, wifi, clock, history>>

\* Past the report, to cleanupSenderTable and its own reading of millis().
ToSenders == esp' = [pc |-> "sender", now |-> now, slot |-> 0]

\* The report is due; esp_now_send fails for a MAC that is no peer.
sendReceiverInfo ==
  /\ esp.pc = "report" /\ ToSenders
  /\ told' = {senderTable[i].mac : i \in {j \in SenderSlot : senderTable[j].active}} \intersect peers
  /\ UNCHANGED <<tables, peers, role, wifi, clock, senderSilence, receiverSilence>>

\* Most passes come before nextReceiverBeacon.
ReportNotDue ==
  /\ esp.pc = "report" /\ ToSenders
  /\ UNCHANGED <<tables, peers, role, wifi, clock, history>>

\* Seeded fault: the loop goes one slot too far.
PastSenderLate ==
  IF esp.slot = MAX_SENDERS THEN EspAsleep
  ELSE [pc |-> "sender", now |-> esp.now, slot |-> esp.slot + 1]

PastSender ==
  IF esp.slot = MAX_SENDERS - 1 THEN EspAsleep
  ELSE [pc |-> "sender", now |-> esp.now, slot |-> esp.slot + 1]

SenderGone ==
  /\ senderTable[esp.slot].active
  /\ Elapsed(esp.now, senderTable[esp.slot].lastSeen) > SENDER_TIMEOUT_MS

CheckSender ==
  /\ esp.pc = "sender"
  /\ IF SenderGone
     THEN peers' = peers \ {senderTable[esp.slot].mac} /\ esp' = [esp EXCEPT !.pc = "free sender"]
     ELSE UNCHANGED peers /\ esp' = PastSender
  /\ UNCHANGED <<tables, role, wifi, clock, history>>

\* Seeded fault: the entry of a master gone stays in use.
LeaveSender ==
  /\ esp.pc = "free sender"
  /\ esp' = PastSender
  /\ UNCHANGED <<tables, peers, role, wifi, clock, history>>

FreeSender ==
  /\ esp.pc = "free sender"
  /\ senderTable' = [senderTable EXCEPT ![esp.slot] = Free]
  /\ esp' = PastSender
  /\ UNCHANGED <<receiverTable, peers, role, wifi, clock, history>>

-----------------------------------------------------------------------------
(* MIDI_Task. *)

\* SET_ROLE: a slave drops its receivers and their peers.
applyRole(r) ==
  /\ wifi = WifiIdle /\ r # nodeRole
  /\ nodeRole' = r
  /\ senderModeEnabled' = CASE r = "master" -> TRUE
                            [] r = "slave" -> FALSE
                            [] OTHER -> senderModeEnabled
  /\ IF r = "slave" /\ senderModeEnabled
     THEN /\ peers' = peers \ {receiverTable[i].mac : i \in {j \in ReceiverSlot : receiverTable[j].active}}
          /\ receiverTable' = [i \in ReceiverSlot |-> Free]
     ELSE UNCHANGED <<peers, receiverTable>>
  /\ UNCHANGED <<senderTable, wifi, esp, clock, history>>

\* QUERY_CONFIG and PUSH_FULL_CONFIG make a sender of any node but a slave.
EnterSenderMode ==
  /\ wifi = WifiIdle
  /\ ~senderModeEnabled /\ nodeRole # "slave"
  /\ senderModeEnabled' = TRUE
  /\ UNCHANGED <<tables, peers, nodeRole, wifi, esp, clock, history>>

Esp ==
  \/ Wake \/ CheckReceiver \/ FreeReceiver \/ sendReceiverInfo
  \/ ReportNotDue \/ CheckSender \/ FreeSender

Next ==
  \/ \E m \in Beaconing : handleSenderBeacon(m)
  \/ \E m \in Reporting : handleReceiverInfo(m)
  \/ AddPeer
  \/ Esp
  \/ \E r \in Roles : applyRole(r)
  \/ EnterSenderMode
  \/ Tick

Spec == Init /\ [][Next]_vars

\* A callback that has begun is finished and ESPNOW_Task keeps looping; time passes
\* however busy the WiFi task is, and so the report comes due.  Hearing a node or
\* getting a command is never owed.
Fairness ==
  /\ WF_vars(AddPeer) /\ WF_vars(Esp)
  /\ SF_vars(Tick) /\ SF_vars(sendReceiverInfo)

FairSpec == Spec /\ Fairness

-----------------------------------------------------------------------------
(* Properties *)

\* Every variable keeps the range its declaration gives it.
TypeOK ==
  /\ senderTable \in [SenderSlot -> {Free} \union
       [active : {TRUE}, mac : Beaconing, lastSeen : 0 .. ClockSpan - 1]]
  /\ receiverTable \in [ReceiverSlot -> {Free} \union
       [active : {TRUE}, mac : Reporting, lastSeen : 0 .. ClockSpan - 1, connected : BOOLEAN]]
  /\ peers \subseteq Beaconing \union Reporting
  /\ nodeRole \in Roles /\ senderModeEnabled \in BOOLEAN
  /\ wifi = WifiIdle \/ wifi \in [pc : {"add"}, mac : Beaconing \union Reporting]
  /\ \/ esp = EspAsleep
     \/ esp \in [pc : {"report"}, now : 0 .. ClockSpan - 1]
     \/ esp \in [pc : {"receiver", "free receiver"}, now : 0 .. ClockSpan - 1, slot : ReceiverSlot]
     \/ esp \in [pc : {"sender", "free sender"}, now : 0 .. ClockSpan - 1, slot : SenderSlot]
  /\ now \in 0 .. ClockSpan - 1 /\ polled \in BOOLEAN
  /\ told \subseteq Beaconing
  /\ senderSilence \in [Beaconing -> 0 .. Forgotten]
  /\ receiverSilence \in [Reporting -> 0 .. Forgotten]

\* The slot ESPNOW_Task is about to free.
Going(pc, i) == esp.pc = pc /\ esp.slot = i

\* An entry in use has its peer, so that the node can send to everyone it lists,
\* whatever timeouts and registrations overlap; for MACs heard in one capacity only.
EntriesHavePeers ==
  /\ \A i \in SenderSlot :
       LET e == senderTable[i]
       IN  e.active /\ e.mac \notin Reporting =>
             e.mac \in peers \/ wifi = Registering(e.mac) \/ Going("free sender", i)
  /\ \A i \in ReceiverSlot :
       LET e == receiverTable[i]
       IN  e.active /\ e.mac \notin Beaconing =>
             e.mac \in peers \/ wifi = Registering(e.mac) \/ Going("free receiver", i)

\* No node is listed twice, though a slot may be freed on one core while the other
\* looks for the node's entry.
ListedOnce ==
  /\ \A i, j \in SenderSlot :
       senderTable[i].active /\ senderTable[j].active /\ senderTable[i].mac = senderTable[j].mac
       => i = j
  /\ \A i, j \in ReceiverSlot :
       receiverTable[i].active /\ receiverTable[j].active /\ receiverTable[i].mac = receiverTable[j].mac
       => i = j

\* The tables keep to their timeouts, to a pass: a slave shown connected, a slave shown
\* at all and a master reported to were heard that recently, through wraps of millis(),
\* changes of role and whatever overlaps.
ListsAreRecent ==
  /\ \A i \in ReceiverSlot :
       LET e == receiverTable[i]
       IN  e.active =>
             /\ e.connected => receiverSilence[e.mac] <= RECEIVER_TIMEOUT_MS + 2
             /\ receiverSilence[e.mac] <= RECEIVER_REMOVAL_MS + 2
  /\ \A i \in SenderSlot :
       senderTable[i].active => senderSilence[senderTable[i].mac] <= SENDER_TIMEOUT_MS + 2

\* A slave that keeps reporting to a sender with a slot for everyone is shown
\* connected again and again, though a late subtraction may drop it for a moment.
HeardIsShown ==
  \A m \in Reporting :
    <>[](senderModeEnabled /\ receiverSilence[m] <= RECEIVER_REMOVAL_MS) =>
      []<>(\E i \in ReceiverSlot : receiverTable[i].active /\ receiverTable[i].mac = m
                                    /\ receiverTable[i].connected)

\* ESPNOW_Task is looking at an entry refreshed after it read millis().
Overtaken ==
  esp.pc = "sender" /\ \E i \in SenderSlot :
    senderTable[i].active /\ Elapsed(esp.now, senderTable[i].lastSeen) = ClockSpan - 1

\* "slave -> each known master, unicast": the node goes on reporting to every master it
\* keeps hearing, unless its clean-up is overtaken by a beacon each time.
Told(m) ==
  <>[](senderSilence[m] <= SENDER_TIMEOUT_MS) /\ <>[]~Overtaken => []<>(m \in told)

MastersAreTold == \A m \in Beaconing : Told(m)

=============================================================================
