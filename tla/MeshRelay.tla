------------------------------ MODULE MeshRelay ------------------------------
(***************************************************************************)
(* Controlled flooding of MEDIA_SYNC frames (src/src/mesh_relay.cpp, the   *)
(* two flooding cases of src/src/esp_now_handlers.cpp and the mint of      *)
(* src/src/sysex.cpp).                                                     *)
(*                                                                         *)
(* A master mints numbered frames and broadcasts each one.  Every node     *)
(* that hears a frame, direct or relayed, may broadcast it again, one hop  *)
(* further, after a random delay; a copy heard from another relayer while  *)
(* the forward is pending cancels it.                                      *)
(*                                                                         *)
(* The radio is external: one transmission reaches any subset of the       *)
(* neighbours (all of them when Lossy is FALSE), in the order of           *)
(* transmission, through a receive queue that the WiFi task of the node    *)
(* drains one callback at a time.  The random delay of a forward is a free *)
(* choice of when its slot falls due.                                      *)
(***************************************************************************)
EXTENDS Naturals, Sequences, FiniteSets

CONSTANTS
  Node,             \* every radio in the room
  Master,           \* the nodes in sender mode: those a host drives
  Link,             \* <<a, b>> : b can hear a
  Lossy,            \* may a transmission miss some of the neighbours?
  MAX_HOPS,         \* hop budget of a relayed copy
  RelayOriginSlot,  \* indices of relayOrigins
  PendingSlot,      \* indices of pendingRelays
  RxDepth,          \* frames the WiFi task can hold for a node
  MaxSeq,           \* bound: frames a master mints between two of its boots
  MaxBoots          \* bound: restarts of one node

ASSUME RelayAssumption ==
  /\ Master \subseteq Node
  /\ Link \subseteq Node \X Node
  /\ Lossy \in BOOLEAN
  /\ MAX_HOPS \in Nat
  /\ RelayOriginSlot \subseteq Nat /\ 0 \in RelayOriginSlot
  /\ PendingSlot \subseteq Nat
  /\ RxDepth \in Nat /\ MaxSeq \in Nat /\ MaxBoots \in Nat

VARIABLES
  boots,          \* [Node -> Nat]: restarts so far, tells two lives of a master apart
  mediaSyncSeq,   \* [Node -> Nat]: the static counter of the MEDIA_SYNC handler
  relayOrigins,   \* [Node -> [RelayOriginSlot -> RelayOriginEntry]]
  pendingRelays,  \* [Node -> [PendingSlot -> PendingRelay or Idle]]
  rx              \* [Node -> Seq(Frame)]: heard, waiting for onDataRecv

vars == <<boots, mediaSyncSeq, relayOrigins, pendingRelays, rx>>

\* A minted MediaSyncPacket, identified by who minted it, in which of its lives, and its seq.
Packet == [src : Node, boot : 0 .. MaxBoots, seq : 1 .. MaxSeq]

\* What travels: the packet itself (relay = FALSE, hop implicitly 0) or the
\* packet under a MeshRelayHeader.
Frame == [relay : BOOLEAN, origin : Node, seq : 1 .. MaxSeq,
          hop : 0 .. MAX_HOPS, inner : Packet]

RelayOriginEntry == [valid : BOOLEAN, mac : Node, lastSeq : 0 .. MaxSeq]

PendingRelay == [active : {TRUE}, origin : Node, seq : 1 .. MaxSeq,
                 hop : 0 .. MAX_HOPS, inner : Packet]

\* A slot whose `active` is false; what it still holds is never read.
Idle == [active |-> FALSE]

FirstOf(S) == CHOOSE i \in S : \A j \in S : i <= j

-----------------------------------------------------------------------------
(* The radio. *)

\* The sets of nodes one transmission of n may reach.
Audiences(n) ==
  LET near == {m \in Node \ {n} : <<n, m>> \in Link /\ Len(rx[m]) < RxDepth}
  IN  IF Lossy THEN SUBSET near ELSE {near}

Transmit(f, audience) ==
  [m \in Node |-> IF m \in audience THEN Append(rx[m], f) ELSE rx[m]]

\* A frame of o is still somewhere on its way.
InFlight(o) ==
  \E m \in Node :
    \/ \E k \in 1 .. Len(rx[m]) : rx[m][k].origin = o
    \/ \E i \in PendingSlot : pendingRelays[m][i].active /\ pendingRelays[m][i].origin = o

-----------------------------------------------------------------------------
(* mesh_relay.cpp *)

KnownSlots(table, origin) ==
  {i \in RelayOriginSlot : table[i].valid /\ table[i].mac = origin}

FreeOriginSlots(table) == {i \in RelayOriginSlot : ~table[i].valid}

\* The slot findOrCreateOrigin returns: the origin's own, else a free one,
\* else slot 0, taken from whoever had it.
findOrCreateOrigin(table, origin) ==
  IF KnownSlots(table, origin) # {} THEN FirstOf(KnownSlots(table, origin))
  ELSE IF FreeOriginSlots(table) # {} THEN FirstOf(FreeOriginSlots(table))
  ELSE 0

\* Is (origin, seq) the one the origin's entry remembers?
AlreadySeen(table, origin, seq) ==
  \E i \in KnownSlots(table, origin) : i = findOrCreateOrigin(table, origin)
                                        /\ table[i].lastSeq = seq

MarkSeen(table, origin, seq) ==
  [table EXCEPT ![findOrCreateOrigin(table, origin)] =
     [valid |-> TRUE, mac |-> origin, lastSeq |-> seq]]

Holds(slot, origin, seq) == slot.active /\ slot.origin = origin /\ slot.seq = seq

\* Seeded fault: an overheard copy cancels nothing.
suppressNothing(slots, origin, seq) == slots

suppressPending(slots, origin, seq) ==
  [i \in PendingSlot |-> IF Holds(slots[i], origin, seq) THEN Idle ELSE slots[i]]

IdleSlots(slots) == {i \in PendingSlot : ~slots[i].active}

\* The copy of f that the first idle slot takes, `hop` hops from its origin.
Pended(slots, f, hop) ==
  [slots EXCEPT ![FirstOf(IdleSlots(slots))] =
     [active |-> TRUE, origin |-> f.origin, seq |-> f.seq, hop |-> hop, inner |-> f.inner]]

\* Seeded faults: the hop budget one short, or unchecked.
ScheduleOneShort(slots, f) ==
  IF f.hop + 1 >= MAX_HOPS \/ IdleSlots(slots) = {} THEN slots ELSE Pended(slots, f, f.hop + 1)
ScheduleUnchecked(slots, f) ==
  IF IdleSlots(slots) = {} THEN slots ELSE Pended(slots, f, f.hop + 1)

\* The pending table after a frame that is new here: unchanged when the hop
\* budget is spent or every slot is taken.
Schedule(slots, f) ==
  IF f.hop + 1 > MAX_HOPS \/ IdleSlots(slots) = {} THEN slots
  ELSE Pended(slots, f, f.hop + 1)

Consider(n, f) ==
  LET slots == IF f.relay THEN suppressPending(pendingRelays[n], f.origin, f.seq)
                          ELSE pendingRelays[n]
  IN  /\ relayOrigins' =
           [relayOrigins EXCEPT ![n] = MarkSeen(@, f.origin, f.seq)]
      /\ pendingRelays' =
           [pendingRelays EXCEPT ![n] =
              IF AlreadySeen(relayOrigins[n], f.origin, f.seq) THEN slots
              ELSE Schedule(slots, f)]

\* Seeded fault: a node floods its own frames as well.
FloodOwn(n, f) == Consider(n, f)

handleFloodCandidate(n, f) ==
  IF f.origin = n THEN UNCHANGED <<relayOrigins, pendingRelays>> ELSE Consider(n, f)

-----------------------------------------------------------------------------
Init ==
  /\ boots = [n \in Node |-> 0]
  /\ mediaSyncSeq = [n \in Node |-> 0]
  /\ relayOrigins = [n \in Node |->
       [i \in RelayOriginSlot |-> [valid |-> FALSE, mac |-> n, lastSeq |-> 0]]]
  /\ pendingRelays = [n \in Node |-> [i \in PendingSlot |-> Idle]]
  /\ rx = [n \in Node |-> <<>>]

\* The host of master o hands it a position: one frame is numbered and broadcast.
Mint(o) ==
  /\ mediaSyncSeq[o] < MaxSeq
  /\ mediaSyncSeq' = [mediaSyncSeq EXCEPT ![o] = @ + 1]
  /\ LET p == [src |-> o, boot |-> boots[o], seq |-> mediaSyncSeq[o] + 1]
         f == [relay |-> FALSE, origin |-> o, seq |-> p.seq, hop |-> 0, inner |-> p]
     IN  \E audience \in Audiences(o) : rx' = Transmit(f, audience)
  /\ UNCHANGED <<boots, relayOrigins, pendingRelays>>

\* One call of onDataRecv on n.
Receive(n) ==
  /\ rx[n] # <<>>
  /\ rx' = [rx EXCEPT ![n] = Tail(@)]
  /\ handleFloodCandidate(n, Head(rx[n]))
  /\ UNCHANGED <<boots, mediaSyncSeq>>

\* Seeded fault: the loop over pendingRelays starts at 1.
SlotsFromOne == PendingSlot \ {0}

PolledSlots == PendingSlot

\* processPendingRelays reaches slot i, active and due: the envelope goes out.
Forward(n, i) ==
  /\ i \in PolledSlots /\ pendingRelays[n][i].active
  /\ pendingRelays' = [pendingRelays EXCEPT ![n][i] = Idle]
  /\ LET q == pendingRelays[n][i]
         f == [relay |-> TRUE, origin |-> q.origin, seq |-> q.seq,
               hop |-> q.hop, inner |-> q.inner]
     IN  \E audience \in Audiences(n) : rx' = Transmit(f, audience)
  /\ UNCHANGED <<boots, mediaSyncSeq, relayOrigins>>

\* n restarts: the counter and both tables start empty.  setup() takes more
\* than three seconds, and the last copy of a frame dies within
\* MAX_HOPS * 30 ms, so none of n's frames is still in flight afterwards.
Reboot(n) ==
  /\ \A k \in Node : boots[k] < MaxBoots
  /\ ~InFlight(n)
  /\ boots' = [boots EXCEPT ![n] = @ + 1]
  /\ mediaSyncSeq' = [mediaSyncSeq EXCEPT ![n] = 0]
  /\ relayOrigins' = [relayOrigins EXCEPT ![n] =
       [i \in RelayOriginSlot |-> [valid |-> FALSE, mac |-> n, lastSeq |-> 0]]]
  /\ pendingRelays' = [pendingRelays EXCEPT ![n] = [i \in PendingSlot |-> Idle]]
  /\ rx' = [rx EXCEPT ![n] = <<>>]

Next ==
  \/ \E o \in Master : Mint(o)
  \/ \E n \in Node : Receive(n)
  \/ \E n \in Node : \E i \in PendingSlot : Forward(n, i)
  \/ \E n \in Node : Reboot(n)

Spec == Init /\ [][Next]_vars

\* The WiFi task runs every callback it has queued, and ESPNOW_Task polls the
\* pending table every 10 ms whatever the role; nothing forces a host to send
\* or a node to restart.
Fairness ==
  \A n \in Node : WF_vars(Receive(n)) /\ \A i \in PendingSlot : WF_vars(Forward(n, i))

FairSpec == Spec /\ Fairness

-----------------------------------------------------------------------------
(* Properties *)

\* Every variable has the shape of the source's tables; a copy's hop fits the budget.
TypeOK ==
  /\ boots \in [Node -> 0 .. MaxBoots]
  /\ mediaSyncSeq \in [Node -> 0 .. MaxSeq]
  /\ relayOrigins \in [Node -> [RelayOriginSlot -> RelayOriginEntry]]
  /\ pendingRelays \in [Node -> [PendingSlot -> PendingRelay \union {Idle}]]
  /\ rx \in [Node -> Seq(Frame)]

\* c carries exactly what its origin minted, in the life the origin is in.
Genuine(c) ==
  /\ c.inner.src = c.origin
  /\ c.inner.seq = c.seq
  /\ c.inner.boot = boots[c.origin]
  /\ c.seq <= mediaSyncSeq[c.origin]

\* Whatever the sequence of relays, losses and restarts, every copy in the air or
\* pending is the very packet its origin minted under that seq, so the key the
\* relays dedup on is the one the slaves count gaps in; a relayed copy has taken
\* at least one hop and a pending forward is never of the node's own traffic.
CopiesAreGenuine ==
  \A n \in Node :
    /\ \A k \in 1 .. Len(rx[n]) :
         Genuine(rx[n][k]) /\ (rx[n][k].relay <=> rx[n][k].hop > 0)
    /\ \A i \in PendingSlot :
         pendingRelays[n][i].active =>
           /\ Genuine(pendingRelays[n][i])
           /\ pendingRelays[n][i].hop > 0
           /\ pendingRelays[n][i].origin # n

\* A node never holds two pending forwards of one (origin, seq), even when copies
\* reach it out of order and the one-entry memory of the origin has moved on:
\* a direct frame precedes every copy of it, and a relayed one suppresses first.
NoDuplicatePending ==
  \A n \in Node : \A i, j \in PendingSlot :
    /\ pendingRelays[n][i].active
    /\ Holds(pendingRelays[n][j], pendingRelays[n][i].origin, pendingRelays[n][i].seq)
    => i = j

Quiet ==
  \A n \in Node : rx[n] = <<>> /\ \A i \in PendingSlot : ~pendingRelays[n][i].active

\* Flooding dies out: once the hosts stop, no copy circulates for ever.
FloodDiesOut == <>[]Quiet

=============================================================================
