--------------------------- MODULE MeshRelayProofs ---------------------------
(***************************************************************************)
(* What MeshRelay guarantees for every number of nodes, every topology,    *)
(* every table size and every hop budget.                                  *)
(*                                                                         *)
(* NoDuplicatePending is not inductive alone.  A direct frame would be     *)
(* scheduled beside a pending forward of the same packet if a relayed copy *)
(* could overtake it, so the invariant says where direct frames stand in   *)
(* the receive queues (DirectFirst), which in turn needs every copy in     *)
(* flight to be numbered no higher than its origin's counter               *)
(* (CopiesAreGenuine): a freshly minted number is then new everywhere.     *)
(***************************************************************************)
EXTENDS MeshRelay, TLAPS, SequenceTheorems, WellFoundedInduction

SameKey(c, e) == c.origin = e.origin /\ c.seq = e.seq

\* A direct frame waiting at n precedes every copy of it there, and no forward
\* of it is pending at n yet.
DirectFirst ==
  \A n \in Node : \A k \in 1 .. Len(rx[n]) :
    ~rx[n][k].relay =>
      /\ \A j \in 1 .. k - 1 : ~SameKey(rx[n][j], rx[n][k])
      /\ \A i \in PendingSlot :
           ~Holds(pendingRelays[n][i], rx[n][k].origin, rx[n][k].seq)

\* Genuine against given values of the two variables it reads.
GenuineUnder(c, boot, count) ==
  /\ c.inner.src = c.origin
  /\ c.inner.seq = c.seq
  /\ c.inner.boot = boot[c.origin]
  /\ c.seq <= count[c.origin]

IInv == CopiesAreGenuine /\ DirectFirst /\ NoDuplicatePending

-----------------------------------------------------------------------------
(* The tables' helpers. *)

\* The search loops of mesh_relay.cpp return a member of the set they scan.
LEMMA FirstOfMember ==
  ASSUME NEW S, S \subseteq Nat, S # {}
  PROVE  FirstOf(S) \in S
<1>1. IsWellFoundedOn(OpToRel(<, Nat), Nat)
  BY NatLessThanWellFounded
<1>2. PICK x \in S : \A y \in S : ~(<<y, x>> \in OpToRel(<, Nat))
  BY <1>1, WFMin
<1>3. \A y \in S : y < x => <<y, x>> \in OpToRel(<, Nat)
  <2>. SUFFICES ASSUME NEW y \in S, y < x PROVE <<y, x>> \in OpToRel(<, Nat)
    OBVIOUS
  <2>1. <<y, x>> \in Nat \X Nat /\ <<y, x>>[1] < <<y, x>>[2]
    OBVIOUS
  <2>. QED
    BY ONLY <2>1 DEF OpToRel
<1>4. \A y \in S : ~(y < x)
  BY <1>2, <1>3, Zenon
<1>5. \A y \in S : x <= y
  BY ONLY S \subseteq Nat, x \in S, <1>4
<1>. QED
  BY <1>5, Zenon DEF FirstOf

LEMMA OriginSlotType ==
  ASSUME NEW table, NEW origin
  PROVE  findOrCreateOrigin(table, origin) \in RelayOriginSlot
<1>1. KnownSlots(table, origin) \subseteq RelayOriginSlot
  BY DEF KnownSlots
<1>2. FreeOriginSlots(table) \subseteq RelayOriginSlot
  BY DEF FreeOriginSlots
<1>. QED
  BY <1>1, <1>2, FirstOfMember, RelayAssumption DEF findOrCreateOrigin

PendingTable == [PendingSlot -> PendingRelay \union {Idle}]

LEMMA IdleSlotMember ==
  ASSUME NEW slots, IdleSlots(slots) # {}
  PROVE  /\ FirstOf(IdleSlots(slots)) \in PendingSlot
         /\ ~slots[FirstOf(IdleSlots(slots))].active
<1>1. IdleSlots(slots) \subseteq Nat
  BY RelayAssumption DEF IdleSlots
<1>2. FirstOf(IdleSlots(slots)) \in IdleSlots(slots)
  BY <1>1, FirstOfMember
<1>. QED
  BY <1>2 DEF IdleSlots

LEMMA PendingFields ==
  ASSUME NEW q \in PendingRelay
  PROVE  q.origin \in Node /\ q.seq \in 1 .. MaxSeq /\ q.seq \in Nat
BY RelayAssumption DEF PendingRelay

LEMMA SuppressType ==
  ASSUME NEW slots \in PendingTable, NEW origin, NEW seq
  PROVE  suppressPending(slots, origin, seq) \in PendingTable
BY DEF suppressPending, PendingTable

LEMMA ScheduleType ==
  ASSUME NEW slots \in PendingTable, NEW f \in Frame
  PROVE  Schedule(slots, f) \in PendingTable
<1>1. CASE f.hop + 1 > MAX_HOPS \/ IdleSlots(slots) = {}
  BY <1>1 DEF Schedule, Pended
<1>2. CASE ~(f.hop + 1 > MAX_HOPS \/ IdleSlots(slots) = {})
  <2>. DEFINE new == [active |-> TRUE, origin |-> f.origin, seq |-> f.seq,
                      hop |-> f.hop + 1, inner |-> f.inner]
  <2>1. new \in PendingRelay
    BY <1>2, RelayAssumption DEF Frame, PendingRelay
  <2>2. FirstOf(IdleSlots(slots)) \in PendingSlot
    BY <1>2, IdleSlotMember
  <2>. QED
    BY <1>2, <2>1, <2>2 DEF Schedule, Pended, PendingTable
<1>. QED
  BY <1>1, <1>2

LEMMA TransmitType ==
  ASSUME rx \in [Node -> Seq(Frame)], NEW f \in Frame, NEW audience
  PROVE  Transmit(f, audience) \in [Node -> Seq(Frame)]
BY AppendProperties DEF Transmit

-----------------------------------------------------------------------------
(* Type correctness. *)

LEMMA InitType == Init => TypeOK
BY RelayAssumption DEF Init, TypeOK, RelayOriginEntry, Idle

LEMMA MintType ==
  ASSUME TypeOK, NEW o \in Master, Mint(o)
  PROVE  TypeOK'
<1>. DEFINE p == [src |-> o, boot |-> boots[o], seq |-> mediaSyncSeq[o] + 1]
            f == [relay |-> FALSE, origin |-> o, seq |-> p.seq, hop |-> 0, inner |-> p]
<1>1. o \in Node
  BY RelayAssumption
<1>2. /\ boots[o] \in 0 .. MaxBoots
      /\ mediaSyncSeq[o] + 1 \in 1 .. MaxSeq
  BY <1>1, RelayAssumption DEF TypeOK, Mint
<1>3. p \in Packet /\ p.seq \in 1 .. MaxSeq
  BY <1>1, <1>2 DEF Packet
<1>4. f \in Frame
  BY <1>1, <1>3, RelayAssumption DEF Frame
<1>5. PICK audience \in Audiences(o) : rx' = Transmit(f, audience)
  BY DEF Mint
<1>6. rx' \in [Node -> Seq(Frame)]
  BY <1>4, <1>5, TransmitType DEF TypeOK
<1>7. mediaSyncSeq' \in [Node -> 0 .. MaxSeq]
  BY <1>1, <1>2 DEF TypeOK, Mint
<1>. QED
  BY <1>6, <1>7 DEF TypeOK, Mint

LEMMA ReceiveType ==
  ASSUME TypeOK, NEW n \in Node, Receive(n)
  PROVE  TypeOK'
<1>. DEFINE f == Head(rx[n])
<1>1. rx[n] \in Seq(Frame) /\ rx[n] # <<>>
  BY DEF TypeOK, Receive
<1>2. f \in Frame /\ Tail(rx[n]) \in Seq(Frame)
  BY <1>1, HeadTailProperties
<1>3. rx' \in [Node -> Seq(Frame)]
  BY <1>2 DEF TypeOK, Receive
<1>4. CASE f.origin = n
  BY <1>3, <1>4 DEF TypeOK, Receive, handleFloodCandidate, Consider
<1>5. CASE f.origin # n
  <2>. DEFINE slots == IF f.relay THEN suppressPending(pendingRelays[n], f.origin, f.seq)
                                  ELSE pendingRelays[n]
  <2>1. slots \in PendingTable
    BY SuppressType DEF TypeOK, PendingTable
  <2>2. Schedule(slots, f) \in PendingTable
    BY <1>2, <2>1, ScheduleType
  <2>3. pendingRelays' \in [Node -> PendingTable]
    BY <1>5, <2>1, <2>2 DEF TypeOK, PendingTable, Receive, handleFloodCandidate, Consider
  <2>4. [valid |-> TRUE, mac |-> f.origin, lastSeq |-> f.seq] \in RelayOriginEntry
    BY <1>2, RelayAssumption DEF Frame, RelayOriginEntry
  <2>5. MarkSeen(relayOrigins[n], f.origin, f.seq) \in [RelayOriginSlot -> RelayOriginEntry]
    BY <2>4, OriginSlotType DEF TypeOK, MarkSeen
  <2>6. relayOrigins' \in [Node -> [RelayOriginSlot -> RelayOriginEntry]]
    BY <1>5, <2>5 DEF TypeOK, Receive, handleFloodCandidate, Consider
  <2>. QED
    BY <1>3, <2>3, <2>6 DEF TypeOK, PendingTable, Receive
<1>. QED
  BY <1>4, <1>5

LEMMA ForwardType ==
  ASSUME TypeOK, NEW n \in Node, NEW i \in PendingSlot, Forward(n, i)
  PROVE  TypeOK'
<1>. DEFINE q == pendingRelays[n][i]
            f == [relay |-> TRUE, origin |-> q.origin, seq |-> q.seq,
                  hop |-> q.hop, inner |-> q.inner]
<1>1. q \in PendingRelay
  BY DEF TypeOK, Forward, Idle
<1>2. f \in Frame
  BY <1>1 DEF PendingRelay, Frame
<1>3. PICK audience \in Audiences(n) : rx' = Transmit(f, audience)
  BY DEF Forward
<1>4. rx' \in [Node -> Seq(Frame)]
  BY <1>2, <1>3, TransmitType DEF TypeOK
<1>5. pendingRelays' \in [Node -> [PendingSlot -> PendingRelay \union {Idle}]]
  BY DEF TypeOK, Forward
<1>. QED
  BY <1>4, <1>5 DEF TypeOK, Forward

LEMMA RebootType ==
  ASSUME TypeOK, NEW n \in Node, Reboot(n)
  PROVE  TypeOK'
<1>1. boots' \in [Node -> 0 .. MaxBoots]
  BY RelayAssumption DEF TypeOK, Reboot
<1>2. [i \in RelayOriginSlot |-> [valid |-> FALSE, mac |-> n, lastSeq |-> 0]]
        \in [RelayOriginSlot -> RelayOriginEntry]
  BY RelayAssumption DEF RelayOriginEntry
<1>3. rx' \in [Node -> Seq(Frame)]
  BY EmptySeq DEF TypeOK, Reboot
<1>4. mediaSyncSeq' \in [Node -> 0 .. MaxSeq]
  BY RelayAssumption DEF TypeOK, Reboot
<1>5. relayOrigins' \in [Node -> [RelayOriginSlot -> RelayOriginEntry]]
  BY <1>2 DEF TypeOK, Reboot
<1>6. pendingRelays' \in [Node -> [PendingSlot -> PendingRelay \union {Idle}]]
  BY DEF TypeOK, Reboot
<1>. QED
  BY <1>1, <1>3, <1>4, <1>5, <1>6 DEF TypeOK

\* Every variable keeps its shape, and no copy ever carries a hop beyond MAX_HOPS.
THEOREM TypeCorrect == Spec => []TypeOK
<1>1. TypeOK /\ [Next]_vars => TypeOK'
  <2>. SUFFICES ASSUME TypeOK, [Next]_vars PROVE TypeOK'
    OBVIOUS
  <2>1. CASE \E o \in Master : Mint(o)
    BY <2>1, MintType
  <2>2. CASE \E n \in Node : Receive(n)
    BY <2>2, ReceiveType
  <2>3. CASE \E n \in Node : \E i \in PendingSlot : Forward(n, i)
    BY <2>3, ForwardType
  <2>4. CASE \E n \in Node : Reboot(n)
    BY <2>4, RebootType
  <2>5. CASE UNCHANGED vars
    BY <2>5 DEF TypeOK, vars
  <2>. QED
    BY <2>1, <2>2, <2>3, <2>4, <2>5 DEF Next
<1>. QED
  BY InitType, <1>1, PTL DEF Spec

-----------------------------------------------------------------------------
(* What the steps do to the queues and to the pending tables. *)

\* A transmission leaves every queue as it is but for f at its end.
LEMMA TransmitShape ==
  ASSUME TypeOK, NEW f \in Frame, NEW audience, rx' = Transmit(f, audience),
         NEW m \in Node, NEW k \in 1 .. Len(rx'[m])
  PROVE  /\ \A j \in 1 .. k - 1 : j \in 1 .. Len(rx[m]) /\ rx'[m][j] = rx[m][j]
         /\ \/ k \in 1 .. Len(rx[m]) /\ rx'[m][k] = rx[m][k]
            \/ rx'[m][k] = f
<1>1. rx[m] \in Seq(Frame) /\ Len(rx[m]) \in Nat
  BY LenProperties DEF TypeOK
<1>2. CASE m \in audience
  <2>1. rx'[m] = Append(rx[m], f)
    BY <1>2 DEF Transmit
  <2>2. /\ Len(rx'[m]) = Len(rx[m]) + 1
        /\ \A j \in 1 .. Len(rx[m]) : rx'[m][j] = rx[m][j]
        /\ rx'[m][Len(rx[m]) + 1] = f
    BY <1>1, <2>1, AppendProperties
  <2>. QED
    BY <1>1, <2>2
<1>3. CASE m \notin audience
  <2>1. rx'[m] = rx[m]
    BY <1>3 DEF Transmit
  <2>. QED
    BY <1>1, <2>1
<1>. QED
  BY <1>2, <1>3

\* A callback takes the head of its own queue and touches no other.
LEMMA ReceiveShape ==
  ASSUME TypeOK, NEW n \in Node, Receive(n),
         NEW m \in Node, NEW k \in 1 .. Len(rx'[m])
  PROVE  IF m = n
         THEN /\ k + 1 \in 1 .. Len(rx[m]) /\ rx'[m][k] = rx[m][k + 1]
              /\ \A j \in 1 .. k - 1 : rx'[m][j] = rx[m][j + 1]
         ELSE rx'[m] = rx[m]
<1>1. CASE m = n
  <2>1. rx[n] \in Seq(Frame) /\ rx[n] # <<>> /\ Len(rx[n]) \in Nat
    BY LenProperties DEF TypeOK, Receive
  <2>2. rx'[n] = Tail(rx[n])
    BY DEF TypeOK, Receive
  <2>3. /\ Len(rx'[n]) = Len(rx[n]) - 1
        /\ \A j \in 1 .. Len(rx'[n]) : rx'[n][j] = rx[n][j + 1]
    BY <2>1, <2>2, HeadTailProperties
  <2>. QED
    BY <1>1, <2>1, <2>3
<1>2. CASE m # n
  BY <1>2 DEF TypeOK, Receive
<1>. QED
  BY <1>1, <1>2

LEMMA HeadIsFirst ==
  ASSUME TypeOK, NEW n \in Node, rx[n] # <<>>
  PROVE  1 \in 1 .. Len(rx[n]) /\ rx[n][1] = Head(rx[n]) /\ Head(rx[n]) \in Frame
<1>1. rx[n] \in Seq(Frame) /\ Len(rx[n]) \in Nat \ {0}
  BY EmptySeq DEF TypeOK
<1>. QED
  BY <1>1, HeadTailProperties

\* The forward handleFloodCandidate would schedule for f.
ForwardOf(f) == [active |-> TRUE, origin |-> f.origin, seq |-> f.seq,
                 hop |-> f.hop + 1, inner |-> f.inner]

\* A callback leaves a slot, clears it, or puts the forward of the frame it was
\* given into one slot; it never does that for the node's own traffic, and if the
\* frame was a relayed copy no other slot holds its key any more.
LEMMA ReceivePending ==
  ASSUME TypeOK, NEW n \in Node, Receive(n), NEW f, f = Head(rx[n])
  PROVE  /\ \A m \in Node \ {n} : pendingRelays'[m] = pendingRelays[m]
         /\ \/ \A i \in PendingSlot :
                 pendingRelays'[n][i] \in {pendingRelays[n][i], Idle}
            \/ /\ f.origin # n
               /\ \E new \in PendingSlot :
                    /\ pendingRelays'[n][new] = ForwardOf(f)
                    /\ \A i \in PendingSlot \ {new} :
                         /\ pendingRelays'[n][i] \in {pendingRelays[n][i], Idle}
                         /\ f.relay => ~Holds(pendingRelays'[n][i], f.origin, f.seq)
<1>1. pendingRelays \in [Node -> PendingTable]
  BY DEF TypeOK, PendingTable
<1>2. CASE f.origin = n
  BY <1>1, <1>2 DEF Receive, handleFloodCandidate, Consider, PendingTable
<1>3. CASE f.origin # n
  <2>. DEFINE slots == IF f.relay THEN suppressPending(pendingRelays[n], f.origin, f.seq)
                                  ELSE pendingRelays[n]
  <2>1. slots \in PendingTable
    BY <1>1, SuppressType
  <2>2. \A i \in PendingSlot :
          /\ slots[i] \in {pendingRelays[n][i], Idle}
          /\ f.relay => ~Holds(slots[i], f.origin, f.seq)
    BY DEF suppressPending, Holds, Idle
  <2>3. /\ \A m \in Node \ {n} : pendingRelays'[m] = pendingRelays[m]
        /\ pendingRelays'[n] \in {slots, Schedule(slots, f)}
    BY <1>1, <1>3 DEF Receive, handleFloodCandidate, Consider
  <2>. HIDE DEF slots
  <2>4. CASE pendingRelays'[n] = slots
    BY <2>2, <2>3, <2>4
  <2>5. CASE Schedule(slots, f) # slots /\ pendingRelays'[n] = Schedule(slots, f)
    <3>1. IdleSlots(slots) # {}
      BY <2>5 DEF Schedule, Pended
    <3>. DEFINE new == FirstOf(IdleSlots(slots))
    <3>2. new \in PendingSlot
      BY <3>1, IdleSlotMember
    <3>. HIDE DEF new
    <3>3. pendingRelays'[n] = [slots EXCEPT ![new] = ForwardOf(f)]
      BY <2>5 DEF Schedule, Pended, ForwardOf, new
    <3>4. /\ pendingRelays'[n][new] = ForwardOf(f)
          /\ \A i \in PendingSlot \ {new} : pendingRelays'[n][i] = slots[i]
      BY <2>1, <3>2, <3>3 DEF PendingTable
    <3>. QED
      BY <1>3, <2>2, <2>3, <3>2, <3>4
  <2>. QED
    BY <2>3, <2>4, <2>5
<1>. QED
  BY <1>2, <1>3

-----------------------------------------------------------------------------
(* The invariant, action by action. *)

LEMMA InitInv == Init => IInv
BY DEF Init, IInv, CopiesAreGenuine, DirectFirst, NoDuplicatePending, Idle, Holds

LEMMA MintInv ==
  ASSUME TypeOK, IInv, NEW o \in Master, Mint(o)
  PROVE  IInv'
<1>. DEFINE p == [src |-> o, boot |-> boots[o], seq |-> mediaSyncSeq[o] + 1]
            f == [relay |-> FALSE, origin |-> o, seq |-> p.seq, hop |-> 0, inner |-> p]
<1>1. o \in Node
  BY RelayAssumption
<1>2. /\ boots[o] \in 0 .. MaxBoots
      /\ mediaSyncSeq[o] \in Nat
      /\ mediaSyncSeq[o] + 1 \in 1 .. MaxSeq
      /\ mediaSyncSeq' = [mediaSyncSeq EXCEPT ![o] = @ + 1]
      /\ boots' = boots /\ pendingRelays' = pendingRelays
  BY <1>1, RelayAssumption DEF TypeOK, Mint
<1>3. f \in Frame
  BY <1>1, <1>2, RelayAssumption DEF Frame, Packet
<1>4. PICK audience \in Audiences(o) : rx' = Transmit(f, audience)
  BY DEF Mint
<1>5. /\ ~f.relay /\ f.hop = 0 /\ f.origin = o /\ f.seq = mediaSyncSeq[o] + 1
      /\ f.inner.src = o /\ f.inner.seq = f.seq /\ f.inner.boot = boots[o]
  OBVIOUS
<1>. HIDE DEF f, p
<1>6. \A m \in Node : \A k \in 1 .. Len(rx'[m]) :
        /\ \A j \in 1 .. k - 1 : j \in 1 .. Len(rx[m]) /\ rx'[m][j] = rx[m][j]
        /\ \/ k \in 1 .. Len(rx[m]) /\ rx'[m][k] = rx[m][k]
           \/ rx'[m][k] = f
  BY <1>3, <1>4, TransmitShape
<1>7. \A c : /\ c.origin \in Node /\ c.seq \in Nat
             /\ GenuineUnder(c, boots, mediaSyncSeq)
             => GenuineUnder(c, boots', mediaSyncSeq')
  <2>1. \A x \in Node : mediaSyncSeq[x] \in Nat /\ mediaSyncSeq[x] <= mediaSyncSeq'[x]
    BY <1>1, <1>2 DEF TypeOK
  <2>. QED
    BY <1>2, <2>1 DEF GenuineUnder
<1>8. GenuineUnder(f, boots', mediaSyncSeq')
  <2>1. mediaSyncSeq'[o] = mediaSyncSeq[o] + 1
    BY <1>1, <1>2 DEF TypeOK
  <2>. QED
    BY <1>2, <1>5, <2>1 DEF GenuineUnder
<1>9. /\ \A m \in Node : \A k \in 1 .. Len(rx[m]) : rx[m][k] \in Frame
      /\ \A m \in Node : \A i \in PendingSlot :
           pendingRelays[m][i].active => pendingRelays[m][i] \in PendingRelay
  <2>1. \A m \in Node : \A k \in 1 .. Len(rx[m]) : rx[m][k] \in Frame
    BY ElementOfSeq DEF TypeOK
  <2>2. \A m \in Node : \A i \in PendingSlot :
           pendingRelays[m][i].active => pendingRelays[m][i] \in PendingRelay
    BY DEF TypeOK, Idle
  <2>. QED
    BY <2>1, <2>2
<1>10. CopiesAreGenuine'
  <2>1. ASSUME NEW m \in Node, NEW k \in 1 .. Len(rx'[m])
        PROVE  /\ GenuineUnder(rx'[m][k], boots', mediaSyncSeq')
               /\ rx'[m][k].relay <=> rx'[m][k].hop > 0
    <3>1. CASE k \in 1 .. Len(rx[m]) /\ rx'[m][k] = rx[m][k]
      <4>1. /\ rx[m][k] \in Frame
            /\ GenuineUnder(rx[m][k], boots, mediaSyncSeq)
            /\ rx[m][k].relay <=> rx[m][k].hop > 0
        BY <1>9, <3>1 DEF IInv, CopiesAreGenuine, Genuine, GenuineUnder
      <4>. QED
        BY <1>7, <3>1, <4>1 DEF Frame
    <3>2. CASE rx'[m][k] = f
      BY <1>5, <1>8, <3>2
    <3>. QED
      BY <1>6, <3>1, <3>2
  <2>2. ASSUME NEW m \in Node, NEW i \in PendingSlot, pendingRelays[m][i].active
        PROVE  GenuineUnder(pendingRelays[m][i], boots', mediaSyncSeq')
    <3>1. GenuineUnder(pendingRelays[m][i], boots, mediaSyncSeq)
      BY <2>2 DEF IInv, CopiesAreGenuine, Genuine, GenuineUnder
    <3>2. pendingRelays[m][i] \in PendingRelay
      BY <1>9, <2>2
    <3>3. pendingRelays[m][i].origin \in Node /\ pendingRelays[m][i].seq \in Nat
      BY <3>2, PendingFields
    <3>. QED
      BY <1>7, <3>1, <3>3
  <2>. QED
    BY <1>2, <2>1, <2>2 DEF IInv, CopiesAreGenuine, Genuine, GenuineUnder
<1>11. /\ \A m \in Node : \A k \in 1 .. Len(rx[m]) : ~SameKey(rx[m][k], f)
       /\ \A m \in Node : \A i \in PendingSlot :
            ~Holds(pendingRelays[m][i], f.origin, f.seq)
  BY <1>2, <1>5, <1>9 DEF IInv, CopiesAreGenuine, Genuine, SameKey, Holds, Frame, PendingRelay
<1>12. DirectFirst'
  <2>. SUFFICES ASSUME NEW m \in Node, NEW k \in 1 .. Len(rx'[m]), ~rx'[m][k].relay
                PROVE  /\ \A j \in 1 .. k - 1 : ~SameKey(rx'[m][j], rx'[m][k])
                       /\ \A i \in PendingSlot :
                            ~Holds(pendingRelays'[m][i], rx'[m][k].origin, rx'[m][k].seq)
    BY DEF DirectFirst, SameKey, Holds
  <2>1. CASE k \in 1 .. Len(rx[m]) /\ rx'[m][k] = rx[m][k]
    BY <1>2, <1>6, <2>1 DEF IInv, DirectFirst
  <2>2. CASE rx'[m][k] = f
    BY <1>2, <1>6, <1>11, <2>2
  <2>. QED
    BY <1>6, <2>1, <2>2
<1>13. NoDuplicatePending'
  BY <1>2 DEF IInv, NoDuplicatePending, Holds
<1>. QED
  BY <1>10, <1>12, <1>13 DEF IInv

LEMMA ForwardInv ==
  ASSUME TypeOK, IInv, NEW n \in Node, NEW s \in PendingSlot, Forward(n, s)
  PROVE  IInv'
<1>. DEFINE q == pendingRelays[n][s]
            f == [relay |-> TRUE, origin |-> q.origin, seq |-> q.seq,
                  hop |-> q.hop, inner |-> q.inner]
<1>1. q \in PendingRelay /\ q.active
  BY DEF TypeOK, Forward, Idle
<1>2. f \in Frame
  BY <1>1 DEF PendingRelay, Frame
<1>3. PICK audience \in Audiences(n) : rx' = Transmit(f, audience)
  BY DEF Forward
<1>4. /\ f.relay /\ f.hop > 0 /\ GenuineUnder(f, boots, mediaSyncSeq)
  BY <1>1 DEF IInv, CopiesAreGenuine, Genuine, GenuineUnder
<1>. HIDE DEF f, q
<1>5. \A m \in Node : \A k \in 1 .. Len(rx'[m]) :
        /\ \A j \in 1 .. k - 1 : j \in 1 .. Len(rx[m]) /\ rx'[m][j] = rx[m][j]
        /\ \/ k \in 1 .. Len(rx[m]) /\ rx'[m][k] = rx[m][k]
           \/ rx'[m][k] = f
  BY <1>2, <1>3, TransmitShape
<1>6. \A m \in Node : \A i \in PendingSlot :
        pendingRelays'[m][i] \in {pendingRelays[m][i], Idle}
  BY DEF TypeOK, Forward
<1>7. boots' = boots /\ mediaSyncSeq' = mediaSyncSeq
  BY DEF Forward
<1>8. CopiesAreGenuine'
  <2>1. ASSUME NEW m \in Node, NEW k \in 1 .. Len(rx'[m])
        PROVE  /\ GenuineUnder(rx'[m][k], boots', mediaSyncSeq')
               /\ rx'[m][k].relay <=> rx'[m][k].hop > 0
    <3>1. CASE k \in 1 .. Len(rx[m]) /\ rx'[m][k] = rx[m][k]
      BY <1>7, <3>1 DEF IInv, CopiesAreGenuine, Genuine, GenuineUnder
    <3>2. CASE rx'[m][k] = f
      BY <1>4, <1>7, <3>2
    <3>. QED
      BY <1>5, <3>1, <3>2
  <2>2. ASSUME NEW m \in Node, NEW i \in PendingSlot, pendingRelays'[m][i].active
        PROVE  /\ GenuineUnder(pendingRelays'[m][i], boots', mediaSyncSeq')
               /\ pendingRelays'[m][i].hop > 0
               /\ pendingRelays'[m][i].origin # m
    <3>1. pendingRelays'[m][i] = pendingRelays[m][i] /\ pendingRelays[m][i].active
      BY <1>6, <2>2 DEF Idle
    <3>. QED
      BY <1>7, <3>1 DEF IInv, CopiesAreGenuine, Genuine, GenuineUnder
  <2>. QED
    BY <2>1, <2>2 DEF CopiesAreGenuine, Genuine, GenuineUnder
<1>9. DirectFirst'
  <2>. SUFFICES ASSUME NEW m \in Node, NEW k \in 1 .. Len(rx'[m]), ~rx'[m][k].relay
                PROVE  /\ \A j \in 1 .. k - 1 : ~SameKey(rx'[m][j], rx'[m][k])
                       /\ \A i \in PendingSlot :
                            ~Holds(pendingRelays'[m][i], rx'[m][k].origin, rx'[m][k].seq)
    BY DEF DirectFirst, SameKey, Holds
  <2>1. k \in 1 .. Len(rx[m]) /\ rx'[m][k] = rx[m][k]
    BY <1>4, <1>5
  <2>. QED
    BY <1>5, <1>6, <2>1 DEF IInv, DirectFirst, Holds, Idle
<1>10. NoDuplicatePending'
  BY <1>6 DEF IInv, NoDuplicatePending, Holds, Idle
<1>. QED
  BY <1>8, <1>9, <1>10 DEF IInv

LEMMA ReceiveInv ==
  ASSUME TypeOK, IInv, NEW n \in Node, Receive(n)
  PROVE  IInv'
<1>. DEFINE f == Head(rx[n])
<1>1. 1 \in 1 .. Len(rx[n]) /\ rx[n][1] = f /\ f \in Frame
  BY HeadIsFirst DEF Receive
<1>2. /\ \A m \in Node \ {n} : pendingRelays'[m] = pendingRelays[m]
      /\ \/ \A i \in PendingSlot :
              pendingRelays'[n][i] \in {pendingRelays[n][i], Idle}
         \/ /\ f.origin # n
            /\ \E new \in PendingSlot :
                 /\ pendingRelays'[n][new] = ForwardOf(f)
                 /\ \A i \in PendingSlot \ {new} :
                      /\ pendingRelays'[n][i] \in {pendingRelays[n][i], Idle}
                      /\ f.relay => ~Holds(pendingRelays'[n][i], f.origin, f.seq)
  BY ReceivePending
<1>. HIDE DEF f
<1>3. \A m \in Node : \A k \in 1 .. Len(rx'[m]) :
        IF m = n
        THEN /\ k + 1 \in 1 .. Len(rx[m]) /\ rx'[m][k] = rx[m][k + 1]
             /\ \A j \in 1 .. k - 1 : rx'[m][j] = rx[m][j + 1]
        ELSE rx'[m] = rx[m]
  BY ReceiveShape
<1>4. boots' = boots /\ mediaSyncSeq' = mediaSyncSeq
  BY DEF Receive
<1>5. /\ GenuineUnder(f, boots, mediaSyncSeq)
      /\ f.hop \in Nat
      /\ ForwardOf(f).origin = f.origin /\ ForwardOf(f).seq = f.seq
      /\ ForwardOf(f).inner = f.inner /\ ForwardOf(f).hop = f.hop + 1
  BY <1>1, RelayAssumption DEF IInv, CopiesAreGenuine, Genuine, GenuineUnder, ForwardOf, Frame
<1>6. CopiesAreGenuine'
  <2>1. ASSUME NEW m \in Node, NEW k \in 1 .. Len(rx'[m])
        PROVE  /\ GenuineUnder(rx'[m][k], boots', mediaSyncSeq')
               /\ rx'[m][k].relay <=> rx'[m][k].hop > 0
    <3>1. \E j \in 1 .. Len(rx[m]) : rx'[m][k] = rx[m][j]
      BY <1>3
    <3>. QED
      BY <1>4, <3>1 DEF IInv, CopiesAreGenuine, Genuine, GenuineUnder
  <2>2. ASSUME NEW m \in Node, NEW i \in PendingSlot, pendingRelays'[m][i].active
        PROVE  /\ GenuineUnder(pendingRelays'[m][i], boots', mediaSyncSeq')
               /\ pendingRelays'[m][i].hop > 0
               /\ pendingRelays'[m][i].origin # m
    <3>1. CASE pendingRelays'[m][i] = pendingRelays[m][i]
      BY <1>4, <2>2, <3>1 DEF IInv, CopiesAreGenuine, Genuine, GenuineUnder
    <3>2. CASE pendingRelays'[m][i] = ForwardOf(f) /\ m = n /\ f.origin # n
      BY <1>4, <1>5, <3>2 DEF GenuineUnder
    <3>. QED
      BY <1>2, <2>2, <3>1, <3>2 DEF Idle
  <2>. QED
    BY <2>1, <2>2 DEF CopiesAreGenuine, Genuine, GenuineUnder
<1>7. DirectFirst'
  <2>. SUFFICES ASSUME NEW m \in Node, NEW k \in 1 .. Len(rx'[m]), ~rx'[m][k].relay
                PROVE  /\ \A j \in 1 .. k - 1 : ~SameKey(rx'[m][j], rx'[m][k])
                       /\ \A i \in PendingSlot :
                            ~Holds(pendingRelays'[m][i], rx'[m][k].origin, rx'[m][k].seq)
    BY DEF DirectFirst, SameKey, Holds
  <2>1. CASE m # n
    <3>1. rx'[m] = rx[m] /\ pendingRelays'[m] = pendingRelays[m]
      BY <1>2, <1>3, <2>1
    <3>. QED
      BY <3>1 DEF IInv, DirectFirst
  <2>2. CASE m = n
    <3>1. k + 1 \in 1 .. Len(rx[n]) /\ rx'[n][k] = rx[n][k + 1] /\ ~rx[n][k + 1].relay
      BY <1>3, <2>2
    <3>2. /\ \A j \in 1 .. k : ~SameKey(rx[n][j], rx[n][k + 1])
          /\ \A i \in PendingSlot :
               ~Holds(pendingRelays[n][i], rx[n][k + 1].origin, rx[n][k + 1].seq)
      BY <3>1 DEF IInv, DirectFirst
    <3>3. \A j \in 1 .. k - 1 : rx'[n][j] = rx[n][j + 1] /\ j + 1 \in 1 .. k
      BY <1>3, <2>2
    <3>4. ~SameKey(f, rx[n][k + 1])
      BY <1>1, <3>2
    <3>5. ASSUME NEW i \in PendingSlot
          PROVE  ~Holds(pendingRelays'[n][i], rx[n][k + 1].origin, rx[n][k + 1].seq)
      <4>1. CASE pendingRelays'[n][i] \in {pendingRelays[n][i], Idle}
        BY <3>2, <4>1 DEF Holds, Idle
      <4>2. CASE pendingRelays'[n][i] = ForwardOf(f)
        BY <1>5, <3>4, <4>2 DEF Holds, SameKey
      <4>. QED
        BY <1>2, <4>1, <4>2
    <3>. QED
      BY <2>2, <3>1, <3>2, <3>3, <3>5
  <2>. QED
    BY <2>1, <2>2
<1>8. NoDuplicatePending'
  <2>. SUFFICES ASSUME NEW m \in Node, NEW i \in PendingSlot, NEW j \in PendingSlot,
                       pendingRelays'[m][i].active,
                       Holds(pendingRelays'[m][j], pendingRelays'[m][i].origin,
                             pendingRelays'[m][i].seq)
                PROVE  i = j
    BY DEF NoDuplicatePending, Holds
  <2>1. CASE /\ pendingRelays'[m][i] \in {pendingRelays[m][i], Idle}
             /\ pendingRelays'[m][j] \in {pendingRelays[m][j], Idle}
    BY <2>1 DEF IInv, NoDuplicatePending, Holds, Idle
  <2>2. CASE m = n /\ \E new \in PendingSlot :
                 /\ pendingRelays'[n][new] = ForwardOf(f)
                 /\ \A x \in PendingSlot \ {new} :
                      /\ pendingRelays'[n][x] \in {pendingRelays[n][x], Idle}
                      /\ f.relay => ~Holds(pendingRelays'[n][x], f.origin, f.seq)
    <3>1. PICK new \in PendingSlot :
                 /\ pendingRelays'[n][new] = ForwardOf(f)
                 /\ \A x \in PendingSlot \ {new} :
                      /\ pendingRelays'[n][x] \in {pendingRelays[n][x], Idle}
                      /\ f.relay => ~Holds(pendingRelays'[n][x], f.origin, f.seq)
      BY <2>2
    <3>2. \A x \in PendingSlot \ {new} : ~Holds(pendingRelays'[n][x], f.origin, f.seq)
      <4>1. CASE f.relay
        BY <3>1, <4>1
      <4>2. CASE ~f.relay
        <5>1. \A x \in PendingSlot : ~Holds(pendingRelays[n][x], f.origin, f.seq)
          BY <1>1, <4>2 DEF IInv, DirectFirst
        <5>. QED
          BY <3>1, <5>1 DEF Holds, Idle
      <4>. QED
        BY <4>1, <4>2
    <3>3. CASE i # new /\ j # new
      BY <2>1, <2>2, <3>1, <3>3
    <3>4. CASE i = new /\ j # new
      BY <1>5, <2>2, <3>1, <3>2, <3>4 DEF Holds
    <3>5. CASE i # new /\ j = new
      BY <1>5, <2>2, <3>1, <3>2, <3>5 DEF Holds
    <3>. QED
      BY <3>3, <3>4, <3>5
  <2>. QED
    BY <1>2, <2>1, <2>2
<1>. QED
  BY <1>6, <1>7, <1>8 DEF IInv

LEMMA RebootInv ==
  ASSUME TypeOK, IInv, NEW n \in Node, Reboot(n)
  PROVE  IInv'
<1>1. /\ \A x \in Node \ {n} : /\ rx'[x] = rx[x]
                               /\ pendingRelays'[x] = pendingRelays[x]
                               /\ boots'[x] = boots[x]
                               /\ mediaSyncSeq'[x] = mediaSyncSeq[x]
      /\ rx'[n] = <<>> /\ \A i \in PendingSlot : pendingRelays'[n][i] = Idle
  BY DEF TypeOK, Reboot
<1>2. \A k : k \notin 1 .. Len(rx'[n])
  BY <1>1
<1>3. ASSUME NEW x \in Node \ {n}, NEW k \in 1 .. Len(rx[x])
      PROVE  /\ GenuineUnder(rx[x][k], boots', mediaSyncSeq')
             /\ rx[x][k].relay <=> rx[x][k].hop > 0
  <2>1. rx[x][k] \in Frame
    BY ElementOfSeq DEF TypeOK
  <2>2. rx[x][k].origin \in Node \ {n}
    BY <2>1 DEF Reboot, InFlight, Frame
  <2>. QED
    BY <1>1, <2>2 DEF IInv, CopiesAreGenuine, Genuine, GenuineUnder
<1>4. ASSUME NEW x \in Node \ {n}, NEW i \in PendingSlot, pendingRelays[x][i].active
      PROVE  GenuineUnder(pendingRelays[x][i], boots', mediaSyncSeq')
  <2>1. pendingRelays[x][i] \in PendingRelay
    BY <1>4 DEF TypeOK, Idle
  <2>2. pendingRelays[x][i].origin \in Node \ {n}
    BY <1>4, <2>1, PendingFields DEF Reboot, InFlight
  <2>. QED
    BY <1>1, <1>4, <2>2 DEF IInv, CopiesAreGenuine, Genuine, GenuineUnder
<1>5. CopiesAreGenuine'
  BY <1>1, <1>2, <1>3, <1>4 DEF IInv, CopiesAreGenuine, Genuine, GenuineUnder, Idle
<1>6. DirectFirst'
  BY <1>1, <1>2 DEF IInv, DirectFirst
<1>7. NoDuplicatePending'
  BY <1>1 DEF IInv, NoDuplicatePending, Holds, Idle
<1>. QED
  BY <1>5, <1>6, <1>7 DEF IInv

-----------------------------------------------------------------------------
LEMMA InvariantHolds == Spec => []IInv
<1>1. TypeOK /\ IInv /\ [Next]_vars => IInv'
  <2>. SUFFICES ASSUME TypeOK, IInv, [Next]_vars PROVE IInv'
    OBVIOUS
  <2>1. CASE \E o \in Master : Mint(o)
    BY <2>1, MintInv
  <2>2. CASE \E n \in Node : Receive(n)
    BY <2>2, ReceiveInv
  <2>3. CASE \E n \in Node : \E i \in PendingSlot : Forward(n, i)
    BY <2>3, ForwardInv
  <2>4. CASE \E n \in Node : Reboot(n)
    BY <2>4, RebootInv
  <2>5. CASE UNCHANGED vars
    BY <2>5 DEF vars, IInv, CopiesAreGenuine, DirectFirst, NoDuplicatePending,
                Genuine, SameKey, Holds
  <2>. QED
    BY <2>1, <2>2, <2>3, <2>4, <2>5 DEF Next
<1>. QED
  BY InitInv, <1>1, TypeCorrect, PTL DEF Spec

\* Every copy in flight anywhere is the packet its origin minted under that seq.
THEOREM CopiesStayGenuine == Spec => []CopiesAreGenuine
BY InvariantHolds, PTL DEF IInv

\* No node ever holds two pending forwards of one (origin, seq).
THEOREM NoDuplicateForwards == Spec => []NoDuplicatePending
BY InvariantHolds, PTL DEF IInv

=============================================================================
