---------------------------- MODULE UsbOutProofs -----------------------------
(***************************************************************************)
(* What UsbOut guarantees for every size of the queue and of the USB       *)
(* stack's FIFO, every length of a frame and every drop time.              *)
(***************************************************************************)
EXTENDS UsbOut, SequenceTheorems, TLAPS

SomePacket == FramePacket \union {Loose}
JobOf(t) == {Idle} \union [kind : Sends[t], part : 1 .. FrameLength, linked : BOOLEAN]

TInv == TypeOK /\ DOMAIN job = Task

\* How long packets have waited, by what the pump knows of the stall.
WaitedByStall ==
  /\ stall = Flowing => waited <= 1
  /\ stall # Flowing => waited <= stall + 1
  /\ pumped /\ (stall = Flowing \/ stall > USB_STALL_DROP) => waited = 0

IInv == TInv /\ WaitedByStall

-----------------------------------------------------------------------------
(* Queues and jobs. *)

LEMMA Appended ==
  ASSUME NEW S, NEW s \in Seq(S), NEW x \in S
  PROVE  Append(s, x) \in Seq(S) /\ Len(Append(s, x)) = Len(s) + 1
BY AppendProperties

LEMMA Shortened ==
  ASSUME NEW S, NEW s \in Seq(S), s # <<>>
  PROVE  /\ Tail(s) \in Seq(S) /\ Head(s) \in S /\ Len(Tail(s)) = Len(s) - 1
         /\ Len(s) \in Nat
BY HeadTailProperties, LenProperties

LEMMA PutBack ==
  ASSUME NEW S, NEW s \in Seq(S), NEW h \in Seq(S), NEW n \in Nat,
         Len(h) <= 1, Len(s) < n
  PROVE  h \o s \in Seq(S) /\ Len(h \o s) <= n
<1>1. h \o s \in Seq(S) /\ Len(h \o s) = Len(h) + Len(s)
  BY ConcatProperties
<1>2. Len(h) \in Nat /\ Len(s) \in Nat
  BY LenProperties
<1>. QED
  BY <1>1, <1>2

LEMMA EmptyQueue ==
  /\ <<>> \in Seq(SomePacket) /\ Len(<<>>) = 0 /\ Len(<<>>) <= QueuePackets
  /\ queue \in Seq(SomePacket) /\ Len(queue) < QueuePackets => Len(queue) + 1 <= QueuePackets
<1>1. <<>> \in Seq(SomePacket) /\ Len(<<>>) = 0
  BY EmptySeq
<1>2. queue \in Seq(SomePacket) => Len(queue) \in Nat
  BY LenProperties
<1>. QED
  BY <1>1, <1>2, UsbOutAssumption

\* The packet a task queues is one of its frame, or loose.
LEMMA PacketType ==
  ASSUME TInv, NEW t \in Task, job[t] # Idle
  PROVE  Packet(t) \in SomePacket
<1>1. job[t] \in [kind : Sends[t], part : 1 .. FrameLength, linked : BOOLEAN]
  BY DEF TInv, TypeOK
<1>2. CASE job[t].kind \in Framed
  <2>1. Packet(t) = [task |-> t, part |-> job[t].part, linked |-> job[t].linked]
    BY <1>2 DEF Packet
  <2>2. [task |-> t, part |-> job[t].part, linked |-> job[t].linked] \in FramePacket
    BY <1>1 DEF FramePacket
  <2>. QED
    BY <2>1, <2>2 DEF SomePacket
<1>3. CASE job[t].kind \notin Framed
  BY <1>3 DEF Packet, SomePacket
<1>. QED
  BY <1>2, <1>3

\* A frame one packet further.
LEMMA NextPartType ==
  ASSUME NEW t, NEW K, NEW queued, job[t].part + 1 \in 1 .. FrameLength,
         job[t] \in [kind : K, part : 1 .. FrameLength, linked : BOOLEAN]
  PROVE  NextPart(t, queued) \in [kind : K, part : 1 .. FrameLength, linked : BOOLEAN]
<1>1. ASSUME NEW b \in BOOLEAN
      PROVE  [job[t] EXCEPT !.part = @ + 1, !.linked = b]
               \in [kind : K, part : 1 .. FrameLength, linked : BOOLEAN]
  OBVIOUS
<1>2. (queued /\ job[t].kind \in Framed) \in BOOLEAN
  BY Zenon
<1>. QED
  BY <1>1, <1>2, Zenon DEF NextPart

\* The variables a step on the jobs leaves alone.
LEMMA JobsAlone ==
  ASSUME IInv, UNCHANGED <<hand, stall, room, lastOut, waited, pumped>>,
         queue' \in Seq(SomePacket), Len(queue') <= QueuePackets,
         holder' \in Task \union {NoTask}, DOMAIN job' = Task,
         \A t \in Task : job'[t] \in JobOf(t)
  PROVE  IInv'
<1>1. TypeOK'
  BY DEF IInv, TInv, TypeOK, SomePacket, JobOf
<1>2. WaitedByStall'
  BY DEF IInv, WaitedByStall
<1>. QED
  BY <1>1, <1>2 DEF IInv, TInv

\* The variables a step of the pump or of time leaves alone.
LEMMA PumpAlone ==
  ASSUME IInv, UNCHANGED <<holder, job>>,
         queue' \in Seq(SomePacket), Len(queue') <= QueuePackets,
         hand' \in Seq(SomePacket), Len(hand') <= 1,
         stall' \in Flowing .. USB_STALL_DROP + 1, room' \in 0 .. FifoPackets,
         lastOut' \in FramePacket \union {Cut}, waited' \in 0 .. USB_STALL_DROP + 3,
         pumped' \in BOOLEAN
  PROVE  TInv'
BY DEF IInv, TInv, TypeOK, SomePacket

-----------------------------------------------------------------------------
(* The invariant. *)

LEMMA InitInv == Init => IInv
<1>. SUFFICES ASSUME Init PROVE IInv
  OBVIOUS
<1>1. queue \in Seq(SomePacket) /\ Len(queue) <= QueuePackets
  BY EmptyQueue DEF Init
<1>2. hand \in Seq(SomePacket) /\ Len(hand) <= 1
  BY EmptyQueue DEF Init, Nothing
<1>3. holder \in Task \union {NoTask} /\ (\A t \in Task : job[t] = Idle) /\ DOMAIN job = Task
  BY DEF Init
<1>4. /\ stall \in Flowing .. USB_STALL_DROP + 1 /\ room \in 0 .. FifoPackets
      /\ waited \in 0 .. USB_STALL_DROP + 3
  BY UsbOutAssumption DEF Init, Flowing
<1>5. lastOut \in FramePacket \union {Cut} /\ pumped \in BOOLEAN
  BY DEF Init
<1>6. WaitedByStall
  BY DEF Init, WaitedByStall
<1>. QED
  BY <1>1, <1>2, <1>3, <1>4, <1>5, <1>6 DEF IInv, TInv, TypeOK, SomePacket

LEMMA SendKeeps ==
  ASSUME IInv, NEW t \in Task, NEW kind \in Sends[t], Send(t, kind)
  PROVE  IInv'
<1>. DEFINE next == [kind |-> kind, part |-> 1, linked |-> FALSE]
<1>1. next \in [kind : Sends[t], part : 1 .. FrameLength, linked : BOOLEAN]
  BY UsbOutAssumption
<1>2. job' = [job EXCEPT ![t] = next]
  BY DEF Send
<1>. HIDE DEF next
<1>3. DOMAIN job' = Task /\ \A u \in Task : job'[u] \in JobOf(u)
  BY <1>1, <1>2 DEF IInv, TInv, TypeOK, JobOf
<1>4. holder' \in Task \union {NoTask}
  BY DEF Send, IInv, TInv, TypeOK
<1>5. queue' \in Seq(SomePacket) /\ Len(queue') <= QueuePackets
  BY DEF Send, IInv, TInv, TypeOK, SomePacket
<1>6. UNCHANGED <<hand, stall, room, lastOut, waited, pumped>>
  BY DEF Send
<1>. QED
  BY <1>3, <1>4, <1>5, <1>6, JobsAlone

LEMMA LockKeeps ==
  ASSUME IInv, NEW t \in Task, usbOutLock(t)
  PROVE  IInv'
<1>1. holder' \in Task \union {NoTask}
  BY DEF usbOutLock
<1>2. UNCHANGED <<queue, job, hand, stall, room, lastOut, waited, pumped>>
  BY DEF usbOutLock
<1>3. DOMAIN job' = Task /\ \A u \in Task : job'[u] \in JobOf(u)
  BY <1>2 DEF IInv, TInv, TypeOK, JobOf
<1>4. queue' \in Seq(SomePacket) /\ Len(queue') <= QueuePackets
  BY <1>2 DEF IInv, TInv, TypeOK, SomePacket
<1>. QED
  BY <1>1, <1>2, <1>3, <1>4, JobsAlone

LEMMA SingleKeeps ==
  ASSUME IInv, NEW t \in Task, midiSendCC(t)
  PROVE  IInv'
<1>1. UNCHANGED <<holder, job, hand, stall, room, lastOut, waited, pumped>>
  BY DEF midiSendCC
<1>2. queue \in Seq(SomePacket) /\ Loose \in SomePacket /\ Len(queue) < QueuePackets
  BY DEF midiSendCC, IInv, TInv, TypeOK, SomePacket
<1>3. queue' = Append(queue, Loose)
  BY DEF midiSendCC
<1>4. queue' \in Seq(SomePacket) /\ Len(queue') <= QueuePackets
  BY <1>2, <1>3, Appended, EmptyQueue
<1>5. /\ holder' \in Task \union {NoTask}
      /\ DOMAIN job' = Task /\ \A u \in Task : job'[u] \in JobOf(u)
  BY <1>1 DEF IInv, TInv, TypeOK, JobOf
<1>. QED
  BY <1>1, <1>4, <1>5, JobsAlone

LEMMA FramedKeeps ==
  ASSUME IInv, NEW t \in Task, usbOutMidi(t)
  PROVE  IInv'
<1>. DEFINE queued == Len(queue) < QueuePackets
            ends == Ends(t, queued)
            next == IF ends THEN Idle ELSE NextPart(t, queued)
<1>1. /\ job[t] # Idle
      /\ UNCHANGED <<hand, stall, room, lastOut, waited, pumped>>
  BY DEF usbOutMidi
<1>2. queue' = IF queued THEN Append(queue, Packet(t)) ELSE queue
  BY DEF usbOutMidi
<1>3. job' = [job EXCEPT ![t] = next]
  BY DEF usbOutMidi
<1>4. holder' = IF ends /\ holder = t THEN NoTask ELSE holder
  BY DEF usbOutMidi
<1>5. job[t] \in [kind : Sends[t], part : 1 .. FrameLength, linked : BOOLEAN]
  BY <1>1 DEF IInv, TInv, TypeOK
<1>6. next \in JobOf(t)
  <2>1. CASE ends
    BY <2>1 DEF JobOf
  <2>2. CASE ~ends
    <3>1. job[t].part # FrameLength
      BY <2>2 DEF Ends
    <3>2. job[t].part + 1 \in 1 .. FrameLength
      BY <1>5, <3>1, UsbOutAssumption
    <3>3. NextPart(t, queued) \in [kind : Sends[t], part : 1 .. FrameLength, linked : BOOLEAN]
      BY <1>5, <3>2, NextPartType, Zenon
    <3>. QED
      BY <2>2, <3>3 DEF JobOf
  <2>. QED
    BY <2>1, <2>2
<1>7. queue \in Seq(SomePacket) /\ Len(queue) <= QueuePackets
  BY DEF IInv, TInv, TypeOK, SomePacket
<1>8. queue' \in Seq(SomePacket) /\ Len(queue') <= QueuePackets
  <2>1. Packet(t) \in SomePacket
    BY <1>1, PacketType DEF IInv
  <2>. QED
    BY <1>2, <1>7, <2>1, Appended, EmptyQueue
<1>9. holder' \in Task \union {NoTask}
  BY <1>4 DEF IInv, TInv, TypeOK
<1>. HIDE DEF next
<1>10. DOMAIN job' = Task /\ \A u \in Task : job'[u] \in JobOf(u)
  BY <1>3, <1>6 DEF IInv, TInv, TypeOK, JobOf
<1>. QED
  BY <1>1, <1>8, <1>9, <1>10, JobsAlone

\* What hand and queue hold.
LEMMA PumpQueues ==
  ASSUME IInv
  PROVE  /\ queue \in Seq(SomePacket) /\ Len(queue) <= QueuePackets /\ Len(queue) \in Nat
         /\ hand \in Seq(SomePacket) /\ Len(hand) <= 1
         /\ hand # <<>> => hand[1] \in SomePacket
         /\ <<>> \in Seq(SomePacket) /\ Len(<<>>) <= 1 /\ Len(<<>>) <= QueuePackets
         /\ QueuePackets \in Nat
<1>1. /\ queue \in Seq(SomePacket) /\ Len(queue) <= QueuePackets
      /\ hand \in Seq(SomePacket) /\ Len(hand) <= 1
  BY DEF IInv, TInv, TypeOK, SomePacket
<1>2. Len(queue) \in Nat /\ <<>> \in Seq(SomePacket) /\ Len(<<>>) = 0
  BY <1>1, LenProperties, EmptySeq
<1>3. hand # <<>> => hand[1] \in SomePacket
  BY <1>1, Shortened
<1>. QED
  BY <1>1, <1>2, <1>3, UsbOutAssumption

LEMMA TakeKeeps ==
  ASSUME IInv, PumpTake
  PROVE  IInv'
<1>1. /\ queue # <<>> /\ hand' = <<Head(queue)>> /\ queue' = Tail(queue)
      /\ UNCHANGED <<holder, job, stall, room, lastOut, waited, pumped>>
  BY DEF PumpTake
<1>2. Head(queue) \in SomePacket /\ Tail(queue) \in Seq(SomePacket) /\ Len(Tail(queue)) <= QueuePackets
  BY <1>1, PumpQueues, Shortened
<1>3. hand' \in Seq(SomePacket) /\ Len(hand') <= 1
  BY <1>1, <1>2
<1>4. /\ stall' \in Flowing .. USB_STALL_DROP + 1 /\ room' \in 0 .. FifoPackets
      /\ lastOut' \in FramePacket \union {Cut} /\ waited' \in 0 .. USB_STALL_DROP + 3
      /\ pumped' \in BOOLEAN
  BY <1>1 DEF IInv, TInv, TypeOK
<1>5. TInv'
  BY <1>1, <1>2, <1>3, <1>4, PumpAlone
<1>6. WaitedByStall'
  BY <1>1 DEF IInv, WaitedByStall
<1>. QED
  BY <1>5, <1>6 DEF IInv

LEMMA WriteKeeps ==
  ASSUME IInv, PumpWrite
  PROVE  IInv'
<1>1. /\ hand # <<>> /\ room > 0 /\ room' = room - 1 /\ hand' = <<>> /\ stall' = Flowing
      /\ lastOut' = IF hand[1] = Loose THEN lastOut ELSE hand[1]
      /\ waited' = 0
      /\ UNCHANGED <<queue, holder, job>>
  BY DEF PumpWrite, Nothing
<1>2. pumped' \in BOOLEAN
  BY Zenon DEF PumpWrite
<1>3. /\ stall' \in Flowing .. USB_STALL_DROP + 1 /\ waited' \in 0 .. USB_STALL_DROP + 3
      /\ room' \in 0 .. FifoPackets
  BY <1>1, UsbOutAssumption DEF Flowing, IInv, TInv, TypeOK
<1>4. lastOut' \in FramePacket \union {Cut}
  BY <1>1, PumpQueues DEF IInv, TInv, TypeOK, SomePacket
<1>5. TInv'
  BY <1>1, <1>2, <1>3, <1>4, PumpQueues, PumpAlone
<1>6. WaitedByStall'
  BY <1>1 DEF WaitedByStall
<1>. QED
  BY <1>5, <1>6 DEF IInv

LEMMA FailKeeps ==
  ASSUME IInv, PumpFail
  PROVE  IInv'
<1>1. /\ hand' = <<>> /\ pumped' = TRUE
      /\ stall' = IF stall = Flowing THEN 0 ELSE stall
      /\ queue' = IF Stale THEN <<>> ELSE SentToFront
      /\ waited' = IF Stale THEN 0 ELSE waited
      /\ UNCHANGED <<holder, job, room>>
  BY DEF PumpFail, Nothing
<1>2. lastOut' \in FramePacket \union {Cut}
  BY DEF PumpFail, IInv, TInv, TypeOK
<1>3. /\ stall \in Flowing .. USB_STALL_DROP + 1 /\ waited \in 0 .. USB_STALL_DROP + 3
      /\ USB_STALL_DROP \in Nat /\ room \in 0 .. FifoPackets
  BY UsbOutAssumption DEF IInv, TInv, TypeOK
<1>4. stall' \in Flowing .. USB_STALL_DROP + 1 /\ waited' \in 0 .. USB_STALL_DROP + 3
  BY <1>1, <1>3 DEF Flowing
<1>5. queue' \in Seq(SomePacket) /\ Len(queue') <= QueuePackets
  <2>1. CASE Len(queue) < QueuePackets
    BY <1>1, <2>1, PumpQueues, PutBack DEF SentToFront
  <2>2. CASE ~(Len(queue) < QueuePackets)
    BY <1>1, <2>2, PumpQueues DEF SentToFront
  <2>. QED
    BY <2>1, <2>2
<1>6. TInv'
  BY <1>1, <1>2, <1>3, <1>4, <1>5, PumpQueues, PumpAlone
<1>7. WaitedByStall'
  BY <1>1, <1>3 DEF IInv, WaitedByStall, Stale, Flowing
<1>. QED
  BY <1>6, <1>7 DEF IInv

LEMMA ReadKeeps ==
  ASSUME IInv, HostReads
  PROVE  IInv'
<1>1. /\ room' = FifoPackets /\ waited' = 0
      /\ UNCHANGED <<queue, holder, job, hand, stall, lastOut, pumped>>
  BY DEF HostReads
<1>2. /\ stall' \in Flowing .. USB_STALL_DROP + 1 /\ waited' \in 0 .. USB_STALL_DROP + 3
      /\ room' \in 0 .. FifoPackets
  BY <1>1, UsbOutAssumption DEF IInv, TInv, TypeOK
<1>3. lastOut' \in FramePacket \union {Cut} /\ pumped' \in BOOLEAN
  BY <1>1 DEF IInv, TInv, TypeOK
<1>4. TInv'
  BY <1>1, <1>2, <1>3, PumpQueues, PumpAlone
<1>5. WaitedByStall'
  BY <1>1, <1>2, UsbOutAssumption DEF WaitedByStall, Flowing
<1>. QED
  BY <1>4, <1>5 DEF IInv

LEMMA TickKeeps ==
  ASSUME IInv, Tick
  PROVE  IInv'
<1>1. /\ pumped \/ queue = <<>>
      /\ pumped' = FALSE
      /\ stall' = IF stall = Flowing \/ stall > USB_STALL_DROP THEN stall ELSE stall + 1
      /\ waited' = IF queue = <<>> THEN 0
                   ELSE IF waited > USB_STALL_DROP + 2 THEN waited ELSE waited + 1
      /\ UNCHANGED <<queue, holder, job, hand, room, lastOut>>
  BY DEF Tick
<1>2. /\ stall \in Flowing .. USB_STALL_DROP + 1 /\ waited \in 0 .. USB_STALL_DROP + 3
      /\ USB_STALL_DROP \in Nat
  BY UsbOutAssumption DEF IInv, TInv, TypeOK
<1>3. stall' \in Flowing .. USB_STALL_DROP + 1 /\ waited' \in 0 .. USB_STALL_DROP + 3
  BY <1>1, <1>2 DEF Flowing
<1>4. lastOut' \in FramePacket \union {Cut} /\ pumped' \in BOOLEAN /\ room' \in 0 .. FifoPackets
  BY <1>1 DEF IInv, TInv, TypeOK
<1>5. TInv'
  BY <1>1, <1>3, <1>4, PumpQueues, PumpAlone
<1>6. WaitedByStall'
  <2>1. CASE queue = <<>>
    BY <1>1, <1>2, <2>1 DEF WaitedByStall, Flowing
  <2>2. CASE queue # <<>>
    <3>1. pumped /\ waited' <= waited + 1
      BY <1>1, <1>2, <2>2
    <3>2. CASE stall = Flowing \/ stall > USB_STALL_DROP
      <4>1. waited = 0 /\ stall' = stall
        BY <1>1, <3>1, <3>2 DEF IInv, WaitedByStall
      <4>. QED
        BY <1>1, <1>2, <3>1, <3>2, <4>1 DEF WaitedByStall, Flowing
    <3>3. CASE ~(stall = Flowing \/ stall > USB_STALL_DROP)
      <4>1. stall' = stall + 1 /\ waited <= stall + 1
        BY <1>1, <3>3 DEF IInv, WaitedByStall
      <4>. QED
        BY <1>1, <1>2, <3>1, <3>3, <4>1 DEF WaitedByStall, Flowing
    <3>. QED
      BY <3>2, <3>3
  <2>. QED
    BY <2>1, <2>2
<1>. QED
  BY <1>5, <1>6 DEF IInv

LEMMA NextKeeps == IInv /\ [Next]_vars => IInv'
<1>. SUFFICES ASSUME IInv, [Next]_vars PROVE IInv'
  OBVIOUS
<1>1. ASSUME NEW t \in Task, NEW kind \in Sends[t], Send(t, kind) PROVE IInv'
  BY <1>1, SendKeeps
<1>2. ASSUME NEW t \in Task, usbOutLock(t) \/ midiSendCC(t) \/ usbOutMidi(t) PROVE IInv'
  BY <1>2, LockKeeps, SingleKeeps, FramedKeeps
<1>3. CASE UNCHANGED vars
  BY <1>3 DEF vars, IInv, TInv, TypeOK, WaitedByStall
<1>. QED
  BY <1>1, <1>2, <1>3, TakeKeeps, WriteKeeps, FailKeeps, ReadKeeps, TickKeeps DEF Next

LEMMA Inductive == Spec => []IInv
<1>1. Init => IInv
  BY InitInv
<1>2. IInv /\ [Next]_vars => IInv'
  BY NextKeeps
<1>. QED
  BY <1>1, <1>2, PTL DEF Spec

-----------------------------------------------------------------------------
(* The theorems. *)

\* The queue never outgrows its storage, the lock has one holder, and every
\* packet queued, held or sent is one of a message's.
THEOREM TypeCorrect == Spec => []TypeOK
<1>1. IInv => TypeOK
  BY DEF IInv, TInv
<1>. QED
  BY <1>1, Inductive, PTL

\* usbOutPump (src/src/usb_out.cpp:144): packets for a host that does not read
\* never wait for longer than the drop time and the two units that notice it.
THEOREM StaleIsDropped == Spec => []NoGhostStream
<1>1. IInv => NoGhostStream
  <2>. SUFFICES ASSUME IInv PROVE NoGhostStream
    OBVIOUS
  <2>1. /\ stall \in Flowing .. USB_STALL_DROP + 1 /\ waited \in 0 .. USB_STALL_DROP + 3
        /\ USB_STALL_DROP \in Nat
    BY UsbOutAssumption DEF IInv, TInv, TypeOK
  <2>2. (stall = Flowing => waited <= 1) /\ (stall # Flowing => waited <= stall + 1)
    BY DEF IInv, WaitedByStall
  <2>. QED
    BY <2>1, <2>2 DEF NoGhostStream, Flowing
<1>. QED
  BY <1>1, Inductive, PTL

-----------------------------------------------------------------------------
(* The frame lock keeps frames whole. *)

LinePacket == SomePacket \union {Cut}

\* The last packet of s that is not loose may stand before part n of t.
Awaits(s, t, n) ==
  \A i \in 1 .. Len(s) : Neighbours(s, i, Len(s) + 1) => Precedes(s[i], t, n)

\* A task in the middle of a frame has the lock, and nobody has queued a
\* packet of another frame since its last one.
MidFrame ==
  \A t \in Task :
    job[t] # Idle /\ job[t].linked =>
      job[t].kind \in Framed /\ holder = t /\ Awaits(Line, t, job[t].part)

FInv == Contiguous(Line) /\ MidFrame

-----------------------------------------------------------------------------
(* Lines of packets. *)

LEMMA AppendedLine ==
  ASSUME NEW s \in Seq(LinePacket), NEW x \in LinePacket, Contiguous(s),
         x.linked => Awaits(s, x.task, x.part)
  PROVE  Contiguous(Append(s, x))
<1>. DEFINE r == Append(s, x)
<1>1. /\ Len(s) \in Nat /\ Len(r) = Len(s) + 1 /\ r[Len(s) + 1] = x
      /\ \A i \in 1 .. Len(s) : r[i] = s[i]
  BY AppendProperties, LenProperties
<1>. HIDE DEF r
<1>. SUFFICES ASSUME NEW j \in 1 .. Len(r), NEW i \in 1 .. j - 1,
                     r[j].linked, Neighbours(r, i, j)
              PROVE  Precedes(r[i], r[j].task, r[j].part)
  BY DEF Contiguous, r
<1>2. Neighbours(s, i, j) /\ r[i] = s[i] /\ i \in 1 .. Len(s)
  BY <1>1 DEF Neighbours
<1>3. CASE j \in 1 .. Len(s)
  BY <1>1, <1>2, <1>3 DEF Contiguous
<1>4. CASE j = Len(s) + 1
  BY <1>1, <1>2, <1>4 DEF Awaits
<1>. QED
  BY <1>1, <1>3, <1>4

LEMMA AwaitsNext ==
  ASSUME NEW s \in Seq(LinePacket), NEW x \in LinePacket, NEW t, NEW n,
         IF x = Loose THEN Awaits(s, t, n) ELSE Precedes(x, t, n)
  PROVE  Awaits(Append(s, x), t, n)
<1>. DEFINE r == Append(s, x)
<1>1. /\ Len(s) \in Nat /\ Len(r) = Len(s) + 1 /\ r[Len(s) + 1] = x
      /\ \A i \in 1 .. Len(s) : r[i] = s[i]
  BY AppendProperties, LenProperties
<1>. HIDE DEF r
<1>. SUFFICES ASSUME NEW i \in 1 .. Len(r), Neighbours(r, i, Len(r) + 1)
              PROVE  Precedes(r[i], t, n)
  BY DEF Awaits, r
<1>2. CASE i = Len(s) + 1
  BY <1>1, <1>2 DEF Neighbours
<1>3. CASE i \in 1 .. Len(s)
  <2>1. x = Loose
    BY <1>1, <1>3 DEF Neighbours
  <2>2. Neighbours(s, i, Len(s) + 1)
    BY <1>1, <1>3 DEF Neighbours
  <2>. QED
    BY <1>1, <1>3, <2>1, <2>2 DEF Awaits
<1>. QED
  BY <1>1, <1>2, <1>3

\* A line whose first m packets become one: the last of them that is not
\* loose, or the place where they were.
Shortens(s, r, m) ==
  /\ Len(r) = Len(s) - m + 1
  /\ \A i \in 2 .. Len(r) : r[i] = s[i + m - 1]
  /\ \/ r[1] = Cut
     \/ \E i \in 1 .. m : r[1] = s[i] /\ \A k \in i + 1 .. m : s[k] = Loose

LEMMA ShortenedLine ==
  ASSUME NEW s \in Seq(LinePacket), NEW r \in Seq(LinePacket), NEW m \in Nat \ {0},
         m <= Len(s), Shortens(s, r, m), NEW j \in 2 .. Len(r) + 1, NEW i \in 1 .. j - 1,
         Neighbours(r, i, j), r[i] # Cut
  PROVE  \E h \in 1 .. j + m - 2 : s[h] = r[i] /\ Neighbours(s, h, j + m - 1)
<1>1. Len(s) \in Nat /\ Len(r) \in Nat
  BY LenProperties
<1>2. CASE i # 1
  <2>1. i + m - 1 \in 1 .. j + m - 2 /\ s[i + m - 1] = r[i]
    BY <1>1, <1>2 DEF Shortens
  <2>2. ASSUME NEW k \in i + m .. j + m - 2 PROVE s[k] = Loose
    <3>1. k - m + 1 \in i + 1 .. j - 1 /\ k - m + 1 \in 2 .. Len(r)
      BY <1>1, <1>2
    <3>. DEFINE q == k - m + 1
    <3>2. q + m - 1 = k
      OBVIOUS
    <3>. HIDE DEF q
    <3>3. r[q] = s[q + m - 1]
      BY <3>1 DEF Shortens, q
    <3>4. r[q] = Loose
      BY <3>1 DEF Neighbours, q
    <3>. QED
      BY <3>2, <3>3, <3>4
  <2>3. Neighbours(s, i + m - 1, j + m - 1)
    BY <1>1, <2>1, <2>2 DEF Neighbours
  <2>. QED
    BY <2>1, <2>3
<1>3. CASE i = 1
  <2>1. PICK h \in 1 .. m : r[1] = s[h] /\ \A k \in h + 1 .. m : s[k] = Loose
    BY <1>3 DEF Shortens
  <2>2. ASSUME NEW k \in h + 1 .. j + m - 2, k > m PROVE s[k] = Loose
    <3>1. k - m + 1 \in i + 1 .. j - 1 /\ k - m + 1 \in 2 .. Len(r)
      BY <1>1, <1>3, <2>2
    <3>. DEFINE q == k - m + 1
    <3>2. q + m - 1 = k
      OBVIOUS
    <3>. HIDE DEF q
    <3>3. r[q] = s[q + m - 1]
      BY <3>1 DEF Shortens, q
    <3>4. r[q] = Loose
      BY <3>1 DEF Neighbours, q
    <3>. QED
      BY <3>2, <3>3, <3>4
  <2>3. \A k \in h + 1 .. j + m - 2 : s[k] = Loose
    BY <2>1, <2>2
  <2>4. Neighbours(s, h, j + m - 1)
    BY <1>1, <1>3, <2>1, <2>3 DEF Neighbours
  <2>5. h \in 1 .. j + m - 2
    OBVIOUS
  <2>. QED
    BY <1>3, <2>1, <2>4, <2>5
<1>. QED
  BY <1>2, <1>3

LEMMA ShortenedContiguous ==
  ASSUME NEW s \in Seq(LinePacket), NEW r \in Seq(LinePacket), NEW m \in Nat \ {0},
         m <= Len(s), Shortens(s, r, m), Contiguous(s)
  PROVE  Contiguous(r)
<1>1. Len(s) \in Nat /\ Len(r) \in Nat
  BY LenProperties
<1>. SUFFICES ASSUME NEW j \in 1 .. Len(r), NEW i \in 1 .. j - 1,
                     r[j].linked, Neighbours(r, i, j), r[i] # Cut
              PROVE  Precedes(r[i], r[j].task, r[j].part)
  BY DEF Contiguous, Precedes
<1>2. j \in 2 .. Len(r) /\ r[j] = s[j + m - 1] /\ j + m - 1 \in 1 .. Len(s)
  <2>1. j \in 2 .. Len(r)
    BY <1>1
  <2>2. r[j] = s[j + m - 1] /\ Len(r) = Len(s) - m + 1
    BY <2>1 DEF Shortens
  <2>. QED
    BY <1>1, <2>1, <2>2
<1>3. PICK h \in 1 .. j + m - 2 : s[h] = r[i] /\ Neighbours(s, h, j + m - 1)
  BY <1>1, <1>2, ShortenedLine
<1>4. h \in 1 .. (j + m - 1) - 1
  BY <1>1, <1>2
<1>. QED
  BY <1>2, <1>3, <1>4 DEF Contiguous

LEMMA ShortenedAwaits ==
  ASSUME NEW s \in Seq(LinePacket), NEW r \in Seq(LinePacket), NEW m \in Nat \ {0},
         m <= Len(s), Shortens(s, r, m), NEW t, NEW n, Awaits(s, t, n)
  PROVE  Awaits(r, t, n)
<1>1. Len(s) \in Nat /\ Len(r) \in Nat
  BY LenProperties
<1>. SUFFICES ASSUME NEW i \in 1 .. Len(r), Neighbours(r, i, Len(r) + 1), r[i] # Cut
              PROVE  Precedes(r[i], t, n)
  BY DEF Awaits, Precedes
<1>2. Len(r) + 1 \in 2 .. Len(r) + 1 /\ i \in 1 .. (Len(r) + 1) - 1
  BY <1>1
<1>3. PICK h \in 1 .. (Len(r) + 1) + m - 2 : s[h] = r[i] /\ Neighbours(s, h, (Len(r) + 1) + m - 1)
  BY <1>2, ShortenedLine
<1>4. (Len(r) + 1) + m - 1 = Len(s) + 1 /\ h \in 1 .. Len(s)
  BY <1>1 DEF Shortens
<1>. QED
  BY <1>3, <1>4 DEF Awaits

-----------------------------------------------------------------------------
(* The steps. *)

LEMMA LineType ==
  ASSUME TInv
  PROVE  /\ queue \in Seq(LinePacket) /\ hand \in Seq(LinePacket)
         /\ Line \in Seq(LinePacket)
         /\ Len(queue) \in Nat /\ Len(hand) \in Nat
         /\ Len(Line) = Len(hand) + Len(queue) + 1
<1>1. queue \in Seq(LinePacket) /\ hand \in Seq(LinePacket)
  <2>1. queue \in Seq(SomePacket) /\ hand \in Seq(SomePacket)
    BY DEF TInv, TypeOK, SomePacket
  <2>. QED
    BY <2>1, SeqMonotonic DEF LinePacket
<1>2. lastOut \in LinePacket
  BY DEF TInv, TypeOK, SomePacket, LinePacket
<1>3. <<lastOut>> \in Seq(LinePacket) /\ Len(<<lastOut>>) = 1
  BY <1>2
<1>4. /\ hand \o queue \in Seq(LinePacket) /\ Len(hand \o queue) = Len(hand) + Len(queue)
      /\ Len(queue) \in Nat /\ Len(hand) \in Nat
  BY <1>1, ConcatProperties, LenProperties
<1>. QED
  BY <1>1, <1>3, <1>4, ConcatProperties DEF Line

\* Where the packets of a line are.
LEMMA LineAt ==
  ASSUME NEW a \in LinePacket, NEW h \in Seq(LinePacket), NEW q \in Seq(LinePacket)
  PROVE  LET s == <<a>> \o (h \o q)
         IN  /\ s \in Seq(LinePacket) /\ Len(s) = Len(h) + Len(q) + 1
             /\ s[1] = a
             /\ \A i \in 1 .. Len(h) : s[i + 1] = h[i]
             /\ \A i \in 1 .. Len(q) : s[i + Len(h) + 1] = q[i]
<1>1. <<a>> \in Seq(LinePacket) /\ Len(<<a>>) = 1 /\ <<a>>[1] = a
  OBVIOUS
<1>2. /\ h \o q \in Seq(LinePacket) /\ Len(h \o q) = Len(h) + Len(q)
      /\ Len(h) \in Nat /\ Len(q) \in Nat
      /\ \A i \in 1 .. Len(h) + Len(q) :
           (h \o q)[i] = IF i <= Len(h) THEN h[i] ELSE q[i - Len(h)]
  BY ConcatProperties, LenProperties
<1>. DEFINE t == h \o q
            s == <<a>> \o t
<1>3. /\ s \in Seq(LinePacket) /\ Len(s) = 1 + Len(t)
      /\ \A i \in 1 .. 1 + Len(t) : s[i] = IF i <= 1 THEN <<a>>[i] ELSE t[i - 1]
  BY <1>1, <1>2, ConcatProperties
<1>. HIDE DEF s, t
<1>4. s[1] = a
  BY <1>1, <1>2, <1>3 DEF t
<1>5. ASSUME NEW i \in 1 .. Len(h) PROVE s[i + 1] = h[i]
  <2>1. s[i + 1] = t[(i + 1) - 1] /\ (i + 1) - 1 = i
    BY <1>2, <1>3 DEF t
  <2>. QED
    BY <1>2, <2>1 DEF t
<1>6. ASSUME NEW i \in 1 .. Len(q) PROVE s[i + Len(h) + 1] = q[i]
  <2>1. s[i + Len(h) + 1] = t[(i + Len(h) + 1) - 1] /\ (i + Len(h) + 1) - 1 = i + Len(h)
    <3>1. Len(t) = Len(h) + Len(q) /\ Len(h) \in Nat /\ Len(q) \in Nat
      BY <1>2 DEF t
    <3>2. i + Len(h) + 1 \in 1 .. 1 + Len(t) /\ ~(i + Len(h) + 1 <= 1)
      BY <3>1
    <3>3. (i + Len(h) + 1) - 1 = i + Len(h)
      BY <3>1
    <3>. QED
      BY <1>3, <3>2, <3>3
  <2>2. t[i + Len(h)] = q[(i + Len(h)) - Len(h)] /\ (i + Len(h)) - Len(h) = i
    BY <1>2 DEF t
  <2>. QED
    BY <2>1, <2>2
<1>. QED
  BY <1>2, <1>3, <1>4, <1>5, <1>6 DEF s, t

\* A packet queued is the last of the line.
LEMMA QueuedLast ==
  ASSUME TInv, NEW x \in LinePacket, queue' = Append(queue, x), UNCHANGED <<hand, lastOut>>
  PROVE  Line' = Append(Line, x)
<1>1. /\ queue \in Seq(LinePacket) /\ hand \in Seq(LinePacket) /\ Line \in Seq(LinePacket)
      /\ <<lastOut>> \in Seq(LinePacket) /\ <<x>> \in Seq(LinePacket)
  BY LineType DEF TInv, TypeOK, SomePacket, LinePacket
<1>2. hand \o queue \in Seq(LinePacket)
  BY <1>1, ConcatProperties
<1>3. queue' = queue \o <<x>> /\ Append(Line, x) = Line \o <<x>>
  BY <1>1, AppendIsConcat
<1>4. hand \o (queue \o <<x>>) = (hand \o queue) \o <<x>>
  BY <1>1, ConcatAssociative
<1>5. <<lastOut>> \o ((hand \o queue) \o <<x>>) = (<<lastOut>> \o (hand \o queue)) \o <<x>>
  BY <1>1, <1>2, ConcatAssociative
<1>. QED
  BY <1>3, <1>4, <1>5 DEF Line

\* What the pump does to a line.
LEMMA PumpFrames ==
  ASSUME FInv, Line \in Seq(LinePacket), Line' \in Seq(LinePacket), UNCHANGED <<job, holder>>,
         NEW m \in Nat \ {0}, m <= Len(Line), Shortens(Line, Line', m)
  PROVE  FInv'
<1>1. Contiguous(Line')
  BY ShortenedContiguous DEF FInv
<1>2. ASSUME NEW t \in Task, job[t] # Idle, job[t].linked
      PROVE  job[t].kind \in Framed /\ holder = t /\ Awaits(Line', t, job[t].part)
  BY <1>2, ShortenedAwaits DEF FInv, MidFrame
<1>. QED
  BY <1>1, <1>2 DEF FInv, MidFrame, Contiguous, Awaits, Neighbours, Precedes

\* What a sender does that queues nothing.
LEMMA LineKept ==
  ASSUME FInv, UNCHANGED <<queue, hand, lastOut>>,
         \A t \in Task :
           job'[t] # Idle /\ job'[t].linked =>
             job'[t] = job[t] /\ (holder = t => holder' = t)
  PROVE  FInv'
<1>1. Line' = Line
  BY DEF Line
<1>2. ASSUME NEW t \in Task, job'[t] # Idle, job'[t].linked
      PROVE  job'[t].kind \in Framed /\ holder' = t /\ Awaits(Line', t, job'[t].part)
  BY <1>1, <1>2 DEF FInv, MidFrame
<1>. QED
  BY <1>1, <1>2 DEF FInv, MidFrame, Contiguous, Awaits, Neighbours, Precedes

LEMMA SendFrames ==
  ASSUME IInv, FInv, NEW t \in Task, NEW kind \in Sends[t], Send(t, kind)
  PROVE  FInv'
<1>1. /\ job' = [job EXCEPT ![t] = [kind |-> kind, part |-> 1, linked |-> FALSE]]
      /\ UNCHANGED <<queue, hand, lastOut>>
      /\ holder # NoTask => holder' = holder
  BY DEF Send
<1>2. DOMAIN job = Task /\ NoTask \notin Task
  BY DEF IInv, TInv, Task, NoTask
<1>3. ASSUME NEW u \in Task, job'[u] # Idle, job'[u].linked
      PROVE  job'[u] = job[u] /\ (holder = u => holder' = u)
  BY <1>1, <1>2, <1>3
<1>. QED
  BY <1>1, <1>3, LineKept

LEMMA LockFrames ==
  ASSUME IInv, FInv, NEW t \in Task, usbOutLock(t)
  PROVE  FInv'
<1>1. holder = NoTask /\ UNCHANGED <<queue, hand, lastOut, job>>
  BY DEF usbOutLock
<1>2. NoTask \notin Task
  BY DEF Task, NoTask
<1>. QED
  BY <1>1, <1>2, LineKept

LEMMA SingleFrames ==
  ASSUME IInv, FInv, NEW t \in Task, midiSendCC(t)
  PROVE  FInv'
<1>1. queue' = Append(queue, Loose) /\ UNCHANGED <<hand, lastOut, job, holder>>
  BY DEF midiSendCC
<1>2. Loose \in LinePacket /\ ~Loose.linked /\ Line \in Seq(LinePacket)
  BY LineType DEF IInv, LinePacket, SomePacket, Loose
<1>3. Line' = Append(Line, Loose)
  BY <1>1, <1>2, QueuedLast DEF IInv
<1>4. Contiguous(Line')
  BY <1>2, <1>3, AppendedLine DEF FInv
<1>5. ASSUME NEW u \in Task, job[u] # Idle, job[u].linked
      PROVE  job[u].kind \in Framed /\ holder = u /\ Awaits(Line', u, job[u].part)
  BY <1>2, <1>3, <1>5, AwaitsNext DEF FInv, MidFrame
<1>. QED
  BY <1>1, <1>4, <1>5 DEF FInv, MidFrame, Contiguous, Awaits, Neighbours, Precedes

LEMMA MidiFrames ==
  ASSUME IInv, FInv, NEW t \in Task, usbOutMidi(t)
  PROVE  FInv'
<1>. DEFINE queued == Len(queue) < QueuePackets
            ends == Ends(t, queued)
            next == IF ends THEN Idle ELSE NextPart(t, queued)
            x == Packet(t)
<1>1. /\ job[t] # Idle /\ (job[t].kind \in Framed => holder = t)
      /\ UNCHANGED <<hand, lastOut>>
  BY DEF usbOutMidi, Waiting, Locked
<1>2. queue' = IF queued THEN Append(queue, x) ELSE queue
  BY DEF usbOutMidi
<1>3. job' = [job EXCEPT ![t] = next]
  BY DEF usbOutMidi
<1>4. holder' = IF ends /\ holder = t THEN NoTask ELSE holder
  BY DEF usbOutMidi
<1>5. /\ job[t] \in [kind : Sends[t], part : 1 .. FrameLength, linked : BOOLEAN]
      /\ DOMAIN job = Task /\ FrameLength \in Nat
  BY <1>1, UsbOutAssumption DEF IInv, TInv, TypeOK
<1>6. x \in LinePacket
  BY <1>1, PacketType DEF IInv, LinePacket
<1>7. /\ ~ends => /\ next.part = job[t].part + 1
                  /\ next.linked => queued /\ job[t].kind \in Framed
                  /\ next.kind = job[t].kind
      /\ ends => next = Idle
  BY <1>5 DEF NextPart
<1>8. /\ job[t].kind \in Framed =>
           x # Loose /\ x.task = t /\ x.part = job[t].part /\ x.linked = job[t].linked
      /\ job[t].kind \notin Framed => x = Loose
  BY <1>5 DEF Packet, Loose
<1>. HIDE DEF next, ends, x
<1>9. \A u \in Task \ {t} : job'[u] = job[u]
  BY <1>3, <1>5
<1>10. job'[t] = next
  BY <1>3, <1>5
<1>11. ASSUME NEW u \in Task \ {t}, job[u] # Idle, job[u].linked
       PROVE  job[u].kind \in Framed /\ holder = u /\ holder' = u /\ x = Loose
  BY <1>1, <1>4, <1>8, <1>11 DEF FInv, MidFrame
<1>12. CASE ~queued
  <2>1. queue' = queue /\ (next # Idle => ~next.linked)
    BY <1>2, <1>7, <1>12
  <2>2. ASSUME NEW u \in Task, job'[u] # Idle, job'[u].linked
        PROVE  job'[u] = job[u] /\ (holder = u => holder' = u)
    BY <1>9, <1>10, <1>11, <2>1, <2>2
  <2>. QED
    BY <1>1, <2>1, <2>2, LineKept
<1>13. CASE queued
  <2>1. Line' = Append(Line, x) /\ Line \in Seq(LinePacket)
    BY <1>1, <1>2, <1>6, <1>13, QueuedLast, LineType DEF IInv
  <2>2. x.linked => Awaits(Line, x.task, x.part)
    <3>1. ~Loose.linked
      BY DEF Loose
    <3>. QED
      BY <1>1, <1>8, <3>1 DEF FInv, MidFrame
  <2>3. Contiguous(Line')
    BY <1>6, <2>1, <2>2, AppendedLine DEF FInv
  <2>4. ASSUME NEW u \in Task, job'[u] # Idle, job'[u].linked
        PROVE  job'[u].kind \in Framed /\ holder' = u /\ Awaits(Line', u, job'[u].part)
    <3>1. CASE u = t
      <4>1. ~ends /\ job[t].kind \in Framed /\ holder' = t /\ next.part = job[t].part + 1
        BY <1>1, <1>4, <1>7, <1>10, <2>4, <3>1
      <4>2. Precedes(x, t, next.part) /\ x # Loose
        BY <1>8, <4>1 DEF Precedes
      <4>3. Awaits(Line', t, next.part)
        BY <1>6, <2>1, <4>2, AwaitsNext
      <4>. QED
        BY <1>7, <1>10, <3>1, <4>1, <4>3
    <3>2. CASE u # t
      <4>1. /\ job'[u] = job[u] /\ job[u].kind \in Framed /\ holder' = u /\ x = Loose
            /\ Awaits(Line, u, job[u].part)
        BY <1>9, <1>11, <2>4, <3>2 DEF FInv, MidFrame
      <4>2. Awaits(Line', u, job[u].part)
        BY <1>6, <2>1, <4>1, AwaitsNext
      <4>. QED
        BY <4>1, <4>2
    <3>. QED
      BY <3>1, <3>2
  <2>. QED
    BY <2>3, <2>4 DEF FInv, MidFrame, Contiguous, Awaits, Neighbours, Precedes
<1>. QED
  BY <1>12, <1>13

\* The two lines before and after a step of the pump.
LEMMA PumpLines ==
  ASSUME IInv, TInv'
  PROVE  /\ Line \in Seq(LinePacket) /\ Line' \in Seq(LinePacket)
         /\ Len(queue) \in Nat /\ Len(hand) \in Nat /\ Len(queue') \in Nat /\ Len(hand') \in Nat
         /\ Len(Line) = Len(hand) + Len(queue) + 1
         /\ Len(Line') = Len(hand') + Len(queue') + 1
         /\ Line[1] = lastOut /\ Line'[1] = lastOut'
         /\ \A i \in 1 .. Len(hand) : Line[i + 1] = hand[i]
         /\ \A i \in 1 .. Len(queue) : Line[i + Len(hand) + 1] = queue[i]
         /\ \A i \in 1 .. Len(queue') : Line'[i + Len(hand') + 1] = queue'[i]
<1>1. /\ lastOut \in LinePacket /\ hand \in Seq(LinePacket) /\ queue \in Seq(LinePacket)
      /\ Len(queue) \in Nat /\ Len(hand) \in Nat
  BY LineType DEF IInv, TInv, TypeOK, SomePacket, LinePacket
<1>2. /\ lastOut' \in LinePacket /\ hand' \in Seq(LinePacket) /\ queue' \in Seq(LinePacket)
      /\ Len(queue') \in Nat /\ Len(hand') \in Nat
  <2>1. lastOut' \in LinePacket
    BY DEF TInv, TypeOK, SomePacket, LinePacket
  <2>2. hand' \in Seq(SomePacket) /\ queue' \in Seq(SomePacket)
    BY DEF TInv, TypeOK, SomePacket
  <2>3. hand' \in Seq(LinePacket) /\ queue' \in Seq(LinePacket)
    BY <2>2, SeqMonotonic DEF LinePacket
  <2>. QED
    BY <2>1, <2>3, LenProperties
<1>3. Line = <<lastOut>> \o (hand \o queue) /\ Line' = <<lastOut'>> \o (hand' \o queue')
  BY DEF Line
<1>. QED
  BY <1>1, <1>2, <1>3, LineAt

LEMMA TakeFrames ==
  ASSUME IInv, FInv, IInv', PumpTake
  PROVE  FInv'
<1>1. /\ hand = <<>> /\ queue # <<>> /\ hand' = <<Head(queue)>> /\ queue' = Tail(queue)
      /\ UNCHANGED <<holder, job, lastOut>>
  BY DEF PumpTake, Nothing
<1>2. queue \in Seq(LinePacket)
  BY LineType DEF IInv
<1>3. <<Head(queue)>> \o Tail(queue) = queue /\ <<>> \o queue = queue
  <2>1. <<queue[1]>> \o SubSeq(queue, 2, Len(queue)) = SubSeq(queue, 1, Len(queue))
    <3>1. Len(queue) \in Nat \ {0}
      BY <1>1, <1>2, EmptySeq
    <3>2. 1 \in 1 .. Len(queue) /\ Len(queue) \in 1 .. Len(queue) /\ 1 + 1 = 2
      BY <3>1
    <3>. QED
      BY <1>2, <3>2, SubSeqRecursiveFirst
  <2>2. SubSeq(queue, 1, Len(queue)) = queue /\ Tail(queue) = SubSeq(queue, 2, Len(queue))
    BY <1>1, <1>2, SubSeqFull, TailIsSubSeq
  <2>. QED
    BY <1>2, <2>1, <2>2, ConcatEmptySeq
<1>4. Line' = Line
  BY <1>1, <1>3 DEF Line
<1>. QED
  BY <1>1, <1>4 DEF FInv, MidFrame, Contiguous, Awaits, Neighbours, Precedes

\* What is written is now the last packet out, unless it is loose.
LEMMA WriteFrames ==
  ASSUME IInv, FInv, IInv', PumpWrite
  PROVE  FInv'
<1>1. /\ hand # <<>> /\ hand' = <<>>
      /\ lastOut' = IF hand[1] = Loose THEN lastOut ELSE hand[1]
      /\ UNCHANGED <<queue, holder, job>>
  BY DEF PumpWrite, Nothing
<1>2. Len(hand) = 1 /\ Len(hand') = 0
  <2>1. hand \in Seq(SomePacket)
    BY PumpQueues
  <2>2. Len(hand) \in Nat \ {0}
    BY <1>1, <2>1, EmptySeq
  <2>3. Len(hand) <= 1
    BY PumpQueues
  <2>4. Len(hand) = 1
    BY <2>2, <2>3
  <2>5. Len(hand') = 0
    BY <1>1, EmptyQueue
  <2>. QED
    BY <2>4, <2>5
<1>3. /\ Line \in Seq(LinePacket) /\ Line' \in Seq(LinePacket) /\ Len(queue) \in Nat
      /\ Len(Line) = Len(queue) + 2 /\ Len(Line') = Len(queue) + 1
      /\ Line[1] = lastOut /\ Line'[1] = lastOut'
      /\ Line[2] = hand[1]
      /\ \A i \in 1 .. Len(queue) : Line[i + 2] = queue[i]
      /\ \A i \in 1 .. Len(queue) : Line'[i + 1] = queue[i]
  <2>1. /\ Len(Line) = 1 + Len(queue) + 1 /\ Len(Line') = 0 + Len(queue) + 1
        /\ Line[1 + 1] = hand[1]
        /\ \A i \in 1 .. Len(queue) : Line[i + 1 + 1] = queue[i]
        /\ \A i \in 1 .. Len(queue) : Line'[i + 0 + 1] = queue[i]
        /\ Len(queue) \in Nat
    BY <1>1, <1>2, PumpLines DEF IInv
  <2>2. \A i \in 1 .. Len(queue) : i + 1 + 1 = i + 2 /\ i + 0 + 1 = i + 1
    BY <2>1
  <2>3. /\ Line \in Seq(LinePacket) /\ Line' \in Seq(LinePacket)
        /\ Line[1] = lastOut /\ Line'[1] = lastOut'
    BY PumpLines DEF IInv
  <2>. QED
    BY <2>1, <2>2, <2>3
<1>4. Shortens(Line, Line', 2)
  <2>1. Len(Line') = Len(Line) - 2 + 1
    BY <1>3
  <2>2. ASSUME NEW i \in 2 .. Len(Line') PROVE Line'[i] = Line[i + 2 - 1]
    <3>1. i - 1 \in 1 .. Len(queue) /\ (i - 1) + 1 = i /\ (i - 1) + 2 = i + 2 - 1
      BY <1>3
    <3>2. Line'[(i - 1) + 1] = queue[i - 1] /\ Line[(i - 1) + 2] = queue[i - 1]
      BY <1>3, <3>1
    <3>. QED
      BY <3>1, <3>2
  <2>3. \E i \in 1 .. 2 : Line'[1] = Line[i] /\ \A k \in i + 1 .. 2 : Line[k] = Loose
    <3>1. CASE hand[1] = Loose
      <4>1. Line'[1] = Line[1] /\ \A k \in 2 .. 2 : Line[k] = Loose
        BY <1>1, <1>3, <3>1
      <4>. QED
        BY <4>1
    <3>2. CASE hand[1] # Loose
      <4>1. Line'[1] = Line[2] /\ \A k \in 3 .. 2 : Line[k] = Loose
        BY <1>1, <1>3, <3>2
      <4>. QED
        BY <4>1
    <3>. QED
      BY <3>1, <3>2
  <2>. QED
    BY <2>1, <2>2, <2>3 DEF Shortens
<1>. QED
  BY <1>1, <1>3, <1>4, PumpFrames

\* A packet put back is where it was; one that is dropped, or a queue that
\* is, leaves its place.
LEMMA FailFrames ==
  ASSUME IInv, FInv, IInv', PumpFail
  PROVE  FInv'
<1>1. /\ hand # <<>> /\ hand' = <<>>
      /\ queue' = IF Stale THEN <<>> ELSE SentToFront
      /\ lastOut' = IF Stale \/ Len(queue) = QueuePackets THEN Cut ELSE lastOut
      /\ UNCHANGED <<holder, job>>
  BY DEF PumpFail, Nothing
<1>2. /\ Line \in Seq(LinePacket) /\ Line' \in Seq(LinePacket)
      /\ Len(queue) \in Nat /\ Len(hand) \in Nat /\ Len(queue') \in Nat
      /\ Len(hand') = 0 /\ Len(<<>>) = 0
      /\ Len(Line) = Len(hand) + Len(queue) + 1 /\ Len(Line') = Len(queue') + 1
      /\ Line'[1] = lastOut'
      /\ \A i \in 1 .. Len(queue) : Line[i + Len(hand) + 1] = queue[i]
      /\ \A i \in 1 .. Len(queue') : Line'[i + 1] = queue'[i]
  <2>1. Len(<<>>) = 0
    BY EmptyQueue
  <2>2. /\ Len(Line') = 0 + Len(queue') + 1 /\ Len(queue') \in Nat
        /\ \A i \in 1 .. Len(queue') : Line'[i + 0 + 1] = queue'[i]
    BY <1>1, <2>1, PumpLines DEF IInv
  <2>3. \A i \in 1 .. Len(queue') : i + 0 + 1 = i + 1
    BY <2>2
  <2>4. /\ Line \in Seq(LinePacket) /\ Line' \in Seq(LinePacket)
        /\ Len(queue) \in Nat /\ Len(hand) \in Nat
        /\ Len(Line) = Len(hand) + Len(queue) + 1 /\ Line'[1] = lastOut'
        /\ \A i \in 1 .. Len(queue) : Line[i + Len(hand) + 1] = queue[i]
    BY PumpLines DEF IInv
  <2>. QED
    BY <1>1, <2>1, <2>2, <2>3, <2>4
<1>3. CASE Stale
  <2>1. Len(Line') = 1 /\ Line'[1] = Cut /\ Len(Line) \in Nat \ {0}
    BY <1>1, <1>2, <1>3
  <2>2. Shortens(Line, Line', Len(Line))
    BY <2>1 DEF Shortens
  <2>. QED
    BY <1>1, <1>2, <2>1, <2>2, PumpFrames
<1>4. CASE ~Stale /\ Len(queue) < QueuePackets
  <2>1. queue' = hand \o queue /\ lastOut' = lastOut /\ hand' = <<>>
    BY <1>1, <1>4 DEF SentToFront
  <2>2. hand \o queue \in Seq(LinePacket)
    BY LineType, ConcatProperties DEF IInv
  <2>3. Line' = Line
    BY <2>1, <2>2, ConcatEmptySeq DEF Line
  <2>. QED
    BY <1>1, <2>3 DEF FInv, MidFrame, Contiguous, Awaits, Neighbours, Precedes
<1>5. CASE ~Stale /\ ~(Len(queue) < QueuePackets)
  <2>1. Len(queue) = QueuePackets
    BY <1>2, <1>5, PumpQueues
  <2>2. queue' = queue /\ lastOut' = Cut
    BY <1>1, <1>5, <2>1 DEF SentToFront
  <2>. DEFINE m == Len(hand) + 1
  <2>3. m \in Nat \ {0} /\ m <= Len(Line) /\ Len(Line') = Len(Line) - m + 1
    BY <1>2, <2>2
  <2>4. ASSUME NEW i \in 2 .. Len(Line') PROVE Line'[i] = Line[i + m - 1]
    <3>1. i - 1 \in 1 .. Len(queue) /\ (i - 1) + 1 = i /\ (i - 1) + Len(hand) + 1 = i + m - 1
      BY <1>2, <2>2
    <3>2. Line'[(i - 1) + 1] = queue[i - 1] /\ Line[(i - 1) + Len(hand) + 1] = queue[i - 1]
      BY <1>2, <2>2, <3>1
    <3>. QED
      BY <3>1, <3>2
  <2>. HIDE DEF m
  <2>5. Shortens(Line, Line', m)
    BY <1>2, <2>2, <2>3, <2>4 DEF Shortens
  <2>. QED
    BY <1>1, <1>2, <2>3, <2>5, PumpFrames
<1>. QED
  BY <1>3, <1>4, <1>5

LEMMA NextFrames == IInv /\ FInv /\ [Next]_vars => FInv'
<1>. SUFFICES ASSUME IInv, FInv, [Next]_vars PROVE FInv'
  OBVIOUS
<1>1. IInv'
  BY NextKeeps
<1>2. ASSUME NEW t \in Task, NEW kind \in Sends[t], Send(t, kind) PROVE FInv'
  BY <1>2, SendFrames
<1>3. ASSUME NEW t \in Task, usbOutLock(t) \/ midiSendCC(t) \/ usbOutMidi(t) PROVE FInv'
  BY <1>3, LockFrames, SingleFrames, MidiFrames
<1>4. CASE PumpTake \/ PumpWrite \/ PumpFail
  BY <1>1, <1>4, TakeFrames, WriteFrames, FailFrames
<1>5. CASE HostReads \/ Tick \/ UNCHANGED vars
  <2>1. UNCHANGED <<queue, hand, lastOut, job, holder>>
    BY <1>5 DEF HostReads, Tick, vars
  <2>. QED
    BY <2>1, LineKept
<1>. QED
  BY <1>2, <1>3, <1>4, <1>5 DEF Next

LEMMA InitFrames == Init => IInv /\ FInv
<1>. SUFFICES ASSUME Init PROVE IInv /\ FInv
  OBVIOUS
<1>1. IInv
  BY InitInv
<1>2. Len(Line) = 1
  <2>1. Len(queue) = 0 /\ Len(hand) = 0
    BY EmptyQueue DEF Init, Nothing
  <2>. QED
    BY <1>1, <2>1, LineType DEF IInv
<1>3. Contiguous(Line)
  BY <1>2 DEF Contiguous
<1>4. MidFrame
  BY DEF Init, MidFrame
<1>. QED
  BY <1>1, <1>3, <1>4 DEF FInv

\* usbOutLock (src/src/usb_out.h:20): between two packets of one locked frame the host
\* never gets a packet of another, for every queue and frame length, through preemption,
\* failed writes that are put back, full queues and drops.
THEOREM FramesStayWhole == Spec => []LockedFramesContiguous
<1>1. IInv /\ FInv /\ [Next]_vars => (IInv /\ FInv)'
  BY NextKeeps, NextFrames
<1>2. FInv => LockedFramesContiguous
  BY DEF FInv, LockedFramesContiguous
<1>. QED
  BY <1>1, <1>2, InitFrames, PTL DEF Spec

=============================================================================
