------------------------------- MODULE UsbOut --------------------------------
(***************************************************************************)
(* What leaves a node for its host: the queue of USB-MIDI packets and its  *)
(* pump (src/src/usb_out.cpp), the senders of src/src/midi.cpp and of the  *)
(* end of src/src/sysex.cpp.                                               *)
(*                                                                         *)
(* Three tasks queue messages one packet at a time, and only MIDI_Task     *)
(* hands packets to the USB stack.  MIDI_Task preempts the WiFi task, on   *)
(* the same core; ESPNOW_Task runs on the other core, beside both.         *)
(*                                                                         *)
(* A packet of a locked message is who sent it and which part of it it is; *)
(* a packet sent without the lock is Loose.  A message is a frame of       *)
(* FrameLength packets or a single event.  The pump's budget of 64 packets *)
(* only puts the rest off to the next millisecond and is left out; one     *)
(* unit of time is many pumps.                                             *)
(***************************************************************************)
EXTENDS Integers, Sequences

CONSTANTS
  QueuePackets,      \* MIDI_QUEUE_PACKETS
  FifoPackets,       \* what the USB stack takes in before the host reads
  FrameLength,       \* packets of a multi-packet message
  USB_STALL_DROP

ASSUME UsbOutAssumption ==
  /\ QueuePackets \in Nat \ {0} /\ FifoPackets \in Nat \ {0}
  /\ FrameLength \in Nat \ {0, 1} /\ USB_STALL_DROP \in Nat

VARIABLES
  queue,        \* midiQueue
  holder,       \* who has frameLock
  job,          \* what each task is in the middle of sending
  hand,         \* the packet usbOutPump has received and not yet written
  stall,        \* now - stalledSince, or Flowing
  room,         \* free packets of the USB stack's FIFO
  \* history
  lastOut,      \* the last packet of a locked message written, or Cut
  waited,       \* for how long packets wait and none gets through
  pumped        \* has the pump run in this unit of time?

vars == <<queue, holder, job, hand, stall, room, lastOut, waited, pumped>>

Task == {"midi", "wifi", "esp"}
NoTask == "none"
Idle == [kind |-> "none"]
Nothing == <<>>
Flowing == -1
Loose == [task |-> NoTask, part |-> 0, linked |-> FALSE]
Cut == [task |-> NoTask, part |-> 1, linked |-> FALSE]

\* HELLO, CONFIG_STATE and OTA_ACK; a LOG line; RUNNING_STATE and
\* ERROR_REPORT; a full frame; eight quarter frames.
Sends == [midi |-> {"answer", "log", "report"},
          wifi |-> {"fullframe"},
          esp  |-> {"timecode"}]

\* What usb_out.h promises to keep in one piece.
Framed == {"answer", "log", "fullframe", "timecode"}

\* Seeded fault: the answers take no lock.
LockedButAnswers == Framed \ {"answer"}

Locked == Framed

Init ==
  /\ queue = <<>> /\ holder = NoTask /\ job = [t \in Task |-> Idle]
  /\ hand = Nothing /\ stall = Flowing /\ room = FifoPackets
  /\ lastOut = Cut /\ waited = 0 /\ pumped = FALSE

-----------------------------------------------------------------------------
(* The senders. *)

Waiting(t) == job[t].kind \in Locked /\ holder # t

\* MIDI_Task sleeps, or waits for the lock, when the WiFi task runs.
Runs(t) ==
  CASE t = "midi" -> hand = Nothing
    [] t = "wifi" -> \/ job["midi"] = Idle /\ hand = Nothing
                     \/ Waiting("midi") /\ holder # NoTask
    [] t = "esp"  -> TRUE

\* The start of a message: its sender has the lock, or waits for it.
Send(t, kind) ==
  /\ Runs(t) /\ job[t] = Idle
  /\ job' = [job EXCEPT ![t] = [kind |-> kind, part |-> 1, linked |-> FALSE]]
  /\ holder' = IF kind \in Locked /\ holder = NoTask THEN t ELSE holder
  /\ UNCHANGED <<queue, hand, stall, room, lastOut, waited, pumped>>

usbOutLock(t) ==
  /\ Runs(t) /\ Waiting(t) /\ holder = NoTask
  /\ holder' = t
  /\ UNCHANGED <<queue, job, hand, stall, room, lastOut, waited, pumped>>

\* The packet t queues next; linked: the one before it was queued.
Packet(t) ==
  IF job[t].kind \in Framed
    THEN [task |-> t, part |-> job[t].part, linked |-> job[t].linked]
    ELSE Loose

\* A CC, Start or Stop: one packet, no lock.
midiSendCC(t) ==
  /\ t # "midi" /\ Runs(t) /\ job[t] = Idle
  /\ Len(queue) < QueuePackets
  /\ queue' = Append(queue, Loose)
  /\ UNCHANGED <<holder, job, hand, stall, room, lastOut, waited, pumped>>

\* Seeded fault: one packet past the end of the message.
EndsLate(t, queued) == job[t].part > FrameLength \/ (job[t].kind = "log" /\ ~queued)

\* Only a LOG line gives up at a full queue; the others drop the packet.
Ends(t, queued) == job[t].part = FrameLength \/ (job[t].kind = "log" /\ ~queued)

NextPart(t, queued) ==
  [job[t] EXCEPT !.part = @ + 1, !.linked = queued /\ job[t].kind \in Framed]

usbOutMidi(t) ==
  LET queued == Len(queue) < QueuePackets
      ends == Ends(t, queued)
  IN  /\ Runs(t) /\ job[t] # Idle /\ ~Waiting(t)
      /\ queue' = IF queued THEN Append(queue, Packet(t)) ELSE queue
      /\ job' = [job EXCEPT ![t] = IF ends THEN Idle ELSE NextPart(t, queued)]
      /\ holder' = IF ends /\ holder = t THEN NoTask ELSE holder
      /\ UNCHANGED <<hand, stall, room, lastOut, waited, pumped>>

-----------------------------------------------------------------------------
(* usbOutPump, in MIDI_Task between two messages. *)

PumpTake ==
  /\ job["midi"] = Idle /\ hand = Nothing /\ queue # <<>>
  /\ hand' = <<Head(queue)>> /\ queue' = Tail(queue)
  /\ UNCHANGED <<holder, job, stall, room, lastOut, waited, pumped>>

PumpWrite ==
  /\ hand # Nothing /\ room > 0
  /\ room' = room - 1 /\ hand' = Nothing /\ stall' = Flowing
  /\ lastOut' = IF hand[1] = Loose THEN lastOut ELSE hand[1]
  /\ waited' = 0 /\ pumped' = (pumped \/ queue = <<>>)
  /\ UNCHANGED <<queue, holder, job>>

\* xQueueSendToFront: a task of the other core may have filled the queue.
SentToFront == IF Len(queue) < QueuePackets THEN hand \o queue ELSE queue

\* Seeded fault: a stall is retried for ever.
NeverStale == FALSE

Stale == stall # Flowing /\ stall > USB_STALL_DROP

PumpFail ==
  /\ hand # Nothing /\ room = 0
  /\ hand' = Nothing /\ pumped' = TRUE
  /\ stall' = IF stall = Flowing THEN 0 ELSE stall
  /\ queue' = IF Stale THEN <<>> ELSE SentToFront
  /\ lastOut' = IF Stale \/ Len(queue) = QueuePackets THEN Cut ELSE lastOut
  /\ waited' = IF Stale THEN 0 ELSE waited
  /\ UNCHANGED <<holder, job, room>>

-----------------------------------------------------------------------------
(* The environment. *)

\* The host reads what the USB stack holds.
HostReads ==
  /\ room < FifoPackets
  /\ room' = FifoPackets /\ waited' = 0
  /\ UNCHANGED <<queue, holder, job, hand, stall, lastOut, pumped>>

\* MIDI_Task, the highest priority, has had its turn.  waited stops counting
\* where it cannot matter any more.
Tick ==
  /\ hand = Nothing /\ (pumped \/ queue = <<>>)
  /\ pumped' = FALSE
  /\ stall' = IF stall = Flowing \/ stall > USB_STALL_DROP THEN stall ELSE stall + 1
  /\ waited' = IF queue = <<>> THEN 0
               ELSE IF waited > USB_STALL_DROP + 2 THEN waited ELSE waited + 1
  /\ UNCHANGED <<queue, holder, job, hand, room, lastOut>>

Next ==
  \/ \E t \in Task :
       \/ \E kind \in Sends[t] : Send(t, kind)
       \/ usbOutLock(t)
       \/ midiSendCC(t)
       \/ usbOutMidi(t)
  \/ PumpTake \/ PumpWrite \/ PumpFail
  \/ HostReads \/ Tick

Spec == Init /\ [][Next]_vars

-----------------------------------------------------------------------------
(* Properties. *)

FramePacket == [task : Task, part : 1 .. FrameLength, linked : BOOLEAN]

\* The types of the queue, the lock, the jobs and the pump.
TypeOK ==
  /\ queue \in Seq(FramePacket \union {Loose}) /\ Len(queue) <= QueuePackets
  /\ holder \in Task \union {NoTask}
  /\ \A t \in Task :
       \/ job[t] = Idle
       \/ job[t] \in [kind : Sends[t], part : 1 .. FrameLength, linked : BOOLEAN]
  /\ hand \in Seq(FramePacket \union {Loose}) /\ Len(hand) <= 1
  /\ stall \in Flowing .. USB_STALL_DROP + 1
  /\ room \in 0 .. FifoPackets
  /\ lastOut \in FramePacket \union {Cut}
  /\ waited \in 0 .. USB_STALL_DROP + 3 /\ pumped \in BOOLEAN

\* What the host was sent last of the framed messages, and will be sent next.
Line == <<lastOut>> \o (hand \o queue)

\* Only loose packets between the two.
Neighbours(s, i, j) ==
  i < j /\ s[i] # Loose /\ \A k \in i + 1 .. j - 1 : s[k] = Loose

\* p may stand before part n of a message of t.
Precedes(p, t, n) == p = Cut \/ (p.task = t /\ p.part + 1 = n)

\* usbOutLock (src/src/usb_out.h:20): between two packets of one frame the
\* host never gets a packet of another frame whose sender takes the lock,
\* whatever tasks preempt one another, whatever the pump puts back after a
\* failed write and whatever a full queue or a stalled host makes it drop.
Contiguous(s) ==
  \A j \in 1 .. Len(s) : \A i \in 1 .. j - 1 :
    s[j].linked /\ Neighbours(s, i, j) => Precedes(s[i], s[j].task, s[j].part)

LockedFramesContiguous == Contiguous(Line)

\* usbOutPump (src/src/usb_out.cpp:144): what was queued while no host was
\* reading does not replay when one opens the port: packets never wait for
\* longer than the drop time and the two units that notice it, whoever
\* refills the queue in the meantime.
NoGhostStream == waited <= USB_STALL_DROP + 2

=============================================================================
