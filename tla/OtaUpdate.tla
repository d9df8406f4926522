------------------------------ MODULE OtaUpdate ------------------------------
(***************************************************************************)
(* A firmware update over USB-MIDI: a host that sends OTA_BEGIN, the       *)
(* chunks and OTA_END, the assembler of SysEx messages (midiProcess in     *)
(* src/src/midi.cpp) and the OTA commands of handleSysExMessage in         *)
(* src/src/sysex.cpp.                                                      *)
(*                                                                         *)
(* A frame is cut into the packets that matter: its head, the packet with  *)
(* seq and length of an acknowledged chunk, the body and the tail with F7. *)
(* Each may be lost on the way; of a body, one packet of three bytes.      *)
(* Lengths are the real ones, bytes are left out: a message being          *)
(* assembled is how many there are and what they can still mean, the flash *)
(* holds numbers of chunks, and Garbage for what is no chunk as it was sent. *)
(***************************************************************************)
EXTENDS Integers, Sequences, FiniteSets

CONSTANTS
  BlindChunks,       \* the chunk sizes of a host that sends OTA_DATA
  AckedChunk,        \* the chunk size of a host that sends OTA_DATA_ACKED
  LastChunk,         \* bytes of the last chunk
  Chunks,            \* how many chunks the image has
  SYSEX_BUFFER_SIZE,
  Misread,           \* what a begin that lost packets may give for the size
  MaxFaults          \* bound: packets and answers lost, failures, restarts

\* An acknowledged chunk has 1..100 bytes (sysex.cpp:296), the last chunk of
\* an image is no longer than the others, and the buffer holds every message
\* whose length fits in a byte.
ASSUME OtaUpdateAssumption ==
  /\ BlindChunks \subseteq Nat \ {0} /\ AckedChunk \in 1 .. 100
  /\ LastChunk \in Nat \ {0} /\ \A c \in BlindChunks \union {AckedChunk} : LastChunk <= c
  /\ Chunks \in Nat \ {0} /\ MaxFaults \in Nat
  /\ SYSEX_BUFFER_SIZE \in Nat /\ SYSEX_BUFFER_SIZE >= 256
  /\ Misread \subseteq Nat /\ Misread # {}

VARIABLES
  host,         \* the tool: its kind, its chunk size, what it is about to do
  acks,         \* OTA_ACKs on their way to it
  buffer,       \* sysexBuffer: the message being assembled, Nothing when not inSysex
  overflow,     \* sysexOverflow
  ota,          \* the session: the node's variables and the Update library's
  booted,       \* the image the node has restarted into, empty before
  faults        \* faults so far

vars == <<host, acks, buffer, overflow, ota, booted, faults>>

Garbage == 0
Image == [k \in 1 .. Chunks |-> k]
None == <<>>

\* bytes: sysexIndex, with the bytes a full buffer refused.  lens: seq and
\* length stand where they belong.  whole: it is frame k as the host cut it.
Nothing == [cmd |-> "none", k |-> 0, bytes |-> 0, lens |-> FALSE, whole |-> FALSE]

NoSession == [total |-> 0, received |-> 0, otaInProgress |-> FALSE,
              running |-> FALSE, progress |-> 0, flash |-> None]

BytesOf(k) == IF k = Chunks THEN LastChunk ELSE host.chunk
ImageBytes == (Chunks - 1) * host.chunk + LastChunk

Host == [kind : {"acked"}, chunk : {AckedChunk}, phase : {"begin"}, k : {1}]
          \union [kind : {"blind"}, chunk : BlindChunks, phase : {"begin"}, k : {1}]

Init ==
  /\ host \in Host
  /\ acks = <<>> /\ buffer = Nothing /\ overflow = FALSE
  /\ ota = NoSession /\ booted = None /\ faults = 0

-----------------------------------------------------------------------------
(* Frames, as the packets the host cuts them into. *)

Encoded(n) == n + (n + 6) \div 7

\* Seeded fault: decode7bit takes every byte for data.
DecodedAll(n) == n

Decoded(n) == n - (n + 7) \div 8

\* The last packet holds what three does not divide, F7 included.
Tail3(n) == IF n % 3 = 0 THEN 3 ELSE n % 3

FrameSize(cmd, k) ==
  CASE cmd = "begin" -> 9
    [] cmd = "end"   -> 4
    [] cmd = "data"  -> 4 + Encoded(BytesOf(k))
    [] cmd = "acked" -> 6 + Encoded(BytesOf(k))

\* The packets of a frame; a short one has no body.
Parts(cmd, k) ==
  LET size == FrameSize(cmd, k)
      ends == IF cmd = "acked" THEN {"head", "lens", "tail"} ELSE {"head", "tail"}
      body == size - Tail3(size) - IF cmd = "acked" THEN 6 ELSE 3
  IN  IF body > 0 THEN ends \union {"body"} ELSE ends

\* How much of it arrives when some of its packets are lost.
Arriving(cmd, k, lost) ==
  LET size == FrameSize(cmd, k)
      Gone(part) == IF part \notin lost THEN 0 ELSE IF part = "tail" THEN Tail3(size) ELSE 3
  IN  size - Gone("head") - Gone("lens") - Gone("body") - Gone("tail")

\* A frame whose first packet arrives, by itself.
Alone(cmd, k, lost) ==
  [cmd |-> cmd, k |-> k, bytes |-> Arriving(cmd, k, lost),
   lens |-> cmd = "acked" /\ "lens" \notin lost, whole |-> lost = {}]

\* A frame without its first packet goes on from what is in the buffer.
Glued(cmd, k, lost) ==
  [buffer EXCEPT !.bytes = @ + Arriving(cmd, k, lost), !.whole = FALSE]

-----------------------------------------------------------------------------
(* The OTA commands.  works: the flash does what it is asked.              *)

\* Update.write refuses what does not fit in the size it was begun with.
Fits(bytes) == ota.running /\ bytes <= ota.total - ota.progress

Aborted == [ota EXCEPT !.running = FALSE, !.otaInProgress = FALSE]

Written(chunk, bytes) ==
  [ota EXCEPT !.received = @ + bytes, !.progress = @ + bytes, !.flash = Append(@, chunk)]

\* Seeded fault: the count of the last session goes on.
OtaBeginCounting(size, works) ==
  IF works
    THEN [total |-> size, received |-> ota.received, otaInProgress |-> TRUE,
          running |-> TRUE, progress |-> 0, flash |-> None]
    ELSE [ota EXCEPT !.total = size, !.running = FALSE]

\* A failed begin leaves otaInProgress as it was.
OtaBegin(size, works) ==
  IF works
    THEN [total |-> size, received |-> 0, otaInProgress |-> TRUE,
          running |-> TRUE, progress |-> 0, flash |-> None]
    ELSE [ota EXCEPT !.total = size, !.running = FALSE]

\* A message without data, and a write of nothing, change nothing.
OtaData(chunk, bytes, works) ==
  IF ~ota.otaInProgress \/ bytes = 0 THEN ota
  ELSE IF Fits(bytes) /\ works THEN Written(chunk, bytes) ELSE Aborted

\* Seeded fault: without a session the host is told to send again.
StatusWithoutSession(m, good, works) ==
  IF ~ota.otaInProgress \/ m.bytes < 6 THEN 1
  ELSE IF ~good THEN 1
  ELSE IF Fits(Decoded(m.bytes - 6)) /\ works THEN 0 ELSE 2

\* good: it decodes to the length it announces.
Status(m, good, works) ==
  IF ~ota.otaInProgress \/ m.bytes < 6 THEN 3
  ELSE IF ~good THEN 1
  ELSE IF Fits(Decoded(m.bytes - 6)) /\ works THEN 0 ELSE 2

OtaDataAcked(chunk, bytes, status) ==
  CASE status = 0 -> Written(chunk, bytes)
    [] status = 2 -> Aborted
    [] OTHER      -> ota

\* Seeded fault: the sizes are not compared.
ReceivedAny == ota.otaInProgress /\ ota.running

ReceivedAll == ota.otaInProgress /\ ota.received = ota.total /\ ota.running

\* The restart into the new image, or the end of the session.
OtaEnd(works) ==
  IF ReceivedAll /\ works
    THEN /\ booted' = ota.flash /\ ota' = NoSession
    ELSE /\ ota' = IF ota.otaInProgress THEN Aborted ELSE ota
         /\ UNCHANGED booted

\* What a message that lost packets may hold where the seq was, and whether
\* it decodes to what stands for the length: a byte of seven bits.
SomeSeq == {host.k, Chunks + 1}
Good(m) ==
  LET bytes == Decoded(m.bytes - 6)
  IN  IF m.lens THEN {bytes = BytesOf(m.k)} ELSE {g \in BOOLEAN : g => bytes \in 1 .. 127}

handleSysExMessage(m, works) ==
  LET chunk == IF m.whole THEN m.k ELSE Garbage
  IN  \/ /\ m.cmd = "begin" /\ UNCHANGED <<acks, booted>>
         /\ \E size \in IF m.whole THEN {ImageBytes} ELSE Misread :
              ota' = IF m.bytes >= 9 THEN OtaBegin(size, works) ELSE ota
      \/ /\ m.cmd = "data" /\ UNCHANGED <<acks, booted>>
         /\ ota' = OtaData(chunk, Decoded(m.bytes - 4), works)
      \/ /\ m.cmd = "acked" /\ UNCHANGED booted
         /\ \E good \in Good(m), seq \in IF m.lens THEN {m.k} ELSE SomeSeq :
              LET status == Status(m, good, works)
              IN  /\ ota' = OtaDataAcked(chunk, Decoded(m.bytes - 6), status)
                  /\ acks' = Append(acks, [seq |-> seq, status |-> status])
      \/ m.cmd = "end" /\ OtaEnd(works) /\ UNCHANGED acks

-----------------------------------------------------------------------------
(* midiProcess. *)

\* The message once the packets of a frame that arrive are in the buffer.
Assembled(cmd, k, lost) ==
  IF "head" \notin lost THEN Alone(cmd, k, lost)
  ELSE IF buffer = Nothing THEN Nothing
  ELSE IF buffer.bytes = 3 /\ buffer.cmd = cmd THEN Alone(cmd, k, lost \ {"head"})
  ELSE Glued(cmd, k, lost)

Over(m) == overflow \/ m.bytes > SYSEX_BUFFER_SIZE

\* The length is narrowed to eight bits: the byte it then points at is F7
\* only if nothing was cut off.
Accepted(m) == m.bytes < 256

midiProcess(cmd, k, lost, works) ==
  LET m == Assembled(cmd, k, lost)
      ended == m # Nothing /\ "tail" \notin lost
      over == m # Nothing /\ Over(m)
  IN  /\ buffer' = IF ended THEN Nothing ELSE m
      /\ overflow' = IF ended THEN FALSE ELSE over
      /\ IF ended /\ ~over /\ Accepted(m)
           THEN handleSysExMessage(m, works)
           ELSE UNCHANGED <<acks, ota, booted>>

-----------------------------------------------------------------------------
(* The host. *)

Fault(n) == faults + n <= MaxFaults /\ faults' = faults + n

\* Seeded fault: the last chunk is not the last.
NextChunkOn == [host EXCEPT !.phase = "data", !.k = @ + 1]

NextChunk == IF host.k = Chunks THEN [host EXCEPT !.phase = "end"]
             ELSE [host EXCEPT !.phase = "data", !.k = @ + 1]

\* Seeded fault: the next attempt goes on from the chunk that failed.
RestartingThere == [host EXCEPT !.phase = "begin"]

Restarting == [host EXCEPT !.phase = "begin", !.k = 1]

Send(cmd, k) ==
  \E lost \in SUBSET Parts(cmd, k), works \in BOOLEAN :
    /\ Fault(Cardinality(lost) + IF works THEN 0 ELSE 1)
    /\ midiProcess(cmd, k, lost, works)

SendBegin ==
  /\ host.phase = "begin"
  /\ host' = [host EXCEPT !.phase = "data"]
  /\ Send("begin", 0)

\* cmd_ota goes on to the next chunk; the other waits for its OTA_ACK.
SendChunk ==
  /\ host.phase = "data"
  /\ host' = IF host.kind = "blind" THEN NextChunk ELSE [host EXCEPT !.phase = "wait"]
  /\ Send(IF host.kind = "blind" THEN "data" ELSE "acked", host.k)

SendEnd ==
  /\ host.phase = "end"
  /\ host' = [host EXCEPT !.phase = IF host.kind = "blind" THEN "done" ELSE "waitEnd"]
  /\ Send("end", 0)

HearAck ==
  /\ host.phase \in {"wait", "waitEnd"} /\ acks # <<>>
  /\ LET a == Head(acks)
         mine == host.phase = "wait" /\ a.seq = host.k
     IN  \/ /\ mine /\ a.status = 0
            /\ host' = NextChunk /\ acks' = Tail(acks)
         \/ /\ mine /\ a.status = 1
            /\ host' = [host EXCEPT !.phase = "data"] /\ acks' = Tail(acks)
         \/ /\ mine /\ a.status \in {2, 3}
            /\ host' = Restarting /\ acks' = <<>>
         \/ /\ ~mine
            /\ acks' = Tail(acks) /\ UNCHANGED host
  /\ UNCHANGED <<buffer, overflow, ota, booted, faults>>

\* Early, when the answer is still on its way, it is a fault.
TimeOut ==
  /\ \/ host.phase = "wait"
     \/ host.phase = "waitEnd" /\ booted = None
  /\ Fault(IF acks = <<>> THEN 0 ELSE 1)
  /\ host' = IF host.phase = "wait" THEN [host EXCEPT !.phase = "data"] ELSE Restarting
  /\ acks' = IF host.phase = "wait" THEN acks ELSE <<>>
  /\ UNCHANGED <<buffer, overflow, ota, booted>>

SeeRestart ==
  /\ host.phase = "waitEnd" /\ booted # None
  /\ host' = [host EXCEPT !.phase = "done"]
  /\ UNCHANGED <<acks, buffer, overflow, ota, booted, faults>>

LoseAck ==
  /\ acks # <<>> /\ Fault(1)
  /\ acks' = Tail(acks)
  /\ UNCHANGED <<host, buffer, overflow, ota, booted>>

\* The node loses its power and starts the image it had.
PowerCut ==
  /\ booted = None /\ Fault(1)
  /\ buffer' = Nothing /\ overflow' = FALSE /\ ota' = NoSession
  /\ UNCHANGED <<host, acks, booted>>

HostStep == SendBegin \/ SendChunk \/ SendEnd \/ HearAck \/ TimeOut \/ SeeRestart

Next == HostStep \/ LoseAck \/ PowerCut

Spec == Init /\ [][Next]_vars

\* The tool goes on sending, listening and timing out.
FairSpec == Spec /\ WF_vars(HostStep)

-----------------------------------------------------------------------------
(* Properties. *)

\* A message in the buffer has its first packet at least.
MessageType ==
  LET bytes == Nat \ (0 .. 2)
  IN  {Nothing}
      \union [cmd : {"begin", "end"}, k : {0}, bytes : bytes, lens : {FALSE}, whole : BOOLEAN]
      \union [cmd : {"data", "acked"}, k : 1 .. Chunks, bytes : bytes,
              lens : BOOLEAN, whole : BOOLEAN]

\* The types of the host, the assembler and the session.
TypeOK ==
  /\ host \in [kind : {"acked", "blind"}, chunk : BlindChunks \union {AckedChunk},
               phase : {"begin", "data", "wait", "end", "waitEnd", "done"}, k : 1 .. Chunks]
  /\ acks \in Seq([seq : 1 .. Chunks + 1, status : 0 .. 3])
  /\ buffer \in MessageType /\ overflow \in BOOLEAN
  /\ ota \in [total : Nat, received : Nat, otaInProgress : BOOLEAN,
              running : BOOLEAN, progress : Nat, flash : Seq(0 .. Chunks)]
  /\ booted \in Seq(0 .. Chunks) /\ faults \in 0 .. MaxFaults

\* sysex.cpp: otaInProgress, otaReceivedSize and otaTotalSize keep in step
\* with the Update library through failed begins, aborted writes and ends:
\* a running session is one the node knows of, it counts what is on the
\* flash, and never more than the size it was begun with.
SessionInStep ==
  ota.running => /\ ota.otaInProgress
                 /\ ota.received = ota.progress /\ ota.progress <= ota.total

OnFlash == {ota.flash[n] : n \in DOMAIN ota.flash}

\* OTA_END: what the size check lets through is the image the host sent,
\* chunk by chunk.  For acknowledged chunks whatever is lost, repeated or
\* fails, if the size of the image was heard right and no message passed
\* for a chunk that was none; for blind ones when one packet at most was
\* lost.  The check of the image by the boot loader is not counted on.
ImageIsWhole ==
  [][/\ booted' # booted
     /\ \/ host.kind = "acked" /\ ota.total = ImageBytes /\ Garbage \notin OnFlash
        \/ host.kind = "blind" /\ faults' <= 1
     => booted' = Image]_vars

\* Within the faults of a run the size check also finds what passed for an
\* acknowledged chunk and was none: it is shorter or longer than the chunk.
GarbageIsCaught ==
  [][booted' # booted /\ host.kind = "acked" /\ ota.total = ImageBytes
     => booted' = Image]_vars

\* OTA_DATA_ACKED: a chunk the host goes on from is on the flash of the
\* session that runs, and chunks are there in order but for repetitions, of
\* one or of all from the first, unless a message that lost its length
\* passed for a chunk.
AckedIsWritten ==
  host.kind = "acked" /\ ota.running /\ Garbage \notin OnFlash =>
    /\ \A k \in 1 .. host.k - 1 : k \in OnFlash
    /\ \A n \in 1 .. Len(ota.flash) - 1 :
         ota.flash[n + 1] \in {1, ota.flash[n], ota.flash[n] + 1}

\* cmd_ota (src/tools/nowde-cli.py:271, docs/PROTOCOL.md:41): an update of
\* which nothing is lost and nothing fails boots.
LosslessUpdateBoots == host.phase = "done" /\ faults = 0 => booted = Image

\* The same, for frames of less than 256 bytes.
ShortFramesBoot ==
  4 + Encoded(host.chunk) < 256 => LosslessUpdateBoots

\* OTA_DATA_ACKED: once nothing more is lost or fails the acknowledged
\* update boots, from whatever session, buffer and overflow flag it left.
AckedUpdateBoots == host.kind = "acked" => <>(booted # None)

=============================================================================
