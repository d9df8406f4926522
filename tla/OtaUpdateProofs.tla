--------------------------- MODULE OtaUpdateProofs ---------------------------
(***************************************************************************)
(* What OtaUpdate guarantees for every image, every size of its chunks and *)
(* every number of faults.                                                 *)
(***************************************************************************)
EXTENDS OtaUpdate, SequenceTheorems, FiniteSetTheorems, TLAPS

HostType ==
  [kind : {"acked", "blind"}, chunk : BlindChunks \union {AckedChunk},
   phase : {"begin", "data", "wait", "end", "waitEnd", "done"}, k : 1 .. Chunks]

SessionType ==
  [total : Nat, received : Nat, otaInProgress : BOOLEAN,
   running : BOOLEAN, progress : Nat, flash : Seq(0 .. Chunks)]

AckType == [seq : 1 .. Chunks + 1, status : 0 .. 3]

\* For chunks of c bytes: the bytes of chunk k, those of the first j chunks, and
\* these chunks.
BytesBy(c, k) == IF k = Chunks THEN LastChunk ELSE c
SentBy(c, j) == IF j = Chunks THEN (Chunks - 1) * c + LastChunk ELSE j * c
UpTo(j) == [n \in 1 .. j |-> n]

-----------------------------------------------------------------------------
(* Lengths. *)

LEMMA EncodedLength ==
  ASSUME NEW n \in Nat \ {0}
  PROVE  /\ Encoded(n) \in Nat /\ Encoded(n) >= n + 1
         /\ Decoded(Encoded(n)) = n
         /\ Decoded(Encoded(n) - 3) < n
  BY DEF Encoded, Decoded

LEMMA EncodedGrows ==
  ASSUME NEW n \in Nat \ {0}, NEW p \in Nat, n <= p
  PROVE  Encoded(n) <= Encoded(p)
  BY DEF Encoded

LEMMA DecodedLength ==
  ASSUME NEW e \in Nat
  PROVE  Decoded(e) \in Nat
  BY DEF Decoded

LEMMA TailLength ==
  ASSUME NEW n \in Nat
  PROVE  /\ Tail3(n) \in 1 .. 3
         /\ n >= 4 => n >= Tail3(n) + 3
         /\ n - Tail3(n) - 3 > 0 => n >= Tail3(n) + 6
         /\ n - Tail3(n) - 6 > 0 => n >= Tail3(n) + 9
  BY DEF Tail3

LEMMA ChunkLength ==
  ASSUME host \in HostType
  PROVE  /\ host.chunk \in Nat \ {0} /\ LastChunk \in Nat \ {0} /\ LastChunk <= host.chunk
         /\ ImageBytes \in Nat
         /\ \A k \in Nat : BytesOf(k) \in Nat \ {0} /\ BytesOf(k) <= host.chunk
  <1>1. /\ host.chunk \in Nat \ {0} /\ LastChunk \in Nat \ {0} /\ LastChunk <= host.chunk
        /\ Chunks \in Nat \ {0}
    <2>1. host.chunk \in BlindChunks \union {AckedChunk}
      BY DEF HostType
    <2>2. AckedChunk \in Nat \ {0}
      BY OtaUpdateAssumption
    <2>. QED
      BY <2>1, <2>2, OtaUpdateAssumption
  <1>2. (Chunks - 1) * host.chunk \in Nat
    BY <1>1
  <1>. QED
    BY <1>1, <1>2 DEF ImageBytes, BytesOf

LEMMA SentLength ==
  ASSUME NEW c \in Nat \ {0}
  PROVE  /\ SentBy(c, 0) = 0
         /\ \A j \in 0 .. Chunks : SentBy(c, j) \in Nat /\ SentBy(c, j) <= SentBy(c, Chunks)
         /\ \A j \in 1 .. Chunks : /\ BytesBy(c, j) \in Nat \ {0}
                                   /\ SentBy(c, j) = SentBy(c, j - 1) + BytesBy(c, j)
  <1>0. Chunks \in Nat \ {0} /\ LastChunk \in Nat \ {0}
    BY OtaUpdateAssumption
  <1>1. SentBy(c, 0) = 0
    BY <1>0 DEF SentBy
  <1>2. ASSUME NEW j \in 0 .. Chunks
        PROVE  SentBy(c, j) \in Nat /\ SentBy(c, j) <= SentBy(c, Chunks)
    <2>1. CASE j = Chunks
      <3>1. (Chunks - 1) * c \in Nat
        BY <1>0
      <3>. QED
        BY <1>0, <2>1, <3>1 DEF SentBy
    <2>2. CASE j # Chunks
      <3>. DEFINE rest == Chunks - 1 - j
      <3>1. j \in Nat /\ rest \in Nat
        BY <1>0, <2>2
      <3>2. j * c \in Nat /\ rest * c \in Nat
        BY <3>1
      <3>3. (Chunks - 1) * c = j * c + rest * c
        BY <1>0, <3>1
      <3>. QED
        BY <1>0, <2>2, <3>1, <3>2, <3>3 DEF SentBy
    <2>. QED
      BY <2>1, <2>2
  <1>3. ASSUME NEW j \in 1 .. Chunks
        PROVE  /\ BytesBy(c, j) \in Nat \ {0}
               /\ SentBy(c, j) = SentBy(c, j - 1) + BytesBy(c, j)
    <2>1. j \in Nat /\ j - 1 # Chunks
      BY <1>0
    <2>2. j * c = (j - 1) * c + c
      BY <2>1
    <2>3. CASE j = Chunks
      BY <1>0, <2>1, <2>3 DEF SentBy, BytesBy
    <2>4. CASE j # Chunks
      BY <1>0, <2>1, <2>2, <2>4 DEF SentBy, BytesBy
    <2>. QED
      BY <2>3, <2>4
  <1>. QED
    BY <1>1, <1>2, <1>3

LEMMA HostBytes ==
  ASSUME host \in HostType
  PROVE  /\ ImageBytes = SentBy(host.chunk, Chunks)
         /\ \A k \in 1 .. Chunks : BytesOf(k) = BytesBy(host.chunk, k)
  BY DEF ImageBytes, SentBy, BytesOf, BytesBy

-----------------------------------------------------------------------------
(* Messages. *)

\* What the host sends: begin and end bear no chunk.
Sends(cmd, k) ==
  \/ cmd \in {"begin", "end"} /\ k = 0
  \/ cmd \in {"data", "acked"} /\ k \in 1 .. Chunks

LEMMA FrameLength ==
  ASSUME host \in HostType, NEW cmd, NEW k, Sends(cmd, k)
  PROVE  /\ FrameSize(cmd, k) \in Nat /\ FrameSize(cmd, k) >= 4
         /\ cmd = "acked" => FrameSize(cmd, k) >= 8
  <1>1. \A n \in Nat : BytesOf(n) \in Nat \ {0}
    BY ChunkLength
  <1>2. ASSUME k \in Nat
        PROVE  Encoded(BytesOf(k)) \in Nat /\ Encoded(BytesOf(k)) >= 2
    <2>1. BytesOf(k) \in Nat \ {0}
      BY <1>1, <1>2
    <2>. QED
      BY <2>1, EncodedLength
  <1>3. k \in Nat
    BY OtaUpdateAssumption DEF Sends
  <1>. QED
    BY <1>2, <1>3 DEF Sends, FrameSize

LEMMA ArrivingLength ==
  ASSUME host \in HostType, NEW cmd, NEW k, Sends(cmd, k),
         NEW lost \in SUBSET Parts(cmd, k)
  PROVE  /\ Arriving(cmd, k, lost) \in Nat
         /\ "head" \notin lost => Arriving(cmd, k, lost) >= 3
         /\ "head" \notin lost /\ "tail" \notin lost => Arriving(cmd, k, lost) >= 4
         /\ "tail" \notin lost => Arriving(cmd, k, lost) >= 1
         /\ lost = {} => Arriving(cmd, k, lost) = FrameSize(cmd, k)
         /\ "body" \in lost /\ lost \subseteq {"body"} =>
              Arriving(cmd, k, lost) = FrameSize(cmd, k) - 3
  <1>. DEFINE size == FrameSize(cmd, k)
  <1>1. size \in Nat /\ size >= 4 /\ (cmd = "acked" => size >= 8)
    BY FrameLength
  <1>2. /\ Tail3(size) \in 1 .. 3
        /\ size >= Tail3(size) + 3
        /\ size - Tail3(size) - 3 > 0 => size >= Tail3(size) + 6
        /\ size - Tail3(size) - 6 > 0 => size >= Tail3(size) + 9
    BY <1>1, TailLength
  <1>3. cmd = "acked" => size >= Tail3(size) + 6
    BY <1>1, <1>2
  <1>. HIDE DEF size
  <1>4. /\ "lens" \in lost => cmd = "acked"
        /\ "body" \in lost /\ cmd = "acked" => size >= Tail3(size) + 9
        /\ "body" \in lost /\ cmd # "acked" => size >= Tail3(size) + 6
    BY <1>1, <1>2 DEF Parts, size
  <1>. QED
    BY <1>1, <1>2, <1>3, <1>4 DEF Arriving, size

LEMMA PartsLost ==
  ASSUME NEW cmd, NEW k, NEW lost \in SUBSET Parts(cmd, k)
  PROVE  /\ Cardinality(lost) \in Nat
         /\ Cardinality(lost) = 0 => lost = {}
         /\ Cardinality(lost) = 1 => \E part \in Parts(cmd, k) : lost = {part}
  <1>1. Parts(cmd, k) \subseteq {"head", "lens", "body", "tail"}
    BY DEF Parts
  <1>2. IsFiniteSet({"head", "lens", "body", "tail"})
    <2>1. IsFiniteSet({"head"})
      BY FS_Singleton
    <2>2. IsFiniteSet({"head"} \union {"lens"})
      BY <2>1, FS_AddElement
    <2>3. IsFiniteSet(({"head"} \union {"lens"}) \union {"body"})
      BY <2>2, FS_AddElement
    <2>4. IsFiniteSet((({"head"} \union {"lens"}) \union {"body"}) \union {"tail"})
      BY <2>3, FS_AddElement
    <2>5. {"head", "lens", "body", "tail"} =
            (({"head"} \union {"lens"}) \union {"body"}) \union {"tail"}
      OBVIOUS
    <2>. QED
      BY <2>4, <2>5
  <1>3. IsFiniteSet(lost)
    BY <1>1, <1>2, FS_Subset
  <1>. QED
    BY <1>3, FS_CardinalityType, FS_EmptySet, FS_Singleton

LEMMA AssembledType ==
  ASSUME host \in HostType, buffer \in MessageType, NEW cmd, NEW k, Sends(cmd, k),
         NEW lost \in SUBSET Parts(cmd, k)
  PROVE  /\ Assembled(cmd, k, lost) \in MessageType
         /\ Assembled(cmd, k, lost) # Nothing /\ "tail" \notin lost =>
              Assembled(cmd, k, lost).bytes >= 4
  <1>1. ASSUME NEW gone \in SUBSET Parts(cmd, k), "head" \notin gone
        PROVE  /\ Alone(cmd, k, gone) \in MessageType
               /\ "tail" \notin gone => Alone(cmd, k, gone).bytes >= 4
    <2>1. Arriving(cmd, k, gone) \in Nat \ (0 .. 2)
      BY <1>1, ArrivingLength
    <2>2. "tail" \notin gone => Arriving(cmd, k, gone) >= 4
      BY <1>1, ArrivingLength
    <2>. QED
      BY <2>1, <2>2 DEF Alone, MessageType, Sends
  <1>2. CASE "head" \notin lost
    BY <1>1, <1>2 DEF Assembled
  <1>3. CASE "head" \in lost /\ buffer = Nothing
    <2>1. Assembled(cmd, k, lost) = Nothing
      BY <1>3 DEF Assembled, Nothing
    <2>. QED
      BY <2>1 DEF MessageType
  <1>4. CASE "head" \in lost /\ buffer # Nothing /\ buffer.bytes = 3 /\ buffer.cmd = cmd
    <2>1. Assembled(cmd, k, lost) = Alone(cmd, k, lost \ {"head"})
      BY <1>4 DEF Assembled
    <2>. QED
      BY <2>1, <1>1
  <1>5. CASE "head" \in lost /\ buffer # Nothing /\ ~(buffer.bytes = 3 /\ buffer.cmd = cmd)
    <2>1. Assembled(cmd, k, lost) = Glued(cmd, k, lost)
      BY <1>5 DEF Assembled
    <2>2. buffer.bytes \in Nat \ (0 .. 2)
      BY <1>5 DEF MessageType
    <2>3. /\ Arriving(cmd, k, lost) \in Nat
          /\ "tail" \notin lost => Arriving(cmd, k, lost) >= 1
      BY ArrivingLength
    <2>4. /\ buffer.bytes + Arriving(cmd, k, lost) \in Nat \ (0 .. 2)
          /\ "tail" \notin lost => buffer.bytes + Arriving(cmd, k, lost) >= 4
      BY <2>2, <2>3
    <2>. QED
      BY <1>5, <2>1, <2>4 DEF Glued, MessageType
  <1>. QED
    BY <1>2, <1>3, <1>4, <1>5

\* A message is frame k as the host cut it only if it is the frame just sent.
LEMMA WholeMessage ==
  ASSUME host \in HostType, buffer \in MessageType, NEW cmd, NEW k, Sends(cmd, k),
         NEW lost \in SUBSET Parts(cmd, k),
         Assembled(cmd, k, lost).whole
  PROVE  /\ Assembled(cmd, k, lost).cmd = cmd /\ Assembled(cmd, k, lost).k = k
         /\ Assembled(cmd, k, lost).bytes = FrameSize(cmd, k)
  <1>1. ASSUME NEW gone \in SUBSET Parts(cmd, k), Alone(cmd, k, gone).whole
        PROVE  /\ Alone(cmd, k, gone).cmd = cmd /\ Alone(cmd, k, gone).k = k
               /\ Alone(cmd, k, gone).bytes = FrameSize(cmd, k)
    BY <1>1, ArrivingLength DEF Alone
  <1>2. CASE "head" \notin lost
    <2>1. Assembled(cmd, k, lost) = Alone(cmd, k, lost)
      BY <1>2 DEF Assembled
    <2>. QED
      BY <2>1, <1>1
  <1>3. CASE "head" \in lost /\ buffer = Nothing
    BY <1>3 DEF Assembled, Nothing
  <1>4. CASE "head" \in lost /\ buffer # Nothing /\ buffer.bytes = 3 /\ buffer.cmd = cmd
    <2>1. Assembled(cmd, k, lost) = Alone(cmd, k, lost \ {"head"})
      BY <1>4 DEF Assembled
    <2>. QED
      BY <2>1, <1>1
  <1>5. CASE "head" \in lost /\ buffer # Nothing /\ ~(buffer.bytes = 3 /\ buffer.cmd = cmd)
    <2>1. Assembled(cmd, k, lost) = Glued(cmd, k, lost)
      BY <1>5 DEF Assembled
    <2>. QED
      BY <2>1 DEF Glued, MessageType, Nothing
  <1>. QED
    BY <1>2, <1>3, <1>4, <1>5

\* The chunk a message writes, and how long it is taken to be.
ChunkIn(m) == IF m.whole THEN m.k ELSE Garbage
LengthIn(m) == Decoded(m.bytes - IF m.cmd = "data" THEN 4 ELSE 6)

LEMMA ChunkMessage ==
  ASSUME NEW m \in MessageType, m.cmd \in {"data", "acked"}
  PROVE  m.k \in 1 .. Chunks
  <1>. DEFINE bytes == Nat \ (0 .. 2)
  <1>1. CASE m = Nothing
    BY <1>1 DEF Nothing
  <1>2. CASE m \in [cmd : {"begin", "end"}, k : {0}, bytes : bytes, lens : {FALSE},
                    whole : BOOLEAN]
    BY <1>2
  <1>3. CASE m \in [cmd : {"data", "acked"}, k : 1 .. Chunks, bytes : bytes,
                    lens : BOOLEAN, whole : BOOLEAN]
    BY <1>3
  <1>. QED
    BY <1>1, <1>2, <1>3, Zenon DEF MessageType

\* What a message may do to the session.
Begins(m, works) ==
  /\ m.cmd = "begin" /\ m.bytes >= 9
  /\ \E size \in IF m.whole THEN {ImageBytes} ELSE Misread : ota' = OtaBegin(size, works)

Writes(m) ==
  /\ m.cmd \in {"data", "acked"} /\ LengthIn(m) \in Nat \ {0}
  /\ ota.otaInProgress /\ Fits(LengthIn(m))
  /\ ota' = Written(ChunkIn(m), LengthIn(m))

Boots(m) == m.cmd = "end" /\ ReceivedAll /\ booted' = ota.flash /\ ota' = NoSession

\* The answer to an acknowledged chunk.
Answers(m) ==
  \E a \in AckType :
    /\ acks' = Append(acks, a)
    /\ IF m.lens THEN a.seq = m.k ELSE a.seq \in SomeSeq
    /\ a.status = 0 => Writes(m)

LEMMA MessageEffect ==
  ASSUME TypeOK, NEW m \in MessageType, m # Nothing, m.bytes >= 4,
         NEW works \in BOOLEAN, handleSysExMessage(m, works)
  PROVE  /\ Begins(m, works) \/ Writes(m) \/ ota' \in {ota, Aborted} \/ Boots(m)
         /\ Boots(m) \/ booted' = booted
         /\ IF m.cmd = "acked" THEN Answers(m) ELSE acks' = acks
  <1>0. m.bytes \in Nat /\ host.k \in 1 .. Chunks /\ Chunks \in Nat \ {0}
    BY OtaUpdateAssumption DEF MessageType, TypeOK
  <1>1. CASE m.cmd = "begin"
    BY <1>1 DEF handleSysExMessage, Begins
  <1>2. CASE m.cmd = "data"
    <2>1. m.bytes - 4 \in Nat
      BY <1>0
    <2>2. Decoded(m.bytes - 4) \in Nat
      BY <2>1, DecodedLength
    <2>3. /\ acks' = acks /\ booted' = booted
          /\ ota' = OtaData(ChunkIn(m), Decoded(m.bytes - 4), works)
      BY <1>2 DEF handleSysExMessage, ChunkIn
    <2>4. LengthIn(m) = Decoded(m.bytes - 4)
      BY <1>2 DEF LengthIn
    <2>. QED
      BY <1>2, <2>2, <2>3, <2>4 DEF OtaData, Writes
  <1>3. CASE m.cmd = "acked"
    <2>1. PICK good \in Good(m), seq \in IF m.lens THEN {m.k} ELSE SomeSeq :
            /\ ota' = OtaDataAcked(ChunkIn(m), Decoded(m.bytes - 6), Status(m, good, works))
            /\ acks' = Append(acks, [seq |-> seq, status |-> Status(m, good, works)])
            /\ booted' = booted
      BY <1>3 DEF handleSysExMessage, ChunkIn
    <2>. DEFINE status == Status(m, good, works)
    <2>2. status \in 0 .. 3
      BY DEF Status
    <2>3. seq \in 1 .. Chunks + 1
      BY <1>0, <1>3, ChunkMessage DEF SomeSeq
    <2>4. LengthIn(m) = Decoded(m.bytes - 6)
      BY <1>3 DEF LengthIn
    <2>5. ASSUME status = 0
          PROVE  Writes(m)
      <3>1. ota.otaInProgress /\ good /\ Fits(LengthIn(m))
        BY <2>4, <2>5 DEF Status
      <3>2. good \in BOOLEAN
        BY DEF Good
      <3>3. Decoded(m.bytes - 6) \in Nat \ {0}
        <4>1. CASE m.lens
          <5>1. m.k \in Nat
            BY <1>0, <1>3, ChunkMessage
          <5>2. Decoded(m.bytes - 6) = BytesOf(m.k)
            BY <3>1, <4>1 DEF Good
          <5>3. host \in HostType
            BY DEF TypeOK, HostType
          <5>. QED
            BY <5>1, <5>2, <5>3, ChunkLength
        <4>2. CASE ~m.lens
          BY <3>1, <4>2 DEF Good
        <4>. QED
          BY <4>1, <4>2
      <3>. QED
        BY <1>3, <2>1, <2>4, <2>5, <3>1, <3>3 DEF OtaDataAcked, Writes
    <2>6. ASSUME status # 0
          PROVE  ota' \in {ota, Aborted}
      BY <2>1, <2>6 DEF OtaDataAcked
    <2>8. Answers(m)
      <3>. DEFINE a == [seq |-> seq, status |-> status]
      <3>1. a \in AckType
        BY <2>2, <2>3 DEF AckType
      <3>2. IF m.lens THEN a.seq = m.k ELSE a.seq \in SomeSeq
        OBVIOUS
      <3>3. a.status = 0 => Writes(m)
        BY <2>5
      <3>4. acks' = Append(acks, a)
        BY <2>1
      <3>. QED
        BY <3>1, <3>2, <3>3, <3>4 DEF Answers
    <2>9. Writes(m) \/ ota' \in {ota, Aborted}
      BY <2>5, <2>6
    <2>. QED
      BY <1>3, <2>1, <2>8, <2>9
  <1>4. CASE m.cmd = "end"
    BY <1>4 DEF handleSysExMessage, OtaEnd, Boots
  <1>5. m.cmd \in {"begin", "data", "acked", "end"}
    BY DEF MessageType
  <1>. QED
    BY <1>1, <1>2, <1>3, <1>4, <1>5

\* A message that is kept for later, or dropped, and one that is obeyed.
Kept(m) == buffer' \in {Nothing, m} /\ UNCHANGED <<acks, ota, booted>>

Taken(m, works) ==
  /\ m # Nothing /\ m.bytes >= 4 /\ buffer' = Nothing
  /\ handleSysExMessage(m, works)

LEMMA SendEffect ==
  ASSUME TypeOK, NEW cmd, NEW k, Sends(cmd, k), Send(cmd, k)
  PROVE  \E lost \in SUBSET Parts(cmd, k), works \in BOOLEAN :
           /\ faults' \in 0 .. MaxFaults /\ overflow' \in BOOLEAN
           /\ faults' = faults + Cardinality(lost) + IF works THEN 0 ELSE 1
           /\ Assembled(cmd, k, lost) \in MessageType
           /\ buffer' # Nothing => "tail" \in lost
           /\ \/ Kept(Assembled(cmd, k, lost))
              \/ "tail" \notin lost /\ Taken(Assembled(cmd, k, lost), works)
  <1>1. PICK lost \in SUBSET Parts(cmd, k), works \in BOOLEAN :
          /\ Fault(Cardinality(lost) + IF works THEN 0 ELSE 1)
          /\ midiProcess(cmd, k, lost, works)
    BY DEF Send
  <1>. DEFINE m == Assembled(cmd, k, lost)
              ended == m # Nothing /\ "tail" \notin lost
  <1>2. m \in MessageType /\ (ended => m.bytes >= 4)
    BY AssembledType DEF TypeOK, HostType
  <1>3. Cardinality(lost) \in Nat
    BY PartsLost
  <1>4. faults \in 0 .. MaxFaults /\ MaxFaults \in Nat
    BY OtaUpdateAssumption DEF TypeOK
  <1>5. faults' = faults + Cardinality(lost) + (IF works THEN 0 ELSE 1)
        /\ faults' \in 0 .. MaxFaults
    BY <1>1, <1>3, <1>4 DEF Fault
  <1>6. overflow' \in BOOLEAN
    BY <1>1, Zenon DEF midiProcess, TypeOK
  <1>7. buffer' # Nothing => "tail" \in lost
    BY <1>1 DEF midiProcess
  <1>8. CASE ended /\ ~Over(m) /\ Accepted(m)
    <2>1. handleSysExMessage(m, works) /\ buffer' = Nothing
      BY <1>1, <1>8, Zenon DEF midiProcess
    <2>. QED
      BY <1>2, <1>5, <1>6, <1>8, <1>7, <2>1 DEF Taken
  <1>9. CASE ~(ended /\ ~Over(m) /\ Accepted(m))
    <2>1. UNCHANGED <<acks, ota, booted>>
      BY <1>1, <1>9, Zenon DEF midiProcess
    <2>2. buffer' \in {Nothing, m}
      BY <1>1 DEF midiProcess
    <2>. QED
      BY <1>2, <1>5, <1>6, <1>7, <2>1, <2>2 DEF Kept
  <1>. QED
    BY <1>8, <1>9

\* The session keeps its types and keeps count of what is written.
LEMMA MessageKeepsSession ==
  ASSUME TypeOK, NEW m \in MessageType, m # Nothing, m.bytes >= 4,
         NEW works \in BOOLEAN, handleSysExMessage(m, works)
  PROVE  /\ ota' \in SessionType /\ acks' \in Seq(AckType) /\ booted' \in Seq(0 .. Chunks)
         /\ SessionInStep => SessionInStep'
  <1>0. /\ ota \in SessionType /\ acks \in Seq(AckType) /\ booted \in Seq(0 .. Chunks)
        /\ host \in HostType /\ Chunks \in Nat
    BY OtaUpdateAssumption DEF TypeOK, SessionType, AckType, HostType
  <1>1. acks' \in Seq(AckType)
    <2>1. CASE m.cmd = "acked"
      <3>1. PICK a \in AckType : acks' = Append(acks, a)
        BY <2>1, MessageEffect DEF Answers
      <3>. QED
        BY <1>0, <3>1
    <2>2. CASE m.cmd # "acked"
      BY <1>0, <2>2, MessageEffect
    <2>. QED
      BY <2>1, <2>2
  <1>2. booted' \in Seq(0 .. Chunks)
    BY <1>0, MessageEffect DEF Boots, SessionType
  <1>3. CASE Begins(m, works)
    <2>1. PICK size \in IF m.whole THEN {ImageBytes} ELSE Misread : ota' = OtaBegin(size, works)
      BY <1>3 DEF Begins
    <2>2. size \in Nat
      BY <1>0, ChunkLength, OtaUpdateAssumption
    <2>3. None \in Seq(0 .. Chunks)
      BY DEF None
    <2>4. CASE works
      BY <1>1, <1>2, <2>1, <2>2, <2>3, <2>4 DEF OtaBegin, SessionType, SessionInStep
    <2>5. CASE ~works
      BY <1>0, <1>1, <1>2, <2>1, <2>2, <2>5 DEF OtaBegin, SessionType, SessionInStep
    <2>. QED
      BY <2>4, <2>5
  <1>4. CASE Writes(m)
    <2>. DEFINE n == LengthIn(m)
                c == ChunkIn(m)
    <2>1. n \in Nat /\ Fits(n) /\ ota' = Written(c, n)
      BY <1>4 DEF Writes
    <2>2. c \in 0 .. Chunks
      BY <1>0, <1>4, ChunkMessage DEF Writes, ChunkIn, Garbage
    <2>. HIDE DEF n, c
    <2>3. Append(ota.flash, c) \in Seq(0 .. Chunks)
      BY <1>0, <2>2 DEF SessionType
    <2>4. ota' \in SessionType
      <3>1. ota.received + n \in Nat /\ ota.progress + n \in Nat
        BY <1>0, <2>1 DEF SessionType
      <3>2. ota' = [ota EXCEPT !.received = ota.received + n, !.progress = ota.progress + n,
                               !.flash = Append(ota.flash, c)]
        BY <1>0, <2>1 DEF Written, SessionType
      <3>. HIDE <2>1
      <3>. QED
        BY <1>0, <2>3, <3>1, <3>2 DEF SessionType
    <2>5. SessionInStep => SessionInStep'
      BY <1>0, <2>1 DEF Written, SessionType, SessionInStep, Fits
    <2>. QED
      BY <1>1, <1>2, <2>4, <2>5
  <1>5. CASE ota' \in {ota, Aborted}
    BY <1>0, <1>1, <1>2, <1>5 DEF Aborted, SessionType, SessionInStep
  <1>6. CASE Boots(m)
    BY <1>1, <1>2, <1>6 DEF Boots, NoSession, None, SessionType, SessionInStep
  <1>. QED
    BY <1>3, <1>4, <1>5, <1>6, MessageEffect

LEMMA SendKeepsTypes ==
  ASSUME TypeOK, NEW cmd, NEW k, Sends(cmd, k), Send(cmd, k), host' \in HostType
  PROVE  TypeOK' /\ (SessionInStep => SessionInStep')
  <1>1. PICK lost \in SUBSET Parts(cmd, k), works \in BOOLEAN :
          /\ faults' \in 0 .. MaxFaults /\ overflow' \in BOOLEAN
          /\ Assembled(cmd, k, lost) \in MessageType
          /\ \/ Kept(Assembled(cmd, k, lost))
             \/ Taken(Assembled(cmd, k, lost), works)
    BY SendEffect
  <1>2. CASE Kept(Assembled(cmd, k, lost))
    <2>1. buffer' \in MessageType
      BY <1>1, <1>2 DEF Kept, MessageType
    <2>2. UNCHANGED <<acks, ota, booted>>
      BY <1>2 DEF Kept
    <2>. QED
      BY <1>1, <2>1, <2>2 DEF TypeOK, HostType, SessionInStep
  <1>3. CASE Taken(Assembled(cmd, k, lost), works)
    <2>1. /\ ota' \in SessionType /\ acks' \in Seq(AckType) /\ booted' \in Seq(0 .. Chunks)
          /\ SessionInStep => SessionInStep'
      BY <1>1, <1>3, MessageKeepsSession DEF Taken
    <2>2. buffer' \in MessageType
      BY <1>3 DEF Taken, MessageType
    <2>. QED
      BY <1>1, <2>1, <2>2 DEF TypeOK, HostType, SessionType, AckType
  <1>. QED
    BY <1>1, <1>2, <1>3

-----------------------------------------------------------------------------
(* Types, and the session in step with the Update library. *)

LEMMA HostSteps ==
  ASSUME host \in HostType
  PROVE  /\ \A p \in {"begin", "data", "wait", "end", "waitEnd", "done"} :
              [host EXCEPT !.phase = p] \in HostType
         /\ NextChunk \in HostType /\ Restarting \in HostType
  <1>1. host.k \in 1 .. Chunks /\ Chunks \in Nat \ {0}
    BY OtaUpdateAssumption DEF HostType
  <1>2. host.k # Chunks => host.k + 1 \in 1 .. Chunks
    BY <1>1
  <1>3. \A p \in {"begin", "data", "wait", "end", "waitEnd", "done"} :
          [host EXCEPT !.phase = p] \in HostType
    BY DEF HostType
  <1>4. NextChunk \in HostType
    BY <1>2 DEF HostType, NextChunk
  <1>5. Restarting \in HostType
    <2>1. 1 \in 1 .. Chunks
      BY <1>1
    <2>. QED
      BY <2>1 DEF HostType, Restarting
  <1>. QED
    BY <1>3, <1>4, <1>5

LEMMA SameHost ==
  ASSUME TypeOK, [Next]_vars
  PROVE  host'.kind = host.kind /\ host'.chunk = host.chunk
  <1>1. host \in HostType
    BY DEF TypeOK, HostType
  <1>. QED
    BY <1>1 DEF HostType, Next, HostStep, SendBegin, SendChunk, SendEnd, HearAck, TimeOut,
                SeeRestart, LoseAck, PowerCut, vars, NextChunk, Restarting

LEMMA InitTypes == Init => TypeOK /\ SessionInStep
  <1>. SUFFICES ASSUME Init
                PROVE  TypeOK /\ SessionInStep
    OBVIOUS
  <1>1. host \in HostType
    BY OtaUpdateAssumption DEF Init, Host, HostType
  <1>2. <<>> \in Seq(0 .. Chunks) /\ <<>> \in Seq(AckType)
    OBVIOUS
  <1>3. ota \in SessionType /\ booted \in Seq(0 .. Chunks)
    BY <1>2 DEF Init, NoSession, None, SessionType
  <1>4. faults \in 0 .. MaxFaults
    BY OtaUpdateAssumption DEF Init
  <1>5. buffer \in MessageType /\ overflow \in BOOLEAN
    BY DEF Init, MessageType
  <1>. QED
    BY <1>1, <1>2, <1>3, <1>4, <1>5
    DEF Init, TypeOK, HostType, SessionType, AckType, SessionInStep, NoSession

LEMMA StepTypes == TypeOK /\ [Next]_vars => TypeOK' /\ (SessionInStep => SessionInStep')
  <1>. SUFFICES ASSUME TypeOK, [Next]_vars
                PROVE  TypeOK' /\ (SessionInStep => SessionInStep')
    OBVIOUS
  <1>0. /\ host \in HostType /\ acks \in Seq(AckType) /\ buffer \in MessageType
        /\ overflow \in BOOLEAN /\ ota \in SessionType /\ booted \in Seq(0 .. Chunks)
        /\ faults \in 0 .. MaxFaults /\ MaxFaults \in Nat
    BY OtaUpdateAssumption DEF TypeOK, HostType, AckType, SessionType
  <1>1. CASE SendBegin
    <2>1. host' \in HostType /\ Send("begin", 0) /\ Sends("begin", 0)
      BY <1>0, <1>1, HostSteps DEF SendBegin, Sends
    <2>. QED
      BY <2>1, SendKeepsTypes
  <1>2. CASE SendChunk
    <2>. DEFINE cmd == IF host.kind = "blind" THEN "data" ELSE "acked"
    <2>1. host' \in HostType
      BY <1>0, <1>2, HostSteps DEF SendChunk
    <2>2. Send(cmd, host.k) /\ Sends(cmd, host.k)
      BY <1>0, <1>2 DEF SendChunk, Sends, HostType
    <2>. QED
      BY <2>1, <2>2, SendKeepsTypes
  <1>3. CASE SendEnd
    <2>1. host' \in HostType /\ Send("end", 0) /\ Sends("end", 0)
      BY <1>0, <1>3, HostSteps DEF SendEnd, Sends
    <2>. QED
      BY <2>1, SendKeepsTypes
  <1>4. CASE HearAck
    <2>1. host' \in HostType
      BY <1>0, <1>4, HostSteps DEF HearAck
    <2>2. acks' \in Seq(AckType)
      <3>1. acks' = Tail(acks) \/ acks' = <<>>
        BY <1>4 DEF HearAck
      <3>2. acks # <<>>
        BY <1>4 DEF HearAck
      <3>3. Tail(acks) \in Seq(AckType)
        BY <1>0, <3>2
      <3>4. <<>> \in Seq(AckType)
        OBVIOUS
      <3>. QED
        BY <3>1, <3>3, <3>4
    <2>3. UNCHANGED <<buffer, overflow, ota, booted, faults>>
      BY <1>4 DEF HearAck
    <2>. QED
      BY <1>0, <2>1, <2>2, <2>3 DEF TypeOK, HostType, AckType, SessionType, SessionInStep
  <1>5. CASE TimeOut
    <2>1. host' \in HostType
      BY <1>0, <1>5, HostSteps DEF TimeOut
    <2>2. acks' \in Seq(AckType) /\ faults' \in 0 .. MaxFaults
      BY <1>0, <1>5 DEF TimeOut, Fault
    <2>3. UNCHANGED <<buffer, overflow, ota, booted>>
      BY <1>5 DEF TimeOut
    <2>. QED
      BY <1>0, <2>1, <2>2, <2>3 DEF TypeOK, HostType, AckType, SessionType, SessionInStep
  <1>6. CASE SeeRestart
    <2>1. host' \in HostType
      BY <1>0, <1>6, HostSteps DEF SeeRestart
    <2>. QED
      BY <1>0, <1>6, <2>1 DEF SeeRestart, TypeOK, HostType, SessionInStep
  <1>7. CASE LoseAck
    <2>1. acks' \in Seq(AckType) /\ faults' \in 0 .. MaxFaults
      BY <1>0, <1>7 DEF LoseAck, Fault
    <2>. QED
      BY <1>0, <1>7, <2>1 DEF LoseAck, TypeOK, AckType, SessionInStep
  <1>8. CASE PowerCut
    <2>1. ota' \in SessionType /\ SessionInStep'
      BY <1>8 DEF PowerCut, NoSession, None, SessionType, SessionInStep
    <2>2. buffer' \in MessageType
      BY <1>8 DEF PowerCut, MessageType
    <2>4. faults' \in 0 .. MaxFaults
      BY <1>0, <1>8 DEF PowerCut, Fault
    <2>5. overflow' \in BOOLEAN
      BY <1>8 DEF PowerCut
    <2>3. UNCHANGED <<host, acks, booted>>
      BY <1>8 DEF PowerCut
    <2>. QED
      BY <1>0, <2>1, <2>2, <2>3, <2>4, <2>5 DEF TypeOK, HostType, AckType, SessionType
  <1>9. CASE UNCHANGED vars
    BY <1>9 DEF vars, TypeOK, SessionInStep
  <1>. QED
    BY <1>1, <1>2, <1>3, <1>4, <1>5, <1>6, <1>7, <1>8, <1>9 DEF Next, HostStep

\* The host, the assembler and the session keep their types for every image,
\* every size of chunks and every number of faults.
THEOREM TypeCorrect == Spec => []TypeOK
  BY InitTypes, StepTypes, PTL DEF Spec

\* The node's account of the session and the Update library's agree, and no
\* more is ever written than the session was begun with.
THEOREM SessionsInStep == Spec => []SessionInStep
  <1>1. TypeOK /\ SessionInStep /\ [Next]_vars => SessionInStep'
    BY StepTypes
  <1>. QED
    BY <1>1, InitTypes, TypeCorrect, PTL DEF Spec

-----------------------------------------------------------------------------
(* What is on the flash. *)

ChunksIn(f) == {f[n] : n \in DOMAIN f}
LastIn(f) == IF f = <<>> THEN 0 ELSE f[Len(f)]

\* From the first chunk on, each again, the next, or all from the first.
InOrder(f) ==
  \A n \in 1 .. Len(f) :
    IF n = 1 THEN f[n] = 1 ELSE f[n] \in {1, f[n - 1], f[n - 1] + 1}

\* r bytes are at least what the chunks up to the last one have, and that only
\* if each is there once.
Counted(c, f, r) ==
  /\ SentBy(c, LastIn(f)) <= r
  /\ r = SentBy(c, LastIn(f)) => f = UpTo(LastIn(f))

LEMMA FlashAppended ==
  ASSUME NEW f \in Seq(0 .. Chunks), NEW k \in 0 .. Chunks
  PROVE  /\ Append(f, k) \in Seq(0 .. Chunks) /\ Append(f, k) # <<>>
         /\ LastIn(Append(f, k)) = k
         /\ ChunksIn(Append(f, k)) = ChunksIn(f) \union {k}
  <1>1. Append(f, k) \in Seq(0 .. Chunks) /\ Append(f, k) # <<>>
    OBVIOUS
  <1>2. LastIn(Append(f, k)) = k
    BY DEF LastIn
  <1>3. ASSUME NEW x
        PROVE  x \in ChunksIn(Append(f, k)) <=> x \in ChunksIn(f) \union {k}
    <2>1. ASSUME NEW n \in DOMAIN f
          PROVE  f[n] \in ChunksIn(Append(f, k))
      <3>1. n \in DOMAIN Append(f, k) /\ Append(f, k)[n] = f[n]
        OBVIOUS
      <3>. QED
        BY <3>1, Zenon DEF ChunksIn
    <2>2. k \in ChunksIn(Append(f, k))
      <3>1. Len(f) + 1 \in DOMAIN Append(f, k) /\ Append(f, k)[Len(f) + 1] = k
        OBVIOUS
      <3>. QED
        BY <3>1, Zenon DEF ChunksIn
    <2>3. ASSUME NEW n \in DOMAIN Append(f, k)
          PROVE  Append(f, k)[n] \in ChunksIn(f) \union {k}
      <3>1. CASE n = Len(f) + 1
        BY <3>1
      <3>2. CASE n # Len(f) + 1
        <4>1. n \in DOMAIN f /\ Append(f, k)[n] = f[n]
          BY <3>2
        <4>. QED
          BY <4>1, Zenon DEF ChunksIn
      <3>. QED
        BY <3>1, <3>2
    <2>. QED
      BY <2>1, <2>2, <2>3, Zenon DEF ChunksIn
  <1>. QED
    BY <1>1, <1>2, <1>3

LEMMA LastOnFlash ==
  ASSUME NEW f \in Seq(0 .. Chunks)
  PROVE  /\ LastIn(f) \in 0 .. Chunks
         /\ f # <<>> => LastIn(f) \in ChunksIn(f)
         /\ LastIn(f) # 0 => f # <<>>
  <1>0. Chunks \in Nat
    BY OtaUpdateAssumption
  <1>1. CASE f = <<>>
    BY <1>0, <1>1 DEF LastIn
  <1>2. CASE f # <<>>
    <2>1. Len(f) \in 1 .. Len(f) /\ DOMAIN f = 1 .. Len(f)
      BY <1>2
    <2>2. f[Len(f)] \in 0 .. Chunks
      BY <2>1, ElementOfSeq
    <2>. QED
      BY <1>2, <2>1, <2>2, Zenon DEF LastIn, ChunksIn
  <1>. QED
    BY <1>1, <1>2

LEMMA AppendInOrder ==
  ASSUME NEW f \in Seq(0 .. Chunks), InOrder(f),
         NEW k \in 1 .. Chunks,
         IF f = <<>> THEN k = 1 ELSE k \in {1, LastIn(f), LastIn(f) + 1}
  PROVE  InOrder(Append(f, k))
  <1>. SUFFICES ASSUME NEW n \in 1 .. Len(Append(f, k))
                PROVE  IF n = 1 THEN Append(f, k)[n] = 1
                       ELSE Append(f, k)[n] \in {1, Append(f, k)[n - 1], Append(f, k)[n - 1] + 1}
    BY DEF InOrder
  <1>0. Len(f) \in Nat /\ Len(Append(f, k)) = Len(f) + 1 /\ n \in 1 .. Len(f) + 1
    OBVIOUS
  <1>1. CASE n \in 1 .. Len(f)
    <2>1. Append(f, k)[n] = f[n]
      BY <1>1
    <2>2. n # 1 => Append(f, k)[n - 1] = f[n - 1]
      BY <1>1
    <2>. QED
      BY <1>1, <2>1, <2>2 DEF InOrder
  <1>2. CASE n = Len(f) + 1
    <2>1. Append(f, k)[n] = k
      <3>1. Append(f, k)[Len(f) + 1] = k
        OBVIOUS
      <3>. QED
        BY <1>2, <3>1
    <2>2. CASE f = <<>>
      BY <1>2, <2>1, <2>2
    <2>3. CASE f # <<>>
      <3>1. n # 1 /\ Append(f, k)[n - 1] = LastIn(f)
        BY <1>2, <2>3 DEF LastIn
      <3>. QED
        BY <2>1, <2>3, <3>1
    <2>. QED
      BY <2>2, <2>3
  <1>. QED
    BY <1>0, <1>1, <1>2

LEMMA AppendUpTo ==
  ASSUME NEW j \in Nat
  PROVE  Append(UpTo(j), j + 1) = UpTo(j + 1)
  <1>1. UpTo(j) \in Seq(Nat) /\ Len(UpTo(j)) = j
    BY DEF UpTo
  <1>2. Append(UpTo(j), j + 1) \in Seq(Nat) /\ Len(Append(UpTo(j), j + 1)) = j + 1
    BY <1>1
  <1>3. UpTo(j + 1) \in Seq(Nat) /\ Len(UpTo(j + 1)) = j + 1
    BY DEF UpTo
  <1>4. ASSUME NEW n \in 1 .. j + 1
        PROVE  Append(UpTo(j), j + 1)[n] = UpTo(j + 1)[n]
    BY <1>1 DEF UpTo
  <1>. QED
    BY <1>2, <1>3, <1>4

LEMMA AppendCounted ==
  ASSUME NEW c \in Nat \ {0}, NEW f \in Seq(0 .. Chunks), NEW r \in Nat, Counted(c, f, r),
         NEW k \in 1 .. Chunks,
         IF f = <<>> THEN k = 1 ELSE k \in {1, LastIn(f), LastIn(f) + 1}
  PROVE  Counted(c, Append(f, k), r + BytesBy(c, k))
  <1>0. Chunks \in Nat \ {0}
    BY OtaUpdateAssumption
  <1>. DEFINE l == LastIn(f)
  <1>1. l \in 0 .. Chunks /\ (l # 0 => f # <<>>)
    BY LastOnFlash
  <1>2. LastIn(Append(f, k)) = k
    BY <1>0, FlashAppended
  <1>3. SentBy(c, l) <= r /\ (r = SentBy(c, l) => f = UpTo(l))
    BY DEF Counted
  <1>. HIDE DEF l
  <1>4. /\ SentBy(c, 0) = 0 /\ SentBy(c, l) \in Nat /\ SentBy(c, k) \in Nat
        /\ BytesBy(c, k) \in Nat \ {0} /\ SentBy(c, k) = SentBy(c, k - 1) + BytesBy(c, k)
        /\ l # 0 => SentBy(c, l) > 0
    <2>1. l # 0 => l \in 1 .. Chunks /\ l - 1 \in 0 .. Chunks
      BY <1>0, <1>1
    <2>2. k \in 0 .. Chunks
      BY <1>0
    <2>3. SentBy(c, 0) = 0 /\ SentBy(c, l) \in Nat /\ SentBy(c, k) \in Nat
      BY <1>1, <2>2, SentLength
    <2>4. BytesBy(c, k) \in Nat \ {0} /\ SentBy(c, k) = SentBy(c, k - 1) + BytesBy(c, k)
      BY SentLength
    <2>5. ASSUME l # 0
          PROVE  SentBy(c, l) > 0
      <3>1. /\ SentBy(c, l - 1) \in Nat /\ BytesBy(c, l) \in Nat \ {0}
            /\ SentBy(c, l) = SentBy(c, l - 1) + BytesBy(c, l)
        BY <2>1, <2>5, SentLength
      <3>. QED
        BY <3>1
    <2>. QED
      BY <2>3, <2>4, <2>5
  <1>5. CASE k = l + 1
    <2>1. SentBy(c, k) = SentBy(c, l) + BytesBy(c, k)
      BY <1>0, <1>1, <1>4, <1>5
    <2>2. SentBy(c, k) <= r + BytesBy(c, k)
      BY <1>3, <1>4, <2>1
    <2>3. ASSUME r + BytesBy(c, k) = SentBy(c, k)
          PROVE  Append(f, k) = UpTo(k)
      <3>1. f = UpTo(l)
        BY <1>3, <1>4, <2>1, <2>3
      <3>. QED
        <4>1. l \in Nat
          BY <1>0, <1>1
        <4>. QED
          BY <1>5, <3>1, <4>1, AppendUpTo
    <2>. QED
      BY <1>2, <2>2, <2>3 DEF Counted
  <1>6. CASE k # l + 1
    <2>1. l # 0
      BY <1>1, <1>6 DEF LastIn, l
    <2>2. k = l \/ k = 1
      BY <1>1, <1>6, <2>1 DEF l
    <2>3. SentBy(c, k) < r + BytesBy(c, k)
      <3>1. CASE k = l
        BY <1>3, <1>4, <3>1
      <3>2. CASE k = 1
        BY <1>3, <1>4, <2>1, <3>2
      <3>. QED
        BY <2>2, <3>1, <3>2
    <2>. QED
      BY <1>2, <1>4, <2>3 DEF Counted
  <1>. QED
    BY <1>5, <1>6

-----------------------------------------------------------------------------
(* Acknowledged chunks. *)

Clean == ota.running /\ Garbage \notin OnFlash

\* A session is begun with no answer on its way and no chunk written.
BeginsAfresh ==
  /\ host.phase = "begin" => host.k = 1 /\ acks = <<>>
  /\ buffer.cmd = "begin" =>
       host.k = 1 /\ acks = <<>> /\ host.phase \in {"data", "wait"}

\* A message left in the buffer from an earlier attempt may be answered as a
\* later chunk, but then the host hears of it first.
AcksInTurn ==
  /\ \A n \in 2 .. Len(acks) : acks[n].seq <= host.k \/ acks[n].seq = Chunks + 1
  /\ buffer.cmd = "acked" /\ buffer.k > host.k => acks = <<>>

\* What the host goes on from is written; what it is told of is written last.
HostFollows ==
  /\ \A k \in 1 .. host.k - 1 : k \in OnFlash
  /\ host.k = 1 \/ LastIn(ota.flash) \in {host.k - 1, host.k}
  /\ \A n \in 1 .. Len(acks) :
       acks[n].seq = host.k /\ acks[n].status = 0 => LastIn(ota.flash) = host.k
  /\ host.phase \in {"end", "waitEnd"} => LastIn(ota.flash) = Chunks /\ host.k = Chunks
  /\ buffer.cmd = "end" => LastIn(ota.flash) = Chunks

AckedInv ==
  host.kind = "acked" =>
    /\ BeginsAfresh /\ AcksInTurn
    /\ Clean => /\ InOrder(ota.flash) /\ Counted(host.chunk, ota.flash, ota.received)
                /\ HostFollows

LEMMA AssembledFrom ==
  ASSUME NEW cmd, NEW k, NEW lost, buffer \in MessageType,
         Assembled(cmd, k, lost) # Nothing
  PROVE  \/ Assembled(cmd, k, lost).cmd = cmd /\ Assembled(cmd, k, lost).k = k
         \/ /\ buffer # Nothing /\ ~Assembled(cmd, k, lost).whole
            /\ Assembled(cmd, k, lost).cmd = buffer.cmd /\ Assembled(cmd, k, lost).k = buffer.k
  <1>1. CASE buffer # Nothing /\ Assembled(cmd, k, lost) = Glued(cmd, k, lost)
    BY <1>1 DEF Glued, MessageType
  <1>2. CASE \E gone : Assembled(cmd, k, lost) = Alone(cmd, k, gone)
    BY <1>2 DEF Alone
  <1>. QED
    BY <1>1, <1>2 DEF Assembled

\* The three ways the host sends a frame of an acknowledged update.
AckedFrame(cmd, k) ==
  \/ /\ cmd = "begin" /\ k = 0
     /\ host.phase = "begin" /\ host' = [host EXCEPT !.phase = "data"]
  \/ /\ cmd = "acked" /\ k = host.k
     /\ host.phase = "data" /\ host' = [host EXCEPT !.phase = "wait"]
  \/ /\ cmd = "end" /\ k = 0
     /\ host.phase = "end" /\ host' = [host EXCEPT !.phase = "waitEnd"]

LEMMA AckedFrames ==
  ASSUME TypeOK, host.kind = "acked", NEW cmd, NEW k, AckedFrame(cmd, k)
  PROVE  /\ host \in HostType /\ Sends(cmd, k)
         /\ host'.kind = host.kind /\ host'.chunk = host.chunk /\ host'.k = host.k
         /\ \/ cmd = "begin" /\ k = 0 /\ host.phase = "begin" /\ host'.phase = "data"
            \/ cmd = "acked" /\ k = host.k /\ host.phase = "data" /\ host'.phase = "wait"
            \/ cmd = "end" /\ k = 0 /\ host.phase = "end" /\ host'.phase = "waitEnd"
  <1>1. host \in HostType
    BY DEF TypeOK, HostType
  <1>2. Sends(cmd, k)
    BY <1>1 DEF AckedFrame, Sends, HostType
  <1>. QED
    BY <1>1, <1>2 DEF AckedFrame, HostType

LEMMA AckedKept ==
  ASSUME TypeOK, AckedInv, host.kind = "acked", NEW cmd, NEW k, AckedFrame(cmd, k),
         NEW lost, Kept(Assembled(cmd, k, lost))
  PROVE  AckedInv'
  <1>. DEFINE m == Assembled(cmd, k, lost)
  <1>0. /\ host'.kind = host.kind /\ host'.chunk = host.chunk /\ host'.k = host.k
        /\ host.k \in 1 .. Chunks
        /\ \/ cmd = "begin" /\ k = 0 /\ host.phase = "begin" /\ host'.phase = "data"
           \/ cmd = "acked" /\ k = host.k /\ host.phase = "data" /\ host'.phase = "wait"
           \/ cmd = "end" /\ k = 0 /\ host.phase = "end" /\ host'.phase = "waitEnd"
    BY AckedFrames DEF HostType
  <1>1. acks' = acks /\ ota' = ota
    BY DEF Kept
  <1>2. buffer' = Nothing \/ buffer' = m
    BY DEF Kept
  <1>3. BeginsAfresh /\ AcksInTurn
    BY DEF AckedInv
  <1>4. m # Nothing => (m.cmd = cmd /\ m.k = k) \/ (m.cmd = buffer.cmd /\ m.k = buffer.k)
    BY AssembledFrom DEF TypeOK
  <1>. HIDE DEF m
  <1>5. BeginsAfresh'
    <2>1. CASE buffer' = Nothing
      BY <1>0, <2>1 DEF BeginsAfresh, Nothing
    <2>2. CASE buffer' # Nothing
      <3>1. CASE m.cmd = cmd /\ m.k = k
        BY <1>0, <1>1, <1>2, <1>3, <2>2, <3>1 DEF BeginsAfresh
      <3>2. CASE m.cmd = buffer.cmd
        BY <1>0, <1>1, <1>2, <1>3, <2>2, <3>2 DEF BeginsAfresh
      <3>. QED
        BY <1>2, <1>4, <2>2, <3>1, <3>2
    <2>. QED
      BY <2>1, <2>2
  <1>6. AcksInTurn'
    <2>1. CASE buffer' = Nothing
      BY <1>0, <1>1, <1>3, <2>1 DEF AcksInTurn, Nothing
    <2>2. CASE buffer' # Nothing
      <3>1. CASE m.cmd = cmd /\ m.k = k
        BY <1>0, <1>1, <1>2, <1>3, <2>2, <3>1 DEF AcksInTurn
      <3>2. CASE m.cmd = buffer.cmd /\ m.k = buffer.k
        BY <1>0, <1>1, <1>2, <1>3, <2>2, <3>2 DEF AcksInTurn
      <3>. QED
        BY <1>2, <1>4, <2>2, <3>1, <3>2
    <2>. QED
      BY <2>1, <2>2
  <1>7. ASSUME Clean'
        PROVE  /\ InOrder(ota.flash)' /\ Counted(host.chunk, ota.flash, ota.received)'
               /\ HostFollows'
    <2>1. Clean
      BY <1>1, <1>7 DEF Clean, OnFlash
    <2>2. /\ InOrder(ota.flash) /\ Counted(host.chunk, ota.flash, ota.received)
          /\ HostFollows
      BY <2>1 DEF AckedInv
    <2>3. host'.phase = "waitEnd" => host.phase = "end"
      BY <1>0
    <2>4. buffer'.cmd = "end" => LastIn(ota.flash) = Chunks
      <3>1. CASE buffer' = Nothing
        BY <3>1 DEF Nothing
      <3>2. CASE buffer' # Nothing
        BY <1>0, <1>2, <1>4, <2>2, <3>2 DEF HostFollows
      <3>. QED
        BY <3>1, <3>2
    <2>5. InOrder(ota'.flash) /\ Counted(host'.chunk, ota'.flash, ota'.received)
      BY <1>0, <1>1, <2>2
    <2>6. HostFollows'
      BY <1>0, <1>1, <2>2, <2>3, <2>4 DEF HostFollows, OnFlash
    <2>. QED
      BY <2>5, <2>6
  <1>. QED
    BY <1>5, <1>6, <1>7 DEF AckedInv

\* What a message writes under its own number is that chunk, all of it.
LEMMA WholeLength ==
  ASSUME host \in HostType, buffer \in MessageType, NEW cmd, NEW k, Sends(cmd, k),
         NEW lost \in SUBSET Parts(cmd, k),
         Assembled(cmd, k, lost).whole, Assembled(cmd, k, lost).cmd \in {"data", "acked"}
  PROVE  /\ Assembled(cmd, k, lost).cmd = cmd /\ k \in 1 .. Chunks
         /\ ChunkIn(Assembled(cmd, k, lost)) = k
         /\ LengthIn(Assembled(cmd, k, lost)) = BytesBy(host.chunk, k)
  <1>. DEFINE m == Assembled(cmd, k, lost)
  <1>1. m.cmd = cmd /\ m.k = k /\ m.bytes = FrameSize(cmd, k)
    BY WholeMessage
  <1>2. cmd \in {"data", "acked"} /\ k \in 1 .. Chunks
    BY <1>1 DEF Sends
  <1>3. BytesOf(k) = BytesBy(host.chunk, k) /\ BytesOf(k) \in Nat \ {0}
    <2>1. k \in Nat
      BY <1>2, OtaUpdateAssumption
    <2>. QED
      BY <1>2, <2>1, HostBytes, ChunkLength
  <1>4. /\ Encoded(BytesOf(k)) \in Nat
        /\ Decoded(Encoded(BytesOf(k))) = BytesOf(k)
    BY <1>3, EncodedLength
  <1>5. LengthIn(m) = Decoded(Encoded(BytesOf(k)))
    <2>1. m.bytes - (IF m.cmd = "data" THEN 4 ELSE 6) = Encoded(BytesOf(k))
      BY <1>1, <1>2, <1>4 DEF FrameSize
    <2>. QED
      BY <2>1 DEF LengthIn
  <1>. QED
    BY <1>1, <1>2, <1>3, <1>4, <1>5 DEF ChunkIn

LEMMA AckedTaken ==
  ASSUME TypeOK, SessionInStep, AckedInv, host.kind = "acked",
         NEW cmd, NEW k, AckedFrame(cmd, k), NEW lost \in SUBSET Parts(cmd, k),
         Assembled(cmd, k, lost) \in MessageType,
         NEW works \in BOOLEAN, Taken(Assembled(cmd, k, lost), works)
  PROVE  AckedInv'
  <1>. DEFINE m == Assembled(cmd, k, lost)
  <1>0. /\ host'.kind = host.kind /\ host'.chunk = host.chunk /\ host'.k = host.k
        /\ host \in HostType /\ host.k \in 1 .. Chunks /\ Chunks \in Nat \ {0}
        /\ \/ cmd = "begin" /\ k = 0 /\ host.phase = "begin" /\ host'.phase = "data"
           \/ cmd = "acked" /\ k = host.k /\ host.phase = "data" /\ host'.phase = "wait"
           \/ cmd = "end" /\ k = 0 /\ host.phase = "end" /\ host'.phase = "waitEnd"
    BY AckedFrames, OtaUpdateAssumption DEF HostType
  <1>1. /\ m # Nothing /\ m.bytes >= 4 /\ buffer' = Nothing /\ handleSysExMessage(m, works)
        /\ m \in MessageType
    BY DEF Taken
  <1>2. /\ ota \in SessionType /\ acks \in Seq(AckType) /\ buffer \in MessageType
    BY DEF TypeOK, SessionType, AckType
  <1>3. BeginsAfresh /\ AcksInTurn
    BY DEF AckedInv
  <1>4. \/ m.cmd = cmd /\ m.k = k
        \/ m.cmd = buffer.cmd /\ m.k = buffer.k /\ ~m.whole
    BY <1>1, <1>2, AssembledFrom
  <1>5. /\ Begins(m, works) \/ Writes(m) \/ ota' \in {ota, Aborted} \/ Boots(m)
        /\ IF m.cmd = "acked" THEN Answers(m) ELSE acks' = acks
    BY <1>1, MessageEffect
  <1>6. m.whole /\ m.cmd \in {"data", "acked"} =>
          /\ k = host.k /\ cmd = "acked" /\ ChunkIn(m) = k
          /\ LengthIn(m) = BytesBy(host.chunk, k)
    BY <1>0, <1>2, AckedFrames, WholeLength
  <1>. HIDE DEF m
  <1>7. BeginsAfresh'
    BY <1>0, <1>1 DEF BeginsAfresh, Nothing
  <1>8. AcksInTurn'
    <2>1. CASE m.cmd # "acked"
      BY <1>0, <1>1, <1>3, <1>5, <2>1 DEF AcksInTurn, Nothing
    <2>2. CASE m.cmd = "acked"
      <3>1. PICK a \in AckType : /\ acks' = Append(acks, a)
                                 /\ IF m.lens THEN a.seq = m.k ELSE a.seq \in SomeSeq
        BY <1>5, <2>2 DEF Answers
      <3>2. a.seq <= host.k \/ a.seq = Chunks + 1 \/ acks = <<>>
        <4>1. CASE m.lens /\ m.cmd = cmd /\ m.k = k
          BY <1>0, <2>2, <3>1, <4>1
        <4>2. CASE m.lens /\ m.cmd = buffer.cmd /\ m.k = buffer.k
          <5>1. a.seq = buffer.k /\ buffer.cmd = "acked" /\ a.seq \in Nat
            BY <1>0, <2>2, <3>1, <4>2 DEF AckType
          <5>. QED
            BY <1>0, <1>3, <5>1 DEF AcksInTurn
        <4>3. CASE ~m.lens
          BY <1>0, <3>1, <4>3 DEF SomeSeq
        <4>. QED
          BY <1>4, <4>1, <4>2, <4>3
      <3>3. ASSUME NEW n \in 2 .. Len(acks')
            PROVE  acks'[n].seq <= host.k \/ acks'[n].seq = Chunks + 1
        <4>1. Len(acks) \in Nat /\ Len(acks') = Len(acks) + 1
          BY <1>2, <3>1
        <4>2. CASE n \in 2 .. Len(acks)
          <5>1. acks'[n] = acks[n]
            BY <1>2, <3>1, <4>2
          <5>. QED
            BY <1>3, <4>2, <5>1 DEF AcksInTurn
        <4>3. CASE n = Len(acks) + 1
          <5>1. acks'[n] = a
            BY <1>2, <3>1, <4>3
          <5>2. acks # <<>>
            BY <4>1, <4>3
          <5>. QED
            BY <3>2, <5>1, <5>2
        <4>. QED
          BY <4>1, <4>2, <4>3
      <3>. QED
        BY <1>0, <1>1, <3>3 DEF AcksInTurn, Nothing
    <2>. QED
      BY <2>1, <2>2
  <1>9. ASSUME Clean'
        PROVE  /\ InOrder(ota'.flash) /\ Counted(host'.chunk, ota'.flash, ota'.received)
               /\ HostFollows'
    <2>0. ota'.running /\ Garbage \notin OnFlash'
      BY <1>9 DEF Clean
    <2>1. CASE Begins(m, works)
      <3>1. ota'.flash = <<>> /\ ota'.received = 0
        BY <2>0, <2>1 DEF Begins, OtaBegin, None
      <3>2. m.cmd = "begin" /\ acks' = acks
        BY <1>5, <2>1 DEF Begins
      <3>3. host.k = 1 /\ acks = <<>> /\ host'.phase \in {"data", "wait"}
        BY <1>0, <1>3, <1>4, <3>2 DEF BeginsAfresh
      <3>4. InOrder(<<>>)
        BY DEF InOrder
      <3>5. Counted(host.chunk, <<>>, 0)
        <4>1. SentBy(host.chunk, 0) = 0
          BY <1>0, ChunkLength, SentLength
        <4>2. UpTo(0) = <<>>
          BY DEF UpTo
        <4>. QED
          BY <4>1, <4>2 DEF Counted, LastIn
      <3>6. HostFollows'
        BY <1>0, <1>1, <3>2, <3>3 DEF HostFollows, Nothing
      <3>. QED
        BY <1>0, <3>1, <3>4, <3>5, <3>6
    <2>2. CASE Writes(m)
      <3>. DEFINE c == ChunkIn(m)
                  n == LengthIn(m)
      <3>1. /\ ota.running /\ n \in Nat /\ m.cmd \in {"data", "acked"}
            /\ ota'.flash = Append(ota.flash, c) /\ ota'.received = ota.received + n
        BY <1>2, <2>2 DEF Writes, Fits, Written, SessionType
      <3>2. c \in 0 .. Chunks /\ ota.flash \in Seq(0 .. Chunks) /\ ota.received \in Nat
        BY <1>0, <1>1, <1>2, <3>1, ChunkMessage DEF ChunkIn, Garbage, SessionType
      <3>3. /\ LastIn(ota'.flash) = c
            /\ OnFlash' = OnFlash \union {c}
        <4>1. OnFlash' = ChunksIn(ota'.flash) /\ OnFlash = ChunksIn(ota.flash)
          BY DEF OnFlash, ChunksIn
        <4>. QED
          BY <3>1, <3>2, <4>1, FlashAppended
      <3>4. c # Garbage /\ Clean
        BY <2>0, <3>1, <3>3 DEF Clean
      <3>5. m.whole
        BY <3>4 DEF ChunkIn
      <3>6. k = host.k /\ cmd = "acked" /\ c = k /\ n = BytesBy(host.chunk, k)
        BY <1>6, <3>1, <3>5
      <3>. HIDE DEF c, n
      <3>7. /\ InOrder(ota.flash) /\ Counted(host.chunk, ota.flash, ota.received)
            /\ HostFollows
        BY <3>4 DEF AckedInv
      <3>8. IF ota.flash = <<>> THEN k = 1 ELSE k \in {1, LastIn(ota.flash), LastIn(ota.flash) + 1}
        <4>1. host.k = 1 \/ LastIn(ota.flash) \in {host.k - 1, host.k}
          BY <3>7 DEF HostFollows
        <4>2. ota.flash = <<>> => LastIn(ota.flash) = 0
          BY DEF LastIn
        <4>3. LastIn(ota.flash) \in Nat
          BY <1>0, <3>2, LastOnFlash
        <4>. QED
          BY <1>0, <3>6, <4>1, <4>2, <4>3
      <3>9. InOrder(ota'.flash)
        BY <1>0, <3>1, <3>2, <3>6, <3>7, <3>8, AppendInOrder
      <3>10. Counted(host'.chunk, ota'.flash, ota'.received)
        <4>1. host.chunk \in Nat \ {0}
          BY <1>0, ChunkLength
        <4>. QED
          BY <1>0, <3>1, <3>2, <3>6, <3>7, <3>8, <4>1, AppendCounted
      <3>11. HostFollows'
        BY <1>0, <1>1, <3>3, <3>6, <3>7 DEF HostFollows, Nothing
      <3>. QED
        BY <3>9, <3>10, <3>11
    <2>3. CASE ota' = ota /\ ~Writes(m)
      <3>1. Clean
        BY <2>0, <2>3 DEF Clean, OnFlash
      <3>2. /\ InOrder(ota.flash) /\ Counted(host.chunk, ota.flash, ota.received)
            /\ HostFollows
        BY <3>1 DEF AckedInv
      <3>3. ASSUME NEW n \in 1 .. Len(acks'), acks'[n].seq = host.k, acks'[n].status = 0
            PROVE  LastIn(ota.flash) = host.k
        <4>1. CASE acks' = acks
          BY <3>2, <3>3, <4>1 DEF HostFollows
        <4>2. CASE acks' # acks
          <5>1. PICK a \in AckType : acks' = Append(acks, a) /\ a.status # 0
            BY <1>5, <2>3, <4>2 DEF Answers
          <5>2. n \in 1 .. Len(acks) /\ acks'[n] = acks[n]
            BY <1>2, <3>3, <5>1
          <5>. QED
            BY <3>2, <3>3, <5>2 DEF HostFollows
        <4>. QED
          BY <4>1, <4>2
      <3>4. host'.phase = "waitEnd" => host.phase = "end"
        BY <1>0
      <3>5. HostFollows'
        BY <1>0, <1>1, <2>3, <3>2, <3>3, <3>4 DEF HostFollows, OnFlash, Nothing
      <3>. QED
        BY <1>0, <2>3, <3>2, <3>5
    <2>4. CASE ota' = Aborted
      BY <1>2, <2>0, <2>4 DEF Aborted, SessionType
    <2>5. CASE Boots(m)
      BY <2>0, <2>5 DEF Boots, NoSession
    <2>. QED
      BY <1>5, <2>1, <2>2, <2>3, <2>4, <2>5
  <1>. QED
    BY <1>7, <1>8, <1>9 DEF AckedInv

LEMMA ShorterSeq ==
  ASSUME NEW S, NEW s \in Seq(S), s # <<>>
  PROVE  /\ Len(s) \in Nat \ {0} /\ Len(Tail(s)) = Len(s) - 1
         /\ Head(s) = s[1]
         /\ \A n \in 1 .. Len(s) - 1 : Tail(s)[n] = s[n + 1]
  OBVIOUS

LEMMA StepAcked == TypeOK /\ SessionInStep /\ AckedInv /\ [Next]_vars => AckedInv'
  <1>. SUFFICES ASSUME TypeOK, SessionInStep, AckedInv, [Next]_vars,
                       host'.kind = "acked"
                PROVE  AckedInv'
    BY DEF AckedInv
  <1>0. /\ host \in HostType /\ acks \in Seq(AckType) /\ buffer \in MessageType
        /\ ota \in SessionType /\ host.k \in 1 .. Chunks /\ Chunks \in Nat \ {0}
        /\ LastIn(ota.flash) \in Nat
        /\ LastIn(ota.flash) # 0 => LastIn(ota.flash) \in OnFlash
    <2>1. ota \in SessionType /\ ota.flash \in Seq(0 .. Chunks)
      BY DEF TypeOK, SessionType
    <2>2. OnFlash = ChunksIn(ota.flash)
      BY DEF OnFlash, ChunksIn
    <2>. QED
      BY <2>1, <2>2, LastOnFlash, OtaUpdateAssumption DEF TypeOK, HostType, AckType
  <1>1. host.kind = "acked"
    BY <1>0 DEF Next, HostStep, SendBegin, SendChunk, SendEnd, HearAck, TimeOut, SeeRestart,
                LoseAck, PowerCut, vars, NextChunk, Restarting, HostType
  <1>2. BeginsAfresh /\ AcksInTurn
    BY <1>1 DEF AckedInv
  <1>3. Clean => /\ InOrder(ota.flash) /\ Counted(host.chunk, ota.flash, ota.received)
                 /\ HostFollows
    BY <1>1 DEF AckedInv
  <1>4. ASSUME NEW cmd, NEW k, AckedFrame(cmd, k), Send(cmd, k)
        PROVE  AckedInv'
    <2>1. Sends(cmd, k)
      BY <1>1, <1>4, AckedFrames
    <2>2. PICK lost \in SUBSET Parts(cmd, k), works \in BOOLEAN :
            /\ Assembled(cmd, k, lost) \in MessageType
            /\ \/ Kept(Assembled(cmd, k, lost))
               \/ Taken(Assembled(cmd, k, lost), works)
      BY <1>4, <2>1, SendEffect
    <2>. QED
      BY <1>1, <1>4, <2>2, AckedKept, AckedTaken
  <1>5. CASE SendBegin
    BY <1>4, <1>5 DEF SendBegin, AckedFrame
  <1>6. CASE SendChunk
    BY <1>1, <1>4, <1>6 DEF SendChunk, AckedFrame
  <1>7. CASE SendEnd
    BY <1>1, <1>4, <1>7 DEF SendEnd, AckedFrame
  \* Actions that send nothing leave the session alone, or end it.
  <1>8. ASSUME ota' = ota, host'.chunk = host.chunk, BeginsAfresh', AcksInTurn',
               HostFollows => HostFollows'
        PROVE  AckedInv'
    BY <1>3, <1>8 DEF AckedInv, Clean, OnFlash
  <1>9. CASE HearAck
    <2>1. /\ acks # <<>> /\ host.phase \in {"wait", "waitEnd"}
          /\ UNCHANGED <<buffer, ota>> /\ buffer.cmd # "begin"
      BY <1>2, <1>9 DEF HearAck, BeginsAfresh
    <2>2. /\ Len(acks) \in Nat \ {0} /\ Len(Tail(acks)) = Len(acks) - 1
          /\ Head(acks) = acks[1]
          /\ \A n \in 1 .. Len(acks) - 1 : Tail(acks)[n] = acks[n + 1]
      BY <1>0, <2>1, ShorterSeq
    <2>3. \A n \in 1 .. Len(acks) - 1 :
            Tail(acks)[n].seq <= host.k \/ Tail(acks)[n].seq = Chunks + 1
      BY <1>2, <2>2 DEF AcksInTurn
    <2>4. \A n \in 1 .. Len(acks) - 1 : Tail(acks)[n].seq \in Nat
      <3>1. ASSUME NEW n \in 1 .. Len(acks)
            PROVE  acks[n].seq \in Nat
        <4>1. acks[n] \in AckType
          BY <1>0, ElementOfSeq
        <4>. QED
          BY <1>0, <4>1 DEF AckType
      <3>. QED
        BY <2>2, <3>1
    <2>5. CASE /\ host.phase = "wait" /\ acks[1].seq = host.k /\ acks[1].status = 0
               /\ host' = NextChunk /\ acks' = Tail(acks)
      <3>1. /\ host'.chunk = host.chunk
            /\ \/ host.k = Chunks /\ host'.phase = "end" /\ host'.k = host.k
               \/ host.k # Chunks /\ host'.phase = "data" /\ host'.k = host.k + 1
        BY <1>0, <2>5 DEF NextChunk, HostType
      <3>2. BeginsAfresh'
        BY <2>1, <3>1 DEF BeginsAfresh
      <3>0. /\ acks' = Tail(acks) /\ Len(acks') = Len(acks) - 1
            /\ host'.k \in Nat /\ host.k \in Nat /\ host.k <= host'.k
        BY <1>0, <2>2, <2>5, <3>1
      <3>3. AcksInTurn'
        <4>1. ASSUME NEW n \in 2 .. Len(acks')
              PROVE  acks'[n].seq <= host'.k \/ acks'[n].seq = Chunks + 1
          <5>1. n \in 1 .. Len(acks) - 1
            BY <2>2, <3>0, <4>1
          <5>2. acks'[n].seq = Tail(acks)[n].seq /\ acks'[n].seq \in Nat
            BY <2>4, <3>0, <5>1
          <5>. QED
            BY <2>3, <3>0, <5>1, <5>2
        <4>2. buffer'.cmd = "acked" /\ buffer'.k > host'.k => acks' = <<>>
          <5>1. buffer.cmd = "acked" => buffer.k \in Nat
            BY <1>0, ChunkMessage
          <5>2. buffer.cmd = "acked" /\ buffer.k > host'.k => buffer.k > host.k
            BY <3>0, <5>1
          <5>. QED
            BY <1>2, <2>1, <5>2 DEF AcksInTurn
        <4>. QED
          BY <4>1, <4>2 DEF AcksInTurn
      <3>4. ASSUME HostFollows
            PROVE  HostFollows'
        <4>1. LastIn(ota.flash) = host.k /\ host.k \in OnFlash
          BY <1>0, <2>2, <2>5, <3>4 DEF HostFollows
        <4>2. \A j \in 1 .. host'.k - 1 : j \in OnFlash
          BY <1>0, <3>1, <3>4, <4>1 DEF HostFollows
        <4>3. ASSUME NEW n \in 1 .. Len(acks'), acks'[n].seq = host'.k
              PROVE  LastIn(ota.flash) = host'.k
          <5>1. CASE host'.k = host.k
            BY <4>1, <5>1
          <5>2. CASE host'.k = host.k + 1 /\ host.k # Chunks
            <6>1. n \in 1 .. Len(acks) - 1
              BY <2>2, <3>0
            <6>2. Tail(acks)[n].seq = host.k + 1
              BY <3>0, <4>3, <5>2
            <6>3. Tail(acks)[n].seq <= host.k \/ Tail(acks)[n].seq = Chunks + 1
              BY <2>3, <6>1
            <6>. QED
              BY <1>0, <3>0, <5>2, <6>2, <6>3
          <5>. QED
            BY <3>1, <5>1, <5>2
        <4>. QED
          BY <1>0, <2>1, <3>1, <3>4, <4>1, <4>2, <4>3 DEF HostFollows, OnFlash
      <3>. QED
        BY <1>8, <2>1, <3>1, <3>2, <3>3, <3>4
    <2>6. CASE /\ host' = host \/ (host.phase = "wait" /\ host' = [host EXCEPT !.phase = "data"])
               /\ acks' = Tail(acks)
      <3>1. /\ host'.chunk = host.chunk /\ host'.k = host.k
            /\ host'.phase # "begin" /\ (host'.phase \in {"end", "waitEnd"} => host'.phase = host.phase)
        BY <1>0, <2>1, <2>6 DEF HostType
      <3>2. BeginsAfresh'
        BY <2>1, <3>1 DEF BeginsAfresh
      <3>3. AcksInTurn'
        BY <1>0, <1>2, <2>1, <2>2, <2>3, <2>4, <2>6, <3>1 DEF AcksInTurn
      <3>4. ASSUME HostFollows
            PROVE  HostFollows'
        <4>1. ASSUME NEW n \in 1 .. Len(acks'), acks'[n].seq = host'.k, acks'[n].status = 0
              PROVE  LastIn(ota.flash) = host'.k
          BY <1>0, <2>2, <2>6, <3>1, <3>4, <4>1 DEF HostFollows
        <4>. QED
          BY <1>0, <2>1, <3>1, <3>4, <4>1 DEF HostFollows, OnFlash
      <3>. QED
        BY <1>8, <2>1, <3>1, <3>2, <3>3, <3>4
    <2>7. CASE host' = Restarting /\ acks' = <<>>
      <3>1. host'.chunk = host.chunk /\ host'.k = 1 /\ host'.phase = "begin"
        BY <1>0, <2>7 DEF Restarting, HostType
      <3>2. BeginsAfresh'
        BY <2>1, <2>7, <3>1 DEF BeginsAfresh
      <3>3. AcksInTurn'
        BY <2>7, <3>1 DEF AcksInTurn
      <3>4. HostFollows => HostFollows'
        BY <2>1, <2>7, <3>1 DEF HostFollows
      <3>. QED
        BY <1>8, <2>1, <3>1, <3>2, <3>3, <3>4
    <2>. QED
      BY <1>9, <2>2, <2>5, <2>6, <2>7 DEF HearAck
  <1>10. CASE TimeOut
    <2>1. /\ UNCHANGED <<buffer, ota>>
          /\ \/ /\ host.phase = "wait" /\ host' = [host EXCEPT !.phase = "data"] /\ acks' = acks
             \/ host.phase = "waitEnd" /\ host' = Restarting /\ acks' = <<>>
      BY <1>10 DEF TimeOut
    <2>2. CASE host.phase = "wait"
      <3>1. /\ host'.chunk = host.chunk /\ host'.k = host.k /\ host'.phase = "data" /\ acks' = acks
        BY <1>0, <2>1, <2>2 DEF HostType
      <3>2. BeginsAfresh'
        BY <1>2, <2>1, <3>1 DEF BeginsAfresh
      <3>3. AcksInTurn'
        BY <1>2, <2>1, <3>1 DEF AcksInTurn
      <3>4. HostFollows => HostFollows'
        BY <2>1, <3>1 DEF HostFollows, OnFlash
      <3>. QED
        BY <1>8, <2>1, <3>1, <3>2, <3>3, <3>4
    <2>3. CASE host.phase = "waitEnd"
      <3>1. /\ host'.chunk = host.chunk /\ host'.k = 1 /\ host'.phase = "begin" /\ acks' = <<>>
            /\ buffer.cmd # "begin"
        BY <1>0, <1>2, <2>1, <2>3 DEF Restarting, HostType, BeginsAfresh
      <3>2. BeginsAfresh'
        BY <2>1, <3>1 DEF BeginsAfresh
      <3>3. AcksInTurn'
        BY <3>1 DEF AcksInTurn
      <3>4. HostFollows => HostFollows'
        BY <2>1, <3>1 DEF HostFollows
      <3>. QED
        BY <1>8, <2>1, <3>1, <3>2, <3>3, <3>4
    <2>. QED
      BY <2>1, <2>2, <2>3
  <1>11. CASE SeeRestart
    <2>1. /\ host'.chunk = host.chunk /\ host'.k = host.k /\ host'.phase = "done"
          /\ host.phase = "waitEnd" /\ UNCHANGED <<acks, buffer, ota>>
      BY <1>0, <1>11 DEF SeeRestart, HostType
    <2>2. BeginsAfresh' /\ AcksInTurn'
      BY <1>2, <2>1 DEF BeginsAfresh, AcksInTurn
    <2>3. HostFollows => HostFollows'
      BY <2>1 DEF HostFollows, OnFlash
    <2>. QED
      BY <1>8, <2>1, <2>2, <2>3
  <1>12. CASE LoseAck
    <2>1. acks # <<>> /\ acks' = Tail(acks) /\ UNCHANGED <<host, buffer, ota>>
      BY <1>12 DEF LoseAck
    <2>2. /\ Len(acks) \in Nat \ {0} /\ Len(acks') = Len(acks) - 1
          /\ \A n \in 1 .. Len(acks) - 1 : acks'[n] = acks[n + 1]
      BY <1>0, <2>1, ShorterSeq
    <2>3. BeginsAfresh'
      BY <1>2, <2>1 DEF BeginsAfresh
    <2>4. AcksInTurn'
      BY <1>2, <2>1, <2>2 DEF AcksInTurn
    <2>5. ASSUME HostFollows
          PROVE  HostFollows'
      <3>1. ASSUME NEW n \in 1 .. Len(acks'), acks'[n].seq = host.k, acks'[n].status = 0
            PROVE  LastIn(ota.flash) = host.k
        BY <2>2, <2>5, <3>1 DEF HostFollows
      <3>. QED
        BY <2>1, <2>5, <3>1 DEF HostFollows, OnFlash
    <2>. QED
      BY <1>8, <2>1, <2>3, <2>4, <2>5
  <1>13. CASE PowerCut
    <2>1. ~ota'.running /\ UNCHANGED <<host, acks>> /\ buffer' = Nothing
      BY <1>13 DEF PowerCut, NoSession
    <2>. QED
      BY <1>2, <2>1 DEF AckedInv, BeginsAfresh, AcksInTurn, Clean, Nothing
  <1>14. CASE UNCHANGED vars
    BY <1>14 DEF vars, AckedInv, BeginsAfresh, AcksInTurn, Clean, HostFollows, OnFlash
  <1>. QED
    BY <1>5, <1>6, <1>7, <1>9, <1>10, <1>11, <1>12, <1>13, <1>14 DEF Next, HostStep

LEMMA InitAcked == Init => AckedInv
  <1>. SUFFICES ASSUME Init
                PROVE  AckedInv
    OBVIOUS
  <1>1. host.k = 1 /\ acks = <<>> /\ buffer = Nothing /\ ~ota.running
    BY DEF Init, Host, NoSession
  <1>2. Len(<<>>) = 0
    OBVIOUS
  <1>. QED
    BY <1>1, <1>2 DEF AckedInv, BeginsAfresh, AcksInTurn, Clean, Nothing

LEMMA AckedCorrect == Spec => [](TypeOK /\ SessionInStep /\ AckedInv)
  <1>1. Init => TypeOK /\ SessionInStep /\ AckedInv
    BY InitTypes, InitAcked
  <1>2. TypeOK /\ SessionInStep /\ AckedInv /\ [Next]_vars =>
          (TypeOK /\ SessionInStep /\ AckedInv)'
    BY StepTypes, StepAcked
  <1>. QED
    BY <1>1, <1>2, PTL DEF Spec

\* A chunk the host goes on from is on the flash of the session that runs, and
\* the chunks are there in order, but for repetitions.
THEOREM AckedChunksWritten == Spec => []AckedIsWritten
  <1>1. TypeOK /\ AckedInv => AckedIsWritten
    <2>. SUFFICES ASSUME TypeOK, AckedInv,
                         host.kind = "acked", ota.running, Garbage \notin OnFlash
                  PROVE  /\ \A k \in 1 .. host.k - 1 : k \in OnFlash
                         /\ \A n \in 1 .. Len(ota.flash) - 1 :
                              ota.flash[n + 1] \in {1, ota.flash[n], ota.flash[n] + 1}
      BY DEF AckedIsWritten
    <2>1. InOrder(ota.flash) /\ HostFollows
      BY DEF AckedInv, Clean
    <2>2. ASSUME NEW n \in 1 .. Len(ota.flash) - 1
          PROVE  ota.flash[n + 1] \in {1, ota.flash[n], ota.flash[n] + 1}
      <3>1. ota.flash \in Seq(0 .. Chunks)
        BY DEF TypeOK
      <3>2. Len(ota.flash) \in Nat
        BY <3>1
      <3>3. n + 1 \in 1 .. Len(ota.flash) /\ n + 1 # 1 /\ (n + 1) - 1 = n
        BY <3>2
      <3>. QED
        BY <2>1, <3>3 DEF InOrder
    <2>. QED
      BY <2>1, <2>2 DEF HostFollows
  <1>. QED
    BY <1>1, AckedCorrect, PTL

\* The size check of OTA_END, for an acknowledged update.
LEMMA AckedBoots ==
  ASSUME TypeOK, AckedInv, host.kind = "acked",
         NEW cmd, NEW k, AckedFrame(cmd, k), Send(cmd, k), booted' # booted,
         ota.total = ImageBytes, Garbage \notin OnFlash
  PROVE  booted' = Image
  <1>1. Sends(cmd, k) /\ host \in HostType
    BY AckedFrames
  <1>2. PICK lost \in SUBSET Parts(cmd, k), works \in BOOLEAN :
          /\ Assembled(cmd, k, lost) \in MessageType
          /\ Taken(Assembled(cmd, k, lost), works)
    BY <1>1, SendEffect DEF Kept
  <1>. DEFINE m == Assembled(cmd, k, lost)
  <1>3. Boots(m)
    BY <1>2, MessageEffect DEF Taken
  <1>4. m.cmd = cmd \/ m.cmd = buffer.cmd
    BY <1>2, AssembledFrom DEF Taken, TypeOK
  <1>5. m.cmd = "end" /\ ota.running /\ ota.received = ImageBytes /\ booted' = ota.flash
    BY <1>3 DEF Boots, ReceivedAll
  <1>. HIDE DEF m
  <1>6. Counted(host.chunk, ota.flash, ota.received) /\ HostFollows
    BY <1>5 DEF AckedInv, Clean
  <1>7. LastIn(ota.flash) = Chunks
    BY <1>4, <1>5, <1>6 DEF HostFollows, AckedFrame
  <1>8. ota.flash = UpTo(Chunks)
    BY <1>1, <1>5, <1>6, <1>7, HostBytes DEF Counted
  <1>. QED
    BY <1>5, <1>8 DEF UpTo, Image

-----------------------------------------------------------------------------
(* Blind chunks, with one fault at most. *)

\* The chunks the host has sent.
Behind == IF host.phase = "end" THEN Chunks ELSE host.k - 1

BlindInv ==
  host.kind = "blind" /\ faults <= 1 =>
    /\ host.phase \in {"begin", "data", "end", "done"}
    /\ buffer # Nothing => faults = 1
    /\ host.phase = "begin" => host.k = 1 /\ ~ota.running
    /\ host.phase # "done" /\ ota.running =>
         /\ ota.total = ImageBytes /\ ota.received <= SentBy(host.chunk, Behind)
         /\ ota.received = SentBy(host.chunk, Behind) => ota.flash = UpTo(Behind)

LEMMA InitBlind == Init => BlindInv
  BY DEF Init, Host, NoSession, BlindInv, Nothing

\* One fault is too few for a frame to go on from another one.
LEMMA BlindMessage ==
  ASSUME TypeOK, BlindInv, host.kind = "blind", NEW cmd, NEW k, Sends(cmd, k), Send(cmd, k),
         faults' <= 1
  PROVE  /\ faults <= 1
         /\ buffer' # Nothing => faults' = 1
         /\ \/ UNCHANGED <<acks, ota, booted>>
            \/ \E lost \in SUBSET Parts(cmd, k), works \in BOOLEAN :
                 /\ Alone(cmd, k, lost) \in MessageType
                 /\ lost = {} \/ lost = {"body"} \/ cmd = "acked"
                 /\ "head" \notin lost /\ "tail" \notin lost
                 /\ Taken(Alone(cmd, k, lost), works)
  <1>1. PICK lost \in SUBSET Parts(cmd, k), works \in BOOLEAN :
          /\ faults' \in 0 .. MaxFaults
          /\ faults' = faults + Cardinality(lost) + IF works THEN 0 ELSE 1
          /\ Assembled(cmd, k, lost) \in MessageType
          /\ buffer' # Nothing => "tail" \in lost
          /\ \/ Kept(Assembled(cmd, k, lost))
             \/ "tail" \notin lost /\ Taken(Assembled(cmd, k, lost), works)
    BY SendEffect
  <1>2. /\ Cardinality(lost) \in Nat /\ faults \in Nat
        /\ Cardinality(lost) = 0 => lost = {}
        /\ Cardinality(lost) = 1 => \E part \in Parts(cmd, k) : lost = {part}
    <2>1. faults \in Nat
      BY OtaUpdateAssumption DEF TypeOK
    <2>. QED
      BY <2>1, PartsLost, Zenon
  <1>3. /\ faults + Cardinality(lost) <= faults' /\ faults <= 1 /\ Cardinality(lost) <= 1
        /\ faults' \in Nat
    BY <1>1, <1>2, OtaUpdateAssumption
  <1>4. lost = {} \/ \E part \in Parts(cmd, k) : lost = {part}
    BY <1>2, <1>3
  <1>5. buffer' # Nothing => faults' = 1
    <2>1. CASE lost = {}
      BY <1>1, <2>1
    <2>2. CASE lost # {}
      <3>1. Cardinality(lost) # 0
        BY <1>2, <2>2
      <3>. QED
        BY <1>2, <1>3, <3>1
    <2>. QED
      BY <2>1, <2>2
  <1>6. CASE "head" \in lost
    <2>1. Cardinality(lost) # 0
      BY <1>2, <1>6
    <2>2. faults = 0
      BY <1>2, <1>3, <2>1
    <2>3. buffer = Nothing
      BY <2>2 DEF BlindInv
    <2>4. Assembled(cmd, k, lost) = Nothing
      BY <1>6, <2>3 DEF Assembled
    <2>. QED
      BY <1>1, <1>3, <1>5, <2>4 DEF Kept, Taken
  <1>7. CASE "head" \notin lost
    <2>1. Assembled(cmd, k, lost) = Alone(cmd, k, lost)
      BY <1>7 DEF Assembled
    <2>2. CASE Kept(Assembled(cmd, k, lost))
      BY <1>3, <1>5, <2>2 DEF Kept
    <2>3. CASE "tail" \notin lost /\ Taken(Assembled(cmd, k, lost), works)
      <3>1. lost = {} \/ lost = {"body"} \/ cmd = "acked"
        BY <1>4, <1>7, <2>3 DEF Parts
      <3>. QED
        BY <1>1, <1>3, <1>5, <1>7, <2>1, <2>3, <3>1
    <2>. QED
      BY <1>1, <2>2, <2>3
  <1>. QED
    BY <1>6, <1>7

\* What blind chunk k adds: all of it, or less.
LEMMA BlindChunk ==
  ASSUME TypeOK, NEW k \in 1 .. Chunks, NEW lost \in {{}, {"body"}}, lost \subseteq Parts("data", k)
  PROVE  /\ LengthIn(Alone("data", k, lost)) <= BytesBy(host.chunk, k)
         /\ \/ LengthIn(Alone("data", k, lost)) < BytesBy(host.chunk, k)
            \/ ChunkIn(Alone("data", k, lost)) = k
  <1>. DEFINE n == BytesBy(host.chunk, k)
              m == Alone("data", k, lost)
  <1>. SUFFICES LengthIn(m) <= n /\ (LengthIn(m) < n \/ ChunkIn(m) = k)
    OBVIOUS
  <1>1. host \in HostType /\ Sends("data", k)
    BY DEF TypeOK, HostType, Sends
  <1>2. n = BytesOf(k) /\ n \in Nat \ {0}
    <2>1. k \in Nat
      BY OtaUpdateAssumption
    <2>. QED
      BY <1>1, <2>1, HostBytes, ChunkLength
  <1>3. FrameSize("data", k) = 4 + Encoded(n)
    BY <1>2 DEF FrameSize
  <1>. HIDE DEF n
  <1>4. /\ Encoded(n) \in Nat
        /\ Decoded(Encoded(n)) = n /\ Decoded(Encoded(n) - 3) < n
        /\ Decoded(Encoded(n) - 3) \in Int
    BY <1>2, EncodedLength DEF Decoded
  <1>5. m.cmd = "data" /\ m.k = k /\ m.bytes = Arriving("data", k, lost) /\ m.whole = (lost = {})
    BY DEF Alone
  <1>. HIDE DEF m
  <1>6. CASE lost = {}
    <2>1. m.bytes - 4 = Encoded(n)
      BY <1>1, <1>3, <1>4, <1>5, <1>6, ArrivingLength
    <2>2. LengthIn(m) = n
      BY <1>4, <1>5, <2>1 DEF LengthIn
    <2>3. ChunkIn(m) = k
      BY <1>5, <1>6 DEF ChunkIn
    <2>. QED
      BY <1>2, <2>2, <2>3
  <1>7. CASE lost = {"body"}
    <2>1. m.bytes - 4 = Encoded(n) - 3
      BY <1>1, <1>3, <1>4, <1>5, <1>7, ArrivingLength
    <2>. QED
      BY <1>2, <1>4, <1>5, <2>1 DEF LengthIn
  <1>. QED
    BY <1>6, <1>7

LEMMA BlindBegin ==
  ASSUME TypeOK, BlindInv, host.kind = "blind", SendBegin, faults' <= 1
  PROVE  BlindInv' /\ booted' = booted
  <1>0. /\ host \in HostType /\ host.phase = "begin" /\ Sends("begin", 0) /\ Send("begin", 0)
        /\ host'.kind = host.kind /\ host'.chunk = host.chunk /\ host'.k = host.k
        /\ host'.phase = "data"
    BY DEF TypeOK, HostType, SendBegin, Sends
  <1>1. /\ faults <= 1
        /\ buffer' # Nothing => faults' = 1
        /\ \/ UNCHANGED <<acks, ota, booted>>
           \/ \E lost \in SUBSET Parts("begin", 0), works \in BOOLEAN :
                /\ Alone("begin", 0, lost) \in MessageType
                /\ lost = {} \/ lost = {"body"}
                /\ Taken(Alone("begin", 0, lost), works)
    BY <1>0, BlindMessage
  <1>2. host.k = 1 /\ ~ota.running
    BY <1>0, <1>1 DEF BlindInv
  <1>3. ImageBytes' = ImageBytes /\ host'.k - 1 = 0
    BY <1>0, <1>2 DEF ImageBytes
  <1>4. CASE UNCHANGED <<acks, ota, booted>>
    BY <1>0, <1>1, <1>2, <1>4 DEF BlindInv
  <1>5. ASSUME NEW lost \in SUBSET Parts("begin", 0), NEW works \in BOOLEAN,
               Alone("begin", 0, lost) \in MessageType,
               lost = {} \/ lost = {"body"}, Taken(Alone("begin", 0, lost), works)
        PROVE  BlindInv' /\ booted' = booted
    <2>. DEFINE m == Alone("begin", 0, lost)
    <2>1. m.cmd = "begin" /\ m.whole = (lost = {}) /\ m.bytes = Arriving("begin", 0, lost)
      BY DEF Alone
    <2>2. /\ Begins(m, works) \/ Writes(m) \/ ota' \in {ota, Aborted} \/ Boots(m)
          /\ Boots(m) \/ booted' = booted
      BY <1>5, MessageEffect DEF Taken
    <2>3. lost = {"body"} => m.bytes = 6
      BY <1>0, <2>1, ArrivingLength DEF FrameSize
    <2>. HIDE DEF m
    <2>4. ~Writes(m) /\ ~Boots(m)
      BY <2>1 DEF Writes, Boots
    <2>5. CASE Begins(m, works)
      <3>1. lost = {}
        BY <1>5, <2>3, <2>5 DEF Begins
      <3>2. ota' = OtaBegin(ImageBytes, works)
        BY <2>1, <2>5, <3>1 DEF Begins
      <3>3. CASE works
        <4>1. ota'.running /\ ota'.total = ImageBytes /\ ota'.received = 0 /\ ota'.flash = <<>>
          BY <3>2, <3>3 DEF OtaBegin, None
        <4>2. SentBy(host.chunk, 0) = 0
          BY <1>0, ChunkLength, SentLength
        <4>3. UpTo(0) = <<>>
          BY DEF UpTo
        <4>4. Behind' = 0
          BY <1>0, <1>3 DEF Behind
        <4>. QED
          BY <1>0, <1>1, <1>3, <2>2, <2>4, <4>1, <4>2, <4>3, <4>4 DEF BlindInv
      <3>4. CASE ~works
        <4>1. ~ota'.running
          BY <3>2, <3>4 DEF OtaBegin, TypeOK
        <4>. QED
          BY <1>0, <1>1, <2>2, <2>4, <4>1 DEF BlindInv
      <3>. QED
        BY <3>3, <3>4
    <2>6. CASE ota' \in {ota, Aborted}
      <3>1. ~ota'.running
        BY <1>2, <2>6 DEF Aborted, TypeOK
      <3>. QED
        BY <1>0, <1>1, <2>2, <2>4, <3>1 DEF BlindInv
    <2>. QED
      BY <2>2, <2>4, <2>5, <2>6
  <1>. QED
    BY <1>1, <1>4, <1>5

LEMMA BlindData ==
  ASSUME TypeOK, BlindInv, host.kind = "blind", SendChunk, faults' <= 1
  PROVE  BlindInv' /\ booted' = booted
  <1>. DEFINE k == host.k
              c == host.chunk
  <1>0. /\ host \in HostType /\ host.phase = "data" /\ Sends("data", k) /\ Send("data", k)
        /\ host'.kind = host.kind /\ host'.chunk = c
        /\ k \in 1 .. Chunks /\ Chunks \in Nat
        /\ \/ k = Chunks /\ host'.phase = "end" /\ host'.k = k
           \/ k # Chunks /\ host'.phase = "data" /\ host'.k = k + 1
    BY OtaUpdateAssumption DEF TypeOK, HostType, SendChunk, Sends, NextChunk
  <1>1. /\ faults <= 1
        /\ buffer' # Nothing => faults' = 1
        /\ \/ UNCHANGED <<acks, ota, booted>>
           \/ \E lost \in SUBSET Parts("data", k), works \in BOOLEAN :
                /\ Alone("data", k, lost) \in MessageType
                /\ lost = {} \/ lost = {"body"}
                /\ Taken(Alone("data", k, lost), works)
    BY <1>0, BlindMessage
  <1>2. /\ Behind = k - 1 /\ Behind' = k /\ ImageBytes' = ImageBytes
    BY <1>0 DEF Behind, ImageBytes
  <1>3. /\ SentBy(c, k - 1) \in Nat /\ BytesBy(c, k) \in Nat \ {0}
        /\ SentBy(c, k) = SentBy(c, k - 1) + BytesBy(c, k)
    <2>1. c \in Nat \ {0} /\ k - 1 \in 0 .. Chunks
      BY <1>0, ChunkLength
    <2>. QED
      BY <1>0, <2>1, SentLength
  <1>4. ota.running => /\ ota.total = ImageBytes /\ ota.received <= SentBy(c, k - 1)
                       /\ ota.received = SentBy(c, k - 1) => ota.flash = UpTo(k - 1)
    BY <1>0, <1>1, <1>2 DEF BlindInv
  <1>. HIDE DEF c, k
  <1>5. ota.received \in Nat /\ ota.flash \in Seq(0 .. Chunks)
    BY DEF TypeOK
  <1>6. ASSUME ota'.running =>
                 /\ ota'.total = ImageBytes /\ ota'.received <= SentBy(c, k)
                 /\ ota'.received = SentBy(c, k) => ota'.flash = UpTo(k),
               booted' = booted
        PROVE  BlindInv' /\ booted' = booted
    BY <1>0, <1>1, <1>2, <1>6 DEF BlindInv
  <1>7. CASE ota' = ota /\ booted' = booted
    BY <1>3, <1>4, <1>5, <1>6, <1>7
  <1>8. ASSUME NEW lost \in SUBSET Parts("data", k), NEW works \in BOOLEAN,
               Alone("data", k, lost) \in MessageType,
               lost = {} \/ lost = {"body"}, Taken(Alone("data", k, lost), works)
        PROVE  BlindInv' /\ booted' = booted
    <2>. DEFINE m == Alone("data", k, lost)
    <2>1. m.cmd = "data"
      BY DEF Alone
    <2>2. /\ Begins(m, works) \/ Writes(m) \/ ota' \in {ota, Aborted} \/ Boots(m)
          /\ Boots(m) \/ booted' = booted
      BY <1>8, MessageEffect DEF Taken
    <2>3. /\ LengthIn(m) <= BytesBy(c, k)
          /\ LengthIn(m) < BytesBy(c, k) \/ ChunkIn(m) = k
      BY <1>0, <1>8, BlindChunk DEF c
    <2>. HIDE DEF m
    <2>4. ~Begins(m, works) /\ ~Boots(m)
      BY <2>1 DEF Begins, Boots
    <2>5. CASE Writes(m)
      <3>1. /\ ota.running /\ LengthIn(m) \in Nat \ {0}
            /\ ota'.total = ota.total /\ ota'.received = ota.received + LengthIn(m)
            /\ ota'.flash = Append(ota.flash, ChunkIn(m))
        BY <2>5 DEF Writes, Fits, Written, TypeOK
      <3>2. /\ ota'.received <= SentBy(c, k)
            /\ ota'.received = SentBy(c, k) => ota.flash = UpTo(k - 1) /\ ChunkIn(m) = k
        BY <1>3, <1>4, <1>5, <2>3, <3>1
      <3>3. Append(UpTo(k - 1), k) = UpTo(k)
        <4>1. k - 1 \in Nat /\ (k - 1) + 1 = k
          BY <1>0
        <4>. QED
          BY <4>1, AppendUpTo
      <3>. QED
        BY <1>4, <1>6, <2>2, <2>4, <3>1, <3>2, <3>3
    <2>6. CASE ota' = Aborted
      BY <1>6, <2>2, <2>4, <2>6 DEF Aborted, TypeOK
    <2>. QED
      BY <1>7, <2>2, <2>4, <2>5, <2>6
  <1>. QED
    BY <1>1, <1>7, <1>8

LEMMA BlindEnd ==
  ASSUME TypeOK, BlindInv, host.kind = "blind", SendEnd, faults' <= 1
  PROVE  BlindInv' /\ (booted' # booted => booted' = Image)
  <1>0. /\ host \in HostType /\ host.phase = "end" /\ Sends("end", 0) /\ Send("end", 0)
        /\ host'.kind = host.kind /\ host'.phase = "done"
    BY DEF TypeOK, HostType, SendEnd, Sends
  <1>1. /\ faults <= 1
        /\ buffer' # Nothing => faults' = 1
        /\ \/ UNCHANGED <<acks, ota, booted>>
           \/ \E lost \in SUBSET Parts("end", 0), works \in BOOLEAN :
                /\ Alone("end", 0, lost) \in MessageType
                /\ Taken(Alone("end", 0, lost), works)
    BY <1>0, BlindMessage
  <1>2. BlindInv'
    BY <1>0, <1>1 DEF BlindInv
  <1>3. ASSUME booted' # booted
        PROVE  booted' = Image
    <2>1. PICK lost \in SUBSET Parts("end", 0), works \in BOOLEAN :
            /\ Alone("end", 0, lost) \in MessageType
            /\ Taken(Alone("end", 0, lost), works)
      BY <1>1, <1>3
    <2>2. Boots(Alone("end", 0, lost))
      BY <1>3, <2>1, MessageEffect DEF Taken
    <2>3. ota.running /\ ota.received = ota.total /\ booted' = ota.flash
      BY <2>2 DEF Boots, ReceivedAll
    <2>4. Behind = Chunks
      BY <1>0 DEF Behind
    <2>5. /\ ota.total = ImageBytes
          /\ ota.received = SentBy(host.chunk, Chunks) => ota.flash = UpTo(Chunks)
      BY <1>0, <1>1, <2>3, <2>4 DEF BlindInv
    <2>6. ImageBytes = SentBy(host.chunk, Chunks)
      BY <1>0, HostBytes
    <2>. QED
      BY <2>3, <2>5, <2>6 DEF UpTo, Image
  <1>. QED
    BY <1>2, <1>3

LEMMA StepBlind ==
  TypeOK /\ BlindInv /\ [Next]_vars =>
    /\ BlindInv'
    /\ host.kind = "blind" /\ faults' <= 1 /\ booted' # booted => booted' = Image
  <1>. SUFFICES ASSUME TypeOK, BlindInv, [Next]_vars, host'.kind = "blind", faults' <= 1
                PROVE  /\ BlindInv'
                       /\ booted' # booted => booted' = Image
    BY SameHost DEF BlindInv
  <1>0. host.kind = "blind" /\ faults \in Nat
    BY SameHost, OtaUpdateAssumption DEF TypeOK
  <1>1. CASE SendBegin
    BY <1>0, <1>1, BlindBegin
  <1>2. CASE SendChunk
    BY <1>0, <1>2, BlindData
  <1>3. CASE SendEnd
    BY <1>0, <1>3, BlindEnd
  <1>4. CASE HearAck
    <2>1. faults' = faults
      BY <1>4 DEF HearAck
    <2>. QED
      BY <1>0, <1>4, <2>1 DEF HearAck, BlindInv
  <1>5. CASE TimeOut
    <2>1. faults <= 1 /\ host.phase \in {"wait", "waitEnd"}
      BY <1>0, <1>5 DEF TimeOut, Fault
    <2>. QED
      BY <1>0, <2>1 DEF BlindInv
  <1>6. CASE SeeRestart
    <2>1. faults' = faults /\ host.phase = "waitEnd"
      BY <1>6 DEF SeeRestart
    <2>. QED
      BY <1>0, <2>1 DEF BlindInv
  <1>7. CASE LoseAck
    <2>1. faults' = faults + 1 /\ UNCHANGED <<host, buffer, ota, booted>>
      BY <1>7 DEF LoseAck, Fault
    <2>2. faults = 0 /\ faults' = 1
      BY <1>0, <2>1
    <2>. QED
      BY <1>0, <2>1, <2>2 DEF BlindInv, Behind, ImageBytes
  <1>8. CASE PowerCut
    <2>1. /\ faults <= 1 /\ UNCHANGED <<host, booted>>
          /\ buffer' = Nothing /\ ota' = NoSession
      BY <1>0, <1>8 DEF PowerCut, Fault
    <2>. QED
      BY <1>0, <2>1 DEF BlindInv, NoSession
  <1>9. CASE UNCHANGED vars
    BY <1>0, <1>9 DEF vars, BlindInv, Behind, ImageBytes
  <1>. QED
    BY <1>1, <1>2, <1>3, <1>4, <1>5, <1>6, <1>7, <1>8, <1>9 DEF Next, HostStep

-----------------------------------------------------------------------------
(* The size check of OTA_END. *)

LEMMA StepImage ==
  ASSUME TypeOK, AckedInv, BlindInv, [Next]_vars, booted' # booted,
         \/ host.kind = "acked" /\ ota.total = ImageBytes /\ Garbage \notin OnFlash
         \/ host.kind = "blind" /\ faults' <= 1
  PROVE  booted' = Image
  <1>1. CASE host.kind = "blind"
    BY <1>1, StepBlind
  <1>2. CASE host.kind = "acked"
    <2>1. ASSUME NEW cmd, NEW k, AckedFrame(cmd, k), Send(cmd, k)
          PROVE  booted' = Image
      BY <1>2, <2>1, AckedBoots
    <2>2. CASE SendBegin
      BY <2>1, <2>2 DEF SendBegin, AckedFrame
    <2>3. CASE SendChunk
      BY <1>2, <2>1, <2>3 DEF SendChunk, AckedFrame
    <2>4. CASE SendEnd
      BY <1>2, <2>1, <2>4 DEF SendEnd, AckedFrame
    <2>. QED
      BY <2>2, <2>3, <2>4
      DEF Next, HostStep, HearAck, TimeOut, SeeRestart, LoseAck, PowerCut, vars
  <1>. QED
    BY <1>1, <1>2

\* Nothing but the image as the host sent it boots: of acknowledged chunks
\* however many packets are lost, repeated or refused, of blind ones when one
\* packet at most was lost or one write failed.
THEOREM WholeImageBoots == Spec => ImageIsWhole
  <1>1. Init => BlindInv
    BY InitBlind
  <1>2. TypeOK /\ BlindInv /\ [Next]_vars => BlindInv'
    BY StepBlind
  <1>3. TypeOK /\ AckedInv /\ BlindInv /\ [Next]_vars =>
          [/\ booted' # booted
           /\ \/ host.kind = "acked" /\ ota.total = ImageBytes /\ Garbage \notin OnFlash
              \/ host.kind = "blind" /\ faults' <= 1
           => booted' = Image]_vars
    BY StepImage
  <1>. QED
    BY <1>1, <1>2, <1>3, AckedCorrect, PTL DEF Spec, ImageIsWhole

-----------------------------------------------------------------------------
(* An update of which nothing is lost. *)

\* The session after chunk j.
Session(j) ==
  [total |-> ImageBytes, received |-> SentBy(host.chunk, j), otaInProgress |-> TRUE,
   running |-> TRUE, progress |-> SentBy(host.chunk, j), flash |-> UpTo(j)]

Lossless == faults = 0 /\ 4 + Encoded(host.chunk) < 256

\* Where the update is, by what the host does next.
LosslessInv ==
  /\ host.kind = "acked" => host.chunk = AckedChunk
  /\ Lossless =>
       /\ buffer = Nothing /\ ~overflow
       /\ host.phase \in {"waitEnd", "done"} => booted = Image
       /\ host.phase = "begin" => host.k = 1 /\ acks = <<>>
       /\ host.phase = "data"  => ota = Session(host.k - 1) /\ acks = <<>>
       /\ host.phase = "wait"  =>
            ota = Session(host.k) /\ acks = <<[seq |-> host.k, status |-> 0]>>
       /\ host.phase = "end"   => ota = Session(Chunks)

\* A frame that arrives whole is obeyed, if its length fits in a byte.
LEMMA LosslessSend ==
  ASSUME TypeOK, LosslessInv, Lossless', host'.chunk = host.chunk,
         NEW cmd, NEW k, Sends(cmd, k), Send(cmd, k),
         cmd = "acked" => host.kind = "acked"
  PROVE  /\ buffer' = Nothing /\ ~overflow'
         /\ handleSysExMessage(Alone(cmd, k, {}), TRUE)
         /\ Alone(cmd, k, {}).bytes = FrameSize(cmd, k)
  <1>0. host \in HostType /\ faults \in Nat
    BY OtaUpdateAssumption DEF TypeOK, HostType
  <1>1. PICK lost \in SUBSET Parts(cmd, k), works \in BOOLEAN :
          /\ Fault(Cardinality(lost) + IF works THEN 0 ELSE 1)
          /\ midiProcess(cmd, k, lost, works)
    BY DEF Send
  <1>2. Cardinality(lost) \in Nat /\ (Cardinality(lost) = 0 => lost = {})
    BY PartsLost
  <1>3. faults' = 0 /\ faults' = faults + (Cardinality(lost) + IF works THEN 0 ELSE 1)
    BY <1>1 DEF Lossless, Fault
  <1>4. faults = 0 /\ lost = {} /\ works
    BY <1>0, <1>2, <1>3
  <1>5. Lossless
    BY <1>4 DEF Lossless
  <1>6. buffer = Nothing /\ ~overflow
    BY <1>5 DEF LosslessInv
  <1>. DEFINE m == Alone(cmd, k, {})
  <1>7. Assembled(cmd, k, lost) = m
    BY <1>4 DEF Assembled
  <1>8. m.bytes = FrameSize(cmd, k)
    BY <1>0, ArrivingLength DEF Alone
  <1>9. FrameSize(cmd, k) < 256
    <2>1. CASE cmd \in {"begin", "end"}
      BY <2>1 DEF FrameSize
    <2>2. CASE cmd \in {"data", "acked"}
      <3>1. k \in Nat
        BY <2>2, OtaUpdateAssumption DEF Sends
      <3>2. BytesOf(k) \in Nat \ {0} /\ host.chunk \in Nat \ {0} /\ BytesOf(k) <= host.chunk
        BY <1>0, <3>1, ChunkLength
      <3>3. /\ Encoded(BytesOf(k)) <= Encoded(host.chunk)
            /\ Encoded(BytesOf(k)) \in Nat /\ Encoded(host.chunk) \in Nat
        BY <3>2, EncodedGrows, EncodedLength
      <3>4. CASE cmd = "data"
        BY <1>5, <3>3, <3>4 DEF FrameSize, Lossless
      <3>5. CASE cmd = "acked"
        <4>1. host.chunk \in 1 .. 100
          BY <3>5, OtaUpdateAssumption DEF LosslessInv
        <4>2. Encoded(host.chunk) <= Encoded(100) /\ Encoded(100) = 115
          BY <4>1, EncodedGrows DEF Encoded
        <4>. QED
          BY <3>3, <3>5, <4>2 DEF FrameSize
      <3>. QED
        BY <2>2, <3>4, <3>5
    <2>. QED
      BY <2>1, <2>2 DEF Sends
  <1>10. m # Nothing
    <2>1. m.cmd = cmd /\ cmd # "none"
      BY DEF Alone, Sends
    <2>. QED
      BY <2>1 DEF Nothing
  <1>11. ~Over(m) /\ Accepted(m)
    <2>1. m.bytes \in Nat
      BY <1>0, <1>8, FrameLength
    <2>. QED
      BY <1>6, <1>8, <1>9, <2>1, OtaUpdateAssumption DEF Over, Accepted
  <1>12. midiProcess(cmd, k, {}, TRUE)
    BY <1>1, <1>4
  <1>13. Assembled(cmd, k, {}) = m
    BY <1>4, <1>7
  <1>. HIDE DEF m
  <1>14. buffer' = Nothing /\ overflow' = FALSE /\ handleSysExMessage(m, TRUE)
    BY <1>10, <1>11, <1>12, <1>13, Zenon DEF midiProcess
  <1>. QED
    BY <1>8, <1>14 DEF m

LEMMA SessionWritten ==
  ASSUME host \in HostType, NEW k \in 1 .. Chunks, ota = Session(k - 1)
  PROVE  Fits(BytesOf(k)) /\ Written(k, BytesOf(k)) = Session(k)
  <1>. DEFINE c == host.chunk
  <1>0. Chunks \in Nat /\ k \in Nat /\ k - 1 \in 0 .. Chunks /\ k \in 0 .. Chunks
    BY OtaUpdateAssumption
  <1>1. c \in Nat \ {0} /\ ImageBytes = SentBy(c, Chunks) /\ BytesOf(k) = BytesBy(c, k)
    BY ChunkLength, HostBytes
  <1>2. /\ SentBy(c, k - 1) \in Nat /\ SentBy(c, k) \in Nat /\ SentBy(c, Chunks) \in Nat
        /\ SentBy(c, k) <= SentBy(c, Chunks)
        /\ BytesBy(c, k) \in Nat /\ SentBy(c, k) = SentBy(c, k - 1) + BytesBy(c, k)
    <2>1. c \in Nat \ {0}
      BY <1>1
    <2>2. /\ SentBy(c, k - 1) \in Nat /\ SentBy(c, k) \in Nat
          /\ SentBy(c, k) <= SentBy(c, Chunks)
      BY <1>0, <2>1, SentLength
    <2>3. SentBy(c, Chunks) \in Nat
      <3>1. Chunks \in 0 .. Chunks
        BY <1>0
      <3>. QED
        BY <2>1, <3>1, SentLength
    <2>4. BytesBy(c, k) \in Nat /\ SentBy(c, k) = SentBy(c, k - 1) + BytesBy(c, k)
      BY <2>1, SentLength
    <2>. QED
      BY <2>2, <2>3, <2>4
  <1>3. /\ ota.running /\ ota.total = ImageBytes /\ ota.progress = SentBy(c, k - 1)
        /\ ota.received = SentBy(c, k - 1)
    BY DEF Session
  <1>4. Append(UpTo(k - 1), k) = UpTo(k)
    <2>1. k - 1 \in Nat /\ (k - 1) + 1 = k
      BY <1>0
    <2>. QED
      BY <2>1, AppendUpTo
  <1>5. Written(k, BytesOf(k)) =
          [Session(k - 1) EXCEPT !.received = SentBy(c, k - 1) + BytesOf(k),
                                 !.progress = SentBy(c, k - 1) + BytesOf(k),
                                 !.flash = Append(UpTo(k - 1), k)]
    BY DEF Written, Session
  <1>. HIDE DEF c
  <1>6. Fits(BytesOf(k))
    BY <1>1, <1>2, <1>3 DEF Fits
  <1>7. Written(k, BytesOf(k)) = Session(k)
    BY <1>1, <1>2, <1>4, <1>5 DEF Session, c
  <1>. QED
    BY <1>6, <1>7

\* What each frame does when it arrives whole.
LEMMA LosslessEffect ==
  ASSUME host \in HostType, NEW cmd, NEW k, Sends(cmd, k),
         Alone(cmd, k, {}).bytes = FrameSize(cmd, k),
         handleSysExMessage(Alone(cmd, k, {}), TRUE)
  PROVE  /\ cmd = "begin" => ota' = Session(0) /\ acks' = acks
         /\ cmd = "data" /\ ota = Session(k - 1) => ota' = Session(k) /\ acks' = acks
         /\ cmd = "acked" /\ ota = Session(k - 1) /\ acks = <<>> =>
              ota' = Session(k) /\ acks' = <<[seq |-> k, status |-> 0]>>
         /\ cmd = "end" /\ ota = Session(Chunks) => booted' = Image
  <1>. DEFINE m == Alone(cmd, k, {})
  <1>1. m.cmd = cmd /\ m.k = k /\ m.whole /\ m.bytes = FrameSize(cmd, k)
        /\ (cmd = "acked" => m.lens)
    BY DEF Alone
  <1>2. handleSysExMessage(m, TRUE)
    OBVIOUS
  <1>. HIDE DEF m
  <1>3. ASSUME cmd = "begin"
        PROVE  ota' = Session(0) /\ acks' = acks
    <2>1. m.bytes = 9
      BY <1>1, <1>3 DEF FrameSize
    <2>2. ota' = OtaBegin(ImageBytes, TRUE) /\ acks' = acks
      <3>1. acks' = acks
        BY <1>1, <1>2, <1>3 DEF handleSysExMessage
      <3>2. PICK size \in IF m.whole THEN {ImageBytes} ELSE Misread :
              ota' = IF m.bytes >= 9 THEN OtaBegin(size, TRUE) ELSE ota
        BY <1>1, <1>2, <1>3 DEF handleSysExMessage
      <3>3. size = ImageBytes
        BY <1>1, <3>2
      <3>. QED
        BY <2>1, <3>1, <3>2, <3>3
    <2>3. SentBy(host.chunk, 0) = 0
      BY ChunkLength, SentLength
    <2>4. UpTo(0) = <<>>
      BY DEF UpTo
    <2>. QED
      BY <2>2, <2>3, <2>4 DEF OtaBegin, Session, None
  <1>4. ASSUME cmd \in {"data", "acked"}, ota = Session(k - 1)
        PROVE  /\ k \in 1 .. Chunks /\ ota.otaInProgress
               /\ BytesOf(k) \in Nat \ {0} /\ Fits(BytesOf(k)) /\ Written(k, BytesOf(k)) = Session(k)
               /\ Decoded(m.bytes - IF cmd = "data" THEN 4 ELSE 6) = BytesOf(k)
               /\ m.bytes \in Nat /\ m.bytes >= 6
    <2>1. k \in 1 .. Chunks /\ k \in Nat
      BY <1>4, OtaUpdateAssumption DEF Sends
    <2>2. BytesOf(k) \in Nat \ {0}
      BY <2>1, ChunkLength
    <2>3. Fits(BytesOf(k)) /\ Written(k, BytesOf(k)) = Session(k)
      BY <1>4, <2>1, SessionWritten
    <2>4. /\ Encoded(BytesOf(k)) \in Nat /\ Encoded(BytesOf(k)) >= 2
          /\ Decoded(Encoded(BytesOf(k))) = BytesOf(k)
      BY <2>2, EncodedLength
    <2>5. /\ m.bytes - (IF cmd = "data" THEN 4 ELSE 6) = Encoded(BytesOf(k))
          /\ m.bytes \in Nat /\ m.bytes >= 6
      BY <1>1, <1>4, <2>4 DEF FrameSize
    <2>6. ota.otaInProgress
      BY <1>4 DEF Session
    <2>. QED
      BY <2>1, <2>2, <2>3, <2>4, <2>5, <2>6
  <1>5. ASSUME cmd = "data", ota = Session(k - 1)
        PROVE  ota' = Session(k) /\ acks' = acks
    <2>1. ota' = OtaData(k, Decoded(m.bytes - 4), TRUE) /\ acks' = acks
      BY <1>1, <1>2, <1>5 DEF handleSysExMessage
    <2>. QED
      BY <1>4, <1>5, <2>1 DEF OtaData
  <1>6. ASSUME cmd = "acked", ota = Session(k - 1), acks = <<>>
        PROVE  ota' = Session(k) /\ acks' = <<[seq |-> k, status |-> 0]>>
    <2>1. PICK good \in Good(m), seq \in {k} :
            /\ ota' = OtaDataAcked(k, Decoded(m.bytes - 6), Status(m, good, TRUE))
            /\ acks' = Append(acks, [seq |-> seq, status |-> Status(m, good, TRUE)])
      BY <1>1, <1>2, <1>6 DEF handleSysExMessage
    <2>2. Decoded(m.bytes - 6) = BytesOf(k)
      BY <1>4, <1>6
    <2>3. good
      BY <1>1, <1>6, <2>1, <2>2 DEF Good
    <2>. DEFINE status == Status(m, good, TRUE)
    <2>4. status = 0
      <3>1. ota.otaInProgress /\ ~(m.bytes < 6) /\ Fits(Decoded(m.bytes - 6))
        BY <1>4, <1>6, <2>2
      <3>. QED
        BY <2>3, <3>1, Zenon DEF Status
    <2>7. /\ ota' = OtaDataAcked(k, BytesOf(k), status)
          /\ acks' = Append(acks, [seq |-> k, status |-> status])
      BY <2>1, <2>2
    <2>. HIDE DEF status
    <2>5. ota' = Written(k, BytesOf(k))
      BY <2>4, <2>7 DEF OtaDataAcked
    <2>6. acks' = <<[seq |-> k, status |-> 0]>>
      BY <1>6, <2>4, <2>7
    <2>. QED
      BY <1>4, <1>6, <2>5, <2>6
  <1>7. ASSUME cmd = "end", ota = Session(Chunks)
        PROVE  booted' = Image
    <2>1. ReceivedAll
      BY <1>7, HostBytes DEF ReceivedAll, Session
    <2>2. booted' = ota.flash
      BY <1>1, <1>2, <1>7, <2>1 DEF handleSysExMessage, OtaEnd
    <2>. QED
      BY <1>7, <2>2 DEF Session, UpTo, Image
  <1>. QED
    BY <1>3, <1>5, <1>6, <1>7

LEMMA StepLossless == TypeOK /\ LosslessInv /\ [Next]_vars => LosslessInv'
  <1>. SUFFICES ASSUME TypeOK, LosslessInv, [Next]_vars
                PROVE  LosslessInv'
    OBVIOUS
  <1>0. /\ host \in HostType /\ host'.kind = host.kind /\ host'.chunk = host.chunk
        /\ host.k \in 1 .. Chunks /\ Chunks \in Nat \ {0} /\ faults \in Nat
    BY SameHost, OtaUpdateAssumption DEF TypeOK, HostType
  <1>1. \A j : Session(j)' = Session(j)
    BY <1>0 DEF Session, ImageBytes
  <1>. SUFFICES ASSUME Lossless'
                PROVE  /\ buffer' = Nothing /\ ~overflow'
                       /\ host'.phase \in {"waitEnd", "done"} => booted' = Image
                       /\ host'.phase = "begin" => host'.k = 1 /\ acks' = <<>>
                       /\ host'.phase = "data"  => ota' = Session(host'.k - 1) /\ acks' = <<>>
                       /\ host'.phase = "wait"  =>
                            ota' = Session(host'.k) /\ acks' = <<[seq |-> host'.k, status |-> 0]>>
                       /\ host'.phase = "end"   => ota' = Session(Chunks)
    BY <1>0, <1>1 DEF LosslessInv
  <1>2. faults' = 0
    BY DEF Lossless
  <1>3. faults = 0 => Lossless
    BY <1>0 DEF Lossless
  <1>4. ASSUME NEW cmd, NEW k, Sends(cmd, k), Send(cmd, k), cmd = "acked" => host.kind = "acked"
        PROVE  /\ buffer' = Nothing /\ ~overflow' /\ Lossless
               /\ cmd = "begin" => ota' = Session(0) /\ acks' = acks
               /\ cmd = "data" /\ ota = Session(k - 1) => ota' = Session(k) /\ acks' = acks
               /\ cmd = "acked" /\ ota = Session(k - 1) /\ acks = <<>> =>
                    ota' = Session(k) /\ acks' = <<[seq |-> k, status |-> 0]>>
               /\ cmd = "end" /\ ota = Session(Chunks) => booted' = Image
    <2>1. /\ buffer' = Nothing /\ ~overflow'
          /\ handleSysExMessage(Alone(cmd, k, {}), TRUE)
          /\ Alone(cmd, k, {}).bytes = FrameSize(cmd, k)
      BY <1>0, <1>4, LosslessSend
    <2>2. Lossless
      <3>1. PICK lost \in SUBSET Parts(cmd, k), works \in BOOLEAN :
              faults' = faults + Cardinality(lost) + IF works THEN 0 ELSE 1
        BY <1>4, SendEffect
      <3>2. Cardinality(lost) \in Nat
        BY PartsLost
      <3>. QED
        BY <1>0, <1>2, <1>3, <3>1, <3>2
    <2>. QED
      BY <1>0, <1>4, <2>1, <2>2, LosslessEffect
  <1>5. CASE SendBegin
    <2>1. /\ host.phase = "begin" /\ Send("begin", 0) /\ Sends("begin", 0)
          /\ host'.phase = "data" /\ host'.k = host.k
      BY <1>0, <1>5 DEF SendBegin, Sends, HostType
    <2>2. /\ buffer' = Nothing /\ ~overflow' /\ Lossless
          /\ ota' = Session(0) /\ acks' = acks
      BY <1>4, <2>1
    <2>3. host.k = 1 /\ acks = <<>>
      BY <2>1, <2>2 DEF LosslessInv
    <2>. QED
      BY <2>1, <2>2, <2>3
  <1>6. CASE SendChunk
    <2>. DEFINE k == host.k
    <2>1. CASE host.kind = "blind"
      <3>1. /\ host.phase = "data" /\ Send("data", k) /\ Sends("data", k)
            /\ \/ k = Chunks /\ host'.phase = "end" /\ host'.k = k
               \/ k # Chunks /\ host'.phase = "data" /\ host'.k = k + 1
        BY <1>0, <1>6, <2>1 DEF SendChunk, Sends, HostType, NextChunk
      <3>2. /\ buffer' = Nothing /\ ~overflow' /\ Lossless
            /\ ota = Session(k - 1) => ota' = Session(k) /\ acks' = acks
        BY <1>4, <3>1
      <3>3. ota = Session(k - 1) /\ acks = <<>>
        BY <3>1, <3>2 DEF LosslessInv
      <3>4. (k + 1) - 1 = k
        BY <1>0
      <3>. QED
        BY <3>1, <3>2, <3>3, <3>4
    <2>2. CASE host.kind # "blind"
      <3>1. /\ host.phase = "data" /\ Send("acked", k) /\ Sends("acked", k)
            /\ host.kind = "acked" /\ host'.phase = "wait" /\ host'.k = k
        BY <1>0, <1>6, <2>2 DEF SendChunk, Sends, HostType
      <3>2. /\ buffer' = Nothing /\ ~overflow' /\ Lossless
            /\ ota = Session(k - 1) /\ acks = <<>> =>
                 ota' = Session(k) /\ acks' = <<[seq |-> k, status |-> 0]>>
        BY <1>4, <3>1
      <3>3. ota = Session(k - 1) /\ acks = <<>>
        BY <3>1, <3>2 DEF LosslessInv
      <3>. QED
        BY <3>1, <3>2, <3>3
    <2>. QED
      BY <2>1, <2>2
  <1>7. CASE SendEnd
    <2>1. /\ host.phase = "end" /\ Send("end", 0) /\ Sends("end", 0)
          /\ host'.phase \in {"done", "waitEnd"}
      BY <1>0, <1>7 DEF SendEnd, Sends, HostType
    <2>2. /\ buffer' = Nothing /\ ~overflow' /\ Lossless
          /\ ota = Session(Chunks) => booted' = Image
      BY <1>4, <2>1
    <2>3. ota = Session(Chunks)
      BY <2>1, <2>2 DEF LosslessInv
    <2>. QED
      BY <2>1, <2>2, <2>3
  <1>8. CASE HearAck
    <2>1. Lossless /\ UNCHANGED <<buffer, overflow, ota, booted>>
      BY <1>2, <1>3, <1>8 DEF HearAck
    <2>2. CASE host.phase = "wait"
      <3>1. ota = Session(host.k) /\ acks = <<[seq |-> host.k, status |-> 0]>>
        BY <2>1, <2>2 DEF LosslessInv
      <3>2. /\ Head(acks).seq = host.k /\ Head(acks).status = 0 /\ Tail(acks) = <<>>
        BY <3>1
      <3>3. host' = NextChunk /\ acks' = <<>>
        <4>1. \/ host' = NextChunk /\ acks' = Tail(acks)
              \/ Head(acks).status \in {1, 2, 3}
              \/ ~(host.phase = "wait" /\ Head(acks).seq = host.k)
          BY <1>8 DEF HearAck
        <4>2. Head(acks).status \notin {1, 2, 3}
          BY <3>2
        <4>. QED
          BY <2>2, <3>2, <4>1, <4>2, Zenon
      <3>4. \/ host.k = Chunks /\ host'.phase = "end"
            \/ host'.phase = "data" /\ host'.k - 1 = host.k
        BY <1>0, <3>3 DEF NextChunk, HostType
      <3>. QED
        BY <2>1, <3>1, <3>3, <3>4 DEF LosslessInv
    <2>3. CASE host.phase = "waitEnd"
      BY <1>8, <2>1, <2>3 DEF HearAck, LosslessInv
    <2>. QED
      BY <1>8, <2>2, <2>3 DEF HearAck
  <1>9. CASE TimeOut
    <2>1. Fault(IF acks = <<>> THEN 0 ELSE 1)
      BY <1>9 DEF TimeOut
    <2>2. faults = 0 /\ acks = <<>>
      BY <1>0, <1>2, <2>1 DEF Fault
    <2>3. host.phase # "wait"
      BY <1>3, <2>2 DEF LosslessInv
    <2>4. booted = None /\ booted = Image
      BY <1>3, <1>9, <2>2, <2>3 DEF TimeOut, LosslessInv
    <2>. QED
      BY <1>0, <2>4 DEF None, Image
  <1>10. CASE SeeRestart
    BY <1>0, <1>2, <1>3, <1>10 DEF SeeRestart, LosslessInv, HostType
  <1>11. CASE LoseAck
    BY <1>0, <1>2, <1>11 DEF LoseAck, Fault
  <1>12. CASE PowerCut
    BY <1>0, <1>2, <1>12 DEF PowerCut, Fault
  <1>13. CASE UNCHANGED vars
    BY <1>2, <1>3, <1>13 DEF vars, LosslessInv
  <1>. QED
    BY <1>5, <1>6, <1>7, <1>8, <1>9, <1>10, <1>11, <1>12, <1>13 DEF Next, HostStep

\* An update in frames of less than 256 bytes boots when nothing of it is lost,
\* for every image and every size of chunks.
THEOREM ShortFramesBootImage == Spec => []ShortFramesBoot
  <1>1. Init => LosslessInv
    BY DEF Init, Host, LosslessInv
  <1>2. LosslessInv => ShortFramesBoot
    BY DEF LosslessInv, Lossless, ShortFramesBoot, LosslessUpdateBoots
  <1>. QED
    BY <1>1, <1>2, StepLossless, TypeCorrect, PTL DEF Spec

=============================================================================
