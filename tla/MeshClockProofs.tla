--------------------------- MODULE MeshClockProofs ---------------------------
(***************************************************************************)
(* What MeshClock guarantees for any nodes, timers and width of a word,    *)
(* however early frames come in and however long a task is held up.        *)
(***************************************************************************)
EXTENDS MeshClock, TLAPS

(***************************************************************************)
(* The invariant of NeverAhead.  What a node shows, or is about to show,   *)
(* has been reached; between two stores it may mix two words, and the one  *)
(* that weighs is no greater than that of the new offset.                  *)
(***************************************************************************)
OffsetReached(n) ==
  LET c == callback[n]
  IN  /\ c.pc = "rest" => Reached(Shows(n), Slack)
      /\ c.pc = "add" => Reached(Shows(n) + c.step, Slack)
      /\ c.pc = "store" =>
           /\ Reached(Base[n] + Value(c.new), Slack)
           /\ c.left = Half => Value(offset[n]) <= Value(c.new)
           /\ offset[n]["hi"] <= c.new["hi"]
           /\ "lo" \notin c.left => offset[n]["lo"] <= c.new["lo"]

\* A low word that is, with some high word, a reached offset no less than last.
Follows(n, last, low, slack) ==
  \E high \in Nat :
    last <= high * Word + low /\ Reached(Base[n] + (high * Word + low), slack)

\* What a broadcast has loaded: a high word that is reached; ...
HighReached(n) ==
  "hi" \notin task[n].left => Reached(Base[n] + task[n].word["hi"] * Word, Slack)

\* ... the words of the offset, when no store came between; ...
Whole(n) ==
  ~task[n].torn =>
    /\ \A half \in Half : half \notin task[n].left => task[n].word[half] = offset[n][half]
    /\ task[n].left # Half => ~HalfStored(n)

\* ... and after a read that was not torn, a low word that goes with an
\* offset no less than that read, as does every one still to be loaded.
After(n) ==
  LET t == task[n]
      c == callback[n]
  IN  t.last # NoValue /\ ~t.lastTorn =>
        /\ Follows(n, t.last, offset[n]["lo"], Slack)
        /\ "lo" \notin t.left => Follows(n, t.last, t.word["lo"], Slack)
        /\ ~HalfStored(n) => t.last <= Value(offset[n])
        /\ c.pc = "store" =>
             /\ t.last <= Value(c.new)
             /\ \A half \in Half : half \notin c.left => offset[n][half] = c.new[half]

ReadSafe(n) == task[n].pc = "read" => HighReached(n) /\ Whole(n) /\ After(n)

AirReached == \A n, m \in Node : Reached(air[n][m], Slack)

ClockInv ==
  /\ TypeOK /\ AirReached
  /\ \A n \in Node : OffsetReached(n) /\ ReadSafe(n)

-----------------------------------------------------------------------------
(* Words and what they show. *)

LEMMA WordsOf ==
  ASSUME NEW v \in Nat
  PROVE  Words(v) \in WordsType /\ Value(Words(v)) = v
  <1>1. Word \in Nat \ {0}
    BY MeshClockAssumption
  <1>2. v \div Word \in Nat /\ v % Word \in 0 .. Word - 1 /\ v = (v \div Word) * Word + (v % Word)
    BY <1>1
  <1>. QED
    BY <1>2 DEF Words, Value, WordsType

\* A value is no less than another one neither of whose words is greater.
LEMMA ValueGrows ==
  ASSUME NEW h \in Nat, NEW l \in Nat, NEW h2 \in Nat, NEW l2 \in Nat, h <= h2
  PROVE  /\ h * Word + l \in Nat
         /\ l <= l2 => h * Word + l <= h2 * Word + l2
         /\ h < h2 => h * Word + l + Word <= h2 * Word + l
  <1>1. Word \in Nat \ {0}
    BY MeshClockAssumption
  <1>2. PICK d \in Nat : h2 = h + d
    <2>1. h2 - h \in Nat /\ h2 = h + (h2 - h)
      OBVIOUS
    <2>. QED
      BY <2>1
  <1>3. h * Word \in Nat /\ d * Word \in Nat /\ h2 * Word = h * Word + d * Word
    BY <1>1, <1>2
  <1>4. h < h2 => d * Word >= Word
    <2>1. ASSUME h < h2
          PROVE  d * Word >= Word
      <3>1. PICK e \in Nat : d = e + 1
        <4>1. d - 1 \in Nat /\ d = (d - 1) + 1
          BY <1>2, <2>1
        <4>. QED
          BY <4>1
      <3>2. e * Word \in Nat /\ d * Word = e * Word + Word
        BY <1>1, <3>1
      <3>. QED
        BY <1>1, <3>2
    <2>. QED
      BY <2>1
  <1>. QED
    BY <1>1, <1>3, <1>4

-----------------------------------------------------------------------------
(* The types. *)

\* The records of the two tasks.
LEMMA CallbackIs ==
  ASSUME TypeOK, NEW n \in Node
  PROVE  /\ callback[n] = Resting => callback[n].pc = "rest"
         /\ callback[n].pc = "add" =>
              callback[n] \in [pc : {"add"}, step : Nat, direct : BOOLEAN]
         /\ callback[n].pc = "store" =>
              callback[n] \in [pc : {"store"}, new : WordsType, left : Left, direct : BOOLEAN]
         /\ callback[n] = Resting \/ callback[n].pc \in {"add", "store"}
  <1>1. callback[n] \in CallbackType
    BY DEF TypeOK
  <1>. QED
    BY <1>1 DEF CallbackType, Resting

LEMMA TaskIs ==
  ASSUME TypeOK, NEW n \in Node
  PROVE  /\ task[n] = Resting => task[n].pc = "rest"
         /\ task[n].pc = "read" =>
              task[n] \in [pc : {"read"}, left : Left, word : WordsType, torn : BOOLEAN,
                           last : Nat \union {NoValue}, lastTorn : BOOLEAN, reads : 0 .. 4]
         /\ task[n].pc = "reset" => task[n] \in [pc : {"reset"}, left : Left]
         /\ task[n] = Resting \/ task[n].pc \in {"read", "reset"}
  <1>1. task[n] \in TaskType
    BY DEF TypeOK
  <1>. QED
    BY <1>1 DEF TaskType, Resting

\* What is left after one half is done.
LEMMA LeftOver ==
  ASSUME NEW left \in Left, NEW half \in left
  PROVE  /\ half \in Half
         /\ left \ {half} # {} => left \ {half} \in Left
         /\ left \ {half} = {} => left = {half}
         /\ left = Half => left \ {half} # {}
         /\ left # Half => left = {half}
  <1>1. left \subseteq Half /\ left # {} /\ half \in Half
    BY DEF Left
  <1>2. PICK other \in Half : other # half /\ Half = {half, other}
    BY <1>1 DEF Half
  <1>3. CASE other \in left
    <2>1. left = Half /\ left \ {half} = {other}
      BY <1>1, <1>2, <1>3
    <2>. QED
      BY <1>1, <1>2, <2>1 DEF Left
  <1>4. CASE other \notin left
    <2>1. left = {half} /\ left \ {half} = {}
      BY <1>1, <1>2, <1>4
    <2>. QED
      BY <1>1, <1>2, <2>1
  <1>. QED
    BY <1>3, <1>4

\* What a half of a pair of words is.
LEMMA HalfWord ==
  ASSUME NEW w \in WordsType, NEW half \in Half
  PROVE  /\ w["hi"] \in Nat /\ w["lo"] \in Nat /\ w["lo"] \in 0 .. Word - 1
         /\ w[half] \in Nat
         /\ Value(w) \in Nat /\ Value(w) = w["hi"] * Word + w["lo"]
  <1>1. w.hi \in Nat /\ w.lo \in 0 .. Word - 1 /\ Word \in Nat \ {0}
    BY MeshClockAssumption DEF WordsType
  <1>2. half = "hi" \/ half = "lo"
    BY DEF Half
  <1>3. w.hi * Word \in Nat
    BY <1>1
  <1>4. w.hi * Word + w.lo \in Nat
    BY <1>1, <1>3
  <1>5. w.lo \in Nat
    BY <1>1
  <1>. QED
    BY <1>1, <1>2, <1>4, <1>5 DEF Value

LEMMA InitTypes ==
  ASSUME Init
  PROVE  TypeOK
  <1>1. Words(0) \in WordsType
    BY WordsOf
  <1>2. MaxResets \in Nat /\ MaxGain \in Nat /\ MaxTears \in Nat
    BY MeshClockAssumption
  <1>. QED
    BY <1>1, <1>2 DEF Init, TypeOK, CallbackType, TaskType

LEMMA HearTypes ==
  ASSUME TypeOK, NEW n \in Node, NEW m \in Node, NEW lag \in Lag, Hear(n, m, lag)
  PROVE  TypeOK'
  <1>. DEFINE delta == air[n][m] - lag - Shows(n)
              direct == DirectSet(n, delta)
  <1>1. /\ air[n][m] # Silence
        /\ air' = [air EXCEPT ![n][m] = Silence]
        /\ gain' = gain + Early(lag) /\ gain' <= MaxGain
        /\ UNCHANGED <<offset, task, resets, tears, strands>>
        /\ Ahead(delta) =>
             /\ callback' = [callback EXCEPT ![n] =
                  [pc |-> "add", step |-> Step(n, delta), direct |-> direct]]
             /\ UNCHANGED synced
        /\ ~Ahead(delta) =>
             /\ synced' = [synced EXCEPT ![n] = @ \/ direct]
             /\ UNCHANGED callback
    BY DEF Hear
  <1>2. delta \in Int /\ direct \in BOOLEAN
    <2>1. air[n][m] \in Int /\ lag \in Int /\ Base[n] \in Nat
      BY MeshClockAssumption DEF TypeOK, Silence
    <2>2. Value(offset[n]) \in Nat
      BY HalfWord DEF TypeOK, Half
    <2>3. delta \in Int
      BY <2>1, <2>2 DEF Shows
    <2>. QED
      BY <2>3, Zenon DEF DirectSet
  <1>. HIDE DEF delta, direct
  <1>3. Ahead(delta) => Step(n, delta) \in Nat
    BY <1>2, MeshClockAssumption DEF Ahead, Step
  <1>4. air' \in [Node -> [Node -> Nat \union {Silence}]]
    BY <1>1 DEF TypeOK
  <1>5. callback' \in [Node -> CallbackType] /\ synced' \in [Node -> BOOLEAN]
    <2>1. CASE Ahead(delta)
      <3>1. [pc |-> "add", step |-> Step(n, delta), direct |-> direct] \in CallbackType
        BY <1>2, <1>3, <2>1 DEF CallbackType
      <3>. QED
        BY <1>1, <2>1, <3>1 DEF TypeOK
    <2>2. CASE ~Ahead(delta)
      BY <1>1, <1>2, <2>2 DEF TypeOK
    <2>. QED
      BY <2>1, <2>2
  <1>6. gain' \in 0 .. MaxGain
    <2>1. lag \in Int /\ gain \in Nat /\ MaxGain \in Nat
      BY MeshClockAssumption DEF TypeOK
    <2>. QED
      BY <1>1, <2>1 DEF Early
  <1>. QED
    BY <1>1, <1>4, <1>5, <1>6 DEF TypeOK

LEMMA LoseTypes ==
  ASSUME TypeOK, NEW n \in Node, NEW m \in Node, Lose(n, m)
  PROVE  TypeOK'
  BY DEF TypeOK, Lose

LEMMA AddTypes ==
  ASSUME TypeOK, NEW n \in Node, Add(n)
  PROVE  /\ TypeOK'
         /\ Words(Value(offset[n]) + callback[n].step) \in WordsType
         /\ Value(Words(Value(offset[n]) + callback[n].step)) = Value(offset[n]) + callback[n].step
  <1>. DEFINE new == Words(Value(offset[n]) + callback[n].step)
              c == [pc |-> "store", new |-> new, left |-> Half,
                    direct |-> callback[n].direct]
  <1>1. callback[n].step \in Nat /\ callback[n].direct \in BOOLEAN
    BY CallbackIs DEF Add
  <1>2. Value(offset[n]) \in Nat
    BY HalfWord DEF TypeOK, Half
  <1>3. new \in WordsType /\ Value(new) = Value(offset[n]) + callback[n].step
    BY <1>1, <1>2, WordsOf
  <1>4. /\ callback' = [callback EXCEPT ![n] = c]
        /\ UNCHANGED <<offset, synced, air, task, resets, gain, tears, strands>>
    BY DEF Add
  <1>5. Half \in Left
    BY DEF Left, Half
  <1>. HIDE DEF new
  <1>6. c \in CallbackType
    BY <1>1, <1>3, <1>5, MeshClockAssumption DEF CallbackType
  <1>. HIDE DEF c
  <1>7. TypeOK'
    BY <1>4, <1>6 DEF TypeOK
  <1>. QED
    BY <1>3, <1>7 DEF new

LEMMA TearTypes ==
  ASSUME TypeOK, NEW torn, NEW already, Tear(torn, already)
  PROVE  tears' \in 0 .. MaxTears
  <1>1. tears' = tears + 1 \/ tears' = tears
    BY DEF Tear
  <1>2. tears \in Nat /\ tears' <= MaxTears /\ MaxTears \in Nat
    BY MeshClockAssumption DEF TypeOK, Tear
  <1>. QED
    BY <1>1, <1>2

\* A store that falls into a read tears it.
MidRead(n) == task[n].pc = "read" /\ task[n].left # Half

\* What a store writes and what it leaves of the adjustment.
LEMMA StoreStep ==
  ASSUME TypeOK, NEW n \in Node, NEW half \in Half, Store(n, half)
  PROVE  /\ callback[n] \in [pc : {"store"}, new : WordsType, left : Left, direct : BOOLEAN]
         /\ half \in callback[n].left
         /\ offset' = [offset EXCEPT ![n] = [@ EXCEPT ![half] = callback[n].new[half]]]
         /\ offset'[n] \in WordsType
         /\ offset'[n][half] = callback[n].new[half]
         /\ \A other \in Half : other # half => offset'[n][other] = offset[n][other]
         /\ callback[n].left = {half} =>
              callback' = [callback EXCEPT ![n] = Resting]
         /\ callback[n].left # {half} =>
              /\ callback[n].left \ {half} \in Left
              /\ callback' = [callback EXCEPT ![n] =
                                [@ EXCEPT !.left = callback[n].left \ {half}]]
         /\ MidRead(n) => task' = [task EXCEPT ![n] = [@ EXCEPT !.torn = TRUE]]
         /\ ~MidRead(n) => UNCHANGED task
         /\ synced' = [synced EXCEPT ![n] = @ \/ (callback[n].left = {half} /\ callback[n].direct)]
         /\ tears' \in 0 .. MaxTears
         /\ UNCHANGED <<air, resets, gain, strands>>
  <1>1. /\ callback[n] \in [pc : {"store"}, new : WordsType, left : Left, direct : BOOLEAN]
        /\ half \in callback[n].left
    BY CallbackIs DEF Store
  <1>2. /\ callback[n].left \ {half} # {} => callback[n].left \ {half} \in Left
        /\ callback[n].left \ {half} = {} <=> callback[n].left = {half}
    BY <1>1, LeftOver
  <1>3. offset' = [offset EXCEPT ![n] = [@ EXCEPT ![half] = callback[n].new[half]]]
    BY DEF Store
  <1>4. offset[n] \in WordsType /\ callback[n].new \in WordsType
    BY <1>1 DEF TypeOK
  <1>5. offset'[n] = [offset[n] EXCEPT ![half] = callback[n].new[half]]
    BY <1>3 DEF TypeOK
  <1>6. /\ offset'[n] \in WordsType
        /\ offset'[n][half] = callback[n].new[half]
        /\ \A other \in Half : other # half => offset'[n][other] = offset[n][other]
    <2>1. /\ callback[n].new[half] \in Nat
          /\ half = "lo" => callback[n].new[half] \in 0 .. Word - 1
      BY <1>4, HalfWord
    <2>2. PICK x : x = callback[n].new[half]
      OBVIOUS
    <2>3. PICK w : w = offset[n]
      OBVIOUS
    <2>4. PICK w2 : w2 = offset'[n]
      OBVIOUS
    <2>5. w2 = [w EXCEPT ![half] = x]
      BY <1>5, <2>2, <2>3, <2>4
    <2>6. w2 \in WordsType /\ w2[half] = x /\ \A other \in Half : other # half => w2[other] = w[other]
      <3>1. w \in WordsType /\ x \in Nat /\ (half = "lo" => x \in 0 .. Word - 1)
        BY <1>4, <2>1, <2>2, <2>3
      <3>2. half = "hi" \/ half = "lo"
        BY DEF Half
      <3>3. w.hi \in Nat /\ w.lo \in 0 .. Word - 1
        BY <3>1 DEF WordsType
      <3>. QED
        BY <2>5, <3>1, <3>2, <3>3 DEF WordsType, Half
    <2>. QED
      BY <2>2, <2>3, <2>4, <2>6
  <1>7. tears' \in 0 .. MaxTears
    <2>1. PICK torn, already : Tear(torn, already)
      BY DEF Store
    <2>. QED
      BY <2>1, TearTypes
  <1>8. /\ MidRead(n) => task' = [task EXCEPT ![n] = [@ EXCEPT !.torn = TRUE]]
        /\ ~MidRead(n) => UNCHANGED task
    BY DEF Store, MidRead
  <1>9. /\ synced' = [synced EXCEPT ![n] = @ \/ (callback[n].left = {half} /\ callback[n].direct)]
        /\ UNCHANGED <<air, resets, gain, strands>>
    BY <1>2, Zenon DEF Store
  <1>10. /\ callback[n].left = {half} => callback' = [callback EXCEPT ![n] = Resting]
         /\ callback[n].left # {half} =>
              callback' = [callback EXCEPT ![n] = [@ EXCEPT !.left = callback[n].left \ {half}]]
    BY <1>2 DEF Store
  <1>. QED
    BY <1>1, <1>2, <1>3, <1>6, <1>7, <1>8, <1>9, <1>10, Zenon

LEMMA StoreTypes ==
  ASSUME TypeOK, NEW n \in Node, NEW half \in Half, Store(n, half)
  PROVE  TypeOK'
  <1>1. offset' \in [Node -> WordsType]
    BY StoreStep DEF TypeOK
  <1>2. callback' \in [Node -> CallbackType]
    <2>1. CASE callback[n].left = {half}
      <3>1. callback' = [callback EXCEPT ![n] = Resting]
        BY <2>1, StoreStep, Zenon
      <3>2. Resting \in CallbackType
        BY DEF CallbackType
      <3>. QED
        BY <3>1, <3>2 DEF TypeOK
    <2>2. CASE callback[n].left # {half}
      <3>1. /\ callback[n].left \ {half} \in Left
            /\ callback' = [callback EXCEPT ![n] =
                              [@ EXCEPT !.left = callback[n].left \ {half}]]
        BY <2>2, StoreStep, Zenon
      <3>2. callback[n] \in [pc : {"store"}, new : WordsType, left : Left, direct : BOOLEAN]
        BY StoreStep
      <3>3. [callback[n] EXCEPT !.left = callback[n].left \ {half}] \in CallbackType
        BY <3>1, <3>2 DEF CallbackType
      <3>. QED
        BY <3>1, <3>3 DEF TypeOK
    <2>. QED
      BY <2>1, <2>2
  <1>3. task' \in [Node -> TaskType]
    <2>1. CASE MidRead(n)
      <3>1. task' = [task EXCEPT ![n] = [@ EXCEPT !.torn = TRUE]]
        BY <2>1, StoreStep
      <3>2. task[n] \in [pc : {"read"}, left : Left, word : WordsType, torn : BOOLEAN,
                         last : Nat \union {NoValue}, lastTorn : BOOLEAN, reads : 0 .. 4]
        BY <2>1, TaskIs DEF MidRead
      <3>3. [task[n] EXCEPT !.torn = TRUE] \in TaskType
        BY <3>2 DEF TaskType
      <3>. QED
        BY <3>1, <3>3 DEF TypeOK
    <2>2. CASE ~MidRead(n)
      BY <2>2, StoreStep DEF TypeOK
    <2>. QED
      BY <2>1, <2>2
  <1>4. synced' \in [Node -> BOOLEAN]
    BY StoreStep DEF TypeOK
  <1>5. tears' \in 0 .. MaxTears /\ UNCHANGED <<air, resets, gain, strands>>
    BY StoreStep
  <1>. QED
    BY <1>1, <1>2, <1>3, <1>4, <1>5 DEF TypeOK

LEMMA BroadcastTypes ==
  ASSUME TypeOK, NEW n \in Node, Broadcast(n)
  PROVE  TypeOK'
  <1>. DEFINE t == [pc |-> "read", left |-> Half, word |-> Words(0), torn |-> FALSE,
                    last |-> NoValue, lastTorn |-> FALSE, reads |-> 0]
  <1>1. /\ task' = [task EXCEPT ![n] = t]
        /\ UNCHANGED <<offset, synced, air, callback, resets, gain, tears, strands>>
    BY DEF Broadcast
  <1>2. Words(0) \in WordsType
    BY WordsOf
  <1>3. Half \in Left
    BY DEF Left, Half
  <1>4. t \in TaskType
    BY <1>2, <1>3 DEF TaskType
  <1>. HIDE DEF t
  <1>. QED
    BY <1>1, <1>4 DEF TypeOK

\* The words a broadcast has after a load.
Loaded(n, half) == [task[n].word EXCEPT ![half] = offset[n][half]]

\* Whether a load is of a read that was torn.
Torn(n) == task[n].torn \/ HalfStored(n)

ReadType ==
  [pc : {"read"}, left : Left, word : WordsType, torn : BOOLEAN,
   last : Nat \union {NoValue}, lastTorn : BOOLEAN, reads : 0 .. 4]

\* What a load does: the first of a read, the last of one that is sent, and
\* the last of one that is read again.
LoadFirst(n, half) ==
  /\ task[n].left = Half /\ task[n].left \ {half} \in Left
  /\ task' = [task EXCEPT ![n] =
       [task[n] EXCEPT !.left = task[n].left \ {half}, !.word = Loaded(n, half),
                       !.torn = Torn(n)]]
  /\ UNCHANGED <<air, strands>>

LoadSent(n, half) ==
  LET v == Value(Loaded(n, half))
  IN  /\ task[n].left = {half} /\ Stable(task[n], v)
      /\ task' = [task EXCEPT ![n] = Resting]
      /\ air' = Sent(n, v)
      /\ strands' = IF Stranding(task[n], v, Torn(n)) THEN strands + 1 ELSE strands

LoadAgain(n, half) ==
  LET v == Value(Loaded(n, half))
  IN  /\ task[n].left = {half} /\ ~Stable(task[n], v)
      /\ task' = [task EXCEPT ![n] =
           [task[n] EXCEPT !.left = Half, !.word = Words(0), !.torn = FALSE, !.last = v,
                           !.lastTorn = Torn(n), !.reads = task[n].reads + 1]]
      /\ UNCHANGED <<air, strands>>

LEMMA LoadStep ==
  ASSUME TypeOK, NEW n \in Node, NEW half \in Half, Load(n, half)
  PROVE  /\ task[n] \in ReadType
         /\ half \in task[n].left
         /\ Loaded(n, half) \in WordsType
         /\ Loaded(n, half)[half] = offset[n][half]
         /\ \A other \in Half : other # half => Loaded(n, half)[other] = task[n].word[other]
         /\ tears' \in 0 .. MaxTears
         /\ UNCHANGED <<offset, synced, callback, resets, gain>>
         /\ LoadFirst(n, half) \/ LoadSent(n, half) \/ LoadAgain(n, half)
  <1>1. task[n] \in ReadType /\ half \in task[n].left
    BY TaskIs DEF Load, ReadType
  <1>2. /\ task[n].left # {half} => task[n].left = Half
        /\ task[n].left = Half => task[n].left \ {half} \in Left
    BY <1>1, LeftOver DEF ReadType
  <1>3. /\ Loaded(n, half) \in WordsType
        /\ Loaded(n, half)[half] = offset[n][half]
        /\ \A other \in Half : other # half => Loaded(n, half)[other] = task[n].word[other]
    <2>1. half = "hi" \/ half = "lo"
      BY DEF Half
    <2>2. PICK w : w = task[n].word
      OBVIOUS
    <2>3. PICK u : u = offset[n]
      OBVIOUS
    <2>4. w \in WordsType /\ u \in WordsType
      BY <1>1, <2>2, <2>3 DEF TypeOK, ReadType
    <2>5. w.hi \in Nat /\ w.lo \in 0 .. Word - 1 /\ u.hi \in Nat /\ u.lo \in 0 .. Word - 1
      BY <2>4 DEF WordsType
    <2>6. Loaded(n, half) = [w EXCEPT ![half] = u[half]]
      BY <2>2, <2>3 DEF Loaded
    <2>7. /\ Loaded(n, half) \in WordsType /\ Loaded(n, half)[half] = u[half]
          /\ \A other \in Half : other # half => Loaded(n, half)[other] = w[other]
      BY <2>1, <2>4, <2>5, <2>6 DEF WordsType, Half
    <2>. QED
      BY <2>2, <2>3, <2>7
  <1>4. UNCHANGED <<offset, synced, callback, resets, gain>>
    BY DEF Load
  <1>5. tears' \in 0 .. MaxTears
    <2>1. PICK torn, already : Tear(torn, already)
      BY DEF Load
    <2>. QED
      BY <2>1, TearTypes
  <1>6. LoadFirst(n, half) \/ LoadSent(n, half) \/ LoadAgain(n, half)
    <2>1. task[n].left # {half} => LoadFirst(n, half)
      BY <1>2 DEF Load, Loaded, LoadFirst, Torn
    <2>2. task[n].left = {half} /\ Stable(task[n], Value(Loaded(n, half))) => LoadSent(n, half)
      BY DEF Load, Loaded, LoadSent, Torn
    <2>3. task[n].left = {half} /\ ~Stable(task[n], Value(Loaded(n, half))) => LoadAgain(n, half)
      BY DEF Load, Loaded, LoadAgain, Torn
    <2>. QED
      BY <2>1, <2>2, <2>3, Zenon
  <1>. QED
    BY <1>1, <1>3, <1>4, <1>5, <1>6, Zenon

LEMMA SentTypes ==
  ASSUME TypeOK, NEW n \in Node, NEW v \in Nat
  PROVE  /\ Sent(n, v) \in [Node -> [Node -> Nat \union {Silence}]]
         /\ \A m, k \in Node :
              Sent(n, v)[m][k] = IF k = n /\ m # n THEN Base[n] + v ELSE air[m][k]
  <1>1. Base[n] + v \in Nat
    BY MeshClockAssumption
  <1>2. \A m \in Node : [air[m] EXCEPT ![n] = Base[n] + v] \in [Node -> Nat \union {Silence}]
    BY <1>1 DEF TypeOK
  <1>. QED
    BY <1>2 DEF TypeOK, Sent

LEMMA LoadTypes ==
  ASSUME TypeOK, NEW n \in Node, NEW half \in Half, Load(n, half)
  PROVE  TypeOK'
  <1>1. /\ task[n] \in ReadType /\ Loaded(n, half) \in WordsType
        /\ tears' \in 0 .. MaxTears
        /\ UNCHANGED <<offset, synced, callback, resets, gain>>
    BY LoadStep
  <1>2. Value(Loaded(n, half)) \in Nat
    BY <1>1, HalfWord DEF Half
  <1>3. Torn(n) \in BOOLEAN
    <2>1. task[n].torn \in BOOLEAN
      BY <1>1 DEF ReadType
    <2>. QED
      BY <2>1, Zenon DEF Torn
  <1>4. /\ task' \in [Node -> TaskType] /\ air' \in [Node -> [Node -> Nat \union {Silence}]]
        /\ strands' \in Nat
    <2>1. CASE LoadFirst(n, half)
      <3>1. [task[n] EXCEPT !.left = task[n].left \ {half}, !.word = Loaded(n, half),
                            !.torn = Torn(n)] \in TaskType
        BY <1>1, <1>3, <2>1 DEF TaskType, ReadType, LoadFirst
      <3>. QED
        BY <2>1, <3>1 DEF TypeOK, LoadFirst
    <2>2. CASE LoadSent(n, half)
      <3>1. Resting \in TaskType
        BY DEF TaskType
      <3>2. air' \in [Node -> [Node -> Nat \union {Silence}]]
        BY <1>2, <2>2, SentTypes DEF LoadSent
      <3>3. strands' \in Nat
        BY <2>2 DEF TypeOK, LoadSent
      <3>. QED
        BY <2>2, <3>1, <3>2, <3>3 DEF TypeOK, LoadSent
    <2>3. CASE LoadAgain(n, half)
      <3>1. task[n].reads + 1 \in 0 .. 4
        BY <1>1, <2>3 DEF Stable, ReadType, LoadAgain
      <3>2. Words(0) \in WordsType /\ Half \in Left
        BY WordsOf DEF Left, Half
      <3>3. [task[n] EXCEPT !.left = Half, !.word = Words(0), !.torn = FALSE,
                            !.last = Value(Loaded(n, half)), !.lastTorn = Torn(n),
                            !.reads = task[n].reads + 1] \in TaskType
        BY <1>1, <1>2, <1>3, <3>1, <3>2 DEF TaskType, ReadType
      <3>. QED
        BY <2>3, <3>3 DEF TypeOK, LoadAgain
    <2>. QED
      BY <2>1, <2>2, <2>3, LoadStep
  <1>. QED
    BY <1>1, <1>4 DEF TypeOK

LEMMA ResetTypes ==
  ASSUME TypeOK, NEW n \in Node, reset(n)
  PROVE  TypeOK'
  <1>1. Half \in Left
    BY DEF Left, Half
  <1>2. [pc |-> "reset", left |-> Half] \in TaskType
    BY <1>1 DEF TaskType
  <1>3. resets' \in 0 .. MaxResets
    BY MeshClockAssumption DEF TypeOK, reset
  <1>4. /\ task' = [task EXCEPT ![n] = [pc |-> "reset", left |-> Half]]
        /\ synced' = [synced EXCEPT ![n] = FALSE]
        /\ UNCHANGED <<offset, air, callback, gain, tears, strands>>
    BY DEF reset
  <1>. QED
    BY <1>2, <1>3, <1>4 DEF TypeOK

\* What a clear writes.
LEMMA ClearStep ==
  ASSUME TypeOK, NEW n \in Node, NEW half \in Half, Clear(n, half)
  PROVE  /\ task[n].pc = "reset"
         /\ offset' = [offset EXCEPT ![n] = [@ EXCEPT ![half] = 0]]
         /\ offset'[n] \in WordsType
         /\ offset'[n][half] = 0
         /\ \A other \in Half : other # half => offset'[n][other] = offset[n][other]
         /\ task' \in [Node -> TaskType]
         /\ task'[n].pc # "read"
         /\ \A k \in Node : k # n => task'[k] = task[k]
         /\ UNCHANGED <<synced, air, callback, resets, gain, tears, strands>>
  <1>1. task[n] \in [pc : {"reset"}, left : Left] /\ half \in task[n].left
    BY TaskIs DEF Clear
  <1>2. offset' = [offset EXCEPT ![n] = [@ EXCEPT ![half] = 0]]
    BY DEF Clear
  <1>3. PICK w : w = offset[n]
    OBVIOUS
  <1>4. PICK w2 : w2 = offset'[n]
    OBVIOUS
  <1>5. w2 = [w EXCEPT ![half] = 0]
    BY <1>2, <1>3, <1>4 DEF TypeOK
  <1>6. /\ w2 \in WordsType /\ w2[half] = 0
        /\ \A other \in Half : other # half => w2[other] = w[other]
    <2>1. half = "hi" \/ half = "lo"
      BY DEF Half
    <2>2. w \in WordsType
      BY <1>3 DEF TypeOK
    <2>3. w.hi \in Nat /\ w.lo \in 0 .. Word - 1 /\ 0 \in 0 .. Word - 1
      BY <2>2, MeshClockAssumption DEF WordsType
    <2>. QED
      BY <1>5, <2>1, <2>2, <2>3 DEF WordsType, Half
  <1>7. /\ task' \in [Node -> TaskType] /\ task'[n].pc # "read"
        /\ \A k \in Node : k # n => task'[k] = task[k]
    <2>1. CASE task[n].left \ {half} = {}
      <3>1. task' = [task EXCEPT ![n] = Resting]
        BY <2>1 DEF Clear
      <3>2. Resting \in TaskType /\ Resting.pc # "read"
        BY DEF TaskType, Resting
      <3>. QED
        BY <3>1, <3>2 DEF TypeOK
    <2>2. CASE task[n].left \ {half} # {}
      <3>1. task' = [task EXCEPT ![n] = [@ EXCEPT !.left = task[n].left \ {half}]]
        BY <2>2 DEF Clear
      <3>2. task[n].left \ {half} \in Left
        BY <1>1, <2>2, LeftOver
      <3>3. /\ [task[n] EXCEPT !.left = task[n].left \ {half}] \in TaskType
            /\ [task[n] EXCEPT !.left = task[n].left \ {half}].pc # "read"
        BY <1>1, <3>2 DEF TaskType
      <3>. QED
        BY <3>1, <3>3 DEF TypeOK
    <2>. QED
      BY <2>1, <2>2
  <1>8. UNCHANGED <<synced, air, callback, resets, gain, tears, strands>>
    BY DEF Clear
  <1>. QED
    BY <1>1, <1>2, <1>3, <1>4, <1>6, <1>7, <1>8

LEMMA ClearTypes ==
  ASSUME TypeOK, NEW n \in Node, NEW half \in Half, Clear(n, half)
  PROVE  TypeOK'
  <1>1. offset' \in [Node -> WordsType]
    BY ClearStep DEF TypeOK
  <1>2. task' \in [Node -> TaskType] /\ UNCHANGED <<synced, air, callback, resets, gain, tears, strands>>
    BY ClearStep
  <1>. QED
    BY <1>1, <1>2 DEF TypeOK

LEMMA StepTypes ==
  ASSUME TypeOK, [Next]_vars
  PROVE  TypeOK'
  <1>1. ASSUME NEW n \in Node, NEW m \in Node, NEW lag \in Lag, Hear(n, m, lag)
        PROVE  TypeOK'
    BY <1>1, HearTypes
  <1>2. ASSUME NEW n \in Node, NEW m \in Node, Lose(n, m)
        PROVE  TypeOK'
    BY <1>2, LoseTypes
  <1>3. ASSUME NEW n \in Node, Callback(n)
        PROVE  TypeOK'
    BY <1>3, AddTypes, StoreTypes DEF Callback
  <1>4. ASSUME NEW n \in Node, Task(n)
        PROVE  TypeOK'
    BY <1>4, BroadcastTypes, LoadTypes, ClearTypes DEF Task
  <1>5. ASSUME NEW n \in Node, reset(n)
        PROVE  TypeOK'
    BY <1>5, ResetTypes
  <1>6. CASE UNCHANGED vars
    BY <1>6 DEF TypeOK, vars
  <1>. QED
    BY <1>1, <1>2, <1>3, <1>4, <1>5, <1>6 DEF Next

\* TypeOK: the words of the offsets, what is in the air, and the two tasks
\* keep their types through every step.
THEOREM TypeCorrect == Spec => []TypeOK
  <1>1. Init => TypeOK
    BY InitTypes
  <1>2. TypeOK /\ [Next]_vars => TypeOK'
    BY StepTypes
  <1>. QED
    BY <1>1, <1>2, PTL DEF Spec

-----------------------------------------------------------------------------
(* What is reached. *)

LEMMA ReachedLess ==
  ASSUME NEW t \in Int, NEW u \in Int, NEW s \in Nat, NEW r \in Nat,
         t <= u, s <= r, Reached(u, s)
  PROVE  Reached(t, r)
  <1>1. \A k \in Node : Base[k] \in Nat
    BY MeshClockAssumption
  <1>. QED
    BY <1>1 DEF Reached

\* Silence, for one.
LEMMA ReachedNegative ==
  ASSUME NEW t \in Int, t <= 0, NEW s \in Nat
  PROVE  Reached(t, s)
  <1>1. \A k \in Node : Base[k] \in Nat
    BY MeshClockAssumption
  <1>2. PICK k \in Node : TRUE
    BY MeshClockAssumption
  <1>. QED
    BY <1>1, <1>2 DEF Reached

LEMMA FollowsMore ==
  ASSUME NEW n \in Node, NEW last \in Nat, NEW low \in Nat, NEW s \in Nat, NEW r \in Nat,
         s <= r, Follows(n, last, low, s)
  PROVE  Follows(n, last, low, r)
  <1>1. PICK high \in Nat :
          last <= high * Word + low /\ Reached(Base[n] + (high * Word + low), s)
    BY DEF Follows
  <1>2. Base[n] + (high * Word + low) \in Int
    BY MeshClockAssumption
  <1>3. Reached(Base[n] + (high * Word + low), r)
    BY <1>1, <1>2, ReachedLess
  <1>. QED
    BY <1>1, <1>3 DEF Follows

\* What early frames and stranding stamps add never shrinks.
LEMMA SlackGrows ==
  ASSUME TypeOK, TypeOK', gain <= gain', strands <= strands'
  PROVE  Slack \in Nat /\ Slack' \in Nat /\ Slack <= Slack'
  <1>1. gain \in Nat /\ gain' \in Nat /\ strands \in Nat /\ strands' \in Nat /\ Word \in Nat
    BY MeshClockAssumption DEF TypeOK
  <1>2. PICK a \in Nat, b \in Nat, g \in Nat, h \in Nat :
          strands = a /\ strands' = b /\ gain = g /\ gain' = h
    BY <1>1
  <1>3. a <= b /\ g <= h
    BY <1>2
  <1>4. PICK more \in Nat : b = a + more
    <2>1. b - a \in Nat /\ b = a + (b - a)
      BY <1>3
    <2>. QED
      BY <2>1
  <1>5. a * Word \in Nat /\ more * Word \in Nat /\ b * Word = a * Word + more * Word
    BY <1>1, <1>4
  <1>6. Slack = g + a * Word /\ Slack' = h + b * Word
    BY <1>2 DEF Slack
  <1>. QED
    BY <1>3, <1>5, <1>6

\* The order of two offsets, by their words.
LEMMA WordOrder ==
  ASSUME NEW w \in WordsType, NEW u \in WordsType
  PROVE  /\ w["hi"] <= u["hi"] /\ w["lo"] <= u["lo"] => Value(w) <= Value(u)
         /\ Value(w) <= Value(u) => w["hi"] <= u["hi"]
  <1>1. PICK h \in Nat, l \in Nat :
          w["hi"] = h /\ w["lo"] = l /\ l < Word /\ Value(w) = h * Word + l
    BY HalfWord, MeshClockAssumption DEF Half
  <1>2. PICK h2 \in Nat, l2 \in Nat :
          u["hi"] = h2 /\ u["lo"] = l2 /\ l2 < Word /\ Value(u) = h2 * Word + l2
    BY HalfWord, MeshClockAssumption DEF Half
  <1>3. h <= h2 /\ l <= l2 => h * Word + l <= h2 * Word + l2
    BY ValueGrows
  <1>4. ASSUME h2 < h
        PROVE  h2 * Word + l2 < h * Word + l
    <2>1. h2 * Word + l2 + Word <= h * Word + l2
      BY <1>4, ValueGrows
    <2>2. h * Word \in Nat /\ h2 * Word \in Nat /\ Word \in Nat
      BY MeshClockAssumption
    <2>. QED
      BY <1>2, <2>1, <2>2
  <1>5. h * Word + l \in Nat /\ h2 * Word + l2 \in Nat
    <2>1. h * Word \in Nat /\ h2 * Word \in Nat
      BY MeshClockAssumption
    <2>. QED
      BY <2>1
  <1>. QED
    BY <1>1, <1>2, <1>3, <1>4, <1>5

LEMMA ShowsType ==
  ASSUME TypeOK, NEW n \in Node
  PROVE  /\ offset[n] \in WordsType /\ Base[n] \in Nat
         /\ Value(offset[n]) \in Nat /\ Shows(n) \in Nat
         /\ Shows(n) = Base[n] + Value(offset[n])
  <1>1. offset[n] \in WordsType /\ Base[n] \in Nat
    BY MeshClockAssumption DEF TypeOK
  <1>2. Value(offset[n]) \in Nat
    BY <1>1, HalfWord DEF Half
  <1>. QED
    BY <1>1, <1>2 DEF Shows

\* A node whose adjustment is not half stored shows a time that is reached.
LEMMA NotHalfReached ==
  ASSUME TypeOK, NEW n \in Node, OffsetReached(n), ~HalfStored(n), Slack \in Nat
  PROVE  Reached(Base[n] + Value(offset[n]), Slack)
  <1>1. Base[n] + Value(offset[n]) \in Int /\ Base[n] + Value(offset[n]) = Shows(n)
    BY ShowsType
  <1>2. CASE callback[n].pc = "rest"
    BY <1>1, <1>2 DEF OffsetReached
  <1>3. CASE callback[n].pc = "add"
    <2>1. callback[n].step \in Nat /\ Reached(Shows(n) + callback[n].step, Slack)
      BY <1>3, CallbackIs DEF OffsetReached
    <2>. QED
      BY <1>1, <2>1, ReachedLess
  <1>4. CASE callback[n].pc = "store"
    <2>1. callback[n].new \in WordsType
      BY <1>4, CallbackIs
    <2>2. PICK v : v = Value(callback[n].new)
      OBVIOUS
    <2>3. v \in Nat /\ Value(offset[n]) \in Nat /\ Base[n] \in Nat
      BY <2>1, <2>2, HalfWord, ShowsType DEF Half
    <2>4. Reached(Base[n] + v, Slack) /\ Value(offset[n]) <= v
      BY <1>4, <2>2 DEF OffsetReached, HalfStored
    <2>5. Base[n] + v \in Int /\ Base[n] + Value(offset[n]) <= Base[n] + v
      BY <2>3, <2>4
    <2>. QED
      BY <1>1, <2>4, <2>5, ReachedLess
  <1>. QED
    BY <1>2, <1>3, <1>4, CallbackIs

\* Half stored or not, the high word is reached.
LEMMA HighWordReached ==
  ASSUME TypeOK, NEW n \in Node, OffsetReached(n), Slack \in Nat
  PROVE  Reached(Base[n] + offset[n]["hi"] * Word, Slack)
  <1>1. PICK w \in WordsType :
          offset[n]["hi"] <= w["hi"] /\ Reached(Base[n] + Value(w), Slack)
    <2>1. CASE HalfStored(n)
      BY <2>1, CallbackIs DEF HalfStored, OffsetReached
    <2>2. CASE ~HalfStored(n)
      <3>1. offset[n]["hi"] <= offset[n]["hi"] /\ offset[n] \in WordsType
        BY ShowsType, HalfWord DEF Half
      <3>. QED
        BY <2>2, <3>1, NotHalfReached
    <2>. QED
      BY <2>1, <2>2
  <1>2. PICK h \in Nat, h2 \in Nat, l \in Nat :
          offset[n]["hi"] = h /\ w["hi"] = h2 /\ w["lo"] = l /\ Value(w) = h2 * Word + l
    BY <1>1, ShowsType, HalfWord DEF Half
  <1>3. h <= h2
    BY <1>1, <1>2
  <1>4. h * Word + 0 <= h2 * Word + l
    BY <1>3, ValueGrows
  <1>5. h * Word \in Nat /\ h2 * Word \in Nat /\ Base[n] \in Nat
    BY MeshClockAssumption
  <1>6. /\ Base[n] + h * Word \in Int /\ Base[n] + (h2 * Word + l) \in Int
        /\ Base[n] + h * Word <= Base[n] + (h2 * Word + l)
    BY <1>4, <1>5
  <1>. QED
    BY <1>1, <1>2, <1>6, ReachedLess

-----------------------------------------------------------------------------
(* The steps and the offsets. *)

\* A node whose callback a step leaves alone, and whose words at most shrink.
LEMMA OffsetKept ==
  ASSUME TypeOK, TypeOK', NEW k \in Node, OffsetReached(k),
         callback'[k] = callback[k],
         offset'[k]["hi"] <= offset[k]["hi"], offset'[k]["lo"] <= offset[k]["lo"],
         Slack \in Nat, Slack' \in Nat, Slack <= Slack'
  PROVE  OffsetReached(k)'
  <1>1. PICK w \in WordsType, u \in WordsType : offset[k] = w /\ offset'[k] = u
    BY DEF TypeOK
  <1>2. PICK v \in Nat, x \in Nat : Value(w) = v /\ Value(u) = x
    BY HalfWord DEF Half
  <1>3. x <= v
    BY <1>1, <1>2, WordOrder
  <1>4. Base[k] \in Nat
    BY MeshClockAssumption
  <1>5. PICK c : callback[k] = c /\ callback'[k] = c
    OBVIOUS
  <1>6. PICK s \in Nat, r \in Nat : Slack = s /\ Slack' = r /\ s <= r
    OBVIOUS
  <1>7. /\ c.pc = "rest" => Reached(Base[k] + v, s)
        /\ c.pc = "add" => c.step \in Nat /\ Reached(Base[k] + v + c.step, s)
        /\ c.pc = "store" =>
             /\ c.new \in WordsType
             /\ Reached(Base[k] + Value(c.new), s)
             /\ c.left = Half => v <= Value(c.new)
             /\ w["hi"] <= c.new["hi"]
             /\ "lo" \notin c.left => w["lo"] <= c.new["lo"]
    BY <1>1, <1>2, <1>5, <1>6, CallbackIs DEF OffsetReached, Shows
  <1>8. c.pc = "rest" => Reached(Base[k] + x, r)
    <2>1. Base[k] + x \in Int /\ Base[k] + v \in Int /\ Base[k] + x <= Base[k] + v
      BY <1>3, <1>4
    <2>. QED
      BY <1>6, <1>7, <2>1, ReachedLess
  <1>9. c.pc = "add" => Reached(Base[k] + x + c.step, r)
    <2>1. SUFFICES ASSUME c.pc = "add", NEW step \in Nat, c.step = step
                   PROVE  Reached(Base[k] + x + step, r)
      BY <1>7
    <2>2. /\ Base[k] + x + step \in Int /\ Base[k] + v + step \in Int
          /\ Base[k] + x + step <= Base[k] + v + step
      BY <1>3, <1>4
    <2>3. Reached(Base[k] + v + step, s)
      BY <1>7, <2>1
    <2>. QED
      BY <1>6, <2>2, <2>3, ReachedLess
  <1>10. c.pc = "store" =>
           /\ Reached(Base[k] + Value(c.new), r)
           /\ c.left = Half => x <= Value(c.new)
           /\ u["hi"] <= c.new["hi"]
           /\ "lo" \notin c.left => u["lo"] <= c.new["lo"]
    <2>1. SUFFICES ASSUME c.pc = "store", NEW new \in WordsType, c.new = new
                   PROVE  /\ Reached(Base[k] + Value(new), r)
                          /\ c.left = Half => x <= Value(new)
                          /\ u["hi"] <= new["hi"]
                          /\ "lo" \notin c.left => u["lo"] <= new["lo"]
      BY <1>7
    <2>2. /\ Value(new) \in Nat /\ new["hi"] \in Nat /\ new["lo"] \in Nat
          /\ w["hi"] \in Nat /\ w["lo"] \in Nat /\ u["hi"] \in Nat /\ u["lo"] \in Nat
      BY HalfWord DEF Half
    <2>3. Reached(Base[k] + Value(new), r)
      <3>1. Base[k] + Value(new) \in Int /\ Base[k] + Value(new) <= Base[k] + Value(new)
        BY <1>4, <2>2
      <3>. QED
        BY <1>6, <1>7, <2>1, <3>1, ReachedLess
    <2>4. u["hi"] <= w["hi"] /\ u["lo"] <= w["lo"]
      BY <1>1
    <2>. QED
      BY <1>3, <1>7, <2>1, <2>2, <2>3, <2>4
  <1>. QED
    BY <1>1, <1>2, <1>5, <1>6, <1>8, <1>9, <1>10 DEF OffsetReached, Shows, Value

\* A node whose offset and callback a step leaves alone.
LEMMA OffsetElsewhere ==
  ASSUME TypeOK, TypeOK', NEW k \in Node, OffsetReached(k),
         callback'[k] = callback[k], offset'[k] = offset[k],
         Slack \in Nat, Slack' \in Nat, Slack <= Slack'
  PROVE  OffsetReached(k)'
  <1>1. offset[k]["hi"] <= offset[k]["hi"] /\ offset[k]["lo"] <= offset[k]["lo"]
    BY ShowsType, HalfWord DEF Half
  <1>. QED
    BY <1>1, OffsetKept

-----------------------------------------------------------------------------
(* The steps and the reads of a broadcast. *)

\* What the read of a broadcast is made of.
LEMMA ReadIs ==
  ASSUME TypeOK, NEW n \in Node, task[n].pc = "read"
  PROVE  /\ task[n] \in ReadType
         /\ task[n].left \in Left /\ task[n].word \in WordsType
         /\ task[n].word["hi"] \in Nat /\ task[n].word["lo"] \in Nat
         /\ task[n].last # NoValue => task[n].last \in Nat
         /\ offset[n]["hi"] \in Nat /\ offset[n]["lo"] \in Nat
  <1>1. task[n] \in ReadType
    BY TaskIs DEF ReadType
  <1>2. task[n].left \in Left /\ task[n].word \in WordsType
        /\ task[n].last \in Nat \union {NoValue}
    BY <1>1 DEF ReadType
  <1>. QED
    BY <1>1, <1>2, ShowsType, HalfWord DEF Half

\* A read that a step leaves alone, with the offset: the callback may have come
\* to the two stores of a later offset.
LEMMA ReadKept ==
  ASSUME TypeOK, TypeOK', NEW k \in Node, ReadSafe(k),
         task'[k] = task[k], offset'[k] = offset[k],
         HalfStored(k)' <=> HalfStored(k),
         callback'[k].pc = "store" =>
           \/ callback'[k] = callback[k]
           \/ /\ callback'[k].left = Half
              /\ Value(offset[k]) <= Value(callback'[k].new),
         Slack \in Nat, Slack' \in Nat, Slack <= Slack'
  PROVE  ReadSafe(k)'
  <1>1. SUFFICES ASSUME task[k].pc = "read"
                 PROVE  HighReached(k)' /\ Whole(k)' /\ After(k)'
    BY DEF ReadSafe
  <1>2. HighReached(k) /\ Whole(k) /\ After(k)
    BY <1>1 DEF ReadSafe
  <1>3. PICK s \in Nat, r \in Nat : Slack = s /\ Slack' = r /\ s <= r
    OBVIOUS
  <1>4. HighReached(k)'
    <2>1. PICK h \in Nat : task[k].word["hi"] = h
      BY <1>1, ReadIs
    <2>2. Base[k] + h * Word \in Int
      BY MeshClockAssumption
    <2>3. Reached(Base[k] + h * Word, s) => Reached(Base[k] + h * Word, r)
      BY <1>3, <2>2, ReachedLess
    <2>. QED
      BY <1>2, <1>3, <2>1, <2>3 DEF HighReached
  <1>5. Whole(k)'
    BY <1>2 DEF Whole
  <1>6. After(k)'
    <2>1. PICK t : task[k] = t /\ task'[k] = t
      OBVIOUS
    <2>2. PICK w \in WordsType : offset[k] = w /\ offset'[k] = w
      BY DEF TypeOK
    <2>3. SUFFICES ASSUME t.last # NoValue, ~t.lastTorn
                   PROVE  /\ Follows(k, t.last, w["lo"], r)
                          /\ "lo" \notin t.left => Follows(k, t.last, t.word["lo"], r)
                          /\ ~HalfStored(k) => t.last <= Value(w)
                          /\ callback'[k].pc = "store" =>
                               /\ t.last <= Value(callback'[k].new)
                               /\ \A half \in Half : half \notin callback'[k].left =>
                                    w[half] = callback'[k].new[half]
      BY <1>3, <2>1, <2>2 DEF After, Value
    <2>4. /\ Follows(k, t.last, w["lo"], s)
          /\ "lo" \notin t.left => Follows(k, t.last, t.word["lo"], s)
          /\ ~HalfStored(k) => t.last <= Value(w)
          /\ callback[k].pc = "store" =>
               /\ t.last <= Value(callback[k].new)
               /\ \A half \in Half : half \notin callback[k].left =>
                    w[half] = callback[k].new[half]
      BY <1>2, <1>3, <2>1, <2>2, <2>3 DEF After
    <2>5. t.last \in Nat /\ t.word["lo"] \in Nat /\ w["lo"] \in Nat /\ Value(w) \in Nat
      BY <1>1, <2>1, <2>2, <2>3, ReadIs, HalfWord DEF Half
    <2>6. /\ Follows(k, t.last, w["lo"], r)
          /\ "lo" \notin t.left => Follows(k, t.last, t.word["lo"], r)
      BY <1>3, <2>4, <2>5, FollowsMore
    <2>7. ASSUME callback'[k].pc = "store"
          PROVE  /\ t.last <= Value(callback'[k].new)
                 /\ \A half \in Half : half \notin callback'[k].left =>
                      w[half] = callback'[k].new[half]
      <3>1. CASE callback'[k] = callback[k]
        BY <2>4, <2>7, <3>1
      <3>2. CASE callback'[k].left = Half /\ Value(w) <= Value(callback'[k].new)
        <4>1. ~HalfStored(k)
          BY <3>2 DEF HalfStored
        <4>2. callback'[k] \in CallbackType
          BY DEF TypeOK
        <4>3. callback'[k].new \in WordsType
          BY <2>7, <4>2 DEF CallbackType, Resting
        <4>4. Value(callback'[k].new) \in Nat
          BY <4>3, HalfWord DEF Half
        <4>. QED
          BY <2>4, <2>5, <3>2, <4>1, <4>4
      <3>. QED
        BY <2>2, <2>7, <3>1, <3>2
    <2>. QED
      BY <2>4, <2>6, <2>7
  <1>. QED
    BY <1>4, <1>5, <1>6

\* All that a step leaves alone stays safe.
Untouched(k) == offset'[k] = offset[k] /\ callback'[k] = callback[k] /\ task'[k] = task[k]

LEMMA NodeKept ==
  ASSUME TypeOK, TypeOK', NEW k \in Node, OffsetReached(k), ReadSafe(k), Untouched(k),
         Slack \in Nat, Slack' \in Nat, Slack <= Slack'
  PROVE  OffsetReached(k)' /\ ReadSafe(k)'
  <1>1. HalfStored(k)' <=> HalfStored(k)
    BY DEF HalfStored, Untouched
  <1>. QED
    BY <1>1, OffsetElsewhere, ReadKept DEF Untouched

LEMMA AirKept ==
  ASSUME TypeOK, TypeOK', AirReached, Slack \in Nat, Slack' \in Nat, Slack <= Slack',
         \A n, m \in Node : air'[n][m] \in {air[n][m], Silence}
  PROVE  AirReached'
  <1>1. SUFFICES ASSUME NEW n \in Node, NEW m \in Node
                 PROVE  Reached(air'[n][m], Slack')
    BY DEF AirReached
  <1>2. PICK s \in Nat, r \in Nat : Slack = s /\ Slack' = r /\ s <= r
    OBVIOUS
  <1>3. PICK t \in Int : air[n][m] = t
    BY DEF TypeOK, Silence
  <1>4. Reached(t, s)
    BY <1>2, <1>3 DEF AirReached
  <1>5. Reached(t, r) /\ Reached(Silence, r)
    BY <1>2, <1>4, ReachedLess, ReachedNegative DEF Silence
  <1>. QED
    BY <1>2, <1>3, <1>5

-----------------------------------------------------------------------------
(* Each step keeps the invariant. *)

\* The step a frame makes a node take ends at a time that is reached, with what
\* the frame was early by.
LEMMA HearStep ==
  ASSUME ClockInv, NEW n \in Node, NEW m \in Node, NEW lag \in Lag, Hear(n, m, lag)
  PROVE  /\ Slack \in Nat /\ Slack' \in Nat /\ Slack <= Slack'
         /\ callback[n] = Resting
         /\ \/ callback' = callback
            \/ \E step \in Nat, direct \in BOOLEAN :
                 /\ callback' = [callback EXCEPT ![n] =
                                   [pc |-> "add", step |-> step, direct |-> direct]]
                 /\ Reached(Shows(n) + step, Slack')
  <1>. DEFINE delta == air[n][m] - lag - Shows(n)
              step == Step(n, delta)
              direct == DirectSet(n, delta)
  <1>1. TypeOK /\ TypeOK' /\ AirReached
    BY HearTypes DEF ClockInv
  <1>2. /\ callback[n] = Resting
        /\ gain' = gain + Early(lag) /\ strands' = strands
        /\ Ahead(delta) =>
             callback' = [callback EXCEPT ![n] =
               [pc |-> "add", step |-> step, direct |-> direct]]
        /\ ~Ahead(delta) => UNCHANGED callback
    BY DEF Hear
  <1>3. PICK e \in Nat : Early(lag) = e /\ -lag <= e
    <2>1. lag \in Int
      BY MeshClockAssumption
    <2>. QED
      BY <2>1 DEF Early
  <1>4. PICK g \in Nat, y \in Nat : gain = g /\ gain' = g + e /\ strands * Word = y
    <2>1. gain \in Nat /\ strands \in Nat /\ Word \in Nat
      BY <1>1, MeshClockAssumption DEF TypeOK
    <2>. QED
      BY <1>2, <1>3, <2>1
  <1>5. Slack = g + y /\ Slack' = g + y + e
    BY <1>2, <1>4 DEF Slack
  <1>6. PICK a \in Int, o \in Nat, l \in Int :
          air[n][m] = a /\ Shows(n) = o /\ lag = l /\ delta = a - l - o
    <2>1. air[n][m] \in Int
      BY <1>1 DEF TypeOK, Silence
    <2>2. lag \in Int /\ Shows(n) \in Nat
      BY <1>1, ShowsType, MeshClockAssumption
    <2>. QED
      BY <2>1, <2>2
  <1>7. direct \in BOOLEAN
    BY Zenon DEF DirectSet
  <1>. HIDE DEF delta
  <1>8. Ahead(delta) => step \in Nat /\ step <= delta
    BY <1>6, MeshClockAssumption DEF Ahead, Step
  <1>. HIDE DEF step, direct
  <1>9. ASSUME Ahead(delta)
        PROVE  Reached(Shows(n) + step, Slack')
    <2>1. o + step <= a + e
      BY <1>3, <1>6, <1>8, <1>9
    <2>2. PICK k \in Node : a <= Base[k] + (g + y)
      BY <1>1, <1>5, <1>6 DEF AirReached, Reached
    <2>3. Base[k] \in Nat
      BY MeshClockAssumption
    <2>4. o + step <= Base[k] + (g + y + e)
      BY <1>8, <1>9, <2>1, <2>2, <2>3
    <2>. QED
      BY <1>5, <1>6, <2>4 DEF Reached
  <1>. QED
    BY <1>2, <1>5, <1>7, <1>8, <1>9

LEMMA HearInv ==
  ASSUME ClockInv, NEW n \in Node, NEW m \in Node, NEW lag \in Lag, Hear(n, m, lag)
  PROVE  ClockInv'
  <1>1. TypeOK /\ TypeOK' /\ AirReached /\ \A k \in Node : OffsetReached(k) /\ ReadSafe(k)
    BY HearTypes DEF ClockInv
  <1>2. Slack \in Nat /\ Slack' \in Nat /\ Slack <= Slack'
    BY HearStep
  <1>3. UNCHANGED <<offset, task>> /\ air' = [air EXCEPT ![n][m] = Silence]
    BY DEF Hear
  <1>4. AirReached'
    <2>1. \A k, j \in Node : air'[k][j] \in {air[k][j], Silence}
      BY <1>1, <1>3 DEF TypeOK
    <2>. QED
      BY <1>1, <1>2, <2>1, AirKept
  <1>5. CASE callback' = callback
    BY <1>1, <1>2, <1>3, <1>4, <1>5, NodeKept DEF ClockInv, Untouched
  <1>6. ASSUME NEW step \in Nat, NEW direct \in BOOLEAN,
               callback' = [callback EXCEPT ![n] =
                              [pc |-> "add", step |-> step, direct |-> direct]],
               Reached(Shows(n) + step, Slack')
        PROVE  ClockInv'
    <2>1. callback'[n].pc = "add" /\ callback'[n].step = step /\ callback[n].pc = "rest"
      BY <1>1, <1>6, HearStep DEF TypeOK, Resting
    <2>2. OffsetReached(n)'
      <3>1. Shows(n)' = Shows(n)
        BY <1>3 DEF Shows
      <3>. QED
        BY <1>6, <2>1, <3>1 DEF OffsetReached
    <2>3. ReadSafe(n)'
      <3>1. ~HalfStored(n) /\ ~HalfStored(n)' /\ callback'[n].pc # "store"
        BY <2>1 DEF HalfStored
      <3>. QED
        BY <1>1, <1>2, <1>3, <3>1, ReadKept
    <2>4. ASSUME NEW k \in Node, k # n
          PROVE  OffsetReached(k)' /\ ReadSafe(k)'
      <3>1. Untouched(k)
        BY <1>1, <1>3, <1>6, <2>4 DEF TypeOK, Untouched
      <3>. QED
        BY <1>1, <1>2, <3>1, NodeKept
    <2>. QED
      BY <1>1, <1>4, <2>2, <2>3, <2>4 DEF ClockInv
  <1>. QED
    BY <1>5, <1>6, HearStep

\* A step that adds nothing to what is reached.
LEMMA SlackSame ==
  ASSUME TypeOK, TypeOK', gain' = gain, strands' = strands
  PROVE  Slack \in Nat /\ Slack' \in Nat /\ Slack' = Slack /\ Slack <= Slack'
  <1>1. gain \in Nat /\ strands \in Nat
    BY DEF TypeOK
  <1>2. gain <= gain' /\ strands <= strands'
    BY <1>1
  <1>. QED
    BY <1>2, SlackGrows DEF Slack

LEMMA LoseInv ==
  ASSUME ClockInv, NEW n \in Node, NEW m \in Node, Lose(n, m)
  PROVE  ClockInv'
  <1>1. TypeOK /\ TypeOK' /\ AirReached /\ \A k \in Node : OffsetReached(k) /\ ReadSafe(k)
    BY LoseTypes DEF ClockInv
  <1>2. /\ air' = [air EXCEPT ![n][m] = Silence]
        /\ UNCHANGED <<offset, callback, task, gain, strands>>
    BY DEF Lose
  <1>3. Slack \in Nat /\ Slack' \in Nat /\ Slack <= Slack'
    BY <1>1, <1>2, SlackSame
  <1>4. AirReached'
    <2>1. \A k, j \in Node : air'[k][j] \in {air[k][j], Silence}
      BY <1>1, <1>2 DEF TypeOK
    <2>. QED
      BY <1>1, <1>3, <2>1, AirKept
  <1>. QED
    BY <1>1, <1>2, <1>3, <1>4, NodeKept DEF ClockInv, Untouched

\* What a step of one node that leaves the air alone must keep.
LEMMA OneNode ==
  ASSUME ClockInv, TypeOK', NEW n \in Node, UNCHANGED <<air, gain, strands>>,
         \A k \in Node : k # n => Untouched(k),
         OffsetReached(n)', ReadSafe(n)'
  PROVE  ClockInv'
  <1>1. TypeOK /\ AirReached /\ \A k \in Node : OffsetReached(k) /\ ReadSafe(k)
    BY DEF ClockInv
  <1>2. Slack \in Nat /\ Slack' \in Nat /\ Slack <= Slack'
    BY <1>1, SlackSame
  <1>3. AirReached'
    BY <1>1, <1>2, AirKept
  <1>4. ASSUME NEW k \in Node
        PROVE  OffsetReached(k)' /\ ReadSafe(k)'
    <2>1. CASE k = n
      BY <2>1
    <2>2. CASE k # n
      BY <1>1, <1>2, <2>2, NodeKept
    <2>. QED
      BY <2>1, <2>2
  <1>. QED
    BY <1>3, <1>4 DEF ClockInv

LEMMA AddInv ==
  ASSUME ClockInv, NEW n \in Node, Add(n)
  PROVE  ClockInv'
  <1>1. TypeOK /\ TypeOK' /\ OffsetReached(n) /\ ReadSafe(n)
    BY AddTypes DEF ClockInv
  <1>2. PICK new \in WordsType, step \in Nat, v \in Nat :
          /\ callback[n].pc = "add" /\ callback[n].step = step
          /\ Value(offset[n]) = v /\ Value(new) = v + step
          /\ new = Words(Value(offset[n]) + callback[n].step)
    BY <1>1, AddTypes, CallbackIs, ShowsType DEF Add
  <1>3. /\ callback' = [callback EXCEPT ![n] =
             [pc |-> "store", new |-> new, left |-> Half, direct |-> callback[n].direct]]
        /\ UNCHANGED <<offset, air, task, gain, strands>>
    BY <1>2 DEF Add
  <1>4. Slack \in Nat /\ Slack' = Slack /\ Slack <= Slack'
    BY <1>1, <1>3, SlackSame
  <1>5. callback'[n].pc = "store" /\ callback'[n].new = new /\ callback'[n].left = Half
    BY <1>1, <1>3 DEF TypeOK
  <1>6. OffsetReached(n)'
    <2>1. PICK w \in WordsType : offset[n] = w /\ offset'[n] = w
      BY <1>1, <1>3 DEF TypeOK
    <2>2. Reached(Base[n] + Value(new), Slack)
      <3>1. Base[n] + Value(new) = Shows(n) + step
        <4>1. Base[n] \in Nat
          BY MeshClockAssumption
        <4>. QED
          BY <1>2, <4>1 DEF Shows
      <3>2. Reached(Shows(n) + step, Slack)
        BY <1>1, <1>2 DEF OffsetReached
      <3>. QED
        BY <3>1, <3>2
    <2>3. Value(w) <= Value(new) /\ w["hi"] <= new["hi"]
      <3>1. Value(w) <= Value(new)
        BY <1>2, <2>1
      <3>. QED
        BY <3>1, WordOrder
    <2>. QED
      BY <1>4, <1>5, <2>1, <2>2, <2>3 DEF OffsetReached, Value, Half
  <1>7. ReadSafe(n)'
    <2>1. ~HalfStored(n) /\ ~HalfStored(n)'
      BY <1>2, <1>5 DEF HalfStored
    <2>2. Value(offset[n]) <= Value(callback'[n].new)
      BY <1>2, <1>5
    <2>. QED
      BY <1>1, <1>3, <1>4, <1>5, <2>1, <2>2, ReadKept
  <1>8. \A k \in Node : k # n => Untouched(k)
    BY <1>1, <1>3 DEF TypeOK, Untouched
  <1>. QED
    BY <1>1, <1>3, <1>6, <1>7, <1>8, OneNode

\* What a store leaves of the adjustment and of the offset.
LEMMA StoredIs ==
  ASSUME TypeOK, NEW n \in Node, NEW half \in Half, Store(n, half)
  PROVE  \E w \in WordsType, w2 \in WordsType, new \in WordsType, left \in Left :
           /\ offset[n] = w /\ offset'[n] = w2 /\ half \in left
           /\ w2[half] = new[half]
           /\ \A other \in Half : other # half => w2[other] = w[other]
           /\ callback[n].pc = "store" /\ callback[n].new = new /\ callback[n].left = left
           /\ left = {half} => callback'[n] = Resting
           /\ left # {half} =>
                /\ left = Half
                /\ callback'[n].pc = "store" /\ callback'[n].new = new
                /\ callback'[n].left = left \ {half}
           /\ \A k \in Node : k # n => Untouched(k)
  <1>1. PICK w \in WordsType : offset[n] = w
    BY DEF TypeOK
  <1>2. PICK w2 \in WordsType : offset'[n] = w2
    BY StoreStep
  <1>3. /\ callback[n] \in [pc : {"store"}, new : WordsType, left : Left, direct : BOOLEAN]
        /\ half \in callback[n].left
    BY StoreStep
  <1>4. PICK new \in WordsType, left \in Left :
          callback[n].new = new /\ callback[n].left = left /\ half \in left
    BY <1>3
  <1>5. /\ w2[half] = new[half]
        /\ \A other \in Half : other # half => w2[other] = w[other]
    <2>1. /\ offset'[n][half] = callback[n].new[half]
          /\ \A other \in Half : other # half => offset'[n][other] = offset[n][other]
      BY StoreStep, Zenon
    <2>. QED
      BY <1>1, <1>2, <1>4, <2>1
  <1>6. left = {half} => callback' = [callback EXCEPT ![n] = Resting]
    BY <1>4, StoreStep
  <1>7. left # {half} =>
          callback' = [callback EXCEPT ![n] = [callback[n] EXCEPT !.left = left \ {half}]]
    BY <1>4, StoreStep
  <1>8. left # {half} => left = Half
    BY <1>4, LeftOver
  <1>9. \A k \in Node : k # n => Untouched(k)
    <2>1. \A k \in Node : k # n => callback'[k] = callback[k]
      BY <1>6, <1>7 DEF TypeOK
    <2>2. \A k \in Node : k # n => offset'[k] = offset[k]
      <3>1. offset' = [offset EXCEPT ![n] = [@ EXCEPT ![half] = callback[n].new[half]]]
        BY StoreStep, Zenon
      <3>. QED
        BY <3>1 DEF TypeOK
    <2>3. \A k \in Node : k # n => task'[k] = task[k]
      <3>1. \/ task' = [task EXCEPT ![n] = [@ EXCEPT !.torn = TRUE]]
            \/ task' = task
        BY StoreStep, Zenon
      <3>. QED
        BY <3>1 DEF TypeOK
    <2>. QED
      BY <2>1, <2>2, <2>3 DEF Untouched
  <1>10. left = {half} => callback'[n] = Resting
    BY <1>6 DEF TypeOK
  <1>11. left # {half} =>
           /\ callback'[n].pc = "store" /\ callback'[n].new = new
           /\ callback'[n].left = left \ {half}
    BY <1>3, <1>4, <1>7 DEF TypeOK
  <1>. QED
    BY <1>1, <1>2, <1>3, <1>4, <1>5, <1>8, <1>9, <1>10, <1>11

LEMMA StoreInv ==
  ASSUME ClockInv, NEW n \in Node, NEW half \in Half, Store(n, half)
  PROVE  ClockInv'
  <1>1. TypeOK /\ TypeOK' /\ OffsetReached(n) /\ ReadSafe(n)
    BY StoreTypes DEF ClockInv
  <1>2. UNCHANGED <<air, gain, strands>>
    BY DEF Store
  <1>3. Slack \in Nat /\ Slack' = Slack /\ Slack <= Slack'
    BY <1>1, <1>2, SlackSame
  <1>4. PICK w \in WordsType, w2 \in WordsType, new \in WordsType, left \in Left :
           /\ offset[n] = w /\ offset'[n] = w2 /\ half \in left
           /\ w2[half] = new[half]
           /\ \A other \in Half : other # half => w2[other] = w[other]
           /\ callback[n].pc = "store" /\ callback[n].new = new /\ callback[n].left = left
           /\ left = {half} => callback'[n] = Resting
           /\ left # {half} =>
                /\ left = Half
                /\ callback'[n].pc = "store" /\ callback'[n].new = new
                /\ callback'[n].left = left \ {half}
           /\ \A k \in Node : k # n => Untouched(k)
    BY <1>1, StoredIs
  <1>5. /\ Value(w) \in Nat /\ Value(w2) \in Nat /\ Value(new) \in Nat
        /\ \A h \in Half : w[h] \in Nat /\ w2[h] \in Nat /\ new[h] \in Nat
        /\ Value(new) = new["hi"] * Word + new["lo"] /\ Base[n] \in Nat
    BY HalfWord, MeshClockAssumption DEF Half
  <1>6. /\ Reached(Base[n] + Value(new), Slack)
        /\ w["hi"] <= new["hi"] /\ ("lo" \notin left => w["lo"] <= new["lo"])
    BY <1>1, <1>4 DEF OffsetReached
  <1>7. w2["hi"] <= new["hi"] /\ ("lo" \notin left \ {half} => w2["lo"] <= new["lo"])
    <2>1. w2[half] <= new[half]
      BY <1>4, <1>5
    <2>. QED
      BY <1>4, <1>6, <2>1 DEF Half
  <1>8. OffsetReached(n)'
    <2>1. CASE left = {half}
      <3>1. Value(w2) <= Value(new)
        BY <1>7, <2>1, WordOrder
      <3>2. /\ Base[n] + Value(w2) \in Int /\ Base[n] + Value(new) \in Int
            /\ Base[n] + Value(w2) <= Base[n] + Value(new)
        BY <1>5, <3>1
      <3>3. Reached(Base[n] + Value(w2), Slack)
        BY <1>3, <1>6, <3>2, ReachedLess
      <3>. QED
        BY <1>3, <1>4, <2>1, <3>3 DEF OffsetReached, Resting, Shows, Value
    <2>2. CASE left # {half}
      <3>1. callback'[n].left # Half
        BY <1>4, <2>2
      <3>. QED
        BY <1>3, <1>4, <1>6, <1>7, <2>2, <3>1 DEF OffsetReached, Value
    <2>. QED
      BY <2>1, <2>2
  <1>9. ReadSafe(n)'
    <2>1. SUFFICES ASSUME task'[n].pc = "read"
                   PROVE  HighReached(n)' /\ Whole(n)' /\ After(n)'
      BY DEF ReadSafe
    <2>2. /\ task[n].pc = "read"
          /\ task'[n].left = task[n].left /\ task'[n].word = task[n].word
          /\ task'[n].last = task[n].last /\ task'[n].lastTorn = task[n].lastTorn
          /\ ~task'[n].torn => task[n].left = Half
      <3>1. CASE MidRead(n)
        <4>1. task' = [task EXCEPT ![n] = [task[n] EXCEPT !.torn = TRUE]]
          BY <1>1, <3>1, StoreStep
        <4>2. task[n] \in ReadType
          BY <1>1, <3>1, ReadIs DEF MidRead
        <4>. QED
          BY <1>1, <4>1, <4>2 DEF TypeOK, ReadType
      <3>2. CASE ~MidRead(n)
        <4>1. task' = task
          BY <1>1, <3>2, StoreStep
        <4>. QED
          BY <2>1, <3>2, <4>1 DEF MidRead
      <3>. QED
        BY <3>1, <3>2
    <2>3. HighReached(n) /\ After(n)
      BY <1>1, <2>2 DEF ReadSafe
    <2>4. HighReached(n)'
      BY <1>3, <2>2, <2>3 DEF HighReached
    <2>5. Whole(n)'
      BY <2>2 DEF Whole, Half
    <2>6. After(n)'
      <3>1. PICK last : task[n].last = last
        OBVIOUS
      <3>2. SUFFICES ASSUME last # NoValue, ~task[n].lastTorn
                     PROVE  /\ Follows(n, last, w2["lo"], Slack)
                            /\ "lo" \notin task[n].left =>
                                 Follows(n, last, task[n].word["lo"], Slack)
                            /\ left = {half} => last <= Value(w2)
                            /\ last <= Value(new)
                            /\ \A h \in Half : h \notin left \ {half} => w2[h] = new[h]
        <4>1. ~HalfStored(n)' => left = {half}
          BY <1>4 DEF HalfStored
        <4>2. callback'[n].pc = "store" => callback'[n].new = new /\ callback'[n].left = left \ {half}
          BY <1>4 DEF Resting
        <4>. QED
          BY <1>3, <1>4, <2>2, <3>1, <3>2, <4>1, <4>2 DEF After, Value
      <3>3. /\ Follows(n, last, w["lo"], Slack)
            /\ "lo" \notin task[n].left => Follows(n, last, task[n].word["lo"], Slack)
            /\ last <= Value(new)
            /\ \A h \in Half : h \notin left => w[h] = new[h]
        BY <1>4, <2>3, <3>1, <3>2 DEF After
      <3>4. \A h \in Half : h \notin left \ {half} => w2[h] = new[h]
        BY <1>4, <3>3
      <3>5. left = {half} => last <= Value(w2)
        <4>1. left = {half} => w2["hi"] = new["hi"] /\ w2["lo"] = new["lo"]
          BY <3>4 DEF Half
        <4>2. left = {half} => Value(w2) = Value(new)
          BY <4>1 DEF Value
        <4>. QED
          BY <3>3, <4>2
      <3>6. Follows(n, last, w2["lo"], Slack)
        <4>1. CASE half = "lo"
          <5>1. w2["lo"] = new["lo"] /\ new["hi"] \in Nat
            BY <1>4, <1>5, <4>1 DEF Half
          <5>2. last <= new["hi"] * Word + new["lo"]
                /\ Reached(Base[n] + (new["hi"] * Word + new["lo"]), Slack)
            BY <1>5, <1>6, <3>3
          <5>. QED
            BY <5>1, <5>2 DEF Follows
        <4>2. CASE half # "lo"
          BY <1>4, <3>3, <4>2 DEF Half
        <4>. QED
          BY <4>1, <4>2
      <3>. QED
        BY <3>3, <3>4, <3>5, <3>6
    <2>. QED
      BY <2>4, <2>5, <2>6
  <1>. QED
    BY <1>1, <1>2, <1>4, <1>8, <1>9, OneNode

\* A task that is not reading, with words that at most shrink.
LEMMA NotReadingInv ==
  ASSUME ClockInv, TypeOK', NEW n \in Node,
         UNCHANGED <<air, callback, gain, strands>>, task'[n].pc # "read",
         offset'[n]["hi"] <= offset[n]["hi"], offset'[n]["lo"] <= offset[n]["lo"],
         \A k \in Node : k # n => offset'[k] = offset[k] /\ task'[k] = task[k]
  PROVE  ClockInv'
  <1>1. TypeOK /\ OffsetReached(n)
    BY DEF ClockInv
  <1>2. Slack \in Nat /\ Slack' \in Nat /\ Slack <= Slack'
    BY <1>1, SlackSame
  <1>3. OffsetReached(n)'
    BY <1>1, <1>2, OffsetKept
  <1>4. ReadSafe(n)'
    BY DEF ReadSafe
  <1>5. \A k \in Node : k # n => Untouched(k)
    BY DEF Untouched
  <1>. QED
    BY <1>3, <1>4, <1>5, OneNode

LEMMA ResetInv ==
  ASSUME ClockInv, NEW n \in Node, reset(n) \/ \E half \in Half : Clear(n, half)
  PROVE  ClockInv'
  <1>1. TypeOK
    BY DEF ClockInv
  <1>2. CASE reset(n)
    <2>1. /\ task' = [task EXCEPT ![n] = [pc |-> "reset", left |-> Half]]
          /\ UNCHANGED <<offset, air, callback, gain, strands>>
      BY <1>2 DEF reset
    <2>2. task'[n].pc # "read" /\ \A k \in Node : k # n => task'[k] = task[k]
      BY <1>1, <2>1 DEF TypeOK
    <2>3. offset[n]["hi"] <= offset[n]["hi"] /\ offset[n]["lo"] <= offset[n]["lo"]
      BY <1>1, ShowsType, HalfWord DEF Half
    <2>4. TypeOK'
      BY <1>1, <1>2, ResetTypes
    <2>. QED
      BY <2>1, <2>2, <2>3, <2>4, NotReadingInv
  <1>3. ASSUME NEW half \in Half, Clear(n, half)
        PROVE  ClockInv'
    <2>1. /\ UNCHANGED <<air, callback, gain, strands>> /\ task'[n].pc # "read"
          /\ offset' = [offset EXCEPT ![n] = [@ EXCEPT ![half] = 0]]
          /\ offset'[n][half] = 0
          /\ \A other \in Half : other # half => offset'[n][other] = offset[n][other]
          /\ \A k \in Node : k # n => task'[k] = task[k]
      BY <1>1, <1>3, ClearStep, Zenon
    <2>2. offset[n]["hi"] \in Nat /\ offset[n]["lo"] \in Nat
      BY <1>1, ShowsType, HalfWord DEF Half
    <2>3. offset'[n]["hi"] <= offset[n]["hi"] /\ offset'[n]["lo"] <= offset[n]["lo"]
      BY <2>1, <2>2 DEF Half
    <2>4. \A k \in Node : k # n => offset'[k] = offset[k]
      BY <1>1, <2>1 DEF TypeOK
    <2>5. TypeOK'
      BY <1>1, <1>3, ClearTypes
    <2>. QED
      BY <2>1, <2>3, <2>4, <2>5, NotReadingInv
  <1>. QED
    BY <1>2, <1>3

LEMMA BroadcastInv ==
  ASSUME ClockInv, NEW n \in Node, Broadcast(n)
  PROVE  ClockInv'
  <1>1. TypeOK /\ TypeOK' /\ OffsetReached(n)
    BY BroadcastTypes DEF ClockInv
  <1>2. UNCHANGED <<offset, air, callback, gain, strands>>
    BY DEF Broadcast
  <1>3. Slack \in Nat /\ Slack' \in Nat /\ Slack <= Slack'
    BY <1>1, <1>2, SlackSame
  <1>4. /\ task'[n].left = Half /\ task'[n].last = NoValue
        /\ \A k \in Node : k # n => task'[k] = task[k]
    BY <1>1 DEF Broadcast, TypeOK
  <1>5. ReadSafe(n)'
    BY <1>4 DEF ReadSafe, HighReached, Whole, After, Half
  <1>6. OffsetReached(n)'
    BY <1>1, <1>2, <1>3, OffsetElsewhere
  <1>7. \A k \in Node : k # n => Untouched(k)
    BY <1>2, <1>4 DEF Untouched
  <1>. QED
    BY <1>1, <1>2, <1>5, <1>6, <1>7, OneNode

\* The first load of a read.
LEMMA LoadFirstInv ==
  ASSUME ClockInv, NEW n \in Node, NEW half \in Half, Load(n, half), LoadFirst(n, half)
  PROVE  ClockInv'
  <1>1. TypeOK /\ TypeOK' /\ OffsetReached(n) /\ ReadSafe(n)
    BY LoadTypes DEF ClockInv
  <1>2. /\ task[n] \in ReadType /\ half \in task[n].left
        /\ UNCHANGED <<offset, callback, gain>>
        /\ Loaded(n, half)[half] = offset[n][half]
    BY <1>1, LoadStep
  <1>3. /\ task[n].left = Half /\ UNCHANGED <<air, strands>>
        /\ task' = [task EXCEPT ![n] =
             [task[n] EXCEPT !.left = task[n].left \ {half}, !.word = Loaded(n, half),
                             !.torn = Torn(n)]]
    BY DEF LoadFirst
  <1>4. Slack \in Nat /\ Slack' = Slack /\ Slack <= Slack'
    BY <1>1, <1>2, <1>3, SlackSame
  <1>5. task[n].pc = "read" /\ HighReached(n) /\ Whole(n) /\ After(n)
    BY <1>1, <1>2 DEF ReadSafe, ReadType
  <1>6. /\ task'[n].left = Half \ {half} /\ task'[n].word = Loaded(n, half)
        /\ task'[n].torn = Torn(n)
        /\ task'[n].last = task[n].last /\ task'[n].lastTorn = task[n].lastTorn
    BY <1>1, <1>2, <1>3 DEF TypeOK, ReadType
  <1>7. HighReached(n)'
    <2>1. "hi" \notin Half \ {half} => half = "hi"
      BY DEF Half
    <2>2. Reached(Base[n] + offset[n]["hi"] * Word, Slack)
      BY <1>1, <1>4, HighWordReached
    <2>. QED
      BY <1>2, <1>4, <1>6, <2>1, <2>2 DEF HighReached
  <1>8. Whole(n)'
    <2>1. HalfStored(n)' <=> HalfStored(n)
      BY <1>2 DEF HalfStored
    <2>. QED
      BY <1>2, <1>6, <2>1 DEF Whole, Torn, Half
  <1>9. After(n)'
    <2>1. "lo" \notin Half \ {half} => half = "lo"
      BY DEF Half
    <2>2. HalfStored(n)' <=> HalfStored(n)
      BY <1>2 DEF HalfStored
    <2>. QED
      BY <1>2, <1>4, <1>5, <1>6, <2>1, <2>2 DEF After, Value
  <1>10. OffsetReached(n)'
    BY <1>1, <1>2, <1>4, OffsetElsewhere
  <1>11. \A k \in Node : k # n => Untouched(k)
    BY <1>1, <1>2, <1>3 DEF TypeOK, Untouched
  <1>. QED
    BY <1>1, <1>2, <1>3, <1>7, <1>8, <1>9, <1>10, <1>11, OneNode DEF ReadSafe

\* The last load of a read that is not torn: what it read is the offset.
LEMMA WholeRead ==
  ASSUME TypeOK, NEW n \in Node, NEW half \in Half, Load(n, half),
         task[n].left = {half}, ReadSafe(n), ~Torn(n)
  PROVE  ~HalfStored(n) /\ Value(Loaded(n, half)) = Value(offset[n])
  <1>1. task[n].pc = "read" /\ ~task[n].torn /\ ~HalfStored(n)
    BY DEF Load, Torn
  <1>2. \A other \in Half : other # half => task[n].word[other] = offset[n][other]
    BY <1>1 DEF ReadSafe, Whole
  <1>3. /\ Loaded(n, half)[half] = offset[n][half]
        /\ \A other \in Half : other # half => Loaded(n, half)[other] = task[n].word[other]
    BY LoadStep, Zenon
  <1>4. \A other \in Half : Loaded(n, half)[other] = offset[n][other]
    BY <1>2, <1>3
  <1>. QED
    BY <1>1, <1>4 DEF Value, Half

\* The last load of a read that is read again.
LEMMA LoadAgainInv ==
  ASSUME ClockInv, NEW n \in Node, NEW half \in Half, Load(n, half), LoadAgain(n, half)
  PROVE  ClockInv'
  <1>1. TypeOK /\ TypeOK' /\ OffsetReached(n) /\ ReadSafe(n)
    BY LoadTypes DEF ClockInv
  <1>2. task[n] \in ReadType /\ UNCHANGED <<offset, callback, gain>>
    BY <1>1, LoadStep
  <1>3. /\ task[n].left = {half} /\ UNCHANGED <<air, strands>>
        /\ task' = [task EXCEPT ![n] =
             [task[n] EXCEPT !.left = Half, !.word = Words(0), !.torn = FALSE,
                             !.last = Value(Loaded(n, half)), !.lastTorn = Torn(n),
                             !.reads = task[n].reads + 1]]
    BY DEF LoadAgain
  <1>4. Slack \in Nat /\ Slack' = Slack /\ Slack <= Slack'
    BY <1>1, <1>2, <1>3, SlackSame
  <1>5. /\ task'[n].left = Half
        /\ task'[n].last = Value(Loaded(n, half)) /\ task'[n].lastTorn = Torn(n)
    BY <1>1, <1>2, <1>3 DEF TypeOK, ReadType
  <1>6. HighReached(n)' /\ Whole(n)'
    BY <1>5 DEF HighReached, Whole, Half
  <1>7. After(n)'
    <2>1. SUFFICES ASSUME ~Torn(n)
                   PROVE  After(n)'
      BY <1>5 DEF After
    <2>2. ~HalfStored(n) /\ Value(Loaded(n, half)) = Value(offset[n])
      BY <1>1, <1>3, <2>1, WholeRead
    <2>3. PICK w \in WordsType : offset[n] = w /\ offset'[n] = w
      BY <1>1, <1>2 DEF TypeOK
    <2>4. /\ Value(w) \in Nat /\ w["hi"] \in Nat
          /\ Value(w) = w["hi"] * Word + w["lo"]
      BY HalfWord DEF Half
    <2>5. Reached(Base[n] + Value(w), Slack)
      BY <1>1, <1>4, <2>2, <2>3, NotHalfReached
    <2>6. Follows(n, Value(w), w["lo"], Slack)
      BY <2>4, <2>5 DEF Follows
    <2>7. callback[n].pc = "store" => callback[n].left = Half /\ Value(w) <= Value(callback[n].new)
      BY <1>1, <2>2, <2>3 DEF HalfStored, OffsetReached
    <2>8. task'[n].last = Value(w)
      BY <1>5, <2>2, <2>3
    <2>. QED
      BY <1>2, <1>4, <1>5, <2>3, <2>4, <2>6, <2>7, <2>8 DEF After, Value, Half
  <1>8. OffsetReached(n)'
    BY <1>1, <1>2, <1>4, OffsetElsewhere
  <1>9. \A k \in Node : k # n => Untouched(k)
    BY <1>1, <1>2, <1>3 DEF TypeOK, Untouched
  <1>. QED
    BY <1>1, <1>2, <1>3, <1>6, <1>7, <1>8, <1>9, OneNode DEF ReadSafe

\* The last load of a read after one that was not torn: what it read is reached,
\* or a whole word beyond what was read before.
LEMMA TornRead ==
  ASSUME TypeOK, NEW n \in Node, NEW half \in Half, Load(n, half), task[n].left = {half},
         ReadSafe(n), task[n].last # NoValue, ~task[n].lastTorn, Slack \in Nat
  PROVE  \/ Reached(Base[n] + Value(Loaded(n, half)), Slack)
         \/ task[n].last + Word <= Value(Loaded(n, half))
  <1>1. /\ task[n].pc = "read" /\ Loaded(n, half) \in WordsType
        /\ Loaded(n, half)[half] = offset[n][half]
        /\ \A other \in Half : other # half => Loaded(n, half)[other] = task[n].word[other]
    BY LoadStep DEF ReadType
  <1>2. PICK w \in WordsType : Loaded(n, half) = w
    BY <1>1
  <1>3. PICK h \in Nat, l \in Nat, last \in Nat :
          w["hi"] = h /\ w["lo"] = l /\ Value(w) = h * Word + l /\ task[n].last = last
    BY <1>1, HalfWord, ReadIs DEF Half
  <1>4. Follows(n, last, l, Slack)
    <2>1. /\ Follows(n, last, offset[n]["lo"], Slack)
          /\ "lo" \notin task[n].left => Follows(n, last, task[n].word["lo"], Slack)
      BY <1>1, <1>3 DEF ReadSafe, After
    <2>2. CASE half = "lo"
      BY <1>1, <1>2, <1>3, <2>1, <2>2
    <2>3. CASE half # "lo"
      BY <1>1, <1>2, <1>3, <2>1, <2>3 DEF Half
    <2>. QED
      BY <2>2, <2>3
  <1>5. PICK x \in Nat : last <= x * Word + l /\ Reached(Base[n] + (x * Word + l), Slack)
    BY <1>4 DEF Follows
  <1>6. h * Word \in Nat /\ x * Word \in Nat /\ Base[n] \in Nat /\ Word \in Nat
    BY MeshClockAssumption
  <1>7. CASE h <= x
    <2>1. h * Word + l <= x * Word + l
      BY <1>7, ValueGrows
    <2>2. /\ Base[n] + (h * Word + l) \in Int /\ Base[n] + (x * Word + l) \in Int
          /\ Base[n] + (h * Word + l) <= Base[n] + (x * Word + l)
      BY <1>6, <2>1
    <2>. QED
      BY <1>2, <1>3, <1>5, <2>2, ReachedLess
  <1>8. CASE x < h
    <2>1. x <= h
      BY <1>8
    <2>2. x * Word + l + Word <= h * Word + l
      BY <1>8, <2>1, ValueGrows
    <2>3. last + Word <= h * Word + l
      BY <1>5, <1>6, <2>2
    <2>. QED
      BY <1>2, <1>3, <2>3
  <1>. QED
    BY <1>7, <1>8

\* The high word of any read is reached.
LEMMA HighRead ==
  ASSUME TypeOK, NEW n \in Node, NEW half \in Half, Load(n, half), task[n].left = {half},
         OffsetReached(n), ReadSafe(n), Slack \in Nat
  PROVE  Reached(Base[n] + Loaded(n, half)["hi"] * Word, Slack)
  <1>1. /\ task[n].pc = "read"
        /\ Loaded(n, half)[half] = offset[n][half]
        /\ \A other \in Half : other # half => Loaded(n, half)[other] = task[n].word[other]
    BY LoadStep DEF ReadType
  <1>2. CASE half = "hi"
    BY <1>1, <1>2, HighWordReached
  <1>3. CASE half # "hi"
    <2>1. Loaded(n, half)["hi"] = task[n].word["hi"]
      BY <1>1, <1>3 DEF Half
    <2>2. "hi" \notin task[n].left
      BY <1>3
    <2>. QED
      BY <1>1, <2>1, <2>2 DEF ReadSafe, HighReached
  <1>. QED
    BY <1>2, <1>3

\* What is sent is reached.
LEMMA SentReached ==
  ASSUME ClockInv, NEW n \in Node, NEW half \in Half, Load(n, half), LoadSent(n, half)
  PROVE  /\ Slack \in Nat /\ Slack' \in Nat /\ Slack <= Slack'
         /\ Value(Loaded(n, half)) \in Nat
         /\ Reached(Base[n] + Value(Loaded(n, half)), Slack')
  <1>1. TypeOK /\ TypeOK' /\ OffsetReached(n) /\ ReadSafe(n)
    BY LoadTypes DEF ClockInv
  <1>2. /\ task[n] \in ReadType /\ Loaded(n, half) \in WordsType /\ gain' = gain
    BY <1>1, LoadStep
  <1>3. PICK w \in WordsType : Loaded(n, half) = w
    BY <1>2
  <1>4. PICK h \in Nat, l \in Nat :
          w["hi"] = h /\ w["lo"] = l /\ l < Word /\ Value(w) = h * Word + l
    BY HalfWord, MeshClockAssumption DEF Half
  <1>5. /\ task[n].left = {half} /\ Stable(task[n], Value(w))
        /\ strands' = IF Stranding(task[n], Value(w), Torn(n)) THEN strands + 1 ELSE strands
    BY <1>3 DEF LoadSent
  <1>6. /\ gain \in Nat /\ strands \in Nat /\ Word \in Nat /\ Base[n] \in Nat
        /\ h * Word \in Nat
    BY <1>1, MeshClockAssumption DEF TypeOK
  <1>7. Slack \in Nat /\ Slack' \in Nat /\ Slack <= Slack'
    <2>1. gain <= gain' /\ strands <= strands'
      BY <1>2, <1>5, <1>6
    <2>. QED
      BY <1>1, <2>1, SlackGrows
  <1>8. Base[n] + Value(w) \in Int /\ Value(w) \in Nat
    BY <1>4, <1>6
  <1>9. SUFFICES Reached(Base[n] + Value(w), Slack')
    BY <1>3, <1>7, <1>8
  <1>10. CASE ~Torn(n)
    <2>1. Reached(Base[n] + Value(w), Slack)
      BY <1>1, <1>3, <1>5, <1>7, <1>10, WholeRead, NotHalfReached
    <2>. QED
      BY <1>7, <1>8, <2>1, ReachedLess
  <1>11. CASE Stranding(task[n], Value(w), Torn(n))
    <2>1. PICK k \in Node : Base[n] + h * Word <= Base[k] + Slack
      BY <1>1, <1>3, <1>4, <1>5, <1>7, HighRead DEF Reached
    <2>2. Slack' = Slack + Word
      <3>1. strands' = strands + 1
        BY <1>5, <1>11
      <3>2. (strands + 1) * Word = strands * Word + Word /\ strands * Word \in Nat
        BY <1>6
      <3>. QED
        BY <1>2, <1>6, <3>1, <3>2 DEF Slack
    <2>3. Base[k] \in Nat
      BY MeshClockAssumption
    <2>4. Base[n] + Value(w) <= Base[k] + Slack'
      BY <1>4, <1>6, <1>7, <2>1, <2>2, <2>3
    <2>. QED
      BY <2>4 DEF Reached
  <1>12. CASE Torn(n) /\ ~Stranding(task[n], Value(w), Torn(n))
    <2>1. ~task[n].lastTorn /\ Agree(task[n], Value(w))
      BY <1>5, <1>12 DEF Stranding, Stable
    <2>2. task[n].last # NoValue /\ Value(w) - task[n].last < Near
      BY <2>1 DEF Agree
    <2>3. task[n].last \in Nat /\ Near \in Nat /\ Near <= Word
      BY <1>1, <1>2, <2>2, ReadIs, MeshClockAssumption DEF ReadType
    <2>4. ~(task[n].last + Word <= Value(w))
      BY <1>6, <1>8, <2>2, <2>3
    <2>5. Reached(Base[n] + Value(w), Slack)
      BY <1>1, <1>3, <1>5, <1>7, <2>1, <2>2, <2>4, TornRead
    <2>. QED
      BY <1>7, <1>8, <2>5, ReachedLess
  <1>. QED
    BY <1>10, <1>11, <1>12

LEMMA LoadSentInv ==
  ASSUME ClockInv, NEW n \in Node, NEW half \in Half, Load(n, half), LoadSent(n, half)
  PROVE  ClockInv'
  <1>1. TypeOK /\ TypeOK' /\ AirReached /\ \A k \in Node : OffsetReached(k) /\ ReadSafe(k)
    BY LoadTypes DEF ClockInv
  <1>2. UNCHANGED <<offset, callback>>
    BY <1>1, LoadStep
  <1>3. PICK v \in Nat :
          /\ Value(Loaded(n, half)) = v /\ Reached(Base[n] + v, Slack')
          /\ Slack \in Nat /\ Slack' \in Nat /\ Slack <= Slack'
    BY SentReached
  <1>4. task' = [task EXCEPT ![n] = Resting] /\ air' = Sent(n, v)
    BY <1>3 DEF LoadSent
  <1>5. AirReached'
    <2>1. SUFFICES ASSUME NEW m \in Node, NEW k \in Node
                   PROVE  Reached(air'[m][k], Slack')
      BY DEF AirReached
    <2>2. air'[m][k] = IF k = n /\ m # n THEN Base[n] + v ELSE air[m][k]
      BY <1>1, <1>4, SentTypes
    <2>3. air[m][k] \in Int /\ Reached(air[m][k], Slack)
      BY <1>1 DEF TypeOK, AirReached, Silence
    <2>4. Reached(air[m][k], Slack')
      BY <1>3, <2>3, ReachedLess
    <2>. QED
      BY <1>3, <2>2, <2>4
  <1>6. ASSUME NEW k \in Node
        PROVE  OffsetReached(k)' /\ ReadSafe(k)'
    <2>1. CASE k = n
      <3>1. task'[n].pc # "read"
        BY <1>1, <1>4 DEF TypeOK, Resting
      <3>. QED
        BY <1>1, <1>2, <1>3, <2>1, <3>1, OffsetElsewhere DEF ReadSafe
    <2>2. CASE k # n
      <3>1. Untouched(k)
        BY <1>1, <1>2, <1>4, <2>2 DEF TypeOK, Untouched
      <3>. QED
        BY <1>1, <1>3, <3>1, NodeKept
    <2>. QED
      BY <2>1, <2>2
  <1>. QED
    BY <1>1, <1>5, <1>6 DEF ClockInv

LEMMA StepInv ==
  ASSUME ClockInv, [Next]_vars
  PROVE  ClockInv'
  <1>1. ASSUME NEW n \in Node, Callback(n)
        PROVE  ClockInv'
    BY <1>1, AddInv, StoreInv DEF Callback
  <1>2. ASSUME NEW n \in Node, Task(n)
        PROVE  ClockInv'
    <2>1. ASSUME NEW half \in Half, Load(n, half)
          PROVE  ClockInv'
      <3>1. LoadFirst(n, half) \/ LoadSent(n, half) \/ LoadAgain(n, half)
        BY <2>1, LoadStep DEF ClockInv
      <3>. QED
        BY <2>1, <3>1, LoadFirstInv, LoadSentInv, LoadAgainInv
    <2>. QED
      BY <1>2, <2>1, BroadcastInv, ResetInv DEF Task
  <1>3. CASE UNCHANGED vars
    <2>1. TypeOK' /\ TypeOK
      BY <1>3, StepTypes DEF ClockInv
    <2>2. Slack' = Slack /\ \A n \in Node : Untouched(n)
      BY <1>3 DEF vars, Slack, Untouched
    <2>3. Slack \in Nat /\ Slack <= Slack'
      BY <1>3, <2>1, SlackSame DEF vars
    <2>4. AirReached'
      BY <1>3, <2>2 DEF vars, ClockInv, AirReached
    <2>. QED
      BY <2>1, <2>2, <2>3, <2>4, NodeKept DEF ClockInv
  <1>. QED
    BY <1>1, <1>2, <1>3, HearInv, LoseInv, ResetInv DEF Next

LEMMA InitInv ==
  ASSUME Init
  PROVE  ClockInv
  <1>1. TypeOK
    BY InitTypes
  <1>2. Slack \in Nat
    BY MeshClockAssumption DEF Init, Slack
  <1>3. AirReached
    BY <1>2, ReachedNegative DEF Init, AirReached, Silence
  <1>4. ASSUME NEW n \in Node
        PROVE  OffsetReached(n) /\ ReadSafe(n)
    <2>1. callback[n] = Resting /\ task[n] = Resting /\ offset[n] = Words(0)
      BY DEF Init
    <2>2. Value(offset[n]) = 0
      BY <2>1, WordsOf
    <2>3. Base[n] <= Base[n] + Slack /\ Shows(n) = Base[n]
      BY <1>2, <2>2, MeshClockAssumption DEF Shows
    <2>4. Reached(Shows(n), Slack)
      BY <2>3 DEF Reached
    <2>. QED
      BY <2>1, <2>4 DEF OffsetReached, ReadSafe, Resting
  <1>. QED
    BY <1>1, <1>3, <1>4 DEF ClockInv

\* NeverAhead: no frame, and no clock but one between its two stores, is ahead of the
\* node that started first by more than frames were early and reads stranded.  An
\* offset whose first word is stored mixes two; two reads that agree reject that,
\* unless the first of them was torn too.
THEOREM NoStampIsAhead == Spec => []NeverAhead
  <1>1. Init => ClockInv
    BY InitInv
  <1>2. ClockInv /\ [Next]_vars => ClockInv'
    BY StepInv
  <1>3. ClockInv => NeverAhead
    <2>1. SUFFICES ASSUME ClockInv, NEW n \in Node
                   PROVE  /\ \A m \in Node : Reached(air[n][m], Slack)
                          /\ ~HalfStored(n) => Reached(Shows(n), Slack)
      BY DEF NeverAhead
    <2>2. TypeOK /\ OffsetReached(n) /\ AirReached
      BY <2>1 DEF ClockInv
    <2>3. Slack \in Nat
      <3>1. gain \in Nat /\ strands \in Nat /\ Word \in Nat
        BY <2>2, MeshClockAssumption DEF TypeOK
      <3>. QED
        BY <3>1 DEF Slack
    <2>. QED
      BY <2>2, <2>3, NotHalfReached, ShowsType DEF AirReached
  <1>. QED
    BY <1>1, <1>2, <1>3, PTL DEF Spec

=============================================================================
