------------------------------ MODULE MeshClock ------------------------------
(***************************************************************************)
(* The shared clock of the mesh (ESPNowMeshClock): every node broadcasts   *)
(* its time and moves forward to any later time it hears.                  *)
(*                                                                         *)
(* A clock is a local timer plus _offset.  The timers all run at the same  *)
(* rate, so times are taken relative to them: Base[n] is where the timer   *)
(* of n started, Base[n] plus its offset is what it shows.  _offset is two *)
(* machine words: the receive callback stores them one after the other on  *)
(* one core while ESPNOW_Task, on the other, loads them for a broadcast or *)
(* clears them in reset().  MIDI_Task or an interrupt may hold up the      *)
(* callback between its two stores, and ESPNOW_Task between any two loads, *)
(* for as long as they like.  Two loads of the callback are one step: only *)
(* a reset could fall between them.                                        *)
(***************************************************************************)
EXTENDS Integers, FiniteSets

CONSTANTS
  Node,
  Base,              \* where each node's timer started
  Word,              \* 2^32, the values of a machine word
  Near,              \* the second under which two reads agree
  Slew,              \* 1 / _alpha
  LargeStep,         \* _largeStep
  Lag,               \* delays of a frame beyond the estimate TRANSMISSION_DELAY_US;
                     \* less than zero for one that is quicker
  MaxGain,           \* bound: how much earlier than estimated frames come in all
  MaxTears,          \* bound: torn reads of all nodes
  MaxResets          \* bound: soft resets of all nodes

ASSUME MeshClockAssumption ==
  /\ IsFiniteSet(Node) /\ Node # {} /\ Base \in [Node -> Nat]
  /\ Word \in Nat \ {0} /\ Near \in 1 .. Word
  /\ Slew \in Nat \ {0} /\ LargeStep \in Nat
  /\ Lag \subseteq Int
  /\ MaxGain \in Nat /\ MaxTears \in Nat /\ MaxResets \in Nat

VARIABLES
  offset,       \* _offset of each node, as its two words
  synced,       \* _synced
  air,          \* the time on its way to each node from each other, or Silence
  callback,     \* the receive callback of each node in _adjust
  task,         \* its ESPNOW_Task in meshMicrosStable or reset
  resets,       \* soft resets so far
  \* history
  gain,         \* how much earlier than estimated frames came in so far
  tears,        \* reads so far during which a store was under way
  strands       \* stamps sent although the guard had nothing but torn reads

vars == <<offset, synced, air, callback, task, resets, gain, tears, strands>>

Half == {"hi", "lo"}
Words(v) == [hi |-> v \div Word, lo |-> v % Word]
Value(w) == w.hi * Word + w.lo
Shows(n) == Base[n] + Value(offset[n])

Silence == -1
NoValue == -1
Resting == [pc |-> "rest"]

Init ==
  /\ offset = [n \in Node |-> Words(0)]
  /\ synced = [n \in Node |-> FALSE]
  /\ air = [n \in Node |-> [m \in Node |-> Silence]]
  /\ callback = [n \in Node |-> Resting] /\ task = [n \in Node |-> Resting]
  /\ resets = 0 /\ gain = 0 /\ tears = 0 /\ strands = 0

-----------------------------------------------------------------------------
(* The receive callback. *)

DirectSet(n, delta) == ~synced[n] \/ delta > LargeStep

\* Seeded fault: a node that is synced takes a time far ahead for an outlier.
StepNear(n, delta) ==
  IF ~synced[n] THEN delta ELSE IF delta > LargeStep THEN 0 ELSE delta \div Slew

Step(n, delta) == IF DirectSet(n, delta) THEN delta ELSE delta \div Slew

\* Seeded fault: the clock moves backward too.
AheadOrBehind(delta) == delta # 0

Ahead(delta) == delta > 0

Early(lag) == IF lag < 0 THEN -lag ELSE 0

\* _adjust up to the store of the offset; a node behind is ignored.
Hear(n, m, lag) ==
  LET delta == air[n][m] - lag - Shows(n)
      direct == DirectSet(n, delta)
  IN  /\ air[n][m] # Silence /\ callback[n] = Resting
      /\ air' = [air EXCEPT ![n][m] = Silence]
      /\ gain' = gain + Early(lag) /\ gain' <= MaxGain
      /\ IF Ahead(delta)
           THEN /\ callback' = [callback EXCEPT ![n] =
                     [pc |-> "add", step |-> Step(n, delta), direct |-> direct]]
                /\ UNCHANGED synced
           ELSE /\ synced' = [synced EXCEPT ![n] = @ \/ direct]
                /\ UNCHANGED callback
      /\ UNCHANGED <<offset, task, resets, tears, strands>>

Lose(n, m) ==
  /\ air[n][m] # Silence
  /\ air' = [air EXCEPT ![n][m] = Silence]
  /\ UNCHANGED <<offset, synced, callback, task, resets, gain, tears, strands>>

\* `_offset += step` loads the offset anew.
Add(n) ==
  /\ callback[n].pc = "add"
  /\ callback' = [callback EXCEPT ![n] =
       [pc |-> "store", new |-> Words(Value(offset[n]) + @.step),
        left |-> Half, direct |-> @.direct]]
  /\ UNCHANGED <<offset, synced, air, task, resets, gain, tears, strands>>

\* A read is torn when a store is under way at one of its loads, or between them.
Tear(torn, already) ==
  /\ tears' = IF torn /\ ~already THEN tears + 1 ELSE tears
  /\ tears' <= MaxTears

\* The two stores, in the order the compiler chose.
Store(n, half) ==
  LET left == callback[n].left \ {half}
      torn == task[n].pc = "read" /\ task[n].left # Half
  IN  /\ callback[n].pc = "store" /\ half \in callback[n].left
      /\ Tear(torn, torn /\ task[n].torn)
      /\ task' = IF torn THEN [task EXCEPT ![n].torn = TRUE] ELSE task
      /\ offset' = [offset EXCEPT ![n][half] = callback[n].new[half]]
      /\ callback' = [callback EXCEPT ![n] =
                        IF left = {} THEN Resting ELSE [@ EXCEPT !.left = left]]
      /\ synced' = [synced EXCEPT ![n] = @ \/ (left = {} /\ callback[n].direct)]
      /\ UNCHANGED <<air, resets, gain, strands>>

-----------------------------------------------------------------------------
(* ESPNOW_Task: _broadcast, and the reset() of meshResyncTick. *)

HalfStored(n) == callback[n].pc = "store" /\ callback[n].left # Half

Broadcast(n) ==
  /\ task[n] = Resting
  /\ task' = [task EXCEPT ![n] =
       [pc |-> "read", left |-> Half, word |-> Words(0), torn |-> FALSE,
        last |-> NoValue, lastTorn |-> FALSE, reads |-> 0]]
  /\ UNCHANGED <<offset, synced, air, callback, resets, gain, tears, strands>>

Agree(t, v) == t.last # NoValue /\ v - t.last < Near /\ t.last - v < Near

\* Seeded fault: the stamp is meshMicros(), one read.
OneRead(t, v) == TRUE

\* meshMicrosStable: two reads agree, or it gives up after five.
Stable(t, v) == Agree(t, v) \/ t.reads = 4

\* Two torn reads in a row, or a fifth that is torn and agrees with no other.
Stranding(t, v, torn) == torn /\ (t.lastTorn \/ (t.reads = 4 /\ ~Agree(t, v)))

\* A later frame replaces one not yet heard.
Sent(n, v) == [m \in Node |-> IF m = n THEN air[m] ELSE [air[m] EXCEPT ![n] = Base[n] + v]]

Load(n, half) ==
  LET t == task[n]
      word == [t.word EXCEPT ![half] = offset[n][half]]
      v == Value(word)
      torn == t.torn \/ HalfStored(n)
  IN  /\ t.pc = "read" /\ half \in t.left
      /\ Tear(torn, t.torn)
      /\ IF t.left # {half}
           THEN /\ task' = [task EXCEPT ![n] =
                     [t EXCEPT !.left = t.left \ {half}, !.word = word, !.torn = torn]]
                /\ UNCHANGED <<air, strands>>
         ELSE IF Stable(t, v)
           THEN /\ task' = [task EXCEPT ![n] = Resting]
                /\ air' = Sent(n, v)
                /\ strands' = IF Stranding(t, v, torn) THEN strands + 1 ELSE strands
         ELSE /\ task' = [task EXCEPT ![n] =
                   [t EXCEPT !.left = Half, !.word = Words(0), !.torn = FALSE,
                             !.last = v, !.lastTorn = torn, !.reads = t.reads + 1]]
              /\ UNCHANGED <<air, strands>>
      /\ UNCHANGED <<offset, synced, callback, resets, gain>>

reset(n) ==
  /\ task[n] = Resting /\ resets < MaxResets
  /\ resets' = resets + 1
  /\ synced' = [synced EXCEPT ![n] = FALSE]
  /\ task' = [task EXCEPT ![n] = [pc |-> "reset", left |-> Half]]
  /\ UNCHANGED <<offset, air, callback, gain, tears, strands>>

Clear(n, half) ==
  LET left == task[n].left \ {half}
  IN  /\ task[n].pc = "reset" /\ half \in task[n].left
      /\ offset' = [offset EXCEPT ![n][half] = 0]
      /\ task' = [task EXCEPT ![n] = IF left = {} THEN Resting ELSE [@ EXCEPT !.left = left]]
      /\ UNCHANGED <<synced, air, callback, resets, gain, tears, strands>>

-----------------------------------------------------------------------------

Callback(n) == Add(n) \/ \E half \in Half : Store(n, half)
Task(n) == Broadcast(n) \/ \E half \in Half : Load(n, half) \/ Clear(n, half)

Next ==
  \E n \in Node :
    \/ \E m \in Node, lag \in Lag : Hear(n, m, lag)
    \/ \E m \in Node : Lose(n, m)
    \/ Callback(n) \/ Task(n) \/ reset(n)

Spec == Init /\ [][Next]_vars

\* Both tasks run: a store that the bound on torn reads puts off is not put off for
\* good.  Every node now and then hears each of the others with no more delay than
\* they allow for.
Fairness ==
  \A n \in Node :
    /\ SF_vars(Callback(n)) /\ WF_vars(Task(n))
    /\ \A m \in Node : SF_vars(Hear(n, m, 0))

FairSpec == Spec /\ Fairness

-----------------------------------------------------------------------------
(* Properties. *)

WordsType == [hi : Nat, lo : 0 .. Word - 1]
Left == (SUBSET Half) \ {{}}

CallbackType ==
  {Resting}
    \union [pc : {"add"}, step : Nat, direct : BOOLEAN]
    \union [pc : {"store"}, new : WordsType, left : Left, direct : BOOLEAN]

TaskType ==
  {Resting}
    \union [pc : {"read"}, left : Left, word : WordsType, torn : BOOLEAN,
            last : Nat \union {NoValue}, lastTorn : BOOLEAN, reads : 0 .. 4]
    \union [pc : {"reset"}, left : Left]

\* The types of the words, the frames and the two tasks of every node.
TypeOK ==
  /\ offset \in [Node -> WordsType]
  /\ synced \in [Node -> BOOLEAN]
  /\ air \in [Node -> [Node -> Nat \union {Silence}]]
  /\ callback \in [Node -> CallbackType]
  /\ task \in [Node -> TaskType]
  /\ resets \in 0 .. MaxResets /\ gain \in 0 .. MaxGain /\ tears \in 0 .. MaxTears
  /\ strands \in Nat

\* What early frames and stranding stamps may have added to what the timers show: less
\* than a word for each of the stamps.
Slack == gain + strands * Word

\* A time no more than slack ahead of some timer.
Reached(t, slack) == \E n \in Node : t <= Base[n] + slack

\* meshMicrosStable (ESPNowMeshClock.cpp:150): two agreeing reads reject a tear.  However
\* long any task is held up and whatever stores, resets and broadcasts overlap, no
\* frame, and no clock but one between its two stores, is ever ahead of the node that
\* started first by more than frames were early, unless two reads in a row were torn, or
\* a fifth one was that agrees with none; and then by less than a word for each such stamp.
NeverAhead ==
  \A n \in Node :
    /\ \A m \in Node : Reached(air[n][m], Slack)
    /\ ~HalfStored(n) => Reached(Shows(n), Slack)

\* _adjust: forward-only steps bring every node to within one slew step of
\* the others, and nodes that are reset come back.
NodesAgree ==
  <>[](\A n, m \in Node : Shows(n) - Shows(m) < Slew)

=============================================================================
