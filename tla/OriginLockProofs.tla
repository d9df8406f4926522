-------------------------- MODULE OriginLockProofs ---------------------------
(***************************************************************************)
(* What OriginLock guarantees for every number of masters and layers,      *)
(* every spans and every grace, wherever the host's commands land.         *)
(***************************************************************************)
EXTENDS OriginLock, TLAPS

WifiStep == {"valid", "compare", "pinned", "silent", "refresh", "adopt", "adopted",
             "switch", "switched", "count", "anchor"}

Frame == [pc : WifiStep, origin : Master, behind : Lateness, seq : 0 .. SeqSpan - 1,
          now : 0 .. ClockSpan - 1, spoken : BOOLEAN]

\* A callback outlives one increment of millis() at most.
Prompt == wifi # Idle => wifi.now = now \/ now = (wifi.now + 1) % ClockSpan

\* TypeOK by its parts.
MastersType ==
  /\ seq \in [Master -> 0 .. SeqSpan - 1]
  /\ layer \in [Master -> [Lateness -> Layer \union {NoLayer}]]
  /\ boots \in [Master -> 0 .. MaxBoots]
LockType ==
  /\ mac \in (Master \union {NoMac}) \X (Master \union {NoMac})
  /\ valid \in BOOLEAN /\ pinned \in BOOLEAN /\ lastHeard \in 0 .. ClockSpan - 1
CounterType ==
  haveSeq \in BOOLEAN /\ lastSeq \in 0 .. SeqSpan - 1 /\ syncGaps \in 0 .. SyncGapsMax
WifiType == wifi = Idle \/ wifi \in Frame
TimeType ==
  /\ now \in 0 .. ClockSpan - 1
  /\ asked \in Master \union {NoMac} /\ quiet \in 0 .. ORIGIN_LOCK_RELEASE_MS + 1
AnchorType ==
  /\ counted \in Master \union {NoMac} /\ since \in 0 .. SinceMax
  /\ reborn \in BOOLEAN /\ stale \in BOOLEAN

Parts ==
  /\ MastersType /\ LockType /\ CounterType /\ WifiType /\ TimeType /\ AnchorType
  /\ overruled \in BOOLEAN
  /\ Prompt

LEMMA TypeParts == Parts => TypeOK
BY DEF TypeOK, Parts, MastersType, LockType, CounterType, WifiType, TimeType, AnchorType,
       Frame, WifiStep

-----------------------------------------------------------------------------
(* Wrapping counters. *)

LEMMA Wrapped ==
  ASSUME NEW n \in Nat \ {0}, NEW k \in Nat
  PROVE  /\ k % n \in 0 .. n - 1
         /\ k < n + n => k % n = IF k < n THEN k ELSE k - n
<1>1. k % n \in 0 .. n - 1
  OBVIOUS
<1>2. k < n => k % n = k
  OBVIOUS
<1>3. n <= k /\ k < n + n => k % n = k - n
  OBVIOUS
<1>. QED
  BY <1>1, <1>2, <1>3

LEMMA Spans ==
  /\ ClockSpan \in Nat \ {0} /\ SeqSpan \in Nat \ {0}
  /\ ORIGIN_LOCK_RELEASE_MS \in Nat /\ ORIGIN_LOCK_RELEASE_MS + 2 < ClockSpan
  /\ MEDIASYNC_MAX_GAP \in Nat /\ SyncGapsMax \in Nat /\ MaxBoots \in Nat /\ MaxLate \in Nat
  /\ SinceMax \in Nat /\ 0 \in Lateness
BY OriginLockAssumption DEF SinceMax, Lateness

LEMMA ElapsedIs ==
  ASSUME NEW a \in 0 .. ClockSpan - 1, NEW b \in 0 .. ClockSpan - 1
  PROVE  /\ Elapsed(a, b) = IF b <= a THEN a - b ELSE a + ClockSpan - b
         /\ Elapsed(a, b) \in 0 .. ClockSpan - 1
<1>. DEFINE k == a + ClockSpan - b
<1>1. k \in Nat /\ k < ClockSpan + ClockSpan /\ (ClockSpan <= k <=> b <= a)
  BY Spans
<1>2. k - ClockSpan = a - b
  BY Spans
<1>3. Elapsed(a, b) = k % ClockSpan
  BY DEF Elapsed
<1>. HIDE DEF k
<1>4. k % ClockSpan = IF k < ClockSpan THEN k ELSE k - ClockSpan
  BY <1>1, Spans, Wrapped, Zenon
<1>5. Elapsed(a, b) = IF k < ClockSpan THEN k ELSE k - ClockSpan
  BY <1>3, <1>4, Zenon
<1>6. k < ClockSpan <=> ~(b <= a)
  BY <1>1, Spans
<1>7. Elapsed(a, b) = IF b <= a THEN a - b ELSE a + ClockSpan - b
  BY <1>5, <1>6, <1>2 DEF k
<1>. QED
  BY <1>7, Spans

LEMMA NextIs ==
  ASSUME NEW a \in 0 .. ClockSpan - 1
  PROVE  /\ (a + 1) % ClockSpan = IF a + 1 = ClockSpan THEN 0 ELSE a + 1
         /\ (a + 1) % ClockSpan \in 0 .. ClockSpan - 1
<1>. DEFINE k == a + 1
<1>1. k \in Nat /\ k <= ClockSpan /\ k < ClockSpan + ClockSpan
  BY Spans
<1>. HIDE DEF k
<1>2. k % ClockSpan = IF k < ClockSpan THEN k ELSE k - ClockSpan
  BY <1>1, Spans, Wrapped, Zenon
<1>3. k % ClockSpan = IF k = ClockSpan THEN 0 ELSE k
  <2>1. k < ClockSpan \/ k = ClockSpan
    BY <1>1, Spans
  <2>2. k = ClockSpan => k - ClockSpan = 0 /\ ~(k < ClockSpan)
    BY <1>1, Spans
  <2>3. k < ClockSpan => k # ClockSpan
    BY <1>1, Spans
  <2>. QED
    BY <1>2, <2>1, <2>2, <2>3, Zenon
<1>4. k % ClockSpan \in 0 .. ClockSpan - 1
  BY <1>1, Spans, Wrapped, Zenon
<1>. QED
  BY <1>3, <1>4, Zenon DEF k

\* The time between a callback's reading of millis() and its end.
LEMMA PromptElapsed ==
  ASSUME NEW a \in 0 .. ClockSpan - 1, NEW b \in 0 .. ClockSpan - 1,
         b = a \/ a = (b + 1) % ClockSpan
  PROVE  Elapsed(a, b) \in {0, 1} /\ (a # b => Elapsed(a, b) = 1)
<1>1. (b + 1) % ClockSpan = IF b + 1 = ClockSpan THEN 0 ELSE b + 1
  BY NextIs
<1>2. Elapsed(a, b) = IF b <= a THEN a - b ELSE a + ClockSpan - b
  BY ElapsedIs
<1>. QED
  BY <1>1, <1>2, Spans

LEMMA CappedRange ==
  ASSUME NEW n \in Nat, NEW cap \in Nat
  PROVE  Capped(n, cap) \in 0 .. cap /\ (n <= cap => Capped(n, cap) = n)
BY DEF Capped

-----------------------------------------------------------------------------
(* The callback. *)

LEMMA FrameField ==
  /\ \A w \in Frame : w # Idle /\ w.pc \in WifiStep /\ w.origin \in Master
                      /\ w.behind \in Lateness /\ w.seq \in 0 .. SeqSpan - 1
                      /\ w.now \in 0 .. ClockSpan - 1 /\ w.spoken \in BOOLEAN
  /\ Idle.pc = "idle" /\ "idle" \notin WifiStep
<1>1. Idle.pc = "idle" /\ "idle" \notin WifiStep
  BY DEF Idle, WifiStep
<1>2. ASSUME NEW w \in Frame
      PROVE  w # Idle /\ w.pc \in WifiStep /\ w.origin \in Master
             /\ w.behind \in Lateness /\ w.seq \in 0 .. SeqSpan - 1
             /\ w.now \in 0 .. ClockSpan - 1 /\ w.spoken \in BOOLEAN
  <2>1. w.pc \in WifiStep /\ w.origin \in Master
        /\ w.behind \in Lateness /\ w.seq \in 0 .. SeqSpan - 1
        /\ w.now \in 0 .. ClockSpan - 1 /\ w.spoken \in BOOLEAN
    BY DEF Frame
  <2>. QED
    BY <2>1, <1>1
<1>. QED
  BY <1>1, <1>2

\* The frame in hand: everything of a callback but where it is, and whether it is late.
SameFrame ==
  /\ wifi'.origin = wifi.origin /\ wifi'.behind = wifi.behind /\ wifi'.seq = wifi.seq
  /\ wifi'.now = wifi.now

LEMMA InProgress ==
  ASSUME Parts, wifi # Idle \/ wifi.pc \in WifiStep
  PROVE  wifi \in Frame /\ wifi # Idle /\ wifi.pc \in WifiStep /\ wifi.origin \in Master
BY FrameField DEF Parts, WifiType

LEMMA Goes ==
  ASSUME Parts, NEW here \in WifiStep, NEW there \in WifiStep, Goto(here, there)
  PROVE  /\ wifi \in Frame /\ wifi # Idle /\ wifi.pc = here /\ wifi.origin \in Master
         /\ wifi' \in Frame /\ wifi' # Idle /\ wifi'.pc = there
         /\ SameFrame /\ wifi'.spoken = wifi.spoken
         /\ now' = now => WifiType' /\ Prompt'
<1>1. wifi.pc = here /\ wifi' = [wifi EXCEPT !.pc = there]
  BY DEF Goto
<1>2. wifi \in Frame /\ wifi # Idle /\ wifi.origin \in Master
  BY <1>1, InProgress
<1>3. wifi' \in Frame /\ wifi'.pc = there /\ SameFrame /\ wifi'.spoken = wifi.spoken
  BY <1>1, <1>2 DEF Frame, SameFrame
<1>4. wifi' # Idle
  BY <1>3, FrameField
<1>. QED
  BY <1>1, <1>2, <1>3, <1>4 DEF Parts, WifiType, Prompt, SameFrame

LEMMA Drops ==
  ASSUME Parts, NEW here \in WifiStep, Drop(here)
  PROVE  wifi \in Frame /\ wifi # Idle /\ wifi.pc = here /\ wifi' = Idle /\ WifiType' /\ Prompt'
<1>1. wifi.pc = here /\ wifi' = Idle
  BY DEF Drop
<1>. QED
  BY <1>1, InProgress DEF WifiType, Prompt

\* The host's command leaves the frame in hand, and marks it unless it was not yet judged.
LEMMA Speaks ==
  ASSUME Parts, Speak, now' = now
  PROVE  /\ WifiType' /\ Prompt'
         /\ \/ /\ wifi' = wifi /\ (wifi = Idle \/ wifi.pc = "valid")
            \/ /\ wifi # Idle /\ wifi' # Idle /\ wifi.pc # "valid"
               /\ SameFrame /\ wifi'.pc = wifi.pc /\ wifi'.spoken = TRUE
<1>1. CASE wifi.pc \in {"idle", "valid"}
  <2>1. wifi' = wifi
    BY <1>1 DEF Speak
  <2>2. wifi = Idle \/ wifi.pc = "valid"
    BY <1>1, FrameField DEF Parts, WifiType
  <2>. QED
    BY <2>1, <2>2 DEF Parts, WifiType, Prompt
<1>2. CASE wifi.pc \notin {"idle", "valid"}
  <2>1. wifi' = [wifi EXCEPT !.spoken = TRUE]
    BY <1>2 DEF Speak, Spoken
  <2>2. wifi \in Frame /\ wifi # Idle
    BY <1>2, FrameField DEF Parts, WifiType
  <2>3. wifi' \in Frame /\ SameFrame /\ wifi'.pc = wifi.pc /\ wifi'.spoken = TRUE
    BY <2>1, <2>2 DEF Frame, SameFrame
  <2>4. wifi' # Idle
    BY <2>3, FrameField
  <2>. QED
    BY <1>2, <2>2, <2>3, <2>4 DEF Parts, WifiType, Prompt, SameFrame
<1>. QED
  BY <1>1, <1>2

-----------------------------------------------------------------------------
(* Type correctness. *)

LEMMA InitType == Init => Parts
<1>. SUFFICES ASSUME Init PROVE Parts
  OBVIOUS
<1>1. MastersType
  BY Spans DEF Init, MastersType
<1>2. LockType
  <2>1. 0 \in 0 .. ClockSpan - 1
    BY Spans
  <2>2. mac = <<NoMac, NoMac>> /\ valid = FALSE /\ pinned = FALSE /\ lastHeard = 0
    BY DEF Init, Whole
  <2>. QED
    BY <2>1, <2>2 DEF LockType
<1>3. CounterType
  <2>1. 0 \in 0 .. SeqSpan - 1 /\ 0 \in 0 .. SyncGapsMax
    BY Spans
  <2>. QED
    BY <2>1 DEF Init, CounterType
<1>4. WifiType /\ Prompt
  BY DEF Init, WifiType, Prompt
<1>5. TimeType
  BY Spans DEF Init, TimeType
<1>6. AnchorType /\ overruled \in BOOLEAN
  <2>1. 0 \in 0 .. SinceMax
    BY Spans
  <2>2. counted = NoMac /\ since = 0 /\ reborn = FALSE /\ stale = FALSE /\ overruled = FALSE
    BY DEF Init
  <2>. QED
    BY <2>1, <2>2 DEF AnchorType
<1>. QED
  BY <1>1, <1>2, <1>3, <1>4, <1>5, <1>6 DEF Parts

LEMMA MintType ==
  ASSUME Parts, NEW m \in Master, NEW l \in Layer, Mint(m, l)
  PROVE  Parts'
<1>1. /\ seq' = [seq EXCEPT ![m] = (@ + 1) % SeqSpan]
      /\ layer' = [layer EXCEPT ![m] = [k \in Lateness |-> IF k = 0 THEN l ELSE @[k - 1]]]
      /\ since' = IF m = counted THEN Capped(since + 1, SinceMax) ELSE since
      /\ UNCHANGED <<boots, lock, counter, wifi, now, asked, quiet, overruled, counted, reborn,
                     stale>>
  BY DEF Mint
<1>2. (seq[m] + 1) % SeqSpan \in 0 .. SeqSpan - 1
  <2>1. seq[m] + 1 \in Nat
    BY Spans DEF Parts, MastersType
  <2>. QED
    BY <2>1, Spans, Wrapped
<1>3. [k \in Lateness |-> IF k = 0 THEN l ELSE layer[m][k - 1]]
        \in [Lateness -> Layer \union {NoLayer}]
  <2>1. layer[m] \in [Lateness -> Layer \union {NoLayer}]
    BY DEF Parts, MastersType
  <2>2. \A k \in Lateness : k # 0 => k - 1 \in Lateness
    BY Spans DEF Lateness
  <2>. QED
    BY <2>1, <2>2
<1>4. MastersType'
  BY <1>1, <1>2, <1>3 DEF Parts, MastersType
<1>5. since' \in 0 .. SinceMax
  <2>1. since + 1 \in Nat /\ since \in 0 .. SinceMax
    BY Spans DEF Parts, AnchorType
  <2>. QED
    BY <1>1, <2>1, Spans, CappedRange
<1>6. AnchorType'
  BY <1>1, <1>5 DEF Parts, AnchorType
<1>. QED
  BY <1>1, <1>4, <1>6
  DEF Parts, LockType, CounterType, WifiType, TimeType, Prompt, lock, counter

LEMMA RestartType ==
  ASSUME Parts, NEW m \in Master, RestartMaster(m)
  PROVE  Parts'
<1>1. /\ boots' = [boots EXCEPT ![m] = @ + 1]
      /\ seq' = [seq EXCEPT ![m] = 0]
      /\ layer' = [layer EXCEPT ![m] = [k \in Lateness |-> NoLayer]]
      /\ reborn' = (reborn \/ m = counted)
      /\ UNCHANGED <<lock, counter, wifi, now, asked, quiet, overruled, counted, since, stale>>
  BY DEF RestartMaster
<1>2. boots[m] + 1 \in 0 .. MaxBoots
  <2>1. boots[m] < MaxBoots /\ boots[m] \in 0 .. MaxBoots
    BY DEF RestartMaster, Parts, MastersType
  <2>. QED
    BY <2>1, Spans
<1>3. MastersType'
  BY <1>1, <1>2, Spans DEF Parts, MastersType
<1>4. AnchorType'
  <2>1. reborn' \in BOOLEAN
    BY <1>1
  <2>. QED
    BY <1>1, <2>1 DEF Parts, AnchorType
<1>. QED
  BY <1>1, <1>3, <1>4
  DEF Parts, LockType, CounterType, WifiType, TimeType, Prompt, lock, counter

LEMMA TickType ==
  ASSUME Parts, Tick
  PROVE  Parts'
<1>1. /\ wifi # Idle => wifi.now = now
      /\ now' = (now + 1) % ClockSpan
      /\ quiet' = Capped(quiet + 1, ORIGIN_LOCK_RELEASE_MS + 1)
      /\ UNCHANGED <<masters, lock, counter, wifi, asked, overruled, anchor>>
  BY DEF Tick
<1>2. now' \in 0 .. ClockSpan - 1
  BY <1>1, NextIs DEF Parts, TimeType
<1>3. quiet' \in 0 .. ORIGIN_LOCK_RELEASE_MS + 1
  <2>1. quiet + 1 \in Nat /\ ORIGIN_LOCK_RELEASE_MS + 1 \in Nat
    BY Spans DEF Parts, TimeType
  <2>. QED
    BY <1>1, <2>1, CappedRange
<1>4. Prompt'
  BY <1>1 DEF Prompt
<1>. QED
  BY <1>1, <1>2, <1>3, <1>4
  DEF Parts, MastersType, LockType, CounterType, WifiType, TimeType, AnchorType,
      masters, lock, counter, anchor

\* The frame a callback starts with.
LEMMA Hears ==
  ASSUME Parts, NEW m \in Master, NEW k \in Lateness, Hear(m, k)
  PROVE  /\ wifi = Idle /\ wifi' \in Frame /\ wifi' # Idle
         /\ wifi'.pc = "valid" /\ wifi'.origin = m /\ wifi'.behind = k
         /\ wifi'.seq = (seq[m] + SeqSpan - k) % SeqSpan /\ wifi'.now = now
         /\ wifi'.spoken = FALSE
         /\ layer[m][k] # NoLayer
         /\ UNCHANGED <<masters, lock, counter, now, history>>
<1>. DEFINE s == (seq[m] + SeqSpan - k) % SeqSpan
<1>1. s \in 0 .. SeqSpan - 1
  <2>1. seq[m] \in 0 .. SeqSpan - 1
    BY DEF Parts, MastersType
  <2>2. k \in Nat /\ k <= SeqSpan
    BY OriginLockAssumption DEF Lateness
  <2>3. seq[m] + SeqSpan - k \in Nat
    BY <2>1, <2>2, Spans
  <2>. QED
    BY <2>3, Spans, Wrapped
<1>2. now \in 0 .. ClockSpan - 1
  BY DEF Parts, TimeType
<1>3. /\ wifi' = [pc |-> "valid", origin |-> m, behind |-> k, seq |-> s, now |-> now,
                  spoken |-> FALSE]
      /\ wifi = Idle /\ layer[m][k] \in Subscribed
      /\ UNCHANGED <<masters, lock, counter, now, history>>
  BY DEF Hear
<1>. HIDE DEF s
<1>4. /\ wifi' \in Frame /\ wifi'.pc = "valid" /\ wifi'.origin = m /\ wifi'.behind = k
      /\ wifi'.seq = s /\ wifi'.now = now /\ wifi'.spoken = FALSE
  BY <1>1, <1>2, <1>3 DEF Frame, WifiStep
<1>5. wifi' # Idle
  BY <1>4, FrameField
<1>6. layer[m][k] # NoLayer
  BY <1>3, OriginLockAssumption
<1>. QED
  BY <1>3, <1>4, <1>5, <1>6 DEF s

LEMMA HearType ==
  ASSUME Parts, NEW m \in Master, NEW k \in Lateness, Hear(m, k)
  PROVE  Parts'
<1>1. wifi' \in Frame /\ wifi'.now = now /\ UNCHANGED <<masters, lock, counter, now, history>>
  BY Hears
<1>2. WifiType' /\ Prompt'
  BY <1>1 DEF WifiType, Prompt
<1>. QED
  BY <1>1, <1>2
  DEF Parts, MastersType, LockType, CounterType, TimeType, AnchorType,
      masters, lock, counter, history, anchor

LEMMA DecideType ==
  ASSUME Parts, Decide
  PROVE  Parts'
<1>1. UNCHANGED <<masters, lock, counter, now, history>>
  BY DEF Decide
<1>2. \/ \E here, there \in WifiStep : Goto(here, there)
      \/ \E here \in WifiStep : Drop(here)
  BY Zenon DEF Decide, WifiStep
<1>3. WifiType' /\ Prompt'
  BY <1>1, <1>2, Goes, Drops
<1>. QED
  BY <1>1, <1>3
  DEF Parts, MastersType, LockType, CounterType, TimeType, AnchorType,
      masters, lock, counter, history, anchor

LEMMA CopyFirstType ==
  ASSUME Parts, CopyFirstBytes
  PROVE  Parts'
<1>1. /\ Goto("adopt", "adopted") \/ Goto("switch", "switched")
      /\ mac' = <<wifi.origin, mac[2]>>
      /\ UNCHANGED <<masters, valid, pinned, lastHeard, counter, now, history>>
  BY DEF CopyFirstBytes
<1>2. {"adopt", "adopted", "switch", "switched"} \subseteq WifiStep
  BY DEF WifiStep
<1>3. wifi.origin \in Master /\ WifiType' /\ Prompt'
  BY <1>1, <1>2, Goes
<1>4. LockType'
  BY <1>1, <1>3 DEF Parts, LockType
<1>. QED
  BY <1>1, <1>3, <1>4
  DEF Parts, MastersType, CounterType, TimeType, AnchorType, masters, counter, history, anchor

\* lastHeard is what the callback read, quiet what has passed since.
LEMMA HeardNow ==
  ASSUME Parts, wifi \in Frame, lastHeard' = wifi.now, quiet' = Elapsed(now, wifi.now)
  PROVE  /\ lastHeard' \in 0 .. ClockSpan - 1
         /\ quiet' \in 0 .. ORIGIN_LOCK_RELEASE_MS + 1 /\ quiet' \in {0, 1}
<1>1. wifi # Idle /\ wifi.now \in 0 .. ClockSpan - 1 /\ now \in 0 .. ClockSpan - 1
  BY FrameField DEF Parts, TimeType
<1>2. wifi.now = now \/ now = (wifi.now + 1) % ClockSpan
  BY <1>1 DEF Parts, Prompt
<1>3. Elapsed(now, wifi.now) \in {0, 1}
  BY <1>1, <1>2, PromptElapsed
<1>. QED
  BY <1>1, <1>3, Spans

LEMMA UncountType ==
  ASSUME Uncount
  PROVE  AnchorType'
<1>1. counted' = NoMac /\ since' = 0 /\ reborn' = FALSE /\ stale' = FALSE
  BY DEF Uncount
<1>2. 0 \in 0 .. SinceMax
  BY Spans
<1>. QED
  BY <1>1, <1>2 DEF AnchorType

LEMMA CopyLastType ==
  ASSUME Parts, CopyLastBytes
  PROVE  Parts'
<1>1. /\ Goto("adopted", "count") \/ Goto("switched", "count")
      /\ valid' = TRUE \/ valid' = valid
      /\ mac' = <<mac[1], wifi.origin>>
      /\ lastHeard' = wifi.now /\ quiet' = Elapsed(now, wifi.now)
      /\ overruled' = (overruled \/ wifi.spoken)
      /\ Uncount
      /\ UNCHANGED <<masters, pinned, lastSeq, syncGaps, now, asked>>
  BY DEF CopyLastBytes
<1>2. {"adopted", "switched", "count"} \subseteq WifiStep
  BY DEF WifiStep
<1>3. wifi \in Frame /\ wifi.origin \in Master /\ WifiType' /\ Prompt'
  BY <1>1, <1>2, Goes
<1>4. lastHeard' \in 0 .. ClockSpan - 1 /\ quiet' \in 0 .. ORIGIN_LOCK_RELEASE_MS + 1
  BY <1>1, <1>3, HeardNow
<1>5. LockType'
  BY <1>1, <1>3, <1>4 DEF Parts, LockType
<1>6. TimeType' /\ CounterType'
  BY <1>1, <1>4 DEF Parts, TimeType, CounterType, Uncount
<1>7. AnchorType' /\ overruled' \in BOOLEAN
  BY <1>1, UncountType
<1>. QED
  BY <1>1, <1>3, <1>5, <1>6, <1>7 DEF Parts, MastersType, masters

LEMMA RefreshType ==
  ASSUME Parts, Refresh
  PROVE  Parts'
<1>1. /\ Goto("refresh", "count")
      /\ lastHeard' = wifi.now /\ quiet' = Elapsed(now, wifi.now)
      /\ UNCHANGED <<masters, mac, valid, pinned, counter, now, asked, overruled, anchor>>
  BY DEF Refresh
<1>2. {"refresh", "count"} \subseteq WifiStep
  BY DEF WifiStep
<1>3. wifi \in Frame /\ WifiType' /\ Prompt'
  BY <1>1, <1>2, Goes
<1>4. lastHeard' \in 0 .. ClockSpan - 1 /\ quiet' \in 0 .. ORIGIN_LOCK_RELEASE_MS + 1
  BY <1>1, <1>3, HeardNow
<1>. QED
  BY <1>1, <1>3, <1>4
  DEF Parts, MastersType, LockType, CounterType, TimeType, AnchorType, masters, counter, anchor

LEMMA CountType ==
  ASSUME Parts, CountGap
  PROVE  Parts'
<1>. DEFINE gap == SeqGap(wifi.seq, lastSeq)
<1>1. /\ Goto("count", "anchor")
      /\ syncGaps' = Saturated(syncGaps + gap) \/ syncGaps' = syncGaps
      /\ UNCHANGED <<masters, lock, haveSeq, lastSeq, now, history>>
  BY DEF CountGap
<1>2. {"count", "anchor"} \subseteq WifiStep
  BY DEF WifiStep
<1>3. wifi \in Frame /\ WifiType' /\ Prompt'
  BY <1>1, <1>2, Goes
<1>4. wifi.seq \in 0 .. SeqSpan - 1 /\ lastSeq \in 0 .. SeqSpan - 1 /\ syncGaps \in 0 .. SyncGapsMax
  BY <1>3, FrameField DEF Parts, CounterType
<1>5. gap \in Nat
  <2>1. wifi.seq + 2 * SeqSpan - lastSeq - 1 \in Nat
    BY <1>4, Spans
  <2>2. gap \in 0 .. SeqSpan - 1
    BY <2>1, Spans, Wrapped, Zenon DEF SeqGap
  <2>. QED
    BY <2>2, Spans
<1>. HIDE DEF gap
<1>6. syncGaps' \in 0 .. SyncGapsMax
  <2>1. syncGaps + gap \in Nat
    BY <1>4, <1>5, Spans
  <2>. QED
    BY <1>1, <1>4, <2>1, Spans, CappedRange DEF Saturated
<1>7. CounterType'
  BY <1>1, <1>6 DEF Parts, CounterType
<1>. QED
  BY <1>1, <1>3, <1>7
  DEF Parts, MastersType, LockType, TimeType, AnchorType, masters, lock, history, anchor

LEMMA AnchorsType ==
  ASSUME Parts, Anchor
  PROVE  Parts'
<1>1. /\ Drop("anchor") /\ "anchor" \in WifiStep
      /\ lastSeq' = wifi.seq /\ haveSeq' = TRUE
      /\ counted' = wifi.origin /\ since' = wifi.behind /\ reborn' = FALSE
      /\ stale' = wifi.spoken
      /\ UNCHANGED <<masters, lock, syncGaps, now, asked, quiet, overruled>>
  BY DEF Anchor, WifiStep
<1>2. wifi \in Frame /\ WifiType' /\ Prompt'
  BY <1>1, Drops
<1>3. /\ wifi.seq \in 0 .. SeqSpan - 1 /\ wifi.origin \in Master /\ wifi.behind \in Lateness
      /\ wifi.spoken \in BOOLEAN
  BY <1>2, FrameField
<1>4. wifi.behind \in 0 .. SinceMax
  BY <1>3, Spans DEF Lateness, SinceMax
<1>5. CounterType' /\ AnchorType'
  BY <1>1, <1>3, <1>4 DEF Parts, CounterType, AnchorType
<1>. QED
  BY <1>1, <1>2, <1>5 DEF Parts, MastersType, LockType, TimeType, masters, lock

LEMMA PinType ==
  ASSUME Parts, NEW m \in Master, Pin(m)
  PROVE  Parts'
<1>1. /\ mac' = <<m, m>> /\ valid' = TRUE /\ pinned' = TRUE /\ lastHeard' = now
      /\ asked' = m /\ quiet' = 0 /\ overruled' = FALSE
      /\ Uncount /\ Speak
      /\ UNCHANGED <<masters, lastSeq, syncGaps, now>>
  BY DEF Pin, Whole
<1>2. LockType'
  BY <1>1 DEF Parts, LockType, TimeType
<1>3. TimeType'
  <2>1. 0 \in 0 .. ORIGIN_LOCK_RELEASE_MS + 1
    BY Spans
  <2>. QED
    BY <1>1, <2>1 DEF Parts, TimeType
<1>4. CounterType' /\ AnchorType'
  BY <1>1, UncountType DEF Parts, CounterType, Uncount
<1>5. WifiType' /\ Prompt'
  BY <1>1, Speaks
<1>. QED
  BY <1>1, <1>2, <1>3, <1>4, <1>5 DEF Parts, MastersType, masters

LEMMA ReleaseType ==
  ASSUME Parts, originRelease
  PROVE  Parts'
<1>1. /\ mac' = <<NoMac, NoMac>> /\ valid' = FALSE /\ pinned' = FALSE
      /\ asked' = NoMac /\ overruled' = FALSE
      /\ Uncount /\ Speak
      /\ UNCHANGED <<masters, lastHeard, lastSeq, syncGaps, now, quiet>>
  BY DEF originRelease, Whole
<1>2. LockType'
  BY <1>1 DEF Parts, LockType
<1>3. TimeType' /\ CounterType' /\ AnchorType'
  BY <1>1, UncountType DEF Parts, TimeType, CounterType, Uncount
<1>4. WifiType' /\ Prompt'
  BY <1>1, Speaks
<1>. QED
  BY <1>1, <1>2, <1>3, <1>4 DEF Parts, MastersType, masters

LEMMA NextType == Parts /\ [Next]_vars => Parts'
<1>. SUFFICES ASSUME Parts, [Next]_vars PROVE Parts'
  OBVIOUS
<1>1. ASSUME NEW m \in Master, NEW l \in Layer, Mint(m, l) PROVE Parts'
  BY <1>1, MintType
<1>2. ASSUME NEW m \in Master, NEW k \in Lateness, Hear(m, k) PROVE Parts'
  BY <1>2, HearType
<1>3. ASSUME NEW m \in Master, RestartMaster(m) \/ Pin(m) PROVE Parts'
  BY <1>3, RestartType, PinType
<1>4. CASE UNCHANGED vars
  BY <1>4 DEF vars, Parts, MastersType, LockType, CounterType, WifiType, TimeType, AnchorType,
              Prompt, masters, lock, counter, history, anchor
<1>. QED
  BY <1>1, <1>2, <1>3, <1>4, DecideType, CopyFirstType, CopyLastType, RefreshType, CountType,
     AnchorsType, ReleaseType, TickType DEF Next

LEMMA TypesHold == Spec => []Parts
<1>1. Init => Parts
  BY InitType
<1>2. Parts /\ [Next]_vars => Parts'
  BY NextType
<1>. QED
  BY <1>1, <1>2, PTL DEF Spec

\* The lock, the counters and the callback keep their ranges, through wraps of
\* millis() and seq, wherever the host's commands land.
THEOREM TypeCorrect == Spec => []TypeOK
<1>1. Parts => TypeOK
  BY TypeParts
<1>. QED
  BY <1>1, TypesHold, PTL

-----------------------------------------------------------------------------
(* The lock.  A frame's judgement holds until it is let in, but for those  *)
(* the host spoke into.                                                    *)

LockStep == {"compare", "pinned", "silent", "refresh", "switch", "switched", "count", "anchor"}

\* What the callback has read of the lock still holds, if the host has not spoken since.
ReadsHold ==
  wifi # Idle /\ ~wifi.spoken =>
    /\ wifi.pc \in {"adopt", "adopted"} => ~valid
    /\ wifi.pc \in LockStep => valid
    /\ wifi.pc \in {"refresh", "count", "anchor"} => mac[2] = wifi.origin
    /\ wifi.pc \in {"silent", "switch", "switched"} => ~pinned
    /\ wifi.pc \in {"switch", "switched"} => quiet > ORIGIN_LOCK_RELEASE_MS

\* A pin is a valid lock the host asked for, and its MAC is the one named, but for
\* the copy in progress that will write over it.
HostObeyed ==
  /\ asked # NoMac => valid /\ pinned
  /\ pinned => asked # NoMac
  /\ asked # NoMac /\ ~overruled =>
       mac = Whole(asked) \/ (wifi # Idle /\ wifi.pc \in {"adopted", "switched"})

\* quiet is what millis() shows, until it stops counting.
QuietIsElapsed ==
  /\ quiet <= ORIGIN_LOCK_RELEASE_MS => Elapsed(now, lastHeard) = quiet
  /\ wifi # Idle /\ ~wifi.spoken /\ wifi.pc \notin {"count", "anchor"} /\ wifi.now # now =>
       quiet > 0 \/ pinned \/ ~valid

LInv ==
  /\ valid => mac[2] # NoMac
  /\ wifi # Idle /\ wifi.pc = "valid" => ~wifi.spoken
  /\ ReadsHold /\ HostObeyed /\ QuietIsElapsed

LEMMA InitLock == Init => LInv
<1>. SUFFICES ASSUME Init PROVE LInv
  OBVIOUS
<1>1. /\ mac = Whole(NoMac) /\ valid = FALSE /\ pinned = FALSE /\ asked = NoMac
      /\ lastHeard = 0 /\ wifi = Idle /\ now = 0 /\ quiet = 0
  BY DEF Init
<1>2. ReadsHold /\ HostObeyed
  BY <1>1 DEF ReadsHold, HostObeyed
<1>3. Elapsed(0, 0) = 0
  <2>1. 0 \in 0 .. ClockSpan - 1
    BY Spans
  <2>2. Elapsed(0, 0) = IF 0 <= 0 THEN 0 - 0 ELSE 0 + ClockSpan - 0
    BY <2>1, ElapsedIs, Zenon
  <2>. QED
    BY <2>2
<1>4. QuietIsElapsed
  BY <1>1, <1>3 DEF QuietIsElapsed
<1>. QED
  BY <1>1, <1>2, <1>4 DEF LInv

\* Steps that touch neither the lock nor the callback.
LEMMA LockAlone ==
  ASSUME LInv, UNCHANGED <<mac, valid, pinned, lastHeard, wifi, now, asked, quiet, overruled>>
  PROVE  LInv'
BY DEF LInv, ReadsHold, HostObeyed, QuietIsElapsed

LEMMA HearLock ==
  ASSUME Parts, LInv, NEW m \in Master, NEW k \in Lateness, Hear(m, k)
  PROVE  LInv'
<1>1. /\ wifi = Idle /\ wifi'.pc = "valid" /\ wifi'.now = now /\ wifi'.spoken = FALSE
      /\ UNCHANGED <<mac, valid, pinned, lastHeard, now, asked, quiet, overruled>>
  BY Hears DEF lock, history
<1>2. ReadsHold'
  BY <1>1 DEF ReadsHold, LockStep
<1>3. HostObeyed'
  BY <1>1 DEF LInv, HostObeyed, Whole
<1>4. QuietIsElapsed'
  BY <1>1 DEF LInv, QuietIsElapsed
<1>. QED
  BY <1>1, <1>2, <1>3, <1>4 DEF LInv

\* While quiet counts, so does the time since lastHeard.
LEMMA TickElapsed ==
  ASSUME NEW a \in 0 .. ClockSpan - 1, NEW b \in 0 .. ClockSpan - 1, NEW n \in Nat,
         Elapsed(a, b) = n, n < ORIGIN_LOCK_RELEASE_MS
  PROVE  Elapsed((a + 1) % ClockSpan, b) = n + 1
<1>. DEFINE c == (a + 1) % ClockSpan
<1>1. c = (IF a + 1 = ClockSpan THEN 0 ELSE a + 1) /\ c \in 0 .. ClockSpan - 1
  BY NextIs
<1>. HIDE DEF c
<1>2. n = IF b <= a THEN a - b ELSE a + ClockSpan - b
  BY ElapsedIs
<1>3. Elapsed(c, b) = IF b <= c THEN c - b ELSE c + ClockSpan - b
  BY <1>1, ElapsedIs
<1>4. Elapsed(c, b) = n + 1
  BY <1>1, <1>2, <1>3, Spans
<1>. QED
  BY <1>4 DEF c

LEMMA TickLock ==
  ASSUME Parts, LInv, Tick
  PROVE  LInv'
<1>1. /\ wifi # Idle => wifi.now = now
      /\ now' = (now + 1) % ClockSpan
      /\ quiet' = Capped(quiet + 1, ORIGIN_LOCK_RELEASE_MS + 1)
      /\ UNCHANGED <<mac, valid, pinned, lastHeard, wifi, asked, overruled>>
  BY DEF Tick, lock
<1>2. quiet \in 0 .. ORIGIN_LOCK_RELEASE_MS + 1 /\ quiet \in Nat
      /\ now \in 0 .. ClockSpan - 1 /\ lastHeard \in 0 .. ClockSpan - 1
  BY Spans DEF Parts, TimeType, LockType
<1>3. quiet' = IF quiet <= ORIGIN_LOCK_RELEASE_MS THEN quiet + 1 ELSE quiet
  BY <1>1, <1>2, Spans DEF Capped
<1>4. quiet' > 0 /\ (quiet > ORIGIN_LOCK_RELEASE_MS => quiet' > ORIGIN_LOCK_RELEASE_MS)
  BY <1>2, <1>3, Spans
<1>5. ASSUME quiet' <= ORIGIN_LOCK_RELEASE_MS
      PROVE  Elapsed(now', lastHeard') = quiet'
  <2>1. quiet' = quiet + 1 /\ quiet < ORIGIN_LOCK_RELEASE_MS /\ quiet <= ORIGIN_LOCK_RELEASE_MS
    BY <1>2, <1>3, <1>5, Spans
  <2>2. Elapsed(now, lastHeard) = quiet
    BY <2>1 DEF LInv, QuietIsElapsed
  <2>3. Elapsed((now + 1) % ClockSpan, lastHeard) = quiet + 1
    BY <1>2, <2>1, <2>2, TickElapsed
  <2>. QED
    BY <1>1, <2>1, <2>3
<1>6. QuietIsElapsed'
  BY <1>4, <1>5 DEF QuietIsElapsed
<1>7. ReadsHold' /\ HostObeyed'
  BY <1>1, <1>4 DEF LInv, ReadsHold, HostObeyed
<1>. QED
  BY <1>1, <1>6, <1>7 DEF LInv

\* A master left for silence has been quiet for longer than its grace.
LEMMA SilentIsQuiet ==
  ASSUME Parts, LInv, wifi # Idle, ~wifi.spoken, wifi.pc = "silent", Silent
  PROVE  quiet > ORIGIN_LOCK_RELEASE_MS
<1>. SUFFICES ASSUME quiet <= ORIGIN_LOCK_RELEASE_MS PROVE FALSE
  BY Spans DEF Parts, TimeType
<1>1. /\ quiet \in Nat /\ now \in 0 .. ClockSpan - 1 /\ lastHeard \in 0 .. ClockSpan - 1
      /\ wifi.now \in 0 .. ClockSpan - 1
  BY Spans, FrameField DEF Parts, TimeType, LockType, WifiType
<1>2. Elapsed(now, lastHeard) = quiet
  BY DEF LInv, QuietIsElapsed
<1>3. Elapsed(wifi.now, lastHeard) > ORIGIN_LOCK_RELEASE_MS
  BY DEF Silent
<1>4. wifi.now # now /\ now = (wifi.now + 1) % ClockSpan
  BY <1>1, <1>2, <1>3, Spans DEF Parts, Prompt
<1>5. quiet > 0
  BY <1>4 DEF LInv, QuietIsElapsed, ReadsHold, LockStep
<1>6. now = IF wifi.now + 1 = ClockSpan THEN 0 ELSE wifi.now + 1
  BY <1>1, <1>4, NextIs
<1>7. /\ quiet = (IF lastHeard <= now THEN now - lastHeard ELSE now + ClockSpan - lastHeard)
      /\ Elapsed(wifi.now, lastHeard) =
           (IF lastHeard <= wifi.now THEN wifi.now - lastHeard
            ELSE wifi.now + ClockSpan - lastHeard)
  BY <1>1, <1>2, ElapsedIs
<1>. QED
  BY <1>1, <1>3, <1>5, <1>6, <1>7, Spans

\* The callback ends, and the lock is left alone.
LEMMA EndLock ==
  ASSUME LInv, wifi' = Idle, wifi # Idle, wifi.pc \notin {"adopted", "switched"},
         UNCHANGED <<mac, valid, pinned, lastHeard, now, asked, quiet, overruled>>
  PROVE  LInv'
BY DEF LInv, ReadsHold, HostObeyed, QuietIsElapsed

\* It moves on, and the lock is left alone: what it has just read is all there is to show.
LEMMA MoveLock ==
  ASSUME Parts, LInv,
         NEW here \in WifiStep \ {"adopted", "switched"}, NEW there \in WifiStep \ {"valid"},
         Goto(here, there),
         here = "count" => there = "anchor", here # "anchor",
         UNCHANGED <<mac, valid, pinned, lastHeard, now, asked, quiet, overruled>>,
         ReadsHold'
  PROVE  LInv'
<1>1. /\ wifi # Idle /\ wifi.pc = here /\ wifi' # Idle /\ wifi'.pc = there
      /\ wifi'.now = wifi.now /\ wifi'.spoken = wifi.spoken
  BY Goes DEF SameFrame
<1>2. HostObeyed'
  BY <1>1 DEF LInv, HostObeyed
<1>3. QuietIsElapsed'
  BY <1>1 DEF LInv, QuietIsElapsed
<1>. QED
  BY <1>1, <1>2, <1>3 DEF LInv

LEMMA DecideLock ==
  ASSUME Parts, LInv, Decide
  PROVE  LInv'
<1>1. UNCHANGED <<mac, valid, pinned, lastHeard, now, asked, quiet, overruled>>
  BY DEF Decide, lock, history
<1>2. {"valid", "adopt", "compare", "refresh", "pinned", "silent", "switch"}
        \subseteq WifiStep \ {"adopted", "switched", "count", "anchor"}
  BY DEF WifiStep
<1>3. CASE Goto("valid", "adopt") /\ ~valid
  <2>1. wifi'.pc = "adopt" /\ ReadsHold'
    BY <1>1, <1>2, <1>3, Goes DEF ReadsHold, LockStep
  <2>. QED
    BY <1>1, <1>2, <1>3, <2>1, MoveLock
<1>4. CASE Goto("valid", "compare") /\ valid
  <2>1. ReadsHold'
    BY <1>1, <1>2, <1>4, Goes DEF ReadsHold, LockStep
  <2>. QED
    BY <1>1, <1>2, <1>4, <2>1, MoveLock
<1>5. CASE Goto("compare", "refresh") /\ mac = Whole(wifi.origin)
  <2>1. mac[2] = wifi.origin
    BY <1>5 DEF Whole
  <2>2. ReadsHold'
    BY <1>1, <1>2, <1>5, <2>1, Goes DEF LInv, ReadsHold, LockStep, SameFrame
  <2>. QED
    BY <1>1, <1>2, <1>5, <2>2, MoveLock
<1>6. CASE Goto("compare", "pinned") /\ mac # Whole(wifi.origin)
  <2>1. ReadsHold'
    BY <1>1, <1>2, <1>6, Goes DEF LInv, ReadsHold, LockStep
  <2>. QED
    BY <1>1, <1>2, <1>6, <2>1, MoveLock
<1>7. CASE Goto("pinned", "silent") /\ ~HeldByHost
  <2>1. ReadsHold'
    BY <1>1, <1>2, <1>7, Goes DEF LInv, ReadsHold, LockStep, HeldByHost
  <2>. QED
    BY <1>1, <1>2, <1>7, <2>1, MoveLock
<1>8. CASE Goto("silent", "switch") /\ Silent
  <2>1. wifi # Idle /\ wifi.pc = "silent"
    BY <1>2, <1>8, Goes
  <2>2. ~wifi.spoken => quiet > ORIGIN_LOCK_RELEASE_MS
    BY <1>8, <2>1, SilentIsQuiet
  <2>3. ReadsHold'
    BY <1>1, <1>2, <1>8, <2>1, <2>2, Goes DEF LInv, ReadsHold, LockStep
  <2>. QED
    BY <1>1, <1>2, <1>8, <2>3, MoveLock
<1>9. CASE Drop("pinned") \/ Drop("silent")
  <2>1. wifi # Idle /\ wifi.pc \in {"pinned", "silent"} /\ wifi' = Idle
    BY <1>2, <1>9, Drops
  <2>. QED
    BY <1>1, <2>1, EndLock
<1>. QED
  BY <1>3, <1>4, <1>5, <1>6, <1>7, <1>8, <1>9 DEF Decide

LEMMA CopyFirstLock ==
  ASSUME Parts, LInv, CopyFirstBytes
  PROVE  /\ LInv'
         /\ UNCHANGED <<valid, pinned, quiet>> /\ mac'[2] = mac[2]
<1>1. /\ Goto("adopt", "adopted") \/ Goto("switch", "switched")
      /\ mac' = <<wifi.origin, mac[2]>>
      /\ UNCHANGED <<valid, pinned, lastHeard, now, asked, quiet, overruled>>
  BY DEF CopyFirstBytes, history
<1>2. mac'[2] = mac[2]
  BY <1>1
<1>3. PICK there \in {"adopted", "switched"} :
        /\ wifi # Idle /\ wifi.pc = (IF there = "adopted" THEN "adopt" ELSE "switch")
        /\ wifi' # Idle /\ wifi'.pc = there
        /\ wifi'.now = wifi.now /\ wifi'.spoken = wifi.spoken
  <2>1. CASE Goto("adopt", "adopted")
    BY <2>1, Goes DEF WifiStep, SameFrame
  <2>2. CASE Goto("switch", "switched")
    BY <2>2, Goes DEF WifiStep, SameFrame
  <2>. QED
    BY <1>1, <2>1, <2>2
<1>4. ReadsHold'
  BY <1>1, <1>2, <1>3 DEF LInv, ReadsHold, LockStep
<1>5. HostObeyed' /\ QuietIsElapsed'
  BY <1>1, <1>3 DEF LInv, HostObeyed, QuietIsElapsed
<1>. QED
  BY <1>1, <1>2, <1>3, <1>4, <1>5 DEF LInv

\* A switch is completed: by a frame judged on what still is so, or after the host spoke.
LEMMA CopyLastLock ==
  ASSUME Parts, LInv, CopyLastBytes
  PROVE  /\ LInv'
         /\ wifi # Idle /\ wifi.pc \in {"adopted", "switched"} /\ wifi'.pc = "count"
         /\ quiet' \in {0, 1} /\ pinned' = pinned /\ mac'[2] \in Master
         /\ (valid' = TRUE \/ valid' = valid)
         /\ wifi.spoken \in BOOLEAN
         /\ \/ wifi.spoken
            \/ ~valid /\ valid'
            \/ valid /\ valid' /\ ~pinned /\ mac[2] # NoMac /\ quiet > ORIGIN_LOCK_RELEASE_MS
<1>1. /\ \/ Goto("adopted", "count") /\ valid' = TRUE
         \/ Goto("switched", "count") /\ valid' = valid
      /\ mac' = <<mac[1], wifi.origin>>
      /\ lastHeard' = wifi.now /\ quiet' = Elapsed(now, wifi.now)
      /\ overruled' = (overruled \/ wifi.spoken)
      /\ UNCHANGED <<pinned, now, asked>>
  BY DEF CopyLastBytes
<1>2. {"adopted", "switched", "count"} \subseteq WifiStep
  BY DEF WifiStep
<1>3. /\ wifi \in Frame /\ wifi # Idle /\ wifi.origin \in Master
      /\ wifi.pc \in {"adopted", "switched"} /\ wifi' # Idle /\ wifi'.pc = "count"
      /\ wifi'.origin = wifi.origin /\ wifi'.spoken = wifi.spoken
  BY <1>1, <1>2, Goes DEF SameFrame
<1>4. quiet' \in {0, 1} /\ quiet' = Elapsed(now', lastHeard')
  BY <1>1, <1>3, HeardNow
<1>5. mac'[2] = wifi.origin /\ wifi.origin # NoMac
  BY <1>1, <1>3, OriginLockAssumption
<1>6. wifi.spoken \in BOOLEAN /\ valid \in BOOLEAN
  BY <1>3, FrameField DEF Parts, LockType
<1>7. \/ wifi.spoken
      \/ ~valid /\ valid'
      \/ valid /\ valid' /\ ~pinned /\ quiet > ORIGIN_LOCK_RELEASE_MS
  <2>1. CASE Goto("adopted", "count") /\ valid' = TRUE
    BY <1>2, <2>1, Goes DEF LInv, ReadsHold
  <2>2. CASE Goto("switched", "count") /\ valid' = valid
    BY <1>2, <2>2, Goes DEF LInv, ReadsHold, LockStep
  <2>. QED
    BY <1>1, <2>1, <2>2
<1>8. asked # NoMac => wifi.spoken /\ valid' /\ pinned'
  BY <1>1, <1>7 DEF LInv, HostObeyed
<1>9. ReadsHold'
  BY <1>3, <1>5, <1>7 DEF ReadsHold, LockStep
<1>10. HostObeyed'
  BY <1>1, <1>3, <1>8 DEF LInv, HostObeyed
<1>11. QuietIsElapsed'
  BY <1>3, <1>4 DEF QuietIsElapsed
<1>12. valid => mac[2] # NoMac
  BY DEF LInv
<1>13. LInv'
  BY <1>3, <1>5, <1>9, <1>10, <1>11 DEF LInv
<1>. QED
  BY <1>1, <1>3, <1>4, <1>5, <1>6, <1>7, <1>12, <1>13

LEMMA RefreshLock ==
  ASSUME Parts, LInv, Refresh
  PROVE  /\ LInv'
         /\ wifi # Idle /\ wifi.pc = "refresh" /\ wifi'.pc = "count"
         /\ quiet' \in {0, 1} /\ UNCHANGED <<mac, valid, pinned>>
         /\ wifi.spoken \in BOOLEAN
         /\ wifi.spoken \/ (valid /\ mac[2] # NoMac)
<1>1. /\ Goto("refresh", "count")
      /\ lastHeard' = wifi.now /\ quiet' = Elapsed(now, wifi.now)
      /\ UNCHANGED <<mac, valid, pinned, now, asked, overruled>>
  BY DEF Refresh
<1>2. {"refresh", "count"} \subseteq WifiStep
  BY DEF WifiStep
<1>3. /\ wifi \in Frame /\ wifi # Idle /\ wifi.pc = "refresh"
      /\ wifi' # Idle /\ wifi'.pc = "count"
      /\ wifi'.origin = wifi.origin /\ wifi'.spoken = wifi.spoken
  BY <1>1, <1>2, Goes DEF SameFrame
<1>4. quiet' \in {0, 1} /\ quiet' = Elapsed(now', lastHeard')
  BY <1>1, <1>3, HeardNow
<1>5. wifi.spoken \in BOOLEAN
  BY <1>3, FrameField
<1>6. wifi.spoken \/ (valid /\ mac[2] # NoMac)
  BY <1>3 DEF LInv, ReadsHold, LockStep
<1>7. ReadsHold'
  BY <1>1, <1>3 DEF LInv, ReadsHold, LockStep
<1>8. HostObeyed'
  BY <1>1, <1>3 DEF LInv, HostObeyed
<1>9. QuietIsElapsed'
  BY <1>3, <1>4 DEF QuietIsElapsed
<1>10. LInv'
  BY <1>1, <1>3, <1>7, <1>8, <1>9 DEF LInv
<1>. QED
  BY <1>1, <1>3, <1>4, <1>5, <1>6, <1>10

LEMMA CountLock ==
  ASSUME Parts, LInv, CountGap \/ Anchor
  PROVE  LInv'
<1>1. UNCHANGED <<mac, valid, pinned, lastHeard, now, asked, quiet, overruled>>
  BY DEF CountGap, Anchor, lock, history
<1>2. {"count", "anchor"} \subseteq WifiStep \ {"adopted", "switched", "valid"}
  BY DEF WifiStep
<1>3. CASE CountGap
  <2>1. Goto("count", "anchor")
    BY <1>3 DEF CountGap
  <2>2. ReadsHold'
    BY <1>1, <1>2, <2>1, Goes DEF LInv, ReadsHold, LockStep, SameFrame
  <2>. QED
    BY <1>1, <1>2, <2>1, <2>2, MoveLock
<1>4. CASE Anchor
  <2>1. wifi # Idle /\ wifi.pc = "anchor" /\ wifi' = Idle
    BY <1>2, <1>4, Drops DEF Anchor
  <2>. QED
    BY <1>1, <2>1, EndLock
<1>. QED
  BY <1>3, <1>4

LEMMA PinLock ==
  ASSUME Parts, LInv, NEW m \in Master, Pin(m)
  PROVE  LInv'
<1>1. /\ mac' = Whole(m) /\ valid' = TRUE /\ pinned' = TRUE /\ lastHeard' = now
      /\ asked' = m /\ quiet' = 0 /\ now' = now /\ overruled' = FALSE /\ Speak
  BY DEF Pin
<1>2. m # NoMac /\ mac'[2] = m
  BY <1>1, OriginLockAssumption DEF Whole
<1>3. Elapsed(now, now) = 0
  <2>1. now \in 0 .. ClockSpan - 1
    BY DEF Parts, TimeType
  <2>2. Elapsed(now, now) = IF now <= now THEN now - now ELSE now + ClockSpan - now
    BY <2>1, ElapsedIs, Zenon
  <2>. QED
    BY <2>1, <2>2, Spans
<1>4. HostObeyed'
  BY <1>1, <1>2 DEF HostObeyed, Whole
<1>5. CASE wifi' = wifi /\ (wifi = Idle \/ wifi.pc = "valid")
  <2>1. ReadsHold' /\ (wifi' # Idle /\ wifi'.pc = "valid" => ~wifi'.spoken)
    BY <1>5 DEF LInv, ReadsHold, LockStep
  <2>2. QuietIsElapsed'
    BY <1>1, <1>3, <1>5 DEF QuietIsElapsed
  <2>. QED
    BY <1>1, <1>2, <1>4, <2>1, <2>2 DEF LInv
<1>6. CASE wifi' # Idle /\ wifi'.pc # "valid" /\ wifi'.spoken = TRUE
  BY <1>1, <1>2, <1>3, <1>4, <1>6 DEF LInv, ReadsHold, QuietIsElapsed
<1>. QED
  BY <1>1, <1>5, <1>6, Speaks

LEMMA ReleaseLock ==
  ASSUME Parts, LInv, originRelease
  PROVE  LInv'
<1>1. /\ valid' = FALSE /\ pinned' = FALSE /\ asked' = NoMac
      /\ UNCHANGED <<lastHeard, now, quiet>> /\ Speak
  BY DEF originRelease
<1>2. HostObeyed'
  BY <1>1 DEF HostObeyed
<1>3. CASE wifi' = wifi /\ (wifi = Idle \/ wifi.pc = "valid")
  <2>1. ReadsHold' /\ (wifi' # Idle /\ wifi'.pc = "valid" => ~wifi'.spoken)
    BY <1>3 DEF LInv, ReadsHold, LockStep
  <2>2. QuietIsElapsed'
    BY <1>1, <1>3 DEF LInv, QuietIsElapsed
  <2>. QED
    BY <1>1, <1>2, <2>1, <2>2 DEF LInv
<1>4. CASE wifi' # Idle /\ wifi'.pc # "valid" /\ wifi'.spoken = TRUE
  BY <1>1, <1>2, <1>4 DEF LInv, ReadsHold, QuietIsElapsed
<1>. QED
  BY <1>1, <1>3, <1>4, Speaks

LEMMA NextLock == Parts /\ LInv /\ [Next]_vars => LInv'
<1>. SUFFICES ASSUME Parts, LInv, [Next]_vars PROVE LInv'
  OBVIOUS
<1>1. ASSUME NEW m \in Master, NEW l \in Layer, Mint(m, l) PROVE LInv'
  BY <1>1, LockAlone DEF Mint, lock
<1>2. ASSUME NEW m \in Master, RestartMaster(m) PROVE LInv'
  BY <1>2, LockAlone DEF RestartMaster, lock
<1>3. ASSUME NEW m \in Master, NEW k \in Lateness, Hear(m, k) PROVE LInv'
  BY <1>3, HearLock
<1>4. ASSUME NEW m \in Master, Pin(m) PROVE LInv'
  BY <1>4, PinLock
<1>5. CASE UNCHANGED vars
  BY <1>5, LockAlone DEF vars, lock, history
<1>. QED
  BY <1>1, <1>2, <1>3, <1>4, <1>5, DecideLock, CopyFirstLock, CopyLastLock, RefreshLock,
     CountLock, ReleaseLock, TickLock DEF Next

LEMMA LockHolds == Spec => [](Parts /\ LInv)
<1>1. Init => Parts /\ LInv
  BY InitType, InitLock
<1>2. Parts /\ LInv /\ [Next]_vars => (Parts /\ LInv)'
  BY NextType, NextLock
<1>. QED
  BY <1>1, <1>2, PTL DEF Spec

\* SET_ORIGIN: between two callbacks the lock is on the very MAC the host named last,
\* whatever masters are heard, however long that one is silent and wherever the host's
\* commands land, unless a callback that had judged its frame before one of them has
\* written over it.
THEOREM PinsHold == Spec => []PinHolds
<1>1. Parts /\ LInv => PinHolds
  BY DEF LInv, HostObeyed, PinKept, PinHolds
<1>. QED
  BY <1>1, LockHolds, PTL

-----------------------------------------------------------------------------
(* The lock follows one master. *)

Followed == IF valid THEN mac[2] ELSE NoMac
Late == wifi # Idle /\ wifi.pc \notin {"valid", "count", "anchor"} /\ wifi.spoken

LEMMA StutterFollows ==
  ASSUME UNCHANGED <<Followed, pinned, quiet, Late>>
  PROVE  [Follow!Next]_(Follow!vars)
BY Zenon DEF Follow!vars, Followed, Late

LEMMA InitFollows == Init => Follow!Init
BY DEF Init, Follow!Init

\* The frame in hand when the host spoke is let in, or dropped.
LEMMA UndoFollows ==
  ASSUME Late, ~Late', Followed' \in Master \union {Followed}, quiet' \in {0, 1},
         UNCHANGED pinned
  PROVE  [Follow!Next]_(Follow!vars)
<1>1. Late' = FALSE
  BY Zenon DEF Late
<1>2. Follow!Undo
  BY <1>1, Zenon DEF Follow!Undo, Followed, Late
<1>. QED
  BY <1>2, Zenon DEF Follow!Next

LEMMA SettleFollows ==
  ASSUME Late, ~Late', UNCHANGED <<Followed, pinned, quiet>>
  PROVE  [Follow!Next]_(Follow!vars)
<1>1. Late' = FALSE
  BY Zenon DEF Late
<1>2. Follow!Settle
  BY <1>1, Zenon DEF Follow!Settle, Followed, Late
<1>. QED
  BY <1>2, Zenon DEF Follow!Next

LEMMA TickFollows ==
  ASSUME Parts, Tick
  PROVE  [Follow!Next]_(Follow!vars)
<1>1. UNCHANGED <<mac, valid, pinned, wifi>>
  BY DEF Tick, lock
<1>2. UNCHANGED <<Followed, pinned, Late>>
  BY <1>1, Zenon DEF Followed, Late
<1>3. quiet \in 0 .. ORIGIN_LOCK_RELEASE_MS + 1
  BY DEF Parts, TimeType
<1>4. quiet' = Capped(quiet + 1, ORIGIN_LOCK_RELEASE_MS + 1)
  BY DEF Tick
<1>5. CASE quiet <= ORIGIN_LOCK_RELEASE_MS
  <2>1. quiet' = quiet + 1
    BY <1>3, <1>4, <1>5, Spans DEF Capped
  <2>2. Follow!Age
    BY <1>2, <1>5, <2>1, Zenon DEF Follow!Age, Followed, Late
  <2>. QED
    BY <2>2, Zenon DEF Follow!Next
<1>6. CASE ~(quiet <= ORIGIN_LOCK_RELEASE_MS)
  <2>1. quiet' = quiet
    BY <1>3, <1>4, <1>6, Spans DEF Capped
  <2>. QED
    BY <1>2, <2>1, StutterFollows
<1>. QED
  BY <1>5, <1>6

LEMMA DecideFollows ==
  ASSUME Parts, LInv, Decide
  PROVE  [Follow!Next]_(Follow!vars)
<1>1. UNCHANGED <<mac, valid, pinned, quiet>>
  BY DEF Decide, lock, history
<1>2. UNCHANGED <<Followed, pinned, quiet>>
  BY <1>1, Zenon DEF Followed
<1>3. {"valid", "adopt", "compare", "refresh", "pinned", "silent", "switch"}
        \subseteq WifiStep \ {"count", "anchor"}
  BY DEF WifiStep
<1>4. CASE Goto("valid", "adopt") \/ Goto("valid", "compare")
  <2>1. wifi.pc = "valid" /\ wifi # Idle /\ wifi'.spoken = wifi.spoken
    BY <1>3, <1>4, Goes
  <2>2. ~wifi.spoken
    BY <2>1 DEF LInv
  <2>3. ~Late /\ ~Late'
    BY <2>1, <2>2 DEF Late
  <2>4. Late' = Late
    BY <2>3, Zenon DEF Late
  <2>. QED
    BY <1>2, <2>4, StutterFollows, Zenon
<1>5. CASE \/ Goto("compare", "refresh") \/ Goto("compare", "pinned")
           \/ Goto("pinned", "silent") \/ Goto("silent", "switch")
  <2>1. /\ wifi # Idle /\ wifi' # Idle /\ wifi'.spoken = wifi.spoken
        /\ wifi.pc \notin {"valid", "count", "anchor"}
        /\ wifi'.pc \notin {"valid", "count", "anchor"}
    BY <1>3, <1>5, Goes
  <2>2. Late' <=> Late
    BY <2>1 DEF Late
  <2>3. Late' = Late
    BY <2>2, Zenon DEF Late
  <2>. QED
    BY <1>2, <2>3, StutterFollows, Zenon
<1>6. CASE Drop("pinned") \/ Drop("silent")
  <2>1. wifi' = Idle
    BY <1>3, <1>6, Drops
  <2>2. ~Late'
    BY <2>1 DEF Late
  <2>3. CASE Late
    BY <1>2, <2>2, <2>3, SettleFollows, Zenon
  <2>4. CASE ~Late
    <3>1. Late' = Late
      BY <2>2, <2>4, Zenon DEF Late
    <3>. QED
      BY <1>2, <3>1, StutterFollows, Zenon
  <2>. QED
    BY <2>3, <2>4
<1>. QED
  BY <1>4, <1>5, <1>6 DEF Decide

LEMMA CopyFirstFollows ==
  ASSUME Parts, LInv, CopyFirstBytes
  PROVE  [Follow!Next]_(Follow!vars)
<1>1. UNCHANGED <<valid, pinned, quiet>> /\ mac'[2] = mac[2]
  BY CopyFirstLock
<1>2. UNCHANGED <<Followed, pinned, quiet>>
  BY <1>1, Zenon DEF Followed
<1>3. /\ wifi # Idle /\ wifi' # Idle /\ wifi'.spoken = wifi.spoken
      /\ wifi.pc \notin {"valid", "count", "anchor"}
      /\ wifi'.pc \notin {"valid", "count", "anchor"}
  BY Goes DEF CopyFirstBytes, WifiStep
<1>4. Late' <=> Late
  BY <1>3 DEF Late
<1>5. Late' = Late
  BY <1>4, Zenon DEF Late
<1>. QED
  BY <1>2, <1>5, StutterFollows, Zenon

LEMMA CopyLastFollows ==
  ASSUME Parts, LInv, CopyLastBytes
  PROVE  [Follow!Next]_(Follow!vars)
<1>1. /\ wifi # Idle /\ wifi.pc \in {"adopted", "switched"} /\ wifi'.pc = "count"
      /\ quiet' \in {0, 1} /\ pinned' = pinned /\ mac'[2] \in Master
      /\ valid' = TRUE \/ valid' = valid
      /\ \/ wifi.spoken
         \/ ~valid /\ valid'
         \/ valid /\ valid' /\ ~pinned /\ mac[2] # NoMac /\ quiet > ORIGIN_LOCK_RELEASE_MS
  BY CopyLastLock
<1>2. ~Late' /\ (Late <=> wifi.spoken)
  BY <1>1 DEF Late
<1>3. CASE wifi.spoken
  <2>1. Followed' \in Master \union {Followed}
    BY <1>1 DEF Followed
  <2>. QED
    BY <1>1, <1>2, <1>3, <2>1, UndoFollows, Zenon
<1>4. ASSUME ~wifi.spoken PROVE Late' = FALSE /\ Late = FALSE
  BY <1>2, <1>4, Zenon DEF Late
<1>5. CASE ~wifi.spoken /\ ~valid /\ valid'
  <2>1. Followed = NoMac /\ Followed' = mac'[2]
    BY <1>5 DEF Followed
  <2>2. Follow!Adopt(mac'[2])
    BY <1>1, <1>4, <1>5, <2>1, Zenon DEF Follow!Adopt, Followed, Late
  <2>. QED
    BY <1>1, <2>2, Zenon DEF Follow!Next
<1>6. CASE /\ ~wifi.spoken
           /\ valid /\ valid' /\ ~pinned /\ mac[2] # NoMac /\ quiet > ORIGIN_LOCK_RELEASE_MS
  <2>1. Followed = mac[2] /\ Followed' = mac'[2]
    BY <1>6 DEF Followed
  <2>2. CASE mac'[2] = mac[2]
    <3>1. Follow!Keep
      BY <1>1, <1>4, <1>6, <2>1, <2>2, Zenon DEF Follow!Keep, Followed, Late
    <3>. QED
      BY <3>1, Zenon DEF Follow!Next
  <2>3. CASE mac'[2] # mac[2]
    <3>1. mac[2] \notin {mac'[2], NoMac}
      BY <1>6, <2>3
    <3>2. Follow!Switch(mac'[2])
      BY <1>1, <1>4, <1>6, <2>1, <3>1, Zenon DEF Follow!Switch, Followed, Late
    <3>. QED
      BY <1>1, <3>2, Zenon DEF Follow!Next
  <2>. QED
    BY <2>2, <2>3
<1>. QED
  BY <1>1, <1>3, <1>5, <1>6

LEMMA RefreshFollows ==
  ASSUME Parts, LInv, Refresh
  PROVE  [Follow!Next]_(Follow!vars)
<1>1. /\ wifi # Idle /\ wifi.pc = "refresh" /\ wifi'.pc = "count"
      /\ quiet' \in {0, 1} /\ UNCHANGED <<mac, valid, pinned>>
      /\ wifi.spoken \/ (valid /\ mac[2] # NoMac)
  BY RefreshLock
<1>2. ~Late' /\ (Late <=> wifi.spoken)
  BY <1>1 DEF Late
<1>3. Followed' = Followed
  BY <1>1, Zenon DEF Followed
<1>4. CASE wifi.spoken
  BY <1>1, <1>2, <1>3, <1>4, UndoFollows
<1>5. CASE ~wifi.spoken /\ valid /\ mac[2] # NoMac
  <2>1. Late' = FALSE /\ Late = FALSE
    BY <1>2, <1>5, Zenon DEF Late
  <2>2. Follow!Keep
    BY <1>1, <1>3, <1>5, <2>1, Zenon DEF Follow!Keep, Followed, Late
  <2>. QED
    BY <2>2, Zenon DEF Follow!Next
<1>. QED
  BY <1>1, <1>4, <1>5

\* Counting is no business of the lock.
LEMMA CountFollows ==
  ASSUME Parts, CountGap \/ Anchor
  PROVE  [Follow!Next]_(Follow!vars)
<1>1. UNCHANGED <<mac, valid, pinned, quiet>>
  BY DEF CountGap, Anchor, lock, history
<1>2. UNCHANGED <<Followed, pinned, quiet>>
  BY <1>1, Zenon DEF Followed
<1>3. wifi.pc \in {"count", "anchor"} /\ (wifi' = Idle \/ wifi'.pc = "anchor")
  BY Goes, Drops DEF CountGap, Anchor, WifiStep
<1>4. ~Late /\ ~Late'
  BY <1>3 DEF Late
<1>5. Late' = Late
  BY <1>4, Zenon DEF Late
<1>. QED
  BY <1>2, <1>5, StutterFollows, Zenon

LEMMA PinFollows ==
  ASSUME NEW m \in Master, Pin(m)
  PROVE  [Follow!Next]_(Follow!vars)
<1>1. valid' = TRUE /\ mac'[2] = m /\ pinned' = TRUE /\ quiet' = 0
  BY DEF Pin, Whole
<1>2. Late' \in BOOLEAN /\ Followed' = m
  BY <1>1, Zenon DEF Late, Followed
<1>3. Follow!Pin(m)
  BY <1>1, <1>2, Zenon DEF Follow!Pin, Followed, Late
<1>. QED
  BY <1>3, Zenon DEF Follow!Next

LEMMA ReleaseFollows ==
  ASSUME originRelease
  PROVE  [Follow!Next]_(Follow!vars)
<1>1. valid' = FALSE /\ pinned' = FALSE /\ quiet' = quiet
  BY DEF originRelease
<1>2. Late' \in BOOLEAN /\ Followed' = NoMac
  BY <1>1, Zenon DEF Late, Followed
<1>3. Follow!Release
  BY <1>1, <1>2, Zenon DEF Follow!Release, Followed, Late
<1>. QED
  BY <1>3, Zenon DEF Follow!Next

LEMMA NextFollows == Parts /\ LInv /\ [Next]_vars => [Follow!Next]_(Follow!vars)
<1>. SUFFICES ASSUME Parts, LInv, [Next]_vars PROVE [Follow!Next]_(Follow!vars)
  OBVIOUS
<1>1. ASSUME UNCHANGED <<mac, valid, pinned, quiet, wifi>>
      PROVE  [Follow!Next]_(Follow!vars)
  BY <1>1, StutterFollows, Zenon DEF Followed, Late
<1>2. ASSUME NEW m \in Master, NEW l \in Layer, Mint(m, l)
      PROVE  [Follow!Next]_(Follow!vars)
  BY <1>1, <1>2 DEF Mint, lock
<1>3. ASSUME NEW m \in Master, RestartMaster(m)
      PROVE  [Follow!Next]_(Follow!vars)
  BY <1>1, <1>3 DEF RestartMaster, lock
<1>4. ASSUME NEW m \in Master, NEW k \in Lateness, Hear(m, k)
      PROVE  [Follow!Next]_(Follow!vars)
  <2>1. wifi = Idle /\ wifi'.pc = "valid" /\ UNCHANGED <<mac, valid, pinned, quiet>>
    BY <1>4, Hears DEF lock, history
  <2>2. ~Late /\ ~Late'
    BY <2>1 DEF Late
  <2>3. Late' = Late /\ Followed' = Followed
    BY <2>1, <2>2, Zenon DEF Followed, Late
  <2>. QED
    BY <2>1, <2>3, StutterFollows, Zenon
<1>5. ASSUME NEW m \in Master, Pin(m) PROVE [Follow!Next]_(Follow!vars)
  BY <1>5, PinFollows
<1>6. CASE UNCHANGED vars
  BY <1>1, <1>6 DEF vars, lock, history
<1>. QED
  BY <1>2, <1>3, <1>4, <1>5, <1>6, DecideFollows, CopyFirstFollows, CopyLastFollows,
     RefreshFollows, CountFollows, ReleaseFollows, TickFollows DEF Next

\* originAccepts, through its half-copied MACs, its late readings of millis() and the
\* host's commands in the middle of it, is a slave that follows one master and leaves
\* it only after its silence or on the host's word, which the frame in hand at that
\* moment may undo, once.
THEOREM FollowsOne == Spec => FollowsOneMaster
<1>1. Init => Follow!Init
  BY InitFollows
<1>2. Parts /\ LInv /\ [Next]_vars => [Follow!Next]_(Follow!vars)
  BY NextFollows
<1>. QED
  BY <1>1, <1>2, LockHolds, PTL DEF Spec, FollowsOneMaster, Follow!Spec

-----------------------------------------------------------------------------
(* What the delivery signal knows of the master it counts. *)

\* The frame in hand is one its master has sent in this life, and no lastSeq outlives
\* a host's word that came while it was in hand.
InHand ==
  wifi # Idle =>
    /\ wifi.seq = (seq[wifi.origin] + SeqSpan - wifi.behind) % SeqSpan
    /\ layer[wifi.origin][wifi.behind] # NoLayer
    /\ wifi.spoken => ~haveSeq

InReach(later, earlier, n) == later = earlier + n \/ later = earlier + n - SeqSpan

\* lastSeq is of the master followed, which is as many frames ahead of it as it has sent.
InStep ==
  haveSeq =>
    /\ counted \in Master
    /\ ~stale => valid /\ mac[2] = counted
    /\ ~reborn /\ since < SinceMax => InReach(seq[counted], lastSeq, since)

\* A restarted master's seq counts the frames of its new life, and the newest are of it.
RebornSeq ==
  haveSeq /\ reborn /\ since < SinceMax =>
    /\ seq[counted] <= since
    /\ \A k \in Lateness : layer[counted][k] # NoLayer => k < seq[counted]

GInv == (counted # NoMac => haveSeq) /\ InHand /\ InStep /\ RebornSeq

-----------------------------------------------------------------------------
(* Arithmetic of the counter. *)

LEMMA SeqNextIs ==
  ASSUME NEW a \in 0 .. SeqSpan - 1
  PROVE  (a + 1) % SeqSpan = IF a + 1 = SeqSpan THEN 0 ELSE a + 1
<1>. DEFINE k == a + 1
<1>1. k \in Nat /\ k <= SeqSpan /\ k < SeqSpan + SeqSpan
  BY Spans
<1>. HIDE DEF k
<1>2. k % SeqSpan = IF k < SeqSpan THEN k ELSE k - SeqSpan
  BY <1>1, Spans, Wrapped, Zenon
<1>3. k % SeqSpan = IF k = SeqSpan THEN 0 ELSE k
  <2>1. k < SeqSpan \/ k = SeqSpan
    BY <1>1, Spans
  <2>2. k = SeqSpan => k - SeqSpan = 0 /\ ~(k < SeqSpan)
    BY <1>1, Spans
  <2>3. k < SeqSpan => k # SeqSpan
    BY <1>1, Spans
  <2>. QED
    BY <1>2, <2>1, <2>2, <2>3, Zenon
<1>. QED
  BY <1>3, Zenon DEF k

\* A number of up to three spans, wrapped.
LEMMA WrappedTwice ==
  ASSUME NEW n \in Nat \ {0}, NEW k \in Nat, n <= k, k < n + n + n
  PROVE  k % n = IF k < n + n THEN k - n ELSE k - n - n
<1>1. k < n + n => k % n = k - n
  OBVIOUS
<1>2. n + n <= k => k % n = k - n - n
  OBVIOUS
<1>. QED
  BY <1>1, <1>2

LEMMA GapIs ==
  ASSUME NEW a \in 0 .. SeqSpan - 1, NEW b \in 0 .. SeqSpan - 1
  PROVE  SeqGap(a, b) = IF b < a THEN a - b - 1 ELSE a + SeqSpan - b - 1
<1>. DEFINE k == a + 2 * SeqSpan - b - 1
<1>1. /\ k \in Nat /\ SeqSpan <= k /\ k < SeqSpan + SeqSpan + SeqSpan
      /\ k < SeqSpan + SeqSpan <=> ~(b < a)
      /\ k - SeqSpan = a + SeqSpan - b - 1 /\ k - SeqSpan - SeqSpan = a - b - 1
  BY Spans
<1>2. SeqGap(a, b) = k % SeqSpan
  BY DEF SeqGap
<1>. HIDE DEF k
<1>3. k % SeqSpan = IF k < SeqSpan + SeqSpan THEN k - SeqSpan ELSE k - SeqSpan - SeqSpan
  BY <1>1, Spans, WrappedTwice, Zenon
<1>. QED
  BY <1>1, <1>2, <1>3, Zenon

\* The seq of the frame k before the newest.
LEMMA BehindIs ==
  ASSUME NEW a \in 0 .. SeqSpan - 1, NEW k \in Lateness
  PROVE  (a + SeqSpan - k) % SeqSpan = IF k <= a THEN a - k ELSE a + SeqSpan - k
<1>. DEFINE n == a + SeqSpan - k
<1>1. MaxLate < SeqSpan
  BY OriginLockAssumption
<1>2. /\ n \in Nat /\ n < SeqSpan + SeqSpan /\ (n < SeqSpan <=> ~(k <= a))
      /\ n - SeqSpan = a - k
  BY <1>1, Spans DEF Lateness
<1>. HIDE DEF n
<1>3. n % SeqSpan = IF n < SeqSpan THEN n ELSE n - SeqSpan
  BY <1>2, Spans, Wrapped, Zenon
<1>. QED
  BY <1>2, <1>3 DEF n

\* A frame so many steps after lastSeq shows that gap, and an older one none.
LEMMA GapInStep ==
  ASSUME NEW s \in 0 .. SeqSpan - 1, NEW l \in 0 .. SeqSpan - 1, NEW newest \in 0 .. SeqSpan - 1,
         NEW n \in 0 .. SinceMax - 1, NEW k \in Lateness,
         InReach(newest, l, n),
         s = IF k <= newest THEN newest - k ELSE newest + SeqSpan - k
  PROVE  /\ k < n => SeqGap(s, l) = n - k - 1
         /\ ~(k < n) => SeqGap(s, l) > MEDIASYNC_MAX_GAP
<1>1. SeqGap(s, l) = IF l < s THEN s - l - 1 ELSE s + SeqSpan - l - 1
  BY GapIs
<1>2. MEDIASYNC_MAX_GAP + MaxLate + 1 < SeqSpan
  BY OriginLockAssumption
<1>3. k \in 0 .. MaxLate /\ n \in 0 .. MEDIASYNC_MAX_GAP + MaxLate + 1
  BY Spans DEF Lateness, SinceMax
<1>4. CASE k < n
  BY <1>1, <1>2, <1>3, <1>4, Spans DEF InReach
<1>5. CASE ~(k < n)
  BY <1>1, <1>2, <1>3, <1>5, Spans DEF InReach
<1>. QED
  BY <1>4, <1>5

\* A restarted master's frame shows no gap, or one no larger than it sent before it.
LEMMA GapReborn ==
  ASSUME NEW s \in 0 .. SeqSpan - 1, NEW l \in 0 .. SeqSpan - 1, NEW n \in Nat,
         1 <= s, s <= n, l + MEDIASYNC_MAX_GAP < SeqSpan,
         SeqGap(s, l) <= MEDIASYNC_MAX_GAP
  PROVE  SeqGap(s, l) <= n - 1
<1>1. SeqGap(s, l) = IF l < s THEN s - l - 1 ELSE s + SeqSpan - l - 1
  BY GapIs
<1>. QED
  BY <1>1, Spans

-----------------------------------------------------------------------------
(* The invariant. *)

LEMMA InitGap == Init => GInv
BY DEF Init, GInv, InHand, InStep, RebornSeq

LEMMA MintGap ==
  ASSUME Parts, GInv, NEW m \in Master, NEW l \in Layer, Mint(m, l)
  PROVE  GInv'
<1>1. /\ wifi = Idle /\ wifi' = Idle
      /\ UNCHANGED <<mac, valid, haveSeq, lastSeq, counted, reborn, stale>>
  BY DEF Mint, lock, counter
<1>2. /\ \A x \in Master : seq[x] \in 0 .. SeqSpan - 1
      /\ since \in 0 .. SinceMax /\ lastSeq \in 0 .. SeqSpan - 1
  BY DEF Parts, MastersType, AnchorType, CounterType
<1>3. /\ seq'[m] = (IF seq[m] + 1 = SeqSpan THEN 0 ELSE seq[m] + 1)
      /\ \A x \in Master \ {m} : seq'[x] = seq[x] /\ layer'[x] = layer[x]
      /\ \A k \in Lateness : layer'[m][k] = IF k = 0 THEN l ELSE layer[m][k - 1]
  BY <1>2, SeqNextIs DEF Mint, Parts, MastersType
<1>4. CASE m # counted
  <2>1. since' = since
    BY <1>4 DEF Mint
  <2>2. counted \in Master => seq'[counted] = seq[counted] /\ layer'[counted] = layer[counted]
    BY <1>3, <1>4
  <2>3. InStep' /\ RebornSeq'
    BY <1>1, <2>1, <2>2 DEF GInv, InStep, RebornSeq, InReach
  <2>. QED
    BY <1>1, <2>3 DEF GInv, InHand
<1>5. CASE m = counted
  <2>1. since' = Capped(since + 1, SinceMax)
    BY <1>5 DEF Mint
  <2>2. since' < SinceMax => since' = since + 1 /\ since < SinceMax /\ since + 1 < SinceMax
    BY <1>2, <2>1, Spans DEF Capped
  <2>3. SinceMax <= SeqSpan
    BY OriginLockAssumption DEF SinceMax
  <2>4. InStep'
    <3>. SUFFICES ASSUME haveSeq, ~reborn, since' < SinceMax
                  PROVE  InReach(seq'[m], lastSeq, since + 1)
      BY <1>1, <1>5, <2>2 DEF GInv, InStep, InReach
    <3>1. InReach(seq[m], lastSeq, since)
      BY <1>5, <2>2 DEF GInv, InStep
    <3>. QED
      BY <1>2, <1>3, <2>2, <2>3, <3>1, Spans DEF InReach
  <2>5. RebornSeq'
    <3>. SUFFICES ASSUME haveSeq, reborn, since' < SinceMax
                  PROVE  /\ seq'[m] <= since + 1
                         /\ \A k \in Lateness : layer'[m][k] # NoLayer => k < seq'[m]
      BY <1>1, <1>5, <2>2 DEF RebornSeq
    <3>1. /\ seq[m] <= since
          /\ \A k \in Lateness : layer[m][k] # NoLayer => k < seq[m]
      BY <1>5, <2>2 DEF GInv, RebornSeq
    <3>2. seq'[m] = seq[m] + 1
      BY <1>2, <1>3, <2>2, <2>3, <3>1, Spans
    <3>3. ASSUME NEW k \in Lateness, layer'[m][k] # NoLayer
          PROVE  k < seq'[m]
      <4>1. CASE k = 0
        BY <1>2, <3>2, <4>1
      <4>2. CASE k # 0
        <5>1. k - 1 \in Lateness /\ layer[m][k - 1] # NoLayer
          BY <1>3, <3>3, <4>2, Spans DEF Lateness
        <5>2. k - 1 < seq[m]
          BY <3>1, <5>1
        <5>. QED
          BY <1>2, <3>2, <5>2 DEF Lateness
      <4>. QED
        BY <4>1, <4>2
    <3>. QED
      BY <1>2, <3>1, <3>2, <3>3, Spans
  <2>. QED
    BY <1>1, <2>4, <2>5 DEF GInv, InHand
<1>. QED
  BY <1>4, <1>5

LEMMA RestartGap ==
  ASSUME Parts, GInv, NEW m \in Master, RestartMaster(m)
  PROVE  GInv'
<1>1. /\ wifi = Idle /\ wifi' = Idle /\ reborn' = (reborn \/ m = counted)
      /\ UNCHANGED <<mac, valid, haveSeq, lastSeq, counted, since, stale>>
  BY DEF RestartMaster, lock, counter
<1>2. /\ seq'[m] = 0 /\ \A k \in Lateness : layer'[m][k] = NoLayer
      /\ \A x \in Master \ {m} : seq'[x] = seq[x] /\ layer'[x] = layer[x]
      /\ since \in 0 .. SinceMax /\ reborn \in BOOLEAN
  BY DEF RestartMaster, Parts, MastersType, AnchorType
<1>3. CASE m = counted
  <2>1. reborn'
    BY <1>1, <1>3
  <2>2. InStep'
    BY <1>1, <2>1 DEF GInv, InStep
  <2>3. RebornSeq'
    BY <1>1, <1>2, <1>3, Spans DEF RebornSeq
  <2>. QED
    BY <1>1, <2>2, <2>3 DEF GInv, InHand
<1>4. CASE m # counted
  <2>1. reborn' = reborn
    BY <1>1, <1>2, <1>4
  <2>2. counted \in Master => seq'[counted] = seq[counted] /\ layer'[counted] = layer[counted]
    BY <1>2, <1>4
  <2>3. InStep' /\ RebornSeq'
    BY <1>1, <2>1, <2>2 DEF GInv, InStep, RebornSeq, InReach
  <2>. QED
    BY <1>1, <2>3 DEF GInv, InHand
<1>. QED
  BY <1>3, <1>4

LEMMA HearGap ==
  ASSUME Parts, GInv, NEW m \in Master, NEW k \in Lateness, Hear(m, k)
  PROVE  GInv'
<1>1. /\ wifi'.origin = m /\ wifi'.behind = k
      /\ wifi'.seq = (seq[m] + SeqSpan - k) % SeqSpan
      /\ wifi'.spoken = FALSE /\ layer[m][k] # NoLayer
      /\ UNCHANGED <<seq, layer, mac, valid, haveSeq, lastSeq, counted, since, reborn, stale>>
  BY Hears DEF masters, lock, counter, history, anchor
<1>2. InHand'
  BY <1>1 DEF InHand
<1>3. InStep' /\ RebornSeq'
  BY <1>1 DEF GInv, InStep, RebornSeq, InReach
<1>. QED
  BY <1>1, <1>2, <1>3 DEF GInv

\* A step that leaves the masters, the counter and the last half of the MAC alone, and
\* the frame in hand, or ends its callback.
LEMMA GapAlone ==
  ASSUME GInv,
         wifi' = Idle \/ (wifi # Idle /\ SameFrame /\ wifi'.spoken = wifi.spoken) \/ wifi' = wifi,
         UNCHANGED <<seq, layer, haveSeq, lastSeq, counted, since, reborn, stale, valid>>,
         mac'[2] = mac[2]
  PROVE  GInv'
<1>1. InHand'
  BY DEF GInv, InHand, SameFrame
<1>2. InStep' /\ RebornSeq'
  BY DEF GInv, InStep, RebornSeq, InReach
<1>. QED
  BY <1>1, <1>2 DEF GInv

LEMMA DecideGap ==
  ASSUME Parts, GInv, Decide
  PROVE  GInv'
<1>1. UNCHANGED <<seq, layer, haveSeq, lastSeq, counted, since, reborn, stale, valid, mac>>
  BY DEF Decide, masters, lock, counter, history, anchor
<1>2. \/ \E here, there \in WifiStep : Goto(here, there)
      \/ \E here \in WifiStep : Drop(here)
  BY Zenon DEF Decide, WifiStep
<1>3. wifi' = Idle \/ (wifi # Idle /\ SameFrame /\ wifi'.spoken = wifi.spoken)
  BY <1>2, Goes, Drops
<1>. QED
  BY <1>1, <1>3, GapAlone

LEMMA CopyFirstGap ==
  ASSUME Parts, LInv, GInv, CopyFirstBytes
  PROVE  GInv'
<1>1. /\ Goto("adopt", "adopted") \/ Goto("switch", "switched")
      /\ UNCHANGED <<seq, layer, haveSeq, lastSeq, counted, since, reborn, stale, valid>>
  BY DEF CopyFirstBytes, masters, counter, history, anchor
<1>2. mac'[2] = mac[2]
  BY CopyFirstLock
<1>3. wifi # Idle /\ SameFrame /\ wifi'.spoken = wifi.spoken
  BY <1>1, Goes DEF WifiStep
<1>. QED
  BY <1>1, <1>2, <1>3, GapAlone

\* The counter is told to start anew.
LEMMA UncountGap ==
  ASSUME InHand', Uncount
  PROVE  GInv'
BY DEF GInv, InStep, RebornSeq, Uncount

LEMMA CopyLastGap ==
  ASSUME Parts, GInv, CopyLastBytes
  PROVE  GInv'
<1>1. /\ Goto("adopted", "count") \/ Goto("switched", "count")
      /\ Uncount /\ UNCHANGED <<seq, layer>>
  BY DEF CopyLastBytes, masters
<1>2. wifi # Idle /\ SameFrame /\ wifi'.spoken = wifi.spoken
  BY <1>1, Goes DEF WifiStep
<1>3. InHand'
  BY <1>1, <1>2 DEF GInv, InHand, SameFrame, Uncount
<1>. QED
  BY <1>1, <1>3, UncountGap

LEMMA RefreshGap ==
  ASSUME Parts, GInv, Refresh
  PROVE  GInv'
<1>1. /\ Goto("refresh", "count")
      /\ UNCHANGED <<seq, layer, haveSeq, lastSeq, counted, since, reborn, stale, valid, mac>>
  BY DEF Refresh, masters, counter, anchor
<1>2. wifi # Idle /\ SameFrame /\ wifi'.spoken = wifi.spoken
  BY <1>1, Goes DEF WifiStep
<1>. QED
  BY <1>1, <1>2, GapAlone

LEMMA CountGapGap ==
  ASSUME Parts, GInv, CountGap
  PROVE  GInv'
<1>1. /\ Goto("count", "anchor")
      /\ UNCHANGED <<seq, layer, haveSeq, lastSeq, counted, since, reborn, stale, valid, mac>>
  BY DEF CountGap, masters, lock, history, anchor
<1>2. wifi # Idle /\ SameFrame /\ wifi'.spoken = wifi.spoken
  BY <1>1, Goes DEF WifiStep
<1>. QED
  BY <1>1, <1>2, GapAlone

LEMMA AnchorGap ==
  ASSUME Parts, LInv, GInv, Anchor
  PROVE  GInv'
<1>1. /\ Drop("anchor") /\ lastSeq' = wifi.seq /\ haveSeq' = TRUE
      /\ counted' = wifi.origin /\ since' = wifi.behind /\ reborn' = FALSE
      /\ stale' = wifi.spoken
      /\ UNCHANGED <<seq, layer, mac, valid>>
  BY DEF Anchor, masters, lock
<1>2. wifi \in Frame /\ wifi # Idle /\ wifi.pc = "anchor" /\ wifi' = Idle
  BY <1>1, Drops DEF WifiStep
<1>3. /\ wifi.origin \in Master /\ wifi.behind \in Lateness
      /\ seq[wifi.origin] \in 0 .. SeqSpan - 1
  BY <1>2, FrameField DEF Parts, MastersType
<1>4. wifi.seq = IF wifi.behind <= seq[wifi.origin] THEN seq[wifi.origin] - wifi.behind
                 ELSE seq[wifi.origin] + SeqSpan - wifi.behind
  BY <1>2, <1>3, BehindIs DEF GInv, InHand
<1>5. InReach(seq[wifi.origin], wifi.seq, wifi.behind)
  BY <1>3, <1>4, Spans DEF InReach, Lateness
<1>6. ~wifi.spoken => valid /\ mac[2] = wifi.origin
  BY <1>2 DEF LInv, ReadsHold, LockStep
<1>7. InStep'
  BY <1>1, <1>3, <1>5, <1>6 DEF InStep, InReach
<1>. QED
  BY <1>1, <1>2, <1>7 DEF GInv, InHand, RebornSeq

LEMMA HostGap ==
  ASSUME Parts, LInv, GInv, originRelease \/ \E m \in Master : Pin(m)
  PROVE  GInv'
<1>1. Uncount /\ Speak /\ now' = now /\ UNCHANGED <<seq, layer>>
  BY DEF originRelease, Pin, masters
<1>2. wifi' = wifi \/ (wifi # Idle /\ SameFrame)
  BY <1>1, Speaks
<1>3. InHand'
  BY <1>1, <1>2 DEF GInv, InHand, SameFrame, Uncount
<1>. QED
  BY <1>1, <1>3, UncountGap

LEMMA NextGap == Parts /\ LInv /\ GInv /\ [Next]_vars => GInv'
<1>. SUFFICES ASSUME Parts, LInv, GInv, [Next]_vars PROVE GInv'
  OBVIOUS
<1>1. ASSUME NEW m \in Master, NEW l \in Layer, Mint(m, l) PROVE GInv'
  BY <1>1, MintGap
<1>2. ASSUME NEW m \in Master, RestartMaster(m) PROVE GInv'
  BY <1>2, RestartGap
<1>3. ASSUME NEW m \in Master, NEW k \in Lateness, Hear(m, k) PROVE GInv'
  BY <1>3, HearGap
<1>4. CASE originRelease \/ \E m \in Master : Pin(m)
  BY <1>4, HostGap
<1>5. CASE Tick
  BY <1>5, GapAlone DEF Tick, masters, lock, counter, anchor
<1>6. CASE UNCHANGED vars
  BY <1>6, GapAlone DEF vars, masters, lock, counter, history, anchor
<1>. QED
  BY <1>1, <1>2, <1>3, <1>4, <1>5, <1>6, DecideGap, CopyFirstGap, CopyLastGap, RefreshGap,
     CountGapGap, AnchorGap DEF Next

-----------------------------------------------------------------------------
(* What is charged. *)

\* The callback leaves the counter by counting.
LEMMA LeavesCounting ==
  ASSUME Parts, [Next]_vars, Charging
  PROVE  CountGap
<1>1. wifi \in Frame /\ wifi # Idle /\ wifi.pc = "count" /\ wifi'.pc = "anchor"
  BY InProgress DEF Charging, WifiStep
<1>2. \A m \in Master : /\ ~RestartMaster(m)
                        /\ \A l \in Layer : ~Mint(m, l)
                        /\ \A k \in Lateness : ~Hear(m, k)
  BY <1>1 DEF Mint, RestartMaster, Hear
<1>3. ~Tick /\ ~UNCHANGED vars /\ ~Anchor
  BY <1>1, FrameField DEF Tick, vars, Anchor, Drop
<1>4. ~Speak
  <2>. SUFFICES ASSUME Speak PROVE FALSE
    OBVIOUS
  <2>1. wifi' = [wifi EXCEPT !.spoken = TRUE]
    BY <1>1 DEF Speak, Spoken
  <2>2. wifi'.pc = "count"
    BY <1>1, <2>1 DEF Frame
  <2>. QED
    BY <1>1, <2>2
<1>5. (\A m \in Master : ~Pin(m)) /\ ~originRelease
  BY <1>4 DEF Pin, originRelease
<1>6. ~Decide
  <2>. SUFFICES ASSUME Decide PROVE FALSE
    OBVIOUS
  <2>1. wifi.pc \in {"valid", "compare", "pinned", "silent"}
    BY DEF Decide, Goto, Drop
  <2>. QED
    BY <1>1, <2>1
<1>7. ~CopyFirstBytes /\ ~CopyLastBytes /\ ~Refresh
  BY <1>1 DEF CopyFirstBytes, CopyLastBytes, Refresh, Goto
<1>. QED
  BY <1>2, <1>3, <1>5, <1>6, <1>7 DEF Next

\* The gap CountGap sees, and what was sent between.
LEMMA GapSeen ==
  ASSUME Parts, LInv, GInv, wifi # Idle, wifi.pc = "count", haveSeq, ~stale
  PROVE  LET gap == SeqGap(wifi.seq, lastSeq)
             charged == gap > 0 /\ gap <= MEDIASYNC_MAX_GAP
         IN  /\ Between \in Nat /\ gap \in Nat
             /\ ~reborn /\ Between <= MEDIASYNC_MAX_GAP =>
                  IF charged THEN gap = Between ELSE Between = 0
             /\ charged /\ ~(reborn /\ lastSeq + MEDIASYNC_MAX_GAP >= SeqSpan) => gap <= Between
<1>. DEFINE gap == SeqGap(wifi.seq, lastSeq)
            n == since
            k == wifi.behind
            newest == seq[counted]
            charged == gap > 0 /\ gap <= MEDIASYNC_MAX_GAP
<1>1. ~wifi.spoken
  BY DEF GInv, InHand
<1>2. counted = wifi.origin /\ counted \in Master
  BY <1>1 DEF GInv, InStep, LInv, ReadsHold
<1>3. /\ k \in Lateness /\ wifi.seq \in 0 .. SeqSpan - 1 /\ lastSeq \in 0 .. SeqSpan - 1
      /\ newest \in 0 .. SeqSpan - 1 /\ n \in 0 .. SinceMax /\ reborn \in BOOLEAN
  BY <1>2, InProgress, FrameField DEF Parts, CounterType, MastersType, AnchorType
<1>4. Between = IF k < n THEN n - k - 1 ELSE 0
  BY <1>2 DEF Between
<1>5. k \in 0 .. MaxLate /\ SinceMax = MEDIASYNC_MAX_GAP + MaxLate + 2
  BY <1>3 DEF Lateness, SinceMax
<1>6. Between \in Nat
  BY <1>3, <1>4, <1>5, Spans
<1>7. gap \in Nat
  <2>1. gap = IF lastSeq < wifi.seq THEN wifi.seq - lastSeq - 1
              ELSE wifi.seq + SeqSpan - lastSeq - 1
    BY <1>3, GapIs
  <2>. HIDE DEF gap
  <2>. QED
    BY <1>3, <2>1, Spans
<1>8. wifi.seq = IF k <= newest THEN newest - k ELSE newest + SeqSpan - k
  BY <1>2, <1>3, BehindIs DEF GInv, InHand
<1>9. CASE n = SinceMax
  <2>1. Between > MEDIASYNC_MAX_GAP
    BY <1>4, <1>5, <1>9, Spans
  <2>. HIDE DEF gap
  <2>. QED
    BY <1>6, <1>7, <2>1, Spans DEF gap
<1>10. CASE n # SinceMax /\ ~reborn
  <2>1. n < SinceMax /\ n \in 0 .. SinceMax - 1
    BY <1>3, <1>10, Spans
  <2>2. InReach(newest, lastSeq, n)
    BY <1>10, <2>1 DEF GInv, InStep
  <2>3. (k < n => gap = n - k - 1) /\ (~(k < n) => gap > MEDIASYNC_MAX_GAP)
    BY <1>3, <1>8, <2>1, <2>2, GapInStep
  <2>. HIDE DEF gap
  <2>4. gap = Between \/ (gap > MEDIASYNC_MAX_GAP /\ Between = 0)
    BY <1>4, <2>3
  <2>. QED
    BY <1>6, <1>7, <1>10, <2>4, Spans DEF gap
<1>11. CASE n # SinceMax /\ reborn
  <2>1. n < SinceMax
    BY <1>3, <1>11, Spans
  <2>2. newest <= n /\ k < newest
    BY <1>2, <1>3, <1>11, <2>1 DEF GInv, InHand, RebornSeq
  <2>3. wifi.seq = newest - k /\ Between = n - k - 1
    BY <1>3, <1>4, <1>5, <1>8, <2>2, Spans
  <2>4. n - k \in Nat /\ 1 <= wifi.seq /\ wifi.seq <= n - k
    BY <1>3, <1>5, <2>2, <2>3, Spans
  <2>5. ASSUME charged, ~(lastSeq + MEDIASYNC_MAX_GAP >= SeqSpan)
        PROVE  gap <= Between
    <3>1. lastSeq + MEDIASYNC_MAX_GAP < SeqSpan
      BY <1>3, <2>5, Spans
    <3>2. gap <= n - k - 1
      BY <1>3, <2>4, <2>5, <3>1, GapReborn
    <3>. QED
      BY <2>3, <3>2
  <2>. HIDE DEF gap
  <2>. QED
    BY <1>6, <1>7, <1>11, <2>5 DEF gap
<1>. QED
  BY <1>9, <1>10, <1>11, <1>3

LEMMA CountsReal ==
  ASSUME Parts, LInv, GInv, CountGap, ~stale
  PROVE  /\ ~reborn /\ Between <= MEDIASYNC_MAX_GAP =>
              syncGaps' = Capped(syncGaps + Between, SyncGapsMax)
         /\ ~(reborn /\ lastSeq + MEDIASYNC_MAX_GAP >= SeqSpan) =>
              syncGaps' <= syncGaps + Between
<1>. DEFINE gap == SeqGap(wifi.seq, lastSeq)
            charged == gap > 0 /\ gap <= MEDIASYNC_MAX_GAP
<1>1. /\ wifi # Idle /\ wifi.pc = "count" /\ wifi.origin \in Master
      /\ syncGaps' = IF haveSeq /\ charged THEN Capped(syncGaps + gap, SyncGapsMax) ELSE syncGaps
  BY Goes DEF CountGap, Saturated, WifiStep
<1>2. syncGaps \in 0 .. SyncGapsMax
  BY DEF Parts, CounterType
<1>3. CASE ~haveSeq
  <2>1. counted = NoMac
    BY <1>3 DEF GInv
  <2>2. Between = 0
    BY <1>1, <2>1, OriginLockAssumption DEF Between
  <2>. QED
    BY <1>1, <1>2, <1>3, <2>2, Spans DEF Capped
<1>4. CASE haveSeq
  <2>1. /\ Between \in Nat /\ gap \in Nat
        /\ ~reborn /\ Between <= MEDIASYNC_MAX_GAP =>
             IF charged THEN gap = Between ELSE Between = 0
        /\ charged /\ ~(reborn /\ lastSeq + MEDIASYNC_MAX_GAP >= SeqSpan) => gap <= Between
    BY <1>1, <1>4, GapSeen
  <2>. HIDE DEF gap
  <2>2. CASE charged
    BY <1>1, <1>2, <1>4, <2>1, <2>2, Spans DEF Capped
  <2>3. CASE ~charged
    BY <1>1, <1>2, <2>1, <2>3, Spans DEF Capped
  <2>. QED
    BY <2>2, <2>3
<1>. QED
  BY <1>3, <1>4

\* The delivery signal of processMediaSyncPacket (receiver_mode.cpp): every frame sent
\* between the one counted last and the one in hand is charged when they are at most
\* MEDIASYNC_MAX_GAP, none for a late copy or at a re-anchoring, and no more than were
\* sent when a master restarts, unless its old seq was about to wrap.
THEOREM GapsCountFrames == Spec => GapsAreReal
<1>1. Init => GInv
  BY InitGap
<1>2. Parts /\ LInv /\ GInv /\ [Next]_vars => GInv'
  BY NextGap
<1>3. Parts /\ LInv /\ GInv /\ [Next]_vars =>
        (Charging =>
           LET aboutToWrap == lastSeq + MEDIASYNC_MAX_GAP >= SeqSpan
           IN  /\ ~stale /\ ~reborn /\ Between <= MEDIASYNC_MAX_GAP =>
                    syncGaps' = Capped(syncGaps + Between, SyncGapsMax)
               /\ ~stale /\ ~(reborn /\ aboutToWrap) => syncGaps' <= syncGaps + Between)
  BY LeavesCounting, CountsReal
<1>. QED
  BY <1>1, <1>2, <1>3, LockHolds, PTL DEF Spec, GapsAreReal

=============================================================================
