----------------------------- MODULE OriginLock ------------------------------
(***************************************************************************)
(* Which master a slave follows, and how it counts that master's missing   *)
(* frames: originAccepts and originRelease in src/src/nowde_state.cpp, the *)
(* filters and the gap counter at the head of processMediaSyncPacket in    *)
(* src/src/receiver_mode.cpp, SET_ORIGIN in src/src/sysex.cpp.             *)
(*                                                                         *)
(* The WiFi task runs the filters for each frame.  MIDI_Task has the same  *)
(* core and a higher priority: it may serve SET_ORIGIN in the middle of a  *)
(* callback, but never the other way round.  A callback is cut at each     *)
(* read or write of the lock or of the counter.                            *)
(*                                                                         *)
(* The radio hands over, in any order, any number of times or never, the   *)
(* newest frame of a master and the MaxLate before it: the relays bring    *)
(* copies late (MeshRelay).  One unit of millis() is longer than a         *)
(* callback, and what a master does during one is put off to its end: the  *)
(* callback reads nothing of it.                                           *)
(***************************************************************************)
EXTENDS Naturals

CONSTANTS
  Master,
  NoMac,                   \* a MAC of six zeroes
  Layer, Subscribed,       \* the layers frames are for; those layerMatches lets through
  NoLayer,                 \* not one of them
  ClockSpan,               \* millis() counts modulo this (2^32)
  ORIGIN_LOCK_RELEASE_MS,
  SeqSpan,                 \* seq counts modulo this (2^16)
  MEDIASYNC_MAX_GAP,
  SyncGapsMax,             \* syncGaps saturates here (0xFFFF)
  MaxLate,                 \* bound: how many frames late a copy may come
  MaxBoots                 \* bound: restarts of one master

ASSUME OriginLockAssumption ==
  /\ NoMac \notin Master
  /\ Subscribed \subseteq Layer /\ NoLayer \notin Layer
  /\ ORIGIN_LOCK_RELEASE_MS \in Nat /\ ClockSpan \in Nat
  /\ ORIGIN_LOCK_RELEASE_MS + 2 < ClockSpan
  /\ MEDIASYNC_MAX_GAP \in Nat /\ SeqSpan \in Nat /\ MaxLate \in Nat
  /\ MEDIASYNC_MAX_GAP + MaxLate + 1 < SeqSpan
  /\ SyncGapsMax \in Nat /\ MaxBoots \in Nat

VARIABLES
  \* the masters: mediaSyncSeq, the layers of the newest frames (0 is the newest),
  \* restarts
  seq, layer, boots,
  \* originLock
  mac,        \* <<first, last>> bytes: memcpy does not write the six at once
  valid, pinned, lastHeard,
  \* mediaSyncState, the delivery signal
  haveSeq, lastSeq, syncGaps,
  wifi,       \* the callback in progress
  now,        \* millis()
  \* history
  asked,      \* the master the host's last SET_ORIGIN named, or NoMac
  quiet,      \* units since the last accepted frame came in, or the last pin
  overruled,  \* did a callback write the lock over the host's last SET_ORIGIN?
  counted,    \* the master whose frame lastSeq is of, or NoMac
  since,      \* the frames it sent since that one
  reborn,     \* has it restarted since?
  stale       \* was that frame let in before the host's last SET_ORIGIN?

masters == <<seq, layer, boots>>
lock == <<mac, valid, pinned, lastHeard>>
counter == <<haveSeq, lastSeq, syncGaps>>
anchor == <<counted, since, reborn, stale>>
history == <<asked, quiet, overruled, anchor>>
vars == <<masters, lock, counter, wifi, now, history>>

Idle == [pc |-> "idle"]
Whole(m) == <<m, m>>
Lateness == 0 .. MaxLate
SinceMax == MEDIASYNC_MAX_GAP + MaxLate + 2

\* unsigned arithmetic: a - b, wrapping below zero as well
Elapsed(a, b) == (a + ClockSpan - b) % ClockSpan

\* Seeded fault: the frame itself is counted as missing.
SeqGapOffByOne(a, b) == (a + SeqSpan - b) % SeqSpan

SeqGap(a, b) == (a + 2 * SeqSpan - b - 1) % SeqSpan

Capped(n, cap) == IF n > cap THEN cap ELSE n

\* Seeded fault: the counter does not saturate.
Unsaturated(n) == n

Saturated(n) == Capped(n, SyncGapsMax)

Init ==
  /\ seq = [m \in Master |-> 0] /\ layer = [m \in Master |-> [k \in Lateness |-> NoLayer]]
  /\ boots = [m \in Master |-> 0]
  /\ mac = Whole(NoMac) /\ valid = FALSE /\ pinned = FALSE /\ lastHeard = 0
  /\ haveSeq = FALSE /\ lastSeq = 0 /\ syncGaps = 0
  /\ wifi = Idle /\ now = 0
  /\ asked = NoMac /\ quiet = 0
  /\ overruled = FALSE
  /\ counted = NoMac /\ since = 0 /\ reborn = FALSE /\ stale = FALSE

-----------------------------------------------------------------------------
(* The environment. *)

\* m's host sends one MEDIA_SYNC for layer l.
Mint(m, l) ==
  /\ wifi = Idle
  /\ seq' = [seq EXCEPT ![m] = (@ + 1) % SeqSpan]
  /\ layer' = [layer EXCEPT ![m] = [k \in Lateness |-> IF k = 0 THEN l ELSE @[k - 1]]]
  /\ since' = IF m = counted THEN Capped(since + 1, SinceMax) ELSE since
  /\ UNCHANGED <<boots, lock, counter, wifi, now,
                 asked, quiet, overruled, counted, reborn, stale>>

\* setup() takes over two seconds: by the first frame of m's new life, every copy of
\* its last one is gone.
RestartMaster(m) ==
  /\ wifi = Idle /\ \A k \in Master : boots[k] < MaxBoots
  /\ boots' = [boots EXCEPT ![m] = @ + 1]
  /\ seq' = [seq EXCEPT ![m] = 0]
  /\ layer' = [layer EXCEPT ![m] = [k \in Lateness |-> NoLayer]]
  /\ reborn' = (reborn \/ m = counted)
  /\ UNCHANGED <<lock, counter, wifi, now, asked, quiet, overruled, counted, since, stale>>

Tick ==
  /\ wifi # Idle => wifi.now = now
  /\ now' = (now + 1) % ClockSpan
  /\ quiet' = Capped(quiet + 1, ORIGIN_LOCK_RELEASE_MS + 1)
  /\ UNCHANGED <<masters, lock, counter, wifi, asked, overruled, anchor>>

-----------------------------------------------------------------------------
(* The WiFi task. *)

\* A frame of m, k before its newest, is on a layer of ours (another is dropped
\* before anything is read or written), and millis() is read.
Hear(m, k) ==
  /\ wifi = Idle /\ layer[m][k] \in Subscribed
  /\ wifi' = [pc |-> "valid", origin |-> m, behind |-> k,
              seq |-> (seq[m] + SeqSpan - k) % SeqSpan, now |-> now,
              spoken |-> FALSE]    \* history: has a SET_ORIGIN landed since?
  /\ UNCHANGED <<masters, lock, counter, now, history>>

Goto(here, there) == wifi.pc = here /\ wifi' = [wifi EXCEPT !.pc = there]
Drop(here) == wifi.pc = here /\ wifi' = Idle

\* Seeded faults: a pin is forgotten; a master is left at the last unit of its grace.
HeldByNobody == FALSE
SilentTooSoon == Elapsed(wifi.now, lastHeard) >= ORIGIN_LOCK_RELEASE_MS

HeldByHost == pinned
Silent == Elapsed(wifi.now, lastHeard) > ORIGIN_LOCK_RELEASE_MS

\* The reads of originAccepts, in the order of its conditions.
Decide ==
  /\ \/ Goto("valid", "adopt") /\ ~valid
     \/ Goto("valid", "compare") /\ valid
     \/ Goto("compare", "refresh") /\ mac = Whole(wifi.origin)
     \/ Goto("compare", "pinned") /\ mac # Whole(wifi.origin)
     \/ Goto("pinned", "silent") /\ ~HeldByHost
     \/ Drop("pinned") /\ HeldByHost
     \/ Goto("silent", "switch") /\ Silent
     \/ Drop("silent") /\ ~Silent
  /\ UNCHANGED <<masters, lock, counter, now, history>>

\* mediaSyncState.haveSeq = false
Uncount ==
  /\ haveSeq' = FALSE
  /\ counted' = NoMac /\ since' = 0 /\ reborn' = FALSE /\ stale' = FALSE

\* memcpy(originLock.mac, origin, 6), begun: for a first master, or another one.
CopyFirstBytes ==
  /\ Goto("adopt", "adopted") \/ Goto("switch", "switched")
  /\ mac' = <<wifi.origin, mac[2]>>
  /\ UNCHANGED <<masters, valid, pinned, lastHeard, counter, now, history>>

\* It is over, and the packet is the first of its master.
CopyLastBytes ==
  /\ \/ Goto("adopted", "count") /\ valid' = TRUE
     \/ Goto("switched", "count") /\ UNCHANGED valid
  /\ mac' = <<mac[1], wifi.origin>>
  /\ lastHeard' = wifi.now
  /\ quiet' = Elapsed(now, wifi.now)
  /\ overruled' = (overruled \/ wifi.spoken)
  /\ Uncount
  /\ UNCHANGED <<masters, pinned, lastSeq, syncGaps, now, asked>>

Refresh ==
  /\ Goto("refresh", "count")
  /\ lastHeard' = wifi.now
  /\ quiet' = Elapsed(now, wifi.now)
  /\ UNCHANGED <<masters, mac, valid, pinned, counter, now, asked, overruled, anchor>>

\* The delivery signal of processMediaSyncPacket: the gap is charged,
CountGap ==
  /\ Goto("count", "anchor")
  /\ LET gap == SeqGap(wifi.seq, lastSeq)
     IN  syncGaps' = IF haveSeq /\ gap > 0 /\ gap <= MEDIASYNC_MAX_GAP
                     THEN Saturated(syncGaps + gap) ELSE syncGaps
  /\ UNCHANGED <<masters, lock, haveSeq, lastSeq, now, history>>

\* and the frame is the one to count from.  Then it is played (MediaSlave).
Anchor ==
  /\ Drop("anchor")
  /\ lastSeq' = wifi.seq /\ haveSeq' = TRUE
  /\ counted' = wifi.origin /\ since' = wifi.behind /\ reborn' = FALSE
  /\ stale' = wifi.spoken
  /\ UNCHANGED <<masters, lock, syncGaps, now, asked, quiet, overruled>>

-----------------------------------------------------------------------------
(* MIDI_Task: SET_ORIGIN, between two callbacks or inside one. *)

\* The host has spoken: what the callback in progress has read is out of date.
Spoken == [wifi EXCEPT !.spoken = TRUE]
Speak == wifi' = IF wifi.pc \in {"idle", "valid"} THEN wifi ELSE Spoken

Pin(m) ==
  /\ mac' = Whole(m) /\ valid' = TRUE /\ pinned' = TRUE /\ lastHeard' = now
  /\ asked' = m /\ quiet' = 0 /\ overruled' = FALSE
  /\ Uncount /\ Speak
  /\ UNCHANGED <<masters, lastSeq, syncGaps, now>>

originRelease ==
  /\ valid' = FALSE /\ pinned' = FALSE /\ mac' = Whole(NoMac)
  /\ asked' = NoMac /\ overruled' = FALSE
  /\ Uncount /\ Speak
  /\ UNCHANGED <<masters, lastHeard, lastSeq, syncGaps, now, quiet>>

Next ==
  \/ \E m \in Master :
       \/ \E l \in Layer : Mint(m, l)
       \/ \E k \in Lateness : Hear(m, k)
       \/ RestartMaster(m)
       \/ Pin(m)
  \/ Decide \/ CopyFirstBytes \/ CopyLastBytes \/ Refresh \/ CountGap \/ Anchor
  \/ originRelease
  \/ Tick

Spec == Init /\ [][Next]_vars

-----------------------------------------------------------------------------
(* Properties *)

\* Every variable keeps the range its declaration gives it.
TypeOK ==
  /\ seq \in [Master -> 0 .. SeqSpan - 1]
  /\ layer \in [Master -> [Lateness -> Layer \union {NoLayer}]]
  /\ boots \in [Master -> 0 .. MaxBoots]
  /\ mac \in (Master \union {NoMac}) \X (Master \union {NoMac})
  /\ valid \in BOOLEAN /\ pinned \in BOOLEAN /\ lastHeard \in 0 .. ClockSpan - 1
  /\ haveSeq \in BOOLEAN /\ lastSeq \in 0 .. SeqSpan - 1 /\ syncGaps \in 0 .. SyncGapsMax
  /\ \/ wifi = Idle
     \/ wifi \in [pc : {"valid", "compare", "pinned", "silent", "refresh", "adopt", "adopted",
                        "switch", "switched", "count", "anchor"},
                  origin : Master, behind : Lateness, seq : 0 .. SeqSpan - 1,
                  now : 0 .. ClockSpan - 1, spoken : BOOLEAN]
  /\ now \in 0 .. ClockSpan - 1
  /\ asked \in Master \union {NoMac} /\ quiet \in 0 .. ORIGIN_LOCK_RELEASE_MS + 1
  /\ overruled \in BOOLEAN
  /\ counted \in Master \union {NoMac} /\ since \in 0 .. SinceMax
  /\ reborn \in BOOLEAN /\ stale \in BOOLEAN

PinKept == asked # NoMac => valid /\ pinned /\ mac = Whole(asked)

\* SET_ORIGIN "pins the origin lock to that master and holds it through any silence":
\* between two callbacks the lock is on that very MAC, whatever SET_ORIGINs landed in
\* the middle of earlier ones, until the host says otherwise.  The one exception: a
\* callback that had found the lock free, or its master silent, before the host spoke
\* writes its own master over the pin, against
\* docs/PROTOCOL.md, which knows no exception.
PinHolds == wifi = Idle /\ ~overruled => PinKept

\* The frames between the one counted last and the one in hand, of the same master.
Between ==
  IF wifi.origin = counted /\ wifi.behind < since THEN since - wifi.behind - 1 ELSE 0

Charging == wifi.pc = "count" /\ wifi'.pc = "anchor"

\* What is charged to syncGaps is the frames the master sent between the one counted
\* last and this one: every one of a gap of at most MEDIASYNC_MAX_GAP, through
\* duplicates, late copies, wraps of seq, silences, lock switches and pins; none at a
\* re-anchoring; none for a frame older than the last; and never more than were sent
\* when the master restarted, unless its old seq was about to wrap.  A frame let in
\* before the host's word and anchored on after it leaves a lastSeq nothing follows.
GapsAreReal ==
  [][Charging =>
       LET aboutToWrap == lastSeq + MEDIASYNC_MAX_GAP >= SeqSpan
       IN  /\ ~stale /\ ~reborn /\ Between <= MEDIASYNC_MAX_GAP =>
                syncGaps' = Capped(syncGaps + Between, SyncGapsMax)
           /\ ~stale /\ ~(reborn /\ aboutToWrap) =>
                syncGaps' <= syncGaps + Between]_vars

\* The last half of the MAC is the one whose copy completes a switch.
Follow == INSTANCE FollowOneMaster WITH
  NoMaster <- NoMac, ReleaseAfter <- ORIGIN_LOCK_RELEASE_MS,
  followed <- IF valid THEN mac[2] ELSE NoMac,
  late <- wifi # Idle /\ wifi.pc \notin {"valid", "count", "anchor"} /\ wifi.spoken

\* The lock is a slave that follows one master and leaves it only after its silence or
\* on the host's word, which the frame in hand as the host spoke may undo, once.
FollowsOneMaster == Follow!Spec

=============================================================================
