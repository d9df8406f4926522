-------------------------- MODULE MediaSlaveProofs --------------------------
(***************************************************************************)
(* What MediaSlave guarantees for every set of announcements, clock width, *)
(* time-out and policy.                                                    *)
(***************************************************************************)
EXTENDS MediaSlave, TLAPS

Millis == 0 .. ClockSpan - 1

Callback == [pc : {"state", "heard", "index", "tell"}, frame : Frame, now : Millis,
             transition : {"started", "stopped", "none"}]
Pass == [pc : {"check", "stop", "told"}, now : Millis]

\* TypeOK by its parts.
EnvType == frame \in Frame /\ previous \in Frame
HostType == hostPlaying \in BOOLEAN /\ hostIndex \in 0 .. 127
SyncType ==
  /\ currentState \in {0, 1} /\ currentIndex \in 0 .. 127 /\ lastSyncTime \in Millis
  /\ linkLost \in BOOLEAN /\ stopOnLinkLost \in LossPolicies
  /\ lastSentIndex \in 0 .. 127 \union {NeverSent}
TaskType == (wifi = WifiIdle \/ wifi \in Callback) /\ (esp = EspAsleep \/ esp \in Pass)
ClockType ==
  /\ now \in Millis /\ polled \in BOOLEAN /\ boots \in 0 .. MaxBoots
  /\ silence \in 0 .. Quiet /\ collided \in BOOLEAN /\ told \in BOOLEAN

Types == EnvType /\ HostType /\ SyncType /\ TaskType /\ ClockType

LEMMA TypeParts == TypeOK <=> Types
BY DEF TypeOK, Types, EnvType, HostType, SyncType, TaskType, ClockType, Callback, Pass, Millis

-----------------------------------------------------------------------------
(* The strengthening of HostAgrees: what holds at each cut of the two tasks. *)

PlaysAsClock == told \/ currentState = 1 => (hostPlaying <=> currentState = 1)

\* The host's CC#100 is the one the node remembers.
IndexNoted == lastSentIndex # NeverSent => hostIndex = lastSentIndex

\* The stop of a lost link and a callback exclude one another.
Alone == wifi = WifiIdle \/ ~Stopping

\* A callback that has only decided.
Decided == wifi.pc = "state" => wifi.transition = Transition(wifi.frame) /\ PlaysAsClock

\* A callback that has stored its frame and not yet told the host.
Stored ==
  wifi.pc \in {"heard", "index", "tell"} =>
    /\ currentState = wifi.frame.state /\ currentIndex = wifi.frame.index
    /\ wifi.transition = "started" => currentState = 1
    /\ wifi.transition = "stopped" => currentState = 0
    /\ wifi.transition = "none" => PlaysAsClock

IndexTold == wifi.pc = "tell" /\ wifi.frame.index # 0 => lastSentIndex = wifi.frame.index

Halted == esp.pc = "told" => currentState = 0

HInv ==
  ~collided =>
    /\ Alone /\ IndexNoted /\ Decided /\ Stored /\ IndexTold /\ Halted
    /\ AtRest => PlaysAsClock

-----------------------------------------------------------------------------
(* Types. *)

LEMMA Widths ==
  /\ ClockSpan \in Nat \ {0} /\ Quiet \in Nat /\ MaxBoots \in Nat
  /\ \A f \in Frame : f.state \in {0, 1} /\ f.index \in 0 .. 127
  /\ LossPolicies \subseteq BOOLEAN
BY MediaSlaveAssumption DEF Quiet

LEMMA MillisWrap == \A k, n \in Nat : n # 0 => k % n \in 0 .. n - 1
OBVIOUS

LEMMA InitType == Init => Types
<1>. SUFFICES ASSUME Init PROVE Types
  OBVIOUS
<1>1. linkLost \in BOOLEAN /\ polled \in BOOLEAN /\ collided \in BOOLEAN /\ told \in BOOLEAN
  BY Zenon DEF Init
<1>2. EnvType /\ SyncType /\ TaskType /\ ClockType
  BY <1>1, Widths DEF Init, EnvType, SyncType, TaskType, ClockType, Millis
<1>3. HostType
  BY Widths DEF Init, HostType
<1>. QED
  BY <1>2, <1>3 DEF Types

LEMMA CallbackType ==
  ASSUME Types, wifi.pc \in {"state", "heard", "index", "tell"}
  PROVE  /\ wifi \in Callback
         /\ wifi.frame.state \in {0, 1} /\ wifi.frame.index \in 0 .. 127
<1>1. wifi # WifiIdle
  BY DEF WifiIdle
<1>2. wifi \in Callback
  BY <1>1 DEF Types, TaskType
<1>. QED
  BY <1>2, Widths DEF Callback

LEMMA PassType ==
  ASSUME Types, esp.pc \in {"check", "stop", "told"}
  PROVE  esp \in Pass
BY DEF Types, TaskType, EspAsleep

LEMMA WifiType ==
  ASSUME Types, Wifi
  PROVE  Types'
<1>. USE DEF Types, EnvType, ClockType, env, clock, history
<1>1. ASSUME NEW f \in {frame, previous}, Hear(f) PROVE Types'
  <2>1. f \in Frame
    OBVIOUS
  <2>2. wifi' \in Callback
    BY <1>1, <2>1 DEF Hear, Transition, Callback
  <2>3. silence' \in 0 .. Quiet /\ collided' \in BOOLEAN
    BY <1>1, Widths DEF Hear
  <2>. QED
    BY <1>1, <2>2, <2>3 DEF Hear, HostType, SyncType, TaskType, host, sync
<1>2. CASE StoreState
  <2>1. wifi \in Callback /\ wifi.frame.state \in {0, 1} /\ wifi.frame.index \in 0 .. 127
    BY <1>2, CallbackType DEF StoreState
  <2>2. wifi' \in Callback
    BY <1>2, <2>1 DEF StoreState, Callback
  <2>. QED
    BY <1>2, <2>1, <2>2 DEF StoreState, HostType, SyncType, TaskType, host
<1>3. CASE StoreHeard
  <2>1. wifi \in Callback
    BY <1>3, CallbackType DEF StoreHeard
  <2>2. wifi' \in Callback /\ wifi.now \in Millis
    BY <1>3, <2>1 DEF StoreHeard, Callback
  <2>. QED
    BY <1>3, <2>1, <2>2 DEF StoreHeard, HostType, SyncType, TaskType, host
<1>4. CASE TellIndex
  <2>1. wifi \in Callback /\ wifi.frame.index \in 0 .. 127
    BY <1>4, CallbackType DEF TellIndex
  <2>2. wifi' \in Callback
    BY <1>4, <2>1 DEF TellIndex, Callback
  <2>. QED
    BY <1>4, <2>1, <2>2 DEF TellIndex, HostType, SyncType, TaskType
<1>5. CASE TellTransition
  <2>1. wifi \in Callback /\ hostPlaying \in BOOLEAN
    BY <1>5, CallbackType DEF TellTransition, HostType
  <2>2. wifi.transition \in {"started", "stopped", "none"}
    BY <2>1 DEF Callback
  <2>3. hostPlaying' \in BOOLEAN
    BY <1>5, <2>1, Zenon DEF TellTransition
  <2>4. hostIndex' \in 0 .. 127 /\ lastSentIndex' \in 0 .. 127 \union {NeverSent}
    BY <1>5, <2>2 DEF TellTransition, HostType, SyncType
  <2>. QED
    BY <1>5, <2>3, <2>4 DEF TellTransition, HostType, SyncType, TaskType
<1>. QED
  BY <1>1, <1>2, <1>3, <1>4, <1>5 DEF Wifi

LEMMA EspType ==
  ASSUME Types, Esp
  PROVE  Types'
<1>. USE DEF Types, EnvType, ClockType, env, clock, history
<1>1. CASE Wake
  BY <1>1 DEF Wake, HostType, SyncType, TaskType, Pass, host, sync
<1>2. CASE CheckLink
  <2>1. esp \in Pass
    BY <1>2, PassType DEF CheckLink
  <2>2. esp' = EspAsleep \/ esp' \in Pass
    BY <1>2, <2>1 DEF CheckLink, Pass
  <2>3. linkLost' \in BOOLEAN /\ collided' \in BOOLEAN
    <3>1. LinkLooksDead \in BOOLEAN
      BY DEF LinkLooksDead
    <3>. QED
      BY <1>2, <3>1 DEF CheckLink, SyncType
  <2>. QED
    BY <1>2, <2>2, <2>3 DEF CheckLink, HostType, SyncType, TaskType, host
<1>3. CASE StopClock
  <2>1. esp \in Pass
    BY <1>3, PassType DEF StopClock
  <2>2. esp' \in Pass
    BY <1>3, <2>1 DEF StopClock, Pass
  <2>. QED
    BY <1>3, <2>2 DEF StopClock, HostType, SyncType, TaskType, host
<1>4. CASE TellStop
  <2>1. hostPlaying' \in BOOLEAN
    BY <1>4, Zenon DEF TellStop
  <2>. QED
    BY <1>4, <2>1 DEF TellStop, HostType, SyncType, TaskType
<1>. QED
  BY <1>1, <1>2, <1>3, <1>4 DEF Esp

LEMMA NextType ==
  ASSUME Types, [Next]_vars
  PROVE  Types'
<1>. USE DEF Types, EnvType, HostType, TaskType, ClockType, env, host, clock, history
<1>1. ASSUME NEW f \in Frame, Announce(f) PROVE Types'
  BY <1>1 DEF Announce, SyncType, sync
<1>2. CASE Tick
  <2>1. now' \in Millis
    <3>1. ClockSpan \in Nat /\ ClockSpan # 0 /\ now + 1 \in Nat
      BY Widths DEF Millis
    <3>2. now' = (now + 1) % ClockSpan
      BY <1>2 DEF Tick
    <3>. QED
      BY <3>1, <3>2, MillisWrap DEF Millis
  <2>2. silence' \in 0 .. Quiet
    BY <1>2, Widths DEF Tick
  <2>. QED
    BY <1>2, <2>1, <2>2 DEF Tick, SyncType, sync
<1>3. CASE Wifi
  BY <1>3, WifiType
<1>4. CASE Esp
  BY <1>4, EspType
<1>5. ASSUME NEW stop \in LossPolicies, SetLossPolicy(stop) PROVE Types'
  BY <1>5 DEF SetLossPolicy, SyncType
<1>6. CASE Reboot
  <2>1. linkLost' \in BOOLEAN /\ polled' \in BOOLEAN /\ collided' \in BOOLEAN /\ told' \in BOOLEAN
    BY <1>6, Zenon DEF Reboot
  <2>. QED
    BY <1>6, <2>1, Widths DEF Reboot, SyncType, Millis
<1>7. CASE UNCHANGED vars
  BY <1>7 DEF vars, SyncType, sync
<1>. QED
  BY <1>1, <1>2, <1>3, <1>4, <1>5, <1>6, <1>7 DEF Next

\* Every variable keeps the range its declaration gives it, whatever the two tasks,
\* the host's commands and restarts do (mediaSyncState in src/src/nowde_state.h).
THEOREM TypeCorrect == Spec => []TypeOK
<1>1. Init => Types
  BY InitType
<1>2. Types /\ [Next]_vars => Types'
  BY NextType
<1>. QED
  BY <1>1, <1>2, TypeParts, PTL DEF Spec

-----------------------------------------------------------------------------
(* Host and node agree. *)

LEMMA InitAgrees == Init => HInv
BY DEF Init, HInv, Alone, IndexNoted, Decided, Stored, IndexTold, Halted, AtRest, PlaysAsClock,
       Stopping, WifiIdle, EspAsleep

LEMMA WifiAgrees ==
  ASSUME Types, HInv, Wifi
  PROVE  HInv'
<1>. SUFFICES ASSUME ~collided' PROVE HInv'
  BY DEF HInv
<1>. USE DEF Alone, IndexNoted, Decided, Stored, IndexTold, Halted, PlaysAsClock
<1>0. HostType /\ SyncType
  BY DEF Types
<1>1. ASSUME NEW f \in {frame, previous}, Hear(f) PROVE HInv'
  <2>1. ~collided /\ ~Stopping /\ wifi = WifiIdle
    BY <1>1 DEF Hear
  <2>2. PlaysAsClock /\ IndexNoted /\ Halted
    BY <2>1 DEF HInv, AtRest
  <2>3. wifi'.pc = "state" /\ wifi'.frame = f /\ wifi'.transition = Transition(f)
    BY <1>1 DEF Hear
  <2>4. Transition(f)' = Transition(f)
    BY <1>1 DEF Hear, Transition, sync
  <2>. QED
    BY <1>1, <2>1, <2>2, <2>3, <2>4 DEF HInv, Hear, host, sync, Stopping, AtRest, WifiIdle,
       Transition
<1>2. CASE StoreState
  <2>1. ~collided /\ wifi # WifiIdle /\ wifi.pc = "state"
    BY <1>2 DEF StoreState, history, WifiIdle
  <2>2. Alone /\ IndexNoted /\ Halted /\ PlaysAsClock /\ wifi.transition = Transition(wifi.frame)
    BY <2>1 DEF HInv
  <2>3. wifi \in Callback /\ wifi.frame \in Frame
        /\ wifi.frame.state \in {0, 1} /\ wifi.frame.index \in 0 .. 127
    BY <2>1, CallbackType DEF Callback
  <2>4. wifi'.pc = "heard" /\ wifi'.frame = wifi.frame /\ wifi'.transition = wifi.transition
        /\ wifi' # WifiIdle
    BY <1>2, <2>3 DEF StoreState, Callback, WifiIdle
  <2>5. /\ wifi.transition = "started" => wifi.frame.state = 1
        /\ wifi.transition = "stopped" => wifi.frame.state = 0
        /\ wifi.transition = "none" => currentState = wifi.frame.state
    BY <2>2, <2>3, <1>0 DEF Transition, SyncType
  <2>6. currentState' = wifi.frame.state /\ currentIndex' = wifi.frame.index
        /\ UNCHANGED <<hostPlaying, hostIndex, lastSentIndex, esp, told>>
    BY <1>2 DEF StoreState, host, history
  <2>7. ~Stopping
    BY <2>1, <2>2
  <2>. QED
    BY <2>2, <2>4, <2>5, <2>6, <2>7 DEF HInv, Stopping, AtRest
<1>3. CASE StoreHeard
  <2>1. ~collided /\ wifi # WifiIdle /\ wifi.pc = "heard"
    BY <1>3 DEF StoreHeard, history, WifiIdle
  <2>2. Alone /\ IndexNoted /\ Halted /\ Stored
    BY <2>1 DEF HInv
  <2>3. wifi'.pc = "index" /\ wifi'.frame = wifi.frame /\ wifi'.transition = wifi.transition
        /\ wifi' # WifiIdle
    BY <1>3, <2>1, CallbackType DEF StoreHeard, Callback, WifiIdle
  <2>4. UNCHANGED <<hostPlaying, hostIndex, currentState, currentIndex, lastSentIndex, esp, told>>
    BY <1>3 DEF StoreHeard, host, history
  <2>. QED
    BY <2>1, <2>2, <2>3, <2>4 DEF HInv, Stopping, AtRest
<1>4. CASE TellIndex
  <2>1. ~collided /\ wifi # WifiIdle /\ wifi.pc = "index"
    BY <1>4 DEF TellIndex, history, WifiIdle
  <2>2. Alone /\ IndexNoted /\ Halted /\ Stored
    BY <2>1 DEF HInv
  <2>3. wifi'.pc = "tell" /\ wifi'.frame = wifi.frame /\ wifi'.transition = wifi.transition
        /\ wifi' # WifiIdle
    BY <1>4, <2>1, CallbackType DEF TellIndex, Callback, WifiIdle
  <2>4. UNCHANGED <<hostPlaying, currentState, currentIndex, esp, told>>
    BY <1>4 DEF TellIndex, history
  <2>5. IndexNoted' /\ IndexTold'
    BY <1>4, <2>2, <2>3 DEF TellIndex
  <2>. QED
    BY <2>1, <2>2, <2>3, <2>4, <2>5 DEF HInv, Stopping, AtRest
<1>5. CASE TellTransition
  <2>1. ~collided /\ wifi # WifiIdle /\ wifi.pc = "tell" /\ wifi' = WifiIdle
    BY <1>5 DEF TellTransition, history, WifiIdle
  <2>2. Alone /\ IndexNoted /\ Halted /\ Stored /\ IndexTold
    BY <2>1 DEF HInv
  <2>3. wifi \in Callback /\ wifi.frame.index \in 0 .. 127
    BY <2>1, CallbackType
  <2>4. UNCHANGED <<currentState, currentIndex, esp>>
    BY <1>5 DEF TellTransition
  <2>5. CASE wifi.transition = "started"
    BY <1>5, <2>1, <2>2, <2>4, <2>5 DEF TellTransition, HInv, Stopping, AtRest, WifiIdle
  <2>6. CASE wifi.transition = "stopped"
    BY <1>5, <2>1, <2>2, <2>4, <2>6 DEF TellTransition, HInv, Stopping, AtRest, WifiIdle
  <2>7. CASE wifi.transition = "none"
    <3>0. wifi.transition # "started" /\ wifi.transition # "stopped"
      BY <2>7
    <3>1. /\ hostPlaying' = hostPlaying /\ lastSentIndex' = lastSentIndex
          /\ hostIndex' = hostIndex \/ (currentIndex > 0 /\ hostIndex' = currentIndex)
      BY <1>5, <3>0, Zenon DEF TellTransition
    <3>2. IndexNoted'
      BY <3>1, <2>1, <2>2, <2>3
    <3>3. told' = told
      <4>1. told \in BOOLEAN
        BY DEF Types, ClockType
      <4>. QED
        BY <1>5, <2>7, <4>1 DEF TellTransition
    <3>. QED
      BY <2>1, <2>2, <2>4, <2>7, <3>1, <3>2, <3>3 DEF HInv, Stopping, AtRest, WifiIdle
  <2>. QED
    BY <2>3, <2>5, <2>6, <2>7 DEF Callback
<1>. QED
  BY <1>1, <1>2, <1>3, <1>4, <1>5 DEF Wifi

LEMMA EspAgrees ==
  ASSUME Types, HInv, Esp
  PROVE  HInv'
<1>. SUFFICES ASSUME ~collided' PROVE HInv'
  BY DEF HInv
<1>. USE DEF Alone, IndexNoted, Decided, Stored, IndexTold, Halted, PlaysAsClock,
             AtRest, Stopping
<1>1. CASE Wake
  BY <1>1 DEF Wake, HInv, history, host, sync, EspAsleep, Transition
<1>2. CASE CheckLink
  <2>1. ~collided /\ (LinkLooksDead /\ stopOnLinkLost => wifi = WifiIdle)
    BY <1>2 DEF CheckLink
  <2>2. esp \in Pass
    BY <1>2, PassType DEF CheckLink
  <2>3. UNCHANGED <<hostPlaying, hostIndex, currentState, currentIndex, lastSentIndex, wifi, told>>
    BY <1>2 DEF CheckLink, host
  <2>4. CASE LinkLooksDead /\ stopOnLinkLost
    <3>1. esp'.pc = "stop" /\ wifi = WifiIdle
      BY <1>2, <2>1, <2>2, <2>4 DEF CheckLink, Pass
    <3>. QED
      BY <1>2, <2>1, <2>3, <3>1 DEF HInv, CheckLink, WifiIdle
  <2>5. CASE ~(LinkLooksDead /\ stopOnLinkLost)
    <3>1. esp' = EspAsleep /\ ~Stopping
      BY <1>2, <2>5 DEF CheckLink
    <3>2. Transition(wifi.frame)' = Transition(wifi.frame)
      BY <2>3 DEF Transition
    <3>. QED
      BY <2>1, <2>3, <3>1, <3>2 DEF HInv, EspAsleep
  <2>. QED
    BY <2>4, <2>5
<1>3. CASE StopClock
  <2>1. ~collided /\ wifi = WifiIdle /\ wifi' = wifi
    BY <1>3 DEF StopClock, history, HInv
  <2>2. esp'.pc = "told" /\ currentState' = 0
    BY <1>3, PassType DEF StopClock, Pass
  <2>3. UNCHANGED <<hostIndex, lastSentIndex>>
    BY <1>3 DEF StopClock, host
  <2>. QED
    BY <2>1, <2>2, <2>3 DEF HInv, WifiIdle
<1>4. CASE TellStop
  <2>1. ~collided /\ wifi = WifiIdle /\ wifi' = wifi /\ currentState = 0 /\ currentState' = 0
    BY <1>4 DEF TellStop, history, HInv
  <2>. QED
    BY <1>4, <2>1 DEF TellStop, HInv, WifiIdle, EspAsleep
<1>. QED
  BY <1>1, <1>2, <1>3, <1>4 DEF Esp

LEMMA NextAgrees ==
  ASSUME Types, HInv, [Next]_vars
  PROVE  HInv'
<1>. DEFINE Rest == <<hostPlaying, hostIndex, currentState, currentIndex, lastSentIndex, wifi,
                      esp, collided, told>>
<1>0. ASSUME UNCHANGED Rest PROVE HInv'
  <2>1. Transition(wifi.frame)' = Transition(wifi.frame)
    BY <1>0 DEF Transition
  <2>. QED
    BY <1>0, <2>1 DEF HInv, Alone, IndexNoted, Decided, Stored, IndexTold, Halted, PlaysAsClock,
       AtRest, Stopping
<1>1. ASSUME NEW f \in Frame, Announce(f) PROVE HInv'
  BY <1>0, <1>1 DEF Announce, host, sync, history
<1>2. CASE Tick
  BY <1>0, <1>2 DEF Tick, host, sync
<1>3. CASE Wifi
  BY <1>3, WifiAgrees
<1>4. CASE Esp
  BY <1>4, EspAgrees
<1>5. ASSUME NEW stop \in LossPolicies, SetLossPolicy(stop) PROVE HInv'
  BY <1>0, <1>5 DEF SetLossPolicy, host, history
<1>6. CASE Reboot
  BY <1>6 DEF Reboot, HInv, Alone, IndexNoted, Decided, Stored, IndexTold, Halted, AtRest,
     PlaysAsClock, Stopping, WifiIdle, EspAsleep
<1>7. CASE UNCHANGED vars
  BY <1>0, <1>7 DEF vars, host, sync, history
<1>. QED
  BY <1>1, <1>2, <1>3, <1>4, <1>5, <1>6, <1>7 DEF Next

LEMMA HInvAgrees == Types /\ HInv => HostAgrees
<1>. SUFFICES ASSUME Types, HInv, AtRest, ~collided
              PROVE  /\ told \/ currentState = 1 => hostPlaying = (currentState = 1)
                     /\ lastSentIndex # NeverSent => hostIndex = lastSentIndex
  BY DEF HostAgrees
<1>1. hostPlaying \in BOOLEAN /\ (told \/ currentState = 1 => (hostPlaying <=> currentState = 1))
  BY DEF Types, HostType, HInv, PlaysAsClock
<1>2. told \/ currentState = 1 => hostPlaying = (currentState = 1)
  BY <1>1, Zenon
<1>3. lastSentIndex # NeverSent => hostIndex = lastSentIndex
  BY DEF HInv, IndexNoted
<1>. QED
  BY <1>2, <1>3

\* Whatever frames come, change or are lost, across pauses, lost links, changes of
\* policy and restarts, a host that was told Start or Stop since the node started plays
\* exactly when the node's clock runs, and its last CC#100 is the one the node
\* remembers, between two callbacks and unless the stop of a lost link ran into one
\* (processMediaSyncPacket and the link check of espnowTask).
THEOREM HostAndNodeAgree == Spec => []HostAgrees
<1>1. Init => Types /\ HInv
  BY InitType, InitAgrees
<1>2. Types /\ HInv /\ [Next]_vars => (Types /\ HInv)'
  BY NextType, NextAgrees
<1>3. Types /\ HInv => HostAgrees
  BY HInvAgrees
<1>. QED
  BY <1>1, <1>2, <1>3, PTL DEF Spec

=============================================================================
