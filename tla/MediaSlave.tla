----------------------------- MODULE MediaSlave ------------------------------
(***************************************************************************)
(* A slave's playback state: mediaSyncState and what the node tells its    *)
(* own host (processMediaSyncPacket in src/src/receiver_mode.cpp, the      *)
(* link-lost part of espnowTask in src/src/main.cpp, SET_LOSS_POLICY in    *)
(* src/src/sysex.cpp).                                                     *)
(*                                                                         *)
(* Two tasks write the state without a lock.  The WiFi task (core 0) runs  *)
(* processMediaSyncPacket for each accepted frame; ESPNOW_Task (core 1)    *)
(* wakes every 10 ms, reads millis() once, and later looks for a lost      *)
(* link.  Each is a program counter here, cut where the other can tell.    *)
(*                                                                         *)
(* millis() is `now`, wrapping at ClockSpan; one unit of it is long enough *)
(* for a pass of either task, and a pass sees at most one increment.  Only *)
(* frames the layer filter and the origin lock let through appear (see     *)
(* OriginLock).  Positions, volume and MTC are left out, and so is the     *)
(* loss of a MIDI event between the node and its host.                     *)
(***************************************************************************)
EXTENDS Naturals

CONSTANTS
  Frame,                 \* the [state, index] a master's host announces
  ClockSpan,             \* millis() counts modulo this (2^32)
  LINK_LOST_TIMEOUT_MS,
  LossPolicies,          \* the values stopOnLinkLost may be given
  MaxBoots               \* bound: restarts of the node

ASSUME MediaSlaveAssumption ==
  /\ \A f \in Frame : f.state \in {0, 1} /\ f.index \in 0 .. 127
  /\ ClockSpan \in Nat /\ LINK_LOST_TIMEOUT_MS \in Nat
  /\ LINK_LOST_TIMEOUT_MS + 2 < ClockSpan
  /\ LossPolicies # {} /\ LossPolicies \subseteq BOOLEAN
  /\ MaxBoots \in Nat

VARIABLES
  \* the environment: what the master announces now, and what it announced last
  frame, previous,
  \* the slave's host: what it was last told
  hostPlaying, hostIndex,
  \* mediaSyncState
  currentState, currentIndex, lastSyncTime, linkLost, stopOnLinkLost, lastSentIndex,
  \* the tasks
  wifi, esp,
  \* time: millis(), has ESPNOW_Task woken since it last moved, restarts so far
  now, polled, boots,
  \* history: time units since a frame was last heard; has ESPNOW_Task, since the
  \* node started, been stopping the clock while a callback was in progress?  Has the
  \* node said Start or Stop since then?
  silence, collided, told

env == <<frame, previous>>
host == <<hostPlaying, hostIndex>>
sync == <<currentState, currentIndex, lastSyncTime, linkLost, stopOnLinkLost, lastSentIndex>>
clock == <<now, polled, boots>>
history == <<silence, collided, told>>
vars == <<env, host, sync, wifi, esp, clock, history>>

NeverSent == 255

WifiIdle == [pc |-> "idle"]
EspAsleep == [pc |-> "asleep"]

\* unsigned long arithmetic: a - b, wrapping below zero as well
Elapsed(a, b) == (a + ClockSpan - b) % ClockSpan

\* ESPNOW_Task has found the link dead and is about to stop the clock.
Stopping == esp.pc \in {"stop", "told"}

Quiet == LINK_LOST_TIMEOUT_MS + 1

Init ==
  /\ frame \in Frame /\ previous = frame
  /\ hostPlaying \in BOOLEAN /\ hostIndex \in {0} \union {f.index : f \in Frame}
  /\ currentState = 0 /\ currentIndex = 0 /\ lastSyncTime = 0
  /\ linkLost = FALSE /\ stopOnLinkLost \in LossPolicies /\ lastSentIndex = NeverSent
  /\ wifi = WifiIdle /\ esp = EspAsleep
  /\ now = 0 /\ polled = FALSE /\ boots = 0
  /\ silence = 0 /\ collided = FALSE /\ told = FALSE

-----------------------------------------------------------------------------
(* The environment. *)

\* The master's host starts, stops or changes media.
Announce(f) ==
  /\ f # frame
  /\ frame' = f /\ previous' = frame
  /\ UNCHANGED <<host, sync, wifi, esp, clock, history>>

\* One unit of time: each task gets a pass in it, and no late copy outlives it.
Tick ==
  /\ polled
  /\ wifi # WifiIdle => wifi.now = now
  /\ esp # EspAsleep => esp.now = now
  /\ now' = (now + 1) % ClockSpan
  /\ polled' = FALSE
  /\ silence' = IF silence < Quiet THEN silence + 1 ELSE silence
  /\ previous' = frame
  /\ UNCHANGED <<frame, host, sync, wifi, esp, boots, collided, told>>

-----------------------------------------------------------------------------
(* The WiFi task: processMediaSyncPacket, past its filters. *)

\* Seeded fault: the first contact with a stopped master goes untold.
TransitionOnly(f) ==
  CASE currentState = 0 /\ f.state = 1 -> "started"
    [] currentState = 1 /\ f.state = 0 -> "stopped"
    [] OTHER -> "none"

Transition(f) ==
  CASE currentState = 0 /\ f.state = 1 -> "started"
    [] \/ currentState = 1 /\ f.state = 0
       \/ lastSentIndex = NeverSent /\ f.state = 0 /\ f.index = 0 -> "stopped"
    [] OTHER -> "none"

\* millis() is read and the transition is decided from the state as it is now.
Hear(f) ==
  /\ wifi = WifiIdle
  /\ wifi' = [pc |-> "state", frame |-> f, now |-> now,
              transition |-> Transition(f)]
  /\ silence' = 0
  /\ collided' = (collided \/ Stopping)
  /\ UNCHANGED <<env, host, sync, esp, clock, told>>

StoreState ==
  /\ wifi.pc = "state"
  /\ currentIndex' = wifi.frame.index
  /\ currentState' = wifi.frame.state
  /\ wifi' = [wifi EXCEPT !.pc = "heard"]
  /\ UNCHANGED <<env, host, lastSyncTime, linkLost, stopOnLinkLost, lastSentIndex, esp, clock, history>>

StoreHeard ==
  /\ wifi.pc = "heard"
  /\ lastSyncTime' = wifi.now
  /\ linkLost' = FALSE
  /\ wifi' = [wifi EXCEPT !.pc = "index"]
  /\ UNCHANGED <<env, host, currentState, currentIndex, stopOnLinkLost, lastSentIndex, esp, clock,
                 history>>

\* CC#100 when the index is new to the host.
TellIndex ==
  /\ wifi.pc = "index"
  /\ LET i == wifi.frame.index
     IN  IF lastSentIndex # i /\ i # 0
         THEN hostIndex' = i /\ lastSentIndex' = i
         ELSE UNCHANGED <<hostIndex, lastSentIndex>>
  /\ wifi' = [wifi EXCEPT !.pc = "tell"]
  /\ UNCHANGED <<env, hostPlaying, currentState, currentIndex, lastSyncTime, linkLost,
                 stopOnLinkLost, esp, clock, history>>

\* Full-frame and Start, or CC#100 = 0 and Stop, or the repeat of CC#100,
\* which is due or not (CC100_REPEAT_INTERVAL_MS).
TellTransition ==
  /\ wifi.pc = "tell"
  /\ CASE wifi.transition = "started" ->
            hostPlaying' = TRUE /\ UNCHANGED <<hostIndex, lastSentIndex>>
       [] wifi.transition = "stopped" ->
            hostPlaying' = FALSE /\ hostIndex' = 0 /\ lastSentIndex' = 0
       [] OTHER ->
            /\ \/ currentState = 1 /\ currentIndex > 0 /\ hostIndex' = currentIndex
               \/ UNCHANGED hostIndex
            /\ UNCHANGED <<hostPlaying, lastSentIndex>>
  /\ told' = (told \/ wifi.transition # "none")
  /\ wifi' = WifiIdle
  /\ UNCHANGED <<env, currentState, currentIndex, lastSyncTime, linkLost, stopOnLinkLost,
                 esp, clock, silence, collided>>

-----------------------------------------------------------------------------
(* ESPNOW_Task: the loop of espnowTask, receiver part. *)

\* The top of the loop: millis() is read once for the whole pass.
Wake ==
  /\ esp = EspAsleep
  /\ esp' = [pc |-> "check", now |-> now]
  /\ polled' = TRUE
  /\ UNCHANGED <<env, host, sync, wifi, now, boots, history>>

\* Seeded fault: only a node that would stop looks at its link.
LinkLooksDeadIfStopping ==
  /\ currentState = 1 /\ ~linkLost /\ stopOnLinkLost
  /\ Elapsed(esp.now, lastSyncTime) > LINK_LOST_TIMEOUT_MS

LinkLooksDead ==
  /\ currentState = 1 /\ ~linkLost
  /\ Elapsed(esp.now, lastSyncTime) > LINK_LOST_TIMEOUT_MS

CheckLink ==
  /\ esp.pc = "check"
  /\ linkLost' = (linkLost \/ LinkLooksDead)
  /\ esp' = IF LinkLooksDead /\ stopOnLinkLost THEN [esp EXCEPT !.pc = "stop"] ELSE EspAsleep
  /\ collided' = (collided \/ (LinkLooksDead /\ stopOnLinkLost /\ wifi # WifiIdle))
  /\ UNCHANGED <<env, host, currentState, currentIndex, lastSyncTime, stopOnLinkLost,
                 lastSentIndex, wifi, clock, silence, told>>

\* Seeded fault: the host is told, the clock runs on.
StopNothing ==
  /\ esp.pc = "stop"
  /\ esp' = [esp EXCEPT !.pc = "told"]
  /\ UNCHANGED <<env, host, sync, wifi, clock, history>>

StopClock ==
  /\ esp.pc = "stop"
  /\ currentState' = 0
  /\ esp' = [esp EXCEPT !.pc = "told"]
  /\ UNCHANGED <<env, host, currentIndex, lastSyncTime, linkLost, stopOnLinkLost,
                 lastSentIndex, wifi, clock, history>>

\* Seeded fault: the node forgets that it said CC#100 = 0.
TellStopUnnoted ==
  /\ esp.pc = "told"
  /\ hostPlaying' = FALSE /\ hostIndex' = 0 /\ told' = TRUE
  /\ esp' = EspAsleep
  /\ UNCHANGED <<env, sync, wifi, clock, silence, collided>>

TellStop ==
  /\ esp.pc = "told"
  /\ hostPlaying' = FALSE /\ hostIndex' = 0 /\ lastSentIndex' = 0 /\ told' = TRUE
  /\ esp' = EspAsleep
  /\ UNCHANGED <<env, currentState, currentIndex, lastSyncTime, linkLost, stopOnLinkLost,
                 wifi, clock, silence, collided>>

-----------------------------------------------------------------------------
(* MIDI_Task, and a restart. *)

SetLossPolicy(stop) ==
  /\ stop # stopOnLinkLost
  /\ stopOnLinkLost' = stop
  /\ UNCHANGED <<env, host, currentState, currentIndex, lastSyncTime, linkLost,
                 lastSentIndex, wifi, esp, clock, history>>

\* The policy comes back from NVS, the rest from its initialisers; the host keeps
\* doing what it was last told.  millis() restarts at 0.
Reboot ==
  /\ boots < MaxBoots
  /\ boots' = boots + 1
  /\ currentState' = 0 /\ currentIndex' = 0 /\ lastSyncTime' = 0
  /\ linkLost' = FALSE /\ lastSentIndex' = NeverSent
  /\ wifi' = WifiIdle /\ esp' = EspAsleep
  /\ now' = 0 /\ polled' = FALSE
  /\ collided' = FALSE /\ told' = FALSE
  /\ UNCHANGED <<env, host, stopOnLinkLost, silence>>

Wifi ==
  \/ \E f \in {frame, previous} : Hear(f)
  \/ StoreState \/ StoreHeard \/ TellIndex \/ TellTransition

Esp == Wake \/ CheckLink \/ StopClock \/ TellStop

Next ==
  \/ \E f \in Frame : Announce(f)
  \/ Tick
  \/ Wifi
  \/ Esp
  \/ \E stop \in LossPolicies : SetLossPolicy(stop)
  \/ Reboot

Spec == Init /\ [][Next]_vars

\* A callback that has begun is finished, ESPNOW_Task keeps looping, time passes.
\* Hearing a frame, announcing one and restarting are never owed.
Fairness ==
  /\ WF_vars(StoreState) /\ WF_vars(StoreHeard) /\ WF_vars(TellIndex) /\ WF_vars(TellTransition)
  /\ WF_vars(Esp)
  /\ WF_vars(Tick)

FairSpec == Spec /\ Fairness

-----------------------------------------------------------------------------
(* Properties *)

\* Every variable keeps the range its declaration gives it.
TypeOK ==
  /\ frame \in Frame /\ previous \in Frame
  /\ hostPlaying \in BOOLEAN /\ hostIndex \in 0 .. 127
  /\ currentState \in {0, 1} /\ currentIndex \in 0 .. 127
  /\ lastSyncTime \in 0 .. ClockSpan - 1
  /\ linkLost \in BOOLEAN /\ stopOnLinkLost \in LossPolicies
  /\ lastSentIndex \in 0 .. 127 \union {NeverSent}
  /\ \/ wifi = WifiIdle
     \/ wifi \in [pc : {"state", "heard", "index", "tell"}, frame : Frame,
                  now : 0 .. ClockSpan - 1, transition : {"started", "stopped", "none"}]
  /\ esp = EspAsleep \/ esp \in [pc : {"check", "stop", "told"}, now : 0 .. ClockSpan - 1]
  /\ now \in 0 .. ClockSpan - 1 /\ polled \in BOOLEAN /\ boots \in 0 .. MaxBoots
  /\ silence \in 0 .. Quiet /\ collided \in BOOLEAN /\ told \in BOOLEAN

AtRest == wifi = WifiIdle /\ ~Stopping

\* Between two callbacks the host was last told Start exactly when the node's clock
\* runs ("Start on stopped -> playing, Stop on playing -> stopped"), and its last
\* CC#100 is the index the node remembers having sent, whatever frames came, changed
\* or were lost, across pauses, lost links, changes of policy and restarts; unless the
\* stop of a lost link ran into a callback, which the two tasks do not exclude.  A node
\* that has said neither since it started owes its host nothing yet.
HostAgrees ==
  AtRest /\ ~collided =>
    /\ told \/ currentState = 1 => hostPlaying = (currentState = 1)
    /\ lastSentIndex # NeverSent => hostIndex = lastSentIndex

\* The host is doing what the master announces with f.
Follows(f) ==
  /\ hostPlaying = (f.state = 1)
  /\ f.state = 0 => hostIndex = 0
  /\ f.state = 1 /\ f.index # 0 => hostIndex = f.index

\* Whatever late copies, restarts and link losses came before: once the master keeps
\* to one announcement and the slave goes on hearing it, its host ends up following it
\* for good when the policy is to freewheel; when it is to stop, again and again, since
\* a link taken for lost may still stop it for a moment.
EventuallyFollows ==
  \A f \in Frame :
    <>[](frame = f /\ previous = f /\ silence <= LINK_LOST_TIMEOUT_MS) =>
      /\ []~stopOnLinkLost => <>[]Follows(f)
      /\ []~collided => []<>Follows(f)

\* A slave left playing in silence always ends up knowing that its link is lost,
\* though a callback may clear the flag at any moment before.
SilenceIsNoticed ==
  <>[](silence = Quiet) => <>[](currentState = 1 => linkLost)

\* Under the stop policy no slave goes on playing in silence for ever.
PlaybackEndsInSilence ==
  []stopOnLinkLost /\ <>[](silence = Quiet) => <>[](currentState = 0)

=============================================================================
