# Nowde: TLA+ models, TLC runs and TLAPS proofs

Nowde is the firmware of a small mesh of ESP32-S3 boards, one per media player.
A *master* node receives positions from its host over USB MIDI SysEx and
broadcasts them as `MEDIA_SYNC` frames over ESP-NOW; every *slave* node turns
what it hears into MIDI (CC#100, Start/Stop, MTC) for its own host, keeps a mesh
clock with the others, and may relay frames further (controlled flooding).

This directory models the parts of it where the order of events, a loss, a
restart or a wrapping counter decides whether the system is correct.

## The system

Three tasks share all state without locks (except one frame lock in
`usb_out.cpp`):

| task | core, priority | runs |
|---|---|---|
| `MIDI_Task` | 0, 24 | every 1 ms: drains USB output, assembles SysEx, runs every host command |
| WiFi task | 0, 23 | `onDataRecv`, one call per received frame |
| `ESPNOW_Task` | 1, 10 | every 10 ms: beacons, table clean-up, link check, MTC, re-sync, pending relays, mesh clock, UI |

So `MIDI_Task` may preempt a receive callback but not the reverse, and
`ESPNOW_Task` runs at the same time as either.

| component | state | operations | made correct by | modelled in |
|---|---|---|---|---|
| controlled flooding (`mesh_relay.cpp`, `esp_now_handlers.cpp`, the mint in `sysex.cpp`) | `relayOrigins` (one seq per origin), `pendingRelays`, `mediaSyncSeq` | mint, receive, suppress, dedup, schedule, forward | no loop, every copy genuine, no double forward pending, far nodes reached | `MeshRelay`, `MeshRelayHistory` |
| slave playback (`receiver_mode.cpp`, link check in `main.cpp`) | `mediaSyncState` | apply a frame, tell the host, link lost, loss policy, restart | host and node agree, the slave ends up following, silence is noticed | `MediaSlave` |
| origin lock and gap counter (`nowde_state.cpp`, head of `receiver_mode.cpp`) | `originLock`, `haveSeq`, `lastSeq`, `syncGaps` | accept, adopt, switch, pin, release, count | one master at a time, a pin holds, gaps are frames the master sent | `OriginLock` over `FollowOneMaster` |
| peer tables (`sender_mode.cpp`, `receiver_mode.cpp`) | `senderTable`, `receiverTable`, the radio's peers | beacon, info, time-outs, role change | an active entry has a peer, a live node is listed, a silent one is not | `PeerTables` |
| mesh clock (library `ESPNowMeshClock`) | 64-bit offset in two words, sync state | broadcast, adjust, slew, reset | clocks converge, no torn value gets through | `MeshClock` |
| re-sync (`meshResyncTick`), settings (`storage.cpp`) | soft resets, restart count, role, layer, LR, policy, one `Preferences` object | `SET_*`, long press, escalate, restart, boot | bounded restarts, re-armed by a lock only; NVS holds what is in force | `NodeStore` |
| USB output (`usb_out.cpp`, the senders in `midi.cpp`, `sysex.cpp`) | packet queue, frame lock, stall time | send, pump, put back, drop | SysEx frames stay whole, nothing stale replays | `UsbOut` |
| USB input (`midi.cpp`) and OTA (`sysex.cpp`) | SysEx buffer, overflow flag, update session | assemble, begin, data, acked data, end | the image that boots is the one sent; the acknowledged update gets there | `OtaUpdate` |
| roles (`nowde_state.cpp`) | role, sender mode | `SET_ROLE`, commands that make a sender | tables and radio agree afterwards | `PeerTables` |
| RF simulation, MTC timing, UI, bench scripts | delay slots, quarter-frame phase | | | not modelled, see below |

The components meet at a few places, and each module has the others as its
environment there: a frame that `MeshRelay` delivers is what `OriginLock` hears;
one that `OriginLock` accepts is what `MediaSlave` applies; what `MediaSlave`
tells the host leaves through `UsbOut`; `OtaUpdate` is the way in. An environment
loses, repeats and delays as its neighbour does, within what is named below: a
slave in `OriginLock` hears a master's newest frame and the `MaxLate` before it in any
order, where a relayed copy can be later still by the delays of three hops; in
`MediaSlave` a late copy is the announcement before the present one and is gone by
the next unit of time; in `MeshRelay` and `OriginLock` a node comes back from a
restart after its frames have died out; in `MediaSlave` the host loses no event.

`PROJECT.json` lists the hazards of this code, each at its line, with the
properties that cover it or the reason none does.

## Modules and the code

### MeshRelay, MeshRelayHistory

`Mint` is the `MEDIA_SYNC` SysEx handler: number a frame and broadcast it.
`Receive` is one call of `onDataRecv` for a `0x03` or `0x05` frame, up to
`handleFloodCandidate`, which keeps the code's order: own traffic, suppression
(`suppressPending`), dedup against the one seq of `relayOrigins`, hop budget,
first free slot of `pendingRelays`. `Forward` is one due slot of
`processPendingRelays`. `Reboot` clears the tables. The random delay of 5 to
30 ms is abstracted to "any order of forwards".

The radio is external: a transmission reaches any subset of the neighbours
given by `Link` (all of them when `Lossy` is FALSE), each of which has a FIFO of
received frames. A node comes back from a restart after its frames have died
out (`setup()` waits two seconds and more before the radio is up; a frame lives at
most three hops of 30 ms). `MeshRelayHistory` adds what each node has heard.

### MediaSlave

`mediaSyncState` is written by the WiFi task (`Hear`, `StoreState`,
`StoreHeard`, `TellIndex`, `TellTransition`: `processMediaSyncPacket` past its
filters) and by `ESPNOW_Task` (`Wake` reads `millis()`, `CheckLink`,
`StopClock`, `TellStop`). Each is cut where the other task can tell. `now` wraps
at `ClockSpan`; a pass of either task sees at most one increment. `frame` is
what the master's host announces now and `previous` what a late relayed copy may
still carry until the next unit of time. `hostPlaying` and `hostIndex` are what
the slave's own host was last told. `silence`, `collided` and `told` are history:
time since a frame was heard, whether the stop of a lost link has run into a
callback since boot, and whether the node has said Start or Stop since. A frame is
a state and an index: playing, stopped with index 0, or paused with either.

### OriginLock, FollowOneMaster

`Hear` is the layer filter; `Decide` the conditions of `originAccepts`, each
read on its own; `CopyFirstBytes` and `CopyLastBytes` the `memcpy` of the MAC,
cut in two, with the assignments that follow it; `Refresh` the known master;
`CountGap` the charge to the gap counter and `Anchor` the two assignments after
it. `Pin` and `originRelease` are `SET_ORIGIN`, which `MIDI_Task` serves between
two callbacks or at any of these cuts. A MAC is a pair of halves so that a torn
copy can be seen. The radio hands over a master's newest frame or one of the
`MaxLate` before it, again and again and in any order. `asked`, `quiet` and
`overruled` are history: what the host last said, the silence of the master
followed, and whether the callback in hand wrote over the host's word. So are `counted`,
`since`, `reborn` and `stale`: whose frame `lastSeq` is of, how many frames it has sent
since, whether it restarted, and whether that frame was let in before the host spoke.

`FollowOneMaster` is the promise: a slave leaves a master only after its silence
or on the host's word, and never when pinned. When the host speaks while a frame
is being judged, that one frame may still have the last word (`Undo`), or not
(`Settle`).

### PeerTables

One node; the others are the environment, which beacons (`Beaconing`), reports
(`Reporting`) or falls silent as it likes. `handleSenderBeacon` and
`handleReceiverInfo` are the two callbacks up to the entry they refresh or make;
`AddPeer` is the `esp_now_add_peer` that ends a registration. A pass of
`ESPNOW_Task` is `Wake`, then in sender mode `CheckReceiver` and `FreeReceiver`
for each slot (`cleanupReceiverTable`), then `sendReceiverInfo` or
`ReportNotDue`, then `CheckSender` and `FreeSender` for each slot
(`cleanupSenderTable`). The clean-up is cut between `esp_now_del_peer` and
`active = false`, where a registration on the other core can tell, and each
function reads `millis()` once, before its loop. `applyRole` is `SET_ROLE`,
`EnterSenderMode` the part of `QUERY_CONFIG` and `PUSH_FULL_CONFIG` that makes a
sender. `told` is what the last report reached; `senderSilence` and
`receiverSilence` count the time since a node was heard. Commands are served
between callbacks, and the radio has room for every entry.

### UsbOut

The three tasks send messages packet by packet. `Send` begins one and takes the
frame lock if it is free, `usbOutLock` is the end of a wait for it, `usbOutMidi`
queues one packet or meets a full queue, `midiSendCC` is a single event. A LOG
line gives up at a full queue, the other frames lose the packet and go on
(`Ends`). `Runs` is the scheduling of core 0: `MIDI_Task` preempts the WiFi
task between any two packets and waits for it only at the lock; `ESPNOW_Task`
runs beside both. `usbOutPump` is `PumpTake`, then `PumpWrite`, or `PumpFail`, which
puts the packet back or, when stale, drops the queue. The USB stack is external,
a FIFO the host empties or not. `RUNNING_STATE`, `ERROR_REPORT` and single events
are queued without the lock in the code and are `Loose` packets here: they may
fall anywhere. `lastOut`, `waited` and `pumped` are history.

### OtaUpdate

A host sends an image as frames cut into the packets that matter: head, length,
body, tail. `midiProcess` assembles what arrives as the code does, its buffer
limit and `sysexOverflow` included, and hands a whole message on with its length
cut to eight bits (`Accepted`). `OtaBegin`, `OtaData`, `OtaDataAcked` and `OtaEnd`
are the commands, each with the flash working or not. Lengths are the real ones
(`Encoded`, `Decoded`, frame overheads), bytes are not there: `buffer` is how many
there are and what they can still mean (`Alone`: one frame, or what is left of it;
`Glued`: a frame that lost its first packet and goes on from what was there), and the
flash holds chunk numbers, or `Garbage` for anything that is not a chunk as it was
sent. A begin that lost packets announces any size of `Misread`; a message that lost
its length and seq may hold any byte there (`Good`, `SomeSeq`). The
blind host is `cmd_ota` of `tools/nowde-cli.py`; the host of the acknowledged
command is not in the repository and is modelled as stop-and-wait, as the
comment at `sysex.cpp:300` describes it.

`ImageIsWhole` does not count on the image check of the boot loader. It excepts two
things the size check of `OTA_END` cannot see in an acknowledged update: a size that was
misheard, and a message that lost its length and still passed for a chunk. Within the
faults of the run the second is caught all the same (`GarbageIsCaught`), since such a
message is shorter or longer than the chunk it stands for; with enough of them the
differences could cancel.

### MeshClock

A clock is a local timer plus `_offset`; as all timers run at one rate, time
itself is left out and only the distances remain (`Base`). `Hear` is `_adjust` up
to the change of the offset, `Add` the load of `_offset += step`, `Store` one of the
two words of the result. `Broadcast` and `Load` are `_broadcast` with the repeated
reads of `meshMicrosStable`, word by word; `reset` and `Clear` the soft reset. A
frame on the air may be lost, replaced by a newer one, or take longer or less long than
the `TRANSMISSION_DELAY_US` it is credited with (`Lag`, less than zero for a quick one).
Nothing bounds what one core does between two steps of the other: `MIDI_Task` or an
interrupt may hold up the callback between its two stores for any number of reads.

`NeverAhead` measures a clock by the timers alone: what it shows has been reached by some
timer with no offset at all (`Reached`), give or take what the history variables count:
`gain`, by how much frames were early, and `strands`, the stamps that were sent although
the guard of `meshMicrosStable` had only torn reads to compare (`Stranding`). Each of
these may put the mesh ahead by less than one word of the offset, 71 minutes. `tears`
counts the torn reads themselves, to bound a run.

### NodeStore

Every setting, in force (`ram`) and stored (`nvs`), with `resyncRebootCount`. A command
is a job of its task, a list of the calls it makes on the one `Preferences` object:
assign, begin, put, end, restart, in the order of each handler (`Steps`).
`meshResyncTick` is one call of it, from any quality of synchronisation; `LongPress`
clears everything; `Restart` and `PowerCut` run the loads of `setup()`. The object is
shared without a lock, so a put may find it closed by another task's end: `missed` and
`lost` note where that happened, `restarts` counts.

## Runs

| run | bounds | shows |
|---|---|---|
| `room` (`MeshRelay_room`) | 3 nodes in one room, loss, 2 frames per life, 1 restart, 2 slots | `TypeOK`, `CopiesAreGenuine`, `NoDuplicatePending` |
| `line` (`MeshRelay_line`) | chain of 5, no loss, 2 frames, 3 slots, fairness | `FloodDiesOut`, `ChainIsCovered` |
| `follow` (`MediaSlave_follow`) | 1 medium and stop, time modulo 4, time-out 1, both policies, 1 restart, fairness | `HostAgrees`, `EventuallyFollows`, `SilenceIsNoticed`, `PlaybackEndsInSilence` |
| `lock` (`OriginLock_lock`) | 2 masters, 2 layers, time modulo 4, grace 1, seq modulo 4, max gap 1, commands anywhere | `PinHolds`, `FollowsOneMaster`, `GapsAreReal` |
| `gaps` (`OriginLock_gaps`) | 2 masters, time modulo 3, grace 0, seq modulo 4, max gap 1, copies 1 frame late, 1 restart, commands anywhere | `TypeOK`, `GapsAreReal` |
| `tables` (`PeerTables_tables`) | 1 master, 2 slaves, 2 receiver slots, roles slave and legacy, time modulo 4, time-outs 1, 0, 1, fairness | `TypeOK`, `EntriesHavePeers`, `ListedOnce`, `ListsAreRecent`, `HeardIsShown`, `MastersAreTold` |
| `usb` (`UsbOut_usb`) | queue of 3 packets, FIFO of 1, frames of 2, drop time 0 | `TypeOK`, `LockedFramesContiguous`, `NoGhostStream` |
| `ota` (`OtaUpdate_ota`) | blind chunks of 100 and 224, acknowledged ones of 100, 4 chunks, the last of 50, buffer 300, 5 faults, fairness | `TypeOK`, `SessionInStep`, `ImageIsWhole`, `GarbageIsCaught`, `AckedIsWritten`, `ShortFramesBoot`, `AckedUpdateBoots` |
| `clock` (`MeshClock_clock`) | 2 nodes 3 apart, words modulo 2, slew 1/2, large step 2, lag -1, 0 or 1, 1 unit early in all, 2 torn reads, 1 reset | `TypeOK`, `NeverAhead` |
| `agree` (`MeshClock_agree`) | 2 nodes 4 apart, words modulo 3, slew 1/2, large step 3, 1 torn read, 1 reset, fairness | `NodesAgree` |
| `store` (`NodeStore_store`) | 4 settings, graces 1 and 2, 1 soft reset, 2 restarts, 3 commands, 1 power cut | `TypeOK`, `SettingsAreStored`, `RestartsBounded` |

A run that TLC finds violated by what the code does (see below):

| run | bounds | fails |
|---|---|---|
| `cli` (`OtaUpdate_cli`) | chunks of 224, 3 of them, buffer 512 as in the code, no faults | `LosslessUpdateBoots` |

Why the bounds are enough.

- `room`, `line`. Two seqs per life let an older copy follow a newer frame, the only
  thing a memory of one seq can get wrong; three nodes are enough for two relayers to
  race; five in a chain put the last one exactly at `MAX_HOPS + 1` transmissions. Two
  frames in flight need two slots at most on a chain, so three slots never drop one, as
  eight do at 10 Hz in the field.
- `follow`, `lock`. Time modulo 4 with a time-out of 1 has every case: fresh, at the
  limit, past it, wrapped, and one unit in the future. The two masters are
  interchangeable (symmetry), as are the two slaves of the room. `follow` has one medium
  and no pauses, since `EventuallyFollows` is not true of a master that pauses (see
  below); `HostAgrees` is proved for every medium and for pauses. `lock` has a layer the
  slave does not subscribe to and no late copies, `gaps` the reverse.
- `gaps`. `seq` modulo 4 with a maximal gap of 1 and copies one late has a gap of 0, 1,
  past the maximum, that of a duplicate (3) and that of a late copy (2), and wraps; a
  master with a grace of 0 is left at once, so that switches abound. Here too the
  masters are interchangeable.
- `tables`. Two slaves and two slots let one be dropped from the first slot
  while the other sits in the second, which is when a search could go wrong; a node may
  be fresh, missing, or gone, and time wraps past every one of them. There is one
  master, since the slots of `senderTable` are searched and freed as those of
  `receiverTable` are. A node with the role of master is one of legacy that has entered
  sender mode, as far as this module goes, so that two roles are enough.
- `usb`. A queue of three holds a frame and a half, so that it fills inside a frame of
  any of the three tasks and between a failed write and its put-back; a drop time of 0
  lets a stall last from one unit to the next and be dropped in it.
- `ota`. Four chunks have a first, two in the middle that can be glued, repeated or
  swapped for one another, and a short last one. The buffer of 300 is smaller than
  the code's 512 so that two frames overflow it, as five do in the code; chunks of 100
  make frames that fit in 255 bytes, chunks of 224 do not. Five faults lose a whole
  frame and an answer, or cut the power in the middle of a repeated chunk. A
  misheard size is one less or one more than the image, the image itself, or another
  chunk more.
- `clock`, `agree`. The later node catches up by one direct set, or by slews across the
  carry between the two words, with a reset at any point of either. Two torn reads are
  what it takes to beat the guard once, in `clock`; `agree` has one, which the guard must
  reject, since a mesh that is stranded agrees on a time that is wrong.
- `store`. One setting of each order of calls; three commands let all three tasks
  hold the object open at once, two restarts with one cut end a full round of the
  escalation and begin another.

Deadlock checking is off in the runs of `MeshRelay` and `OtaUpdate` only, where the
system may stop: a master has sent all the bound allows, a host has ended its
update. In the others something is always possible.

### Where code and document part

`cli`. `handleSysExMessage` takes its length as `uint8_t` (`sysex.cpp:113`), and
`midi.cpp:184` hands it a `size_t`. `tools/nowde-cli.py:272` sends chunks of 224 bytes,
"7-bit encoded -> 256 bytes, the firmware buffer"; the frame has 260, its length
arrives as 4, and the byte found there is not `F7`. Every full chunk is dropped without
a word and `OTA_END` finds a size mismatch, where `docs/PROTOCOL.md:41` admits decoded
chunks up to 256 bytes. `ota` shows that shorter frames do boot (`ShortFramesBoot`).

The modules contain more of what the code does and a document does not say. No run has a
property for these; the properties are stated around them, and the hazards name the lines.

- A pin may be lost. `originAccepts` looks at `valid` and `pinned` and copies the MAC
  later (`nowde_state.cpp:157` and 175). `MIDI_Task` may serve `SET_ORIGIN` in between,
  and the callback then writes its own master over the pinned one; the lock stays pinned,
  to a master the host did not name, where `docs/PROTOCOL.md:49` has the command hold the
  lock "through any silence". `PinHolds` and `FollowsOneMaster` say what remains true:
  only the callback in progress can do this, once, and the host's next word mends it.
- `syncGaps` counts more than frames "this slave never received" (`nowde_config.h:278`).
  A late copy of frame 4 after frame 5 sets `lastSeq` back (`receiver_mode.cpp:98`), and 6
  is charged with 5, which was received. A master that serves two layers numbers the frames
  of both with one counter, and a slave drops those of the other layer before it looks at
  `seq` (`receiver_mode.cpp:74`): it is charged for each of them. `GapsAreReal` says what
  the counter does count, exactly: the frames the master sent, on whatever layer, between
  the frame counted last and this one. It exempts a gap charged against a master that had
  restarted with its old `seq` about to wrap, and one against a `lastSeq` set after
  `SET_ORIGIN` by a frame let in before it.
- The first contact with a paused master says nothing. The comment at
  `receiver_mode.cpp:133` has a node tell its host once, on "first packet since boot",
  that the master is stopped. The condition also asks for index 0; a paused master keeps
  its index (`docs/HPLAYER2.md:65-69`, although line 81 says that paused "reads as index
  0"). The host of a node that restarts in a pause is told CC#100 = index and goes on
  playing, through a later real stop too. `HostAgrees` claims nothing of a node that has
  said neither Start nor Stop since it started (`told`).
- A policy set late is not applied. `docs/PROTOCOL.md:48` has `SET_LOSS_POLICY` applied
  "live". The policy is looked at only in the pass that finds the link lost
  (`main.cpp:239-244`): a slave told to stop after its master has gone plays on.
  `PlaybackEndsInSilence` supposes the policy throughout.
- A link may be lost for a moment. `now` is read at the top of a pass (`main.cpp:200`) and
  `lastSyncTime` subtracted later (`main.cpp:240`); a callback in between makes the
  difference wrap. `HostAgrees` still holds; `EventuallyFollows` claims less under the
  stop policy for it.
- A stop of a lost link may run into a callback (`collided`): node and host may then
  disagree until the master's next transition. `HostAgrees` and `EventuallyFollows` exempt
  such a node.
- The guard against torn offsets is not airtight. `ESPNowMeshClock.cpp:316` says of one
  "Guard it". The guard takes two reads that agree; a callback that `MIDI_Task` holds up
  between its two stores is read torn twice in a row, and the two agree. `NeverAhead` says
  that it takes just that, or a fifth read that is torn and agrees with none before it,
  and what it costs.
- A master may go unheard of. Masters report to the masters they know, so a master has
  another one in both tables. `SET_ROLE` slave deletes the peers of all receivers
  (`nowde_state.cpp:201`), that one's too, but keeps its `senderTable` entry, and a beacon
  adds a peer for a new entry only: the node never reports to it again, where
  `docs/PROTOCOL.md:89` has "slave → each known master". `EntriesHavePeers` is stated for
  nodes heard in one capacity for that reason, and in `tables` nobody is heard in both.
- In `room` an older copy heard after a newer frame is put on the air again, where
  `docs/PROTOCOL.md:136` excludes a packet that "has already been forwarded".
- Two lost packets that take the tail of one blind chunk and the head of the next:
  the two are glued, the bytes that are counted may still be right, and a wrong image
  passes the size check. `ImageIsWhole` claims one lost packet for the blind host. An
  `OTA_BEGIN` that lost the packet with its size, and a chunk written twice, can make up
  for one another in an acknowledged update too; so can the end of one attempt
  and the begin of the next, when both lose packets. `ImageIsWhole` and
  `GarbageIsCaught` are stated for a size that was heard right.
- OTA is "Sender only" in `docs/PROTOCOL.md:40`; no command looks at the role.
- A put that finds the `Preferences` object closed in `store`: the setting is in
  force until the next restart and then gone.

### Fairness

`MeshRelay`: the WiFi task runs every callback it has queued, and
`processPendingRelays` is called every 10 ms whatever the role; minting and
restarting are never owed. `MediaSlave`: a callback that has begun goes on (the
task is not starved: it has the second-highest priority of its core),
`ESPNOW_Task` loops for ever, time passes. Hearing a frame is never owed:
`EventuallyFollows` supposes it in its premise. `PeerTables`: the same, and
strong fairness of `Tick` and `sendReceiverInfo`: time passes however often the
WiFi task is busy when it does, and the report comes due every second
(`nextReceiverBeacon`, whose wrap every 49 days is left out).
`MastersAreTold` supposes that the clean-up is not overtaken by a beacon in
every pass, a window of a few microseconds (`Overtaken`).

`OtaUpdate`: the host's tool goes on sending, listening and timing out, and
`MIDI_Task` answers; losses and failures are bounded, so that `AckedUpdateBoots`
speaks of what follows the last of them. `MeshClock`: a callback that has begun goes
on (strong fairness, since the bound on torn reads may put a store off for a while),
`ESPNOW_Task` loops and broadcasts, and each node is heard again and again
without delay (strong fairness of `Hear` with no lag): a node that hears another only
late is never brought to its time. `UsbOut` and `NodeStore` state safety only: a host
need not read, and a command need not end.

## Proofs

`MeshRelayProofs` proves, for every set of nodes, topology, table size and
bound (`RelayAssumption`):

- `TypeCorrect`: `Spec => []TypeOK`;
- `CopiesStayGenuine`: `Spec => []CopiesAreGenuine`;
- `NoDuplicateForwards`: `Spec => []NoDuplicatePending`.

The last two share one inductive invariant `IInv`: `CopiesAreGenuine`,
`NoDuplicatePending` and `DirectFirst`. The dedup memory cannot carry the
second one, since it forgets: what does is that a direct frame comes before
every relayed copy of it on each queue, and that a node holds no forward of it
yet (`DirectFirst`), because no copy exists before the mint and queues are FIFO;
a relayed copy cancels the pending forward before it may schedule a new one.
`CopiesAreGenuine` says that the seq just minted is on no copy of the origin's
present life, and that of the past none is in flight.

`PeerTablesProofs` proves, for every set of nodes, table size, clock width and
time-out (`PeerTablesAssumption`: time-outs in the order the code has them, all
shorter than the clock by two units):

- `TypeCorrect`: `Spec => []TypeOK`;
- `NobodyListedTwice`: `Spec => []ListedOnce`;
- `ListedAreReachable`: `Spec => []EntriesHavePeers`;
- `ListsKeepToTimeouts`: `Spec => []ListsAreRecent`.

`EntriesHavePeers` is inductive only with `ListedOnce` (`IInv`): deleting the
peer of one entry leaves every other its own because no other has that MAC.
That each MAC is looked for in all the slots before a free one is taken
makes `ListedOnce` inductive by itself (`BeaconEffect`, `ReportEffect`); what the
clean-up does on the other core only takes entries away (`OthersKeep`).

`ListsAreRecent` needs more (`RecentInv`). An entry past its time-out stays for
as long as the pass that saw it in time, and the next one, have not reached its
slot: `WithinLimit` says for each number of units past the limit what is left of
the pass, `ReceiverAhead` and `SenderAhead` where the pass is, `PassIsRecent` that
its reading of `millis()` is at most one unit old, and `SendersHaveReceivers`
that a node with receivers is in sender mode, without which no pass looks at
them. That an entry's age in the modular clock is the time since its node was heard
is part of the invariant, as no wrap comes before the clean-up does.

`OriginLockProofs` proves, for every set of masters and layers, widths of clock and seq,
grace, cap and lateness (`OriginLockAssumption`), with commands at any point of a callback:

- `TypeCorrect`: `Spec => []TypeOK`;
- `PinsHold`: `Spec => []PinHolds`;
- `FollowsOne`: `Spec => FollowsOneMaster`: `OriginLock` implements `FollowOneMaster`;
- `GapsCountFrames`: `Spec => GapsAreReal`.

The lock rests on `LInv`. `ReadsHold`: in a callback during which no host has spoken, what
it has read of the lock still holds when it acts on it. `HostObeyed`: a pinned lock is one
the host asked for, on the MAC it named, but for the halves the callback in hand is
writing over it. `QuietIsElapsed`: the silence counted
in the modular clock is the real one. Each step then is one step of a follower of one
master, or a stutter.

The gaps rest on `GInv`. `InStep`: `lastSeq` is the seq of `counted`'s frame `since`
frames ago, modulo the span, as long as that many have been counted and the master has not
restarted; `InHand`: the frame in the callback is `behind` frames old; `RebornSeq`: how far
a restarted master can have come. A late copy then has a gap of nearly a whole span, which
is past the cap (this is why `OriginLockAssumption` asks for a span wider than the cap and
the lateness together). That a callback outlives at most one increment of `millis()`
(`Prompt`) is part of the types.

`MediaSlaveProofs` proves, for every set of frames, clock width, time-out and policies:

- `TypeCorrect`: `Spec => []TypeOK`;
- `HostAndNodeAgree`: `Spec => []HostAgrees`.

`HInv` says what the host knows at each cut of a callback: decided on the state it found
(`Decided`), stored and not yet told (`Stored`, `IndexTold`), and that the stop of a
lost link does not run at the same time (`Alone`), without which the property is not
claimed.

`UsbOutProofs` proves, for every queue, FIFO, frame length and drop time:

- `TypeCorrect`: `Spec => []TypeOK`, the bound of the queue included;
- `StaleIsDropped`: `Spec => []NoGhostStream`;
- `FramesStayWhole`: `Spec => []LockedFramesContiguous`.

The time packets have waited is bounded by what the pump knows of the stall
(`WaitedByStall`): a stall is timed from its first failed write and no sender can
reset it, only a packet that gets through.

For the frames, `FInv` adds that a task in the middle of a frame whose last packet was
queued has the lock, and that the last framed packet of the line, queued, held or
already sent, is that one or the mark of a drop (`MidFrame`). What the pump does to
the line is then one of three things: nothing (a packet taken, or put back), one
packet for the first two (a packet written), or a cut (`Shortens`); none brings
together two packets that were not neighbours, and a cut counts as no predecessor.

`NodeStoreProofs` proves, for every set of settings, values, defaults, grace and bound:

- `TypeCorrect`: `Spec => []TypeOK`, from the shape of every job (`JobType`);
- `RestartsAreBounded`: `Spec => []RestartsBounded`;
- `StoredAsInForce`: `Spec => []SettingsAreStored`.

The restarts so far are bounded by the count in RAM and by the one stored, each with
the saves that were lost (`Bounded`), and a count on its way to NVS says which of the
two is ahead (`CountSaved`). For the settings, RAM and NVS differ only between two
steps of a job on that setting (`InForce`, `Halfway`), which knows what it has
assigned or stored (`RoleAssigned`, `PutBeforeAssigned`). A layer may be set by two tasks
at once: it is stored as it is in force, not as it was asked for, and this is why the
second writer repairs the first.

`OtaUpdateProofs` proves, for every image, all sizes of chunks and any number of faults
(`OtaUpdateAssumption`: an acknowledged chunk has at most 100 bytes, as `sysex.cpp:296`
has it, the last chunk is no longer than the others, the buffer holds every message whose
length fits in a byte):

- `TypeCorrect`: `Spec => []TypeOK`;
- `SessionsInStep`: `Spec => []SessionInStep`;
- `AckedChunksWritten`: `Spec => []AckedIsWritten`;
- `WholeImageBoots`: `Spec => ImageIsWhole`;
- `ShortFramesBootImage`: `Spec => []ShortFramesBoot`.

The acknowledged update rests on `AckedInv`. The hard part is what an earlier attempt
leaves behind: a message in the buffer, answers on the way. A session begins with no
answer on its way (`BeginsAfresh`); an old message may still be answered as a later chunk
than the one being sent, but the host then has no other answer in front of it
(`AcksInTurn`). So what the host is told of is the last chunk written (`HostFollows`), and
it goes on from there. That the size check then lets nothing but the image pass is counting:
chunks are there in order but for repetitions (`InOrder`), and each repetition makes the
bytes received more than those of the chunks so far (`Counted`), so that the count of a
flash that ends in the last chunk is the size of the image only where it is the image.

The blind update has no order to count on. `BlindInv` says that with one fault the bytes
received are at most those sent, and fewer as soon as one chunk is missing or short; that a
frame cannot go on from another one takes a second lost packet (`BlindMessage`).
`LosslessInv` follows an update without faults from phase to phase: what the session holds
is what was sent.

`MeshClockProofs` proves, for any nodes, timers, lags, slew and width of a word
(`MeshClockAssumption`: `Near`, the second within which two reads agree, is no more than a
word holds):

- `TypeCorrect`: `Spec => []TypeOK`;
- `NoStampIsAhead`: `Spec => []NeverAhead`, with no bound on what overlaps.

`ClockInv` has three parts. `AirReached`: what is in the air has been reached, within the
slack of early frames and stranding stamps so far. `OffsetReached`: so has what a node
shows, or is about to show, and where one word is stored and the other not, each stored
word is no greater than that of the new offset; a reset that overlaps only makes words
smaller. `ReadSafe` is about the repeated read: the high word alone is never past an offset
that was reached (`HighReached`); two words without a tear are a value the offset has had
(`Whole`); and after such a read the low word goes with an offset that was reached and is
no less than what was read (`After`), so that a mixture of the new high word and
the old low one is not within `Near` of it. What is left is the case that `strands` counts.

Only model-checked:

- liveness (`FloodDiesOut`, `ChainIsCovered`, `EventuallyFollows`, `SilenceIsNoticed`,
  `PlaybackEndsInSilence`, `HeardIsShown`, `MastersAreTold`, `AckedUpdateBoots`,
  `NodesAgree`), which is out of the prover's reach, as is `ENABLED`;
- `GarbageIsCaught`, which holds within the faults and lengths of the run and is no theorem
  of every instance;
- `LosslessUpdateBoots`, which is false.

## Not modelled

- What frames look like on the wire, the lengths that tell generations apart,
  logging with its ring, the contents of replies and reports, the UI.
- Position, MTC quarter frames, volume: data on a path whose control is
  modelled. The SMPTE conversion of `midi.cpp:20` wraps after 39.77 hours of
  position; no show has one.
- `meshMillisStable`, the read of the mesh clock by `MIDI_Task` and the WiFi task: a
  torn value reaches one position and is corrected by the next frame.
- RF simulation: a bench aid. It delays frames of a legacy master, which the
  environments of `MeshRelay` and `MediaSlave` do already.
- The scripts under `tools/` other than the update.
- A pending relay slot seen half-written by the other core (`mesh_relay.cpp:95`):
  `active` is set before the other fields, so every statement on what is forwarded
  would have to except it.
- The radio's limit of 20 peers: a failed `esp_now_add_peer` is only logged.
- Commands that preempt a callback of `PeerTables`.

## Plan

Done: all modules above, with proofs about all eight components' models.

1. `RelaySlot`: a pending slot at the grain of one field, seen from both cores,
   to say which mixtures can go on the air.
2. `MeshClock` with both ways of reading the offset.
3. `PeerTables` with commands that preempt a callback and a bounded radio.
