------------------------------ MODULE NodeStore ------------------------------
(***************************************************************************)
(* What a node keeps across a restart: the settings of src/src/storage.cpp *)
(* with the commands that change them, the long press that clears them,    *)
(* and the counter with which meshResyncTick (src/src/main.cpp) bounds the *)
(* restarts that repair a stranded mesh clock.                             *)
(*                                                                         *)
(* Three tasks save through one Preferences object, without a lock: begin  *)
(* does nothing when it is open, a put does nothing when it is closed, and *)
(* end closes it for everyone.  Each of these calls is a step.  Copying a  *)
(* layer's characters is one step.  A unit of time is a share of the       *)
(* 15 s and 60 s of meshResyncTick.                                        *)
(***************************************************************************)
EXTENDS Integers, Sequences

CONSTANTS
  Setting,               \* "role", "layer", "lr", "loss", or some of them
  Values,                \* what each may be set to
  Default,               \* what each is when nothing is stored
  MESH_RESYNC_GRACE,
  MESH_REBOOT_GRACE,
  MESH_MAX_SOFT_RESETS,
  MESH_MAX_AUTO_REBOOTS,
  MaxCommands,           \* bound: commands and long presses
  MaxCuts                \* bound: losses of power

ASSUME NodeStoreAssumption ==
  /\ Setting \subseteq {"role", "layer", "lr", "loss"}
  /\ MESH_RESYNC_GRACE \in Nat /\ MESH_REBOOT_GRACE \in Nat
  /\ MESH_MAX_SOFT_RESETS \in Nat /\ MESH_MAX_AUTO_REBOOTS \in Nat
  /\ MaxCommands \in Nat /\ MaxCuts \in Nat

VARIABLES
  ram,          \* storedRole, subscribedLayer, lrEnabled, stopOnLinkLost
  nvs,          \* what is stored of them, or Absent
  count,        \* resyncRebootCount
  nvsCount,     \* its stored copy
  open,         \* is the Preferences object open?
  job,          \* what each task has still to do
  stuck,        \* for how long the node has been coarse, or NotStuck
  acted,        \* since when it has taken no soft reset
  softResets,
  \* history
  missed,       \* settings of which a put found the object closed
  restarts,     \* restarts for the clock since it was last locked or cleared
  lost,         \* counts of them of which the put was missed
  commands, cuts

settings == <<ram, nvs, missed>>
resync == <<stuck, acted, softResets>>
vars == <<ram, nvs, count, nvsCount, open, job, stuck, acted, softResets,
          missed, restarts, lost, commands, cuts>>

Task == {"midi", "wifi", "esp"}
Absent == "absent"
NotStuck == -1
Idle == [key |-> "none", todo |-> <<>>]

\* What an empty layer or an absent key is after a restart.
Loaded(k, v) == IF v = Absent \/ (k = "layer" /\ v = "") THEN Default[k] ELSE v

Init ==
  /\ nvs = [k \in Setting |-> Absent] /\ ram = [k \in Setting |-> Default[k]]
  /\ count = 0 /\ nvsCount = 0
  /\ open = FALSE /\ job = [t \in Task |-> Idle]
  /\ stuck = NotStuck /\ acted = 0 /\ softResets = 0
  /\ missed = {} /\ restarts = 0 /\ lost = 0 /\ commands = 0 /\ cuts = 0

-----------------------------------------------------------------------------
(* What starts a save. *)

Save == <<"begin", "put", "end">>
SaveThenRestart == <<"begin", "put", "end", "restart">>

\* A role and a layer change before they are saved, the rest after.
Steps(k) ==
  CASE k \in {"role", "layer"} -> <<"assign", "begin", "put", "end">>
    [] k = "loss"              -> <<"begin", "put", "end", "assign">>
    [] k = "lr"                -> <<"begin", "put", "end", "assign", "restart">>

\* SET_ROLE, SET_LOCAL_LAYER, SET_LR and SET_LOSS_POLICY come from the host,
\* CHANGE_RECEIVER_LAYER, which may be empty, from the mesh.
Command(t, k, v) ==
  /\ job[t] = Idle /\ commands < MaxCommands
  /\ t = "midi" \/ (t = "wifi" /\ k = "layer")
  /\ v = "" => t = "wifi"
  /\ commands' = commands + 1
  /\ job' = [job EXCEPT ![t] = [key |-> k, value |-> v, todo |-> Steps(k)]]
  /\ UNCHANGED <<settings, count, nvsCount, open, resync, restarts, lost, cuts>>

\* uiTick: the long press.
LongPress ==
  /\ job["esp"] = Idle /\ commands < MaxCommands
  /\ commands' = commands + 1
  /\ job' = [job EXCEPT !["esp"] = [key |-> "clear", todo |-> SaveThenRestart]]
  /\ UNCHANGED <<settings, count, nvsCount, open, resync, restarts, lost, cuts>>

Quality == {"none", "coarse", "locked"}

SaveCount(n, todo) == [key |-> "count", value |-> n, todo |-> todo]

\* Seeded fault: a node that follows nobody counts as locked.
ReArmsWhenIdle(q) == q # "coarse"

\* Only a real lock re-arms the restarts.
ReArms(q) == q = "locked"

\* meshResyncTick of a node that is not coarse.
NotCoarse(q) ==
  /\ q # "coarse"
  /\ stuck' = NotStuck /\ acted' = 0 /\ softResets' = 0
  /\ IF ReArms(q) /\ count # 0
       THEN /\ count' = 0 /\ job' = [job EXCEPT !["esp"] = SaveCount(0, Save)]
       ELSE UNCHANGED <<count, job>>
  /\ restarts' = IF q = "locked" THEN 0 ELSE restarts
  /\ lost' = IF q = "locked" THEN 0 ELSE lost

\* Seeded fault: one restart too many.
OneMoreRestart == count <= MESH_MAX_AUTO_REBOOTS

MayRestart == count < MESH_MAX_AUTO_REBOOTS

Older(age, limit) == IF age < limit THEN age + 1 ELSE limit

\* Of one that is: soft resets, then a restart, so many times.
Coarse ==
  /\ stuck' = IF stuck = NotStuck THEN 0 ELSE Older(stuck, MESH_REBOOT_GRACE)
  /\ LET idle == IF stuck = NotStuck THEN 0 ELSE Older(acted, MESH_RESYNC_GRACE)
         soft == softResets < MESH_MAX_SOFT_RESETS
         act == soft /\ idle >= MESH_RESYNC_GRACE
     IN  /\ softResets' = IF act THEN softResets + 1 ELSE softResets
         /\ acted' = IF act THEN 0 ELSE idle
         /\ job' = IF ~soft /\ stuck' >= MESH_REBOOT_GRACE /\ MayRestart
                     THEN [job EXCEPT !["esp"] = SaveCount(count + 1, SaveThenRestart)]
                     ELSE job
  /\ UNCHANGED <<count, restarts, lost>>

meshResyncTick ==
  /\ job["esp"] = Idle
  /\ Coarse \/ \E q \in Quality : NotCoarse(q)
  /\ UNCHANGED <<settings, nvsCount, open, commands, cuts>>

-----------------------------------------------------------------------------
(* The steps of a save. *)

Doing(t, step) == job[t].todo # <<>> /\ Head(job[t].todo) = step

\* A task whose last step this is has nothing left to do.
Done(t) ==
  IF Len(job[t].todo) = 1 THEN [job EXCEPT ![t] = Idle]
  ELSE [job EXCEPT ![t].todo = Tail(@)]

Assign(t) ==
  /\ Doing(t, "assign")
  /\ ram' = [ram EXCEPT ![job[t].key] = job[t].value]
  /\ job' = Done(t)
  /\ UNCHANGED <<nvs, missed, count, nvsCount, open, resync, restarts, lost, commands, cuts>>

Begin(t) ==
  /\ Doing(t, "begin")
  /\ open' = TRUE /\ job' = Done(t)
  /\ UNCHANGED <<settings, count, nvsCount, resync, restarts, lost, commands, cuts>>

\* Seeded fault: the layer that was asked for is saved, not the one in force.
PutAsked(t) == job[t].value

\* A layer is read from subscribedLayer when it is put.
PutValue(t) == IF job[t].key = "layer" THEN ram["layer"] ELSE job[t].value

PutSetting(t) ==
  /\ job[t].key \in Setting
  /\ nvs' = IF open THEN [nvs EXCEPT ![job[t].key] = PutValue(t)] ELSE nvs
  /\ missed' = IF open THEN missed \ {job[t].key} ELSE missed \union {job[t].key}
  /\ UNCHANGED <<nvsCount, restarts, lost>>

PutCount(t) ==
  /\ job[t].key = "count"
  /\ nvsCount' = IF open THEN job[t].value ELSE nvsCount
  /\ lost' = IF open \/ job[t].value = 0 THEN lost ELSE lost + 1
  /\ UNCHANGED <<nvs, missed, restarts>>

\* clearEEPROM: all keys are gone, and the node restarts with none.
PutNothing(t) ==
  /\ job[t].key = "clear"
  /\ IF open
       THEN /\ nvs' = [k \in Setting |-> Absent] /\ nvsCount' = 0
            /\ missed' = Setting /\ restarts' = 0 /\ lost' = 0
       ELSE UNCHANGED <<nvs, nvsCount, missed, restarts, lost>>

Put(t) ==
  /\ Doing(t, "put")
  /\ PutSetting(t) \/ PutCount(t) \/ PutNothing(t)
  /\ job' = Done(t)
  /\ UNCHANGED <<ram, count, open, resync, commands, cuts>>

End(t) ==
  /\ Doing(t, "end")
  /\ open' = FALSE /\ job' = Done(t)
  /\ UNCHANGED <<settings, count, nvsCount, resync, restarts, lost, commands, cuts>>

\* setup: everything is loaded again.
Boot ==
  /\ ram' = [k \in Setting |-> Loaded(k, nvs[k])] /\ count' = nvsCount
  /\ open' = FALSE /\ job' = [t \in Task |-> Idle]
  /\ stuck' = NotStuck /\ acted' = 0 /\ softResets' = 0
  /\ missed' = {} /\ UNCHANGED <<nvs, nvsCount, commands>>

Restart(t) ==
  /\ Doing(t, "restart") /\ Boot
  /\ restarts' = IF job[t].key = "count" THEN restarts + 1 ELSE restarts
  /\ UNCHANGED <<lost, cuts>>

PowerCut ==
  /\ cuts < MaxCuts /\ Boot
  /\ cuts' = cuts + 1
  /\ UNCHANGED <<restarts, lost>>

Next ==
  \/ \E t \in Task :
       \/ \E k \in Setting : \E v \in Values[k] : Command(t, k, v)
       \/ Assign(t) \/ Begin(t) \/ Put(t) \/ End(t) \/ Restart(t)
  \/ LongPress \/ meshResyncTick \/ PowerCut

Spec == Init /\ [][Next]_vars

-----------------------------------------------------------------------------
(* Properties. *)

Step == {"assign", "begin", "put", "end", "restart"}

\* The types of the settings, the counter and the jobs.
TypeOK ==
  /\ \A k \in Setting : /\ ram[k] \in Values[k] \union {Default[k]}
                         /\ nvs[k] \in Values[k] \union {Default[k], Absent}
  /\ count \in 0 .. MESH_MAX_AUTO_REBOOTS /\ nvsCount \in 0 .. MESH_MAX_AUTO_REBOOTS
  /\ open \in BOOLEAN
  /\ \A t \in Task : job[t].todo \in Seq(Step)
  /\ stuck \in NotStuck .. MESH_REBOOT_GRACE /\ acted \in 0 .. MESH_RESYNC_GRACE
  /\ softResets \in 0 .. MESH_MAX_SOFT_RESETS
  /\ missed \subseteq Setting /\ restarts \in Nat /\ lost \in Nat
  /\ commands \in 0 .. MaxCommands /\ cuts \in 0 .. MaxCuts

\* storage.cpp: a node whose power is cut when no command on a setting is
\* being served comes back with the setting in force, in whatever order the
\* commands of host and mesh overlapped, unless a put found the object shared
\* by the tasks closed by another's end.
SettingsAreStored ==
  \A k \in Setting \ missed :
    (\A t \in Task : job[t].key # k) => Loaded(k, nvs[k]) = Loaded(k, ram[k])

\* meshResyncTick (main.cpp:151): a mesh that cannot be repaired restarts a
\* node no more often than allowed between two locks, whatever restarts and
\* cuts of power fall between a count and its save; each save of the count
\* that another task's end made void costs at most one more.
RestartsBounded == restarts <= MESH_MAX_AUTO_REBOOTS + lost

=============================================================================
