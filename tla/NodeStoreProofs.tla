--------------------------- MODULE NodeStoreProofs ---------------------------
(***************************************************************************)
(* What NodeStore guarantees for every set of settings, every grace, every *)
(* number of resets and restarts and every number of commands.             *)
(***************************************************************************)
EXTENDS NodeStore, SequenceTheorems, TLAPS

Todo == Seq(Step) \ {<<>>}

\* What is left of a save of zero, and of a save before a restart.
ZeroTodo == {<<"begin", "put", "end">>, <<"put", "end">>, <<"end">>}
RestartTodo == {<<"begin", "put", "end", "restart">>, <<"put", "end", "restart">>,
                <<"end", "restart">>, <<"restart">>}

SettingJobOf(k) == [key : {k}, value : Values[k], todo : Todo]
SettingJob == UNION {SettingJobOf(k) : k \in Setting}
ClearJob == [key : {"clear"}, todo : Todo]
CountJob == [key : {"count"}, value : 0 .. MESH_MAX_AUTO_REBOOTS,
             todo : ZeroTodo \union RestartTodo]
SomeJob == {Idle} \union SettingJob \union ClearJob \union CountJob

\* Only espnowTask clears, and only it saves the count.
JobType ==
  /\ job \in [Task -> SomeJob]
  /\ \A t \in Task \ {"esp"} : job[t] \in {Idle} \union SettingJob

Domains == DOMAIN ram = Setting /\ DOMAIN nvs = Setting

TInv == TypeOK /\ JobType /\ Domains

\* What the count being saved says of the restarts so far.
CountSaved ==
  job["esp"].key = "count" =>
    /\ job["esp"].value = 0 => restarts = 0 /\ job["esp"].todo \in ZeroTodo
    /\ job["esp"].value > 0 =>
         /\ job["esp"].todo \in RestartTodo
         /\ IF Head(job["esp"].todo) \in {"begin", "put"}
              THEN job["esp"].value = count + 1
              ELSE restarts + 1 <= nvsCount + lost

Bounded == restarts <= count + lost /\ restarts <= nvsCount + lost

IInv == TInv /\ CountSaved /\ Bounded

-----------------------------------------------------------------------------
(* Jobs and what is left of them. *)

LEMMA Tails ==
  ASSUME NEW S, NEW s \in Seq(S), s # <<>>, Len(s) # 1
  PROVE  Tail(s) \in Seq(S) \ {<<>>}
<1>1. Tail(s) \in Seq(S) /\ Len(Tail(s)) = Len(s) - 1
  BY HeadTailProperties
<1>2. Len(s) \in Nat \ {0}
  BY EmptySeq
<1>3. Len(Tail(s)) # 0
  BY <1>1, <1>2
<1>4. Len(<<>>) = 0
  OBVIOUS
<1>5. Tail(s) # <<>>
  <2>. SUFFICES ASSUME Tail(s) = <<>> PROVE FALSE
    OBVIOUS
  <2>1. Len(Tail(s)) = Len(<<>>)
    OBVIOUS
  <2>. QED
    BY <2>1, <1>3, <1>4
<1>. QED
  BY <1>1, <1>5

\* Of a save of the count the rest is one too.
LEMMA CountTails ==
  /\ \A s \in ZeroTodo : Len(s) # 1 => Tail(s) \in ZeroTodo
  /\ \A s \in RestartTodo : Len(s) # 1 => Tail(s) \in RestartTodo
<1>1. /\ Tail(<<"begin", "put", "end">>) = <<"put", "end">>
      /\ Tail(<<"put", "end">>) = <<"end">> /\ Len(<<"end">>) = 1
  OBVIOUS
<1>2. /\ Tail(<<"begin", "put", "end", "restart">>) = <<"put", "end", "restart">>
      /\ Tail(<<"put", "end", "restart">>) = <<"end", "restart">>
      /\ Tail(<<"end", "restart">>) = <<"restart">> /\ Len(<<"restart">>) = 1
  OBVIOUS
<1>. QED
  BY <1>1, <1>2, Zenon DEF ZeroTodo, RestartTodo

\* The steps of such a save, by what it begins with.
LEMMA CountHeads ==
  /\ \A s \in ZeroTodo : Head(s) # "restart"
  /\ \A s \in RestartTodo :
       /\ Head(s) = "begin" => Head(Tail(s)) = "put" /\ Len(s) # 1
       /\ Head(s) = "put" => Head(Tail(s)) = "end" /\ Len(s) # 1
       /\ Head(s) = "end" => Head(Tail(s)) = "restart" /\ Len(s) # 1
       /\ Head(s) \in {"begin", "put", "end", "restart"}
<1>1. Head(<<"begin", "put", "end">>) = "begin" /\ Head(<<"put", "end">>) = "put"
  OBVIOUS
<1>2. Head(<<"end">>) = "end" /\ Head(<<"restart">>) = "restart"
  OBVIOUS
<1>3. /\ Head(<<"begin", "put", "end", "restart">>) = "begin"
      /\ Head(<<"put", "end", "restart">>) = "put"
      /\ Head(<<"end", "restart">>) = "end"
  OBVIOUS
<1>4. /\ Head(Tail(<<"begin", "put", "end", "restart">>)) = "put"
      /\ Head(Tail(<<"put", "end", "restart">>)) = "end"
      /\ Head(Tail(<<"end", "restart">>)) = "restart"
  OBVIOUS
<1>5. /\ Len(<<"begin", "put", "end", "restart">>) # 1
      /\ Len(<<"put", "end", "restart">>) # 1 /\ Len(<<"end", "restart">>) # 1
  OBVIOUS
<1>6. "begin" # "put" /\ "begin" # "end" /\ "put" # "end" /\ "restart" # "begin"
      /\ "restart" # "put" /\ "restart" # "end"
  OBVIOUS
<1>7. \A s \in ZeroTodo : Head(s) # "restart"
  BY <1>1, <1>2, <1>6, Zenon DEF ZeroTodo
<1>8. ASSUME NEW s \in RestartTodo
      PROVE  /\ Head(s) = "begin" => Head(Tail(s)) = "put" /\ Len(s) # 1
             /\ Head(s) = "put" => Head(Tail(s)) = "end" /\ Len(s) # 1
             /\ Head(s) = "end" => Head(Tail(s)) = "restart" /\ Len(s) # 1
             /\ Head(s) \in {"begin", "put", "end", "restart"}
  <2>1. CASE s = <<"begin", "put", "end", "restart">>
    BY <2>1, <1>3, <1>4, <1>5, <1>6, Zenon
  <2>2. CASE s = <<"put", "end", "restart">>
    BY <2>2, <1>3, <1>4, <1>5, <1>6, Zenon
  <2>3. CASE s = <<"end", "restart">>
    BY <2>3, <1>3, <1>4, <1>5, <1>6, Zenon
  <2>4. CASE s = <<"restart">>
    BY <2>4, <1>2, <1>6, Zenon
  <2>. QED
    BY <2>1, <2>2, <2>3, <2>4, Zenon DEF RestartTodo
<1>. QED
  BY <1>7, <1>8, Zenon

LEMMA NonEmptyTodo ==
  /\ ZeroTodo \union RestartTodo \subseteq Todo
  /\ Save \in ZeroTodo /\ SaveThenRestart \in RestartTodo
  /\ Head(SaveThenRestart) = "begin"
  /\ \A k \in Setting : Steps(k) \in Todo
<1>1. <<"begin", "put", "end">> \in Todo /\ <<"put", "end">> \in Todo /\ <<"end">> \in Todo
  BY DEF Todo, Step
<1>2. /\ <<"begin", "put", "end", "restart">> \in Todo
      /\ <<"put", "end", "restart">> \in Todo
      /\ <<"end", "restart">> \in Todo /\ <<"restart">> \in Todo
  BY DEF Todo, Step
<1>3. /\ <<"assign", "begin", "put", "end">> \in Todo
      /\ <<"begin", "put", "end", "assign">> \in Todo
      /\ <<"begin", "put", "end", "assign", "restart">> \in Todo
  BY DEF Todo, Step
<1>4. \A k \in Setting : Steps(k) \in Todo
  BY <1>3, NodeStoreAssumption DEF Steps
<1>5. Head(SaveThenRestart) = "begin"
  BY DEF SaveThenRestart
<1>6. ZeroTodo \subseteq Todo
  BY <1>1, Zenon DEF ZeroTodo
<1>7. RestartTodo \subseteq Todo
  BY <1>2, Zenon DEF RestartTodo
<1>8. Save \in ZeroTodo /\ SaveThenRestart \in RestartTodo
  BY Zenon DEF Save, SaveThenRestart, ZeroTodo, RestartTodo
<1>. QED
  BY <1>4, <1>5, <1>6, <1>7, <1>8

LEMMA JobKeys ==
  /\ \A j \in SettingJob : j.key \in Setting /\ j.todo \in Todo /\ j.value \in Values[j.key]
  /\ \A j \in ClearJob : j.key = "clear" /\ j.todo \in Todo
  /\ \A j \in CountJob : /\ j.key = "count" /\ j.todo \in ZeroTodo \union RestartTodo
                         /\ j.value \in 0 .. MESH_MAX_AUTO_REBOOTS
  /\ Idle.key = "none" /\ Idle.todo = <<>>
  /\ "count" \notin Setting /\ "clear" \notin Setting /\ "none" \notin Setting
<1>1. ASSUME NEW j \in SettingJob
      PROVE  j.key \in Setting /\ j.todo \in Todo /\ j.value \in Values[j.key]
  <2>1. PICK k \in Setting : j \in SettingJobOf(k)
    BY DEF SettingJob
  <2>. QED
    BY <2>1 DEF SettingJobOf
<1>2. Idle.key = "none" /\ Idle.todo = <<>>
  BY DEF Idle
<1>3. "count" \notin Setting /\ "clear" \notin Setting /\ "none" \notin Setting
  BY NodeStoreAssumption
<1>4. \A j \in ClearJob : j.key = "clear" /\ j.todo \in Todo
  BY DEF ClearJob
<1>5. \A j \in CountJob : /\ j.key = "count" /\ j.todo \in ZeroTodo \union RestartTodo
                          /\ j.value \in 0 .. MESH_MAX_AUTO_REBOOTS
  BY DEF CountJob
<1>. QED
  BY <1>1, <1>2, <1>3, <1>4, <1>5

\* A job one step on, of the same kind.
LEMMA OneStepOn ==
  ASSUME NEW j \in SomeJob, j.todo # <<>>, Len(j.todo) # 1
  PROVE  /\ [j EXCEPT !.todo = Tail(@)] \in SomeJob
         /\ j \in SettingJob => [j EXCEPT !.todo = Tail(@)] \in SettingJob
         /\ [j EXCEPT !.todo = Tail(@)].todo = Tail(j.todo)
         /\ [j EXCEPT !.todo = Tail(@)].key = j.key
         /\ j.key # "clear" => [j EXCEPT !.todo = Tail(@)].value = j.value
<1>. DEFINE next == [j EXCEPT !.todo = Tail(@)]
<1>1. CASE j \in SettingJob
  <2>1. PICK k \in Setting : j \in SettingJobOf(k)
    BY <1>1 DEF SettingJob
  <2>2. Tail(j.todo) \in Todo
    BY <2>1, Tails DEF SettingJobOf, Todo
  <2>3. /\ next \in SettingJobOf(k) /\ next.todo = Tail(j.todo)
        /\ next.key = j.key /\ next.value = j.value
    BY <2>1, <2>2 DEF SettingJobOf
  <2>4. next \in SettingJob
    BY <2>3, Zenon DEF SettingJob
  <2>. QED
    BY <2>3, <2>4 DEF SomeJob
<1>2. CASE j \in ClearJob
  <2>1. Tail(j.todo) \in Todo
    BY <1>2, Tails DEF ClearJob, Todo
  <2>2. next \in ClearJob /\ next.todo = Tail(j.todo) /\ next.key = j.key
    BY <1>2, <2>1 DEF ClearJob
  <2>3. j.key = "clear" /\ j \notin SettingJob
    BY <1>2, JobKeys
  <2>. QED
    BY <2>2, <2>3 DEF SomeJob
<1>3. CASE j \in CountJob
  <2>1. Tail(j.todo) \in ZeroTodo \union RestartTodo
    BY <1>3, CountTails DEF CountJob
  <2>2. /\ next \in CountJob /\ next.todo = Tail(j.todo)
        /\ next.key = j.key /\ next.value = j.value
    BY <1>3, <2>1 DEF CountJob
  <2>3. j.key = "count" /\ j \notin SettingJob
    BY <1>3, JobKeys
  <2>. QED
    BY <2>2, <2>3 DEF SomeJob
<1>4. j # Idle
  BY JobKeys
<1>. QED
  BY <1>1, <1>2, <1>3, <1>4 DEF SomeJob

\* What TypeOK asks of the jobs.
LEMMA JobSteps ==
  ASSUME NEW jobs \in [Task -> SomeJob]
  PROVE  \A t \in Task : jobs[t].todo \in Seq(Step)
<1>1. \A j \in SomeJob : j.todo \in Seq(Step)
  <2>1. <<>> \in Seq(Step)
    BY EmptySeq
  <2>2. \A s \in Todo : s \in Seq(Step)
    BY DEF Todo
  <2>. QED
    BY <2>1, <2>2, JobKeys, NonEmptyTodo, Zenon DEF SomeJob
<1>. QED
  BY <1>1

\* The counters of commands and cuts stay within their bounds.
LEMMA Bounds ==
  ASSUME NEW max \in Nat, NEW n \in 0 .. max
  PROVE  n < max => n + 1 \in 0 .. max
OBVIOUS

LEMMA OneStepDone ==
  ASSUME JobType, NEW t \in Task, NEW step, Doing(t, step), job' = Done(t)
  PROVE  /\ JobType'
         /\ \A u \in Task \ {t} : job'[u] = job[u]
         /\ job'[t] = Idle \/ /\ job'[t].key = job[t].key
                              /\ Len(job[t].todo) # 1
                              /\ job'[t].todo = Tail(job[t].todo)
                              /\ job[t].key # "clear" => job'[t].value = job[t].value
<1>1. job \in [Task -> SomeJob] /\ job[t] \in SomeJob /\ job[t].todo # <<>>
  BY DEF JobType, Doing
<1>2. job[t] # Idle /\ Idle \in SomeJob
  BY <1>1, JobKeys DEF SomeJob
<1>3. CASE Len(job[t].todo) = 1
  <2>1. job' = [job EXCEPT ![t] = Idle]
    BY <1>3 DEF Done
  <2>. QED
    BY <1>1, <1>2, <2>1 DEF JobType
<1>4. CASE Len(job[t].todo) # 1
  <2>. DEFINE next == [job[t] EXCEPT !.todo = Tail(@)]
  <2>1. job' = [job EXCEPT ![t] = next]
    BY <1>4, <1>1 DEF Done
  <2>2. /\ next \in SomeJob /\ next.todo = Tail(job[t].todo) /\ next.key = job[t].key
        /\ job[t] \in SettingJob => next \in SettingJob
        /\ job[t].key # "clear" => next.value = job[t].value
    BY <1>1, <1>4, OneStepOn
  <2>. HIDE DEF next
  <2>3. job' \in [Task -> SomeJob] /\ job'[t] = next /\ \A u \in Task \ {t} : job'[u] = job[u]
    BY <1>1, <2>1, <2>2
  <2>4. \A u \in Task \ {"esp"} : job'[u] \in {Idle} \union SettingJob
    BY <2>3, <2>2, <1>2 DEF JobType
  <2>. QED
    BY <2>2, <2>3, <2>4, <1>4 DEF JobType
<1>. QED
  BY <1>3, <1>4

-----------------------------------------------------------------------------
(* Type correctness, with the kinds of the jobs. *)

LEMMA InitInv == Init => IInv
<1>. SUFFICES ASSUME Init PROVE IInv
  OBVIOUS
<1>1. JobType
  BY DEF Init, JobType, SomeJob
<1>2. job["esp"].key # "count"
  BY JobKeys DEF Init, Task
<1>3. Domains
  BY DEF Init, Domains
<1>4. TypeOK
  <2>1. \A k \in Setting : /\ ram[k] \in Values[k] \union {Default[k]}
                            /\ nvs[k] \in Values[k] \union {Default[k], Absent}
    BY DEF Init
  <2>2. stuck \in NotStuck .. MESH_REBOOT_GRACE /\ acted \in 0 .. MESH_RESYNC_GRACE
    BY NodeStoreAssumption DEF Init, NotStuck
  <2>3. count \in 0 .. MESH_MAX_AUTO_REBOOTS /\ nvsCount \in 0 .. MESH_MAX_AUTO_REBOOTS
    BY NodeStoreAssumption DEF Init
  <2>4. softResets \in 0 .. MESH_MAX_SOFT_RESETS
    BY NodeStoreAssumption DEF Init
  <2>5. commands \in 0 .. MaxCommands /\ cuts \in 0 .. MaxCuts
    BY NodeStoreAssumption DEF Init
  <2>6. open \in BOOLEAN /\ missed \subseteq Setting /\ restarts \in Nat /\ lost \in Nat
    BY DEF Init
  <2>. QED
    BY <1>1, <2>1, <2>2, <2>3, <2>4, <2>5, <2>6, JobSteps DEF TypeOK, JobType
<1>5. Bounded
  BY DEF Init, Bounded
<1>. QED
  BY <1>1, <1>2, <1>3, <1>4, <1>5 DEF IInv, TInv, CountSaved

\* A step that leaves espnowTask and the counts alone.
LEMMA CountsAlone ==
  ASSUME CountSaved, Bounded, job'["esp"] = job["esp"],
         UNCHANGED <<count, nvsCount, restarts, lost>>
  PROVE  CountSaved' /\ Bounded'
BY DEF CountSaved, Bounded

\* A step of a save: espnowTask is at another task's, at its own next, or idle.
LEMMA CountGoesOn ==
  ASSUME TInv, CountSaved, NEW t \in Task, NEW step, Doing(t, step), job' = Done(t)
  PROVE  \/ job'["esp"].key # "count"
         \/ /\ job'["esp"].key = "count" /\ job["esp"].key = "count"
            /\ t # "esp" /\ job'["esp"] = job["esp"]
         \/ /\ job'["esp"].key = "count" /\ job["esp"].key = "count"
            /\ t = "esp" /\ job'["esp"].value = job["esp"].value
            /\ Head(job["esp"].todo) = step
            /\ job'["esp"].todo = Tail(job["esp"].todo) /\ Len(job["esp"].todo) # 1
            /\ job["esp"].value = 0 => job'["esp"].todo \in ZeroTodo
            /\ job["esp"].value > 0 => job'["esp"].todo \in RestartTodo
<1>1. "esp" \in Task
  BY DEF Task
<1>2. CASE t # "esp"
  <2>1. job'["esp"] = job["esp"]
    BY <1>1, <1>2, OneStepDone DEF TInv
  <2>. QED
    BY <2>1, <1>2
<1>3. CASE t = "esp"
  <2>1. job'["esp"] = Idle \/ /\ job'["esp"].key = job["esp"].key
                              /\ Len(job["esp"].todo) # 1
                              /\ job'["esp"].todo = Tail(job["esp"].todo)
                              /\ job["esp"].key = "count" =>
                                   job'["esp"].value = job["esp"].value
    BY <1>3, OneStepDone DEF TInv
  <2>2. CASE job'["esp"] = Idle
    BY <2>2, JobKeys
  <2>3. CASE job["esp"].key # "count" /\ job'["esp"].key = job["esp"].key
    BY <2>3
  <2>4. CASE job["esp"].key = "count" /\ job'["esp"] # Idle
    BY <2>1, <2>4, <1>3, CountTails DEF CountSaved, Doing
  <2>. QED
    BY <2>1, <2>2, <2>3, <2>4
<1>. QED
  BY <1>2, <1>3

\* The count being saved is a natural number.
LEMMA CountRange ==
  ASSUME TInv
  PROVE  /\ "esp" \in Task /\ job["esp"] \in SomeJob
         /\ job["esp"].key = "count" => /\ job["esp"] \in CountJob
                                        /\ job["esp"].value \in 0 .. MESH_MAX_AUTO_REBOOTS
         /\ count \in Nat /\ nvsCount \in Nat /\ restarts \in Nat /\ lost \in Nat
<1>1. "esp" \in Task /\ job["esp"] \in SomeJob
  BY DEF TInv, JobType, Task
<1>2. job["esp"].key = "count" => job["esp"] \in CountJob
  BY <1>1, JobKeys DEF SomeJob
<1>3. \A n \in 0 .. MESH_MAX_AUTO_REBOOTS : n \in Nat
  BY NodeStoreAssumption
<1>. QED
  BY <1>1, <1>2, <1>3, JobKeys DEF TInv, TypeOK

LEMMA CommandKeeps ==
  ASSUME IInv, NEW t \in Task, NEW k \in Setting, NEW v \in Values[k], Command(t, k, v)
  PROVE  IInv'
<1>. DEFINE next == [key |-> k, value |-> v, todo |-> Steps(k)]
<1>1. next \in SettingJob
  <2>1. next \in SettingJobOf(k)
    BY NonEmptyTodo DEF SettingJobOf
  <2>. QED
    BY <2>1, Zenon DEF SettingJob
<1>2. t # "esp" /\ job' = [job EXCEPT ![t] = next]
  BY DEF Command
<1>. HIDE DEF next
<1>3. JobType'
  BY <1>1, <1>2 DEF IInv, TInv, JobType, SomeJob
<1>4. job'["esp"] = job["esp"]
  BY <1>2 DEF IInv, TInv, JobType, Task
<1>5. commands' \in 0 .. MaxCommands
  <2>1. commands \in 0 .. MaxCommands /\ MaxCommands \in Nat
    BY NodeStoreAssumption DEF IInv, TInv, TypeOK
  <2>2. commands < MaxCommands /\ commands' = commands + 1
    BY DEF Command
  <2>. QED
    BY <2>1, <2>2, Bounds
<1>6. UNCHANGED <<settings, count, nvsCount, open, resync, restarts, lost, cuts>>
  BY DEF Command
<1>7. \A u \in Task : job'[u].todo \in Seq(Step)
  BY <1>3, JobSteps DEF JobType
<1>8. TypeOK' /\ Domains'
  BY <1>5, <1>6, <1>3, <1>7 DEF IInv, TInv, TypeOK, Domains, settings, resync
<1>. QED
  BY <1>3, <1>4, <1>6, <1>8, CountsAlone DEF IInv, TInv

LEMMA LongPressKeeps ==
  ASSUME IInv, LongPress
  PROVE  IInv'
<1>. DEFINE next == [key |-> "clear", todo |-> SaveThenRestart]
<1>1. next \in ClearJob /\ next.key = "clear"
  BY NonEmptyTodo DEF ClearJob
<1>2. job' = [job EXCEPT !["esp"] = next]
  BY DEF LongPress
<1>. HIDE DEF next
<1>3. JobType'
  BY <1>1, <1>2 DEF IInv, TInv, JobType, SomeJob
<1>4. job'["esp"].key # "count"
  BY <1>1, <1>2 DEF IInv, TInv, JobType, Task
<1>5. commands' \in 0 .. MaxCommands
  <2>1. commands \in 0 .. MaxCommands /\ MaxCommands \in Nat
    BY NodeStoreAssumption DEF IInv, TInv, TypeOK
  <2>2. commands < MaxCommands /\ commands' = commands + 1
    BY DEF LongPress
  <2>. QED
    BY <2>1, <2>2, Bounds
<1>6. UNCHANGED <<settings, count, nvsCount, open, resync, restarts, lost, cuts>>
  BY DEF LongPress
<1>7. \A u \in Task : job'[u].todo \in Seq(Step)
  BY <1>3, JobSteps DEF JobType
<1>8. TypeOK' /\ Domains'
  BY <1>5, <1>6, <1>7 DEF IInv, TInv, TypeOK, Domains, settings, resync
<1>9. Bounded'
  BY <1>6 DEF IInv, Bounded
<1>. QED
  BY <1>3, <1>4, <1>8, <1>9 DEF IInv, TInv, CountSaved

\* A save of the count is a job of espnowTask's.
LEMMA SaveCountJob ==
  ASSUME TInv, NEW n \in 0 .. MESH_MAX_AUTO_REBOOTS, NEW todo \in ZeroTodo \union RestartTodo,
         job' = [job EXCEPT !["esp"] = SaveCount(n, todo)]
  PROVE  /\ JobType'
         /\ job'["esp"].key = "count" /\ job'["esp"].value = n /\ job'["esp"].todo = todo
<1>. DEFINE next == SaveCount(n, todo)
<1>1. next \in CountJob /\ next.key = "count" /\ next.value = n /\ next.todo = todo
  BY DEF CountJob, SaveCount
<1>2. job' = [job EXCEPT !["esp"] = next]
  OBVIOUS
<1>. HIDE DEF next
<1>3. JobType'
  BY <1>1, <1>2 DEF TInv, JobType, SomeJob
<1>4. job'["esp"] = next
  BY <1>2 DEF TInv, JobType, Task
<1>. QED
  BY <1>1, <1>3, <1>4

LEMMA NotCoarseKeeps ==
  ASSUME IInv, NEW q \in Quality, NotCoarse(q), job["esp"] = Idle,
         UNCHANGED <<settings, nvsCount, open, commands, cuts>>
  PROVE  IInv'
<1>1. 0 \in 0 .. MESH_MAX_AUTO_REBOOTS /\ 0 \in Nat
  BY NodeStoreAssumption
<1>2. job["esp"].key # "count"
  BY JobKeys
<1>3. /\ JobType' /\ count' \in 0 .. MESH_MAX_AUTO_REBOOTS
      /\ count' = count \/ count' = 0
      /\ \/ job'["esp"].key # "count"
         \/ q = "locked" /\ job'["esp"].value = 0 /\ job'["esp"].todo \in ZeroTodo
  <2>1. CASE ReArms(q) /\ count # 0
    <3>1. count' = 0 /\ job' = [job EXCEPT !["esp"] = SaveCount(0, Save)]
      BY <2>1 DEF NotCoarse
    <3>. QED
      BY <3>1, <1>1, <2>1, SaveCountJob, NonEmptyTodo DEF IInv, ReArms
  <2>2. CASE ~(ReArms(q) /\ count # 0)
    <3>1. UNCHANGED <<count, job>>
      BY <2>2 DEF NotCoarse
    <3>. QED
      BY <3>1, <1>2 DEF IInv, TInv, TypeOK, JobType
  <2>. QED
    BY <2>1, <2>2
<1>4. /\ restarts' = IF q = "locked" THEN 0 ELSE restarts
      /\ lost' = IF q = "locked" THEN 0 ELSE lost
      /\ stuck' = NotStuck /\ acted' = 0 /\ softResets' = 0
  BY DEF NotCoarse
<1>5. \A u \in Task : job'[u].todo \in Seq(Step)
  BY <1>3, JobSteps DEF JobType
<1>6. /\ stuck' \in NotStuck .. MESH_REBOOT_GRACE /\ acted' \in 0 .. MESH_RESYNC_GRACE
      /\ softResets' \in 0 .. MESH_MAX_SOFT_RESETS
  BY <1>4, NodeStoreAssumption DEF NotStuck
<1>7. restarts' \in Nat /\ lost' \in Nat
  BY <1>4 DEF IInv, TInv, TypeOK
<1>8. TypeOK' /\ Domains'
  BY <1>3, <1>5, <1>6, <1>7 DEF IInv, TInv, TypeOK, Domains, settings
<1>9. Bounded'
  <2>1. CASE q = "locked"
    <3>1. restarts' = 0 /\ lost' = 0 /\ count' \in Nat /\ nvsCount' \in Nat
      BY <2>1, <1>1, <1>3, <1>4, CountRange DEF IInv
    <3>2. \A n \in Nat : 0 <= n + 0
      OBVIOUS
    <3>3. restarts' <= count' + lost' /\ restarts' <= nvsCount' + lost'
      BY <3>1, <3>2
    <3>. QED
      BY <3>3 DEF Bounded
  <2>2. CASE q # "locked"
    <3>1. UNCHANGED <<count, restarts, lost, nvsCount>>
      BY <2>2, <1>4 DEF NotCoarse, ReArms
    <3>. QED
      BY <3>1 DEF IInv, Bounded
  <2>. QED
    BY <2>1, <2>2
<1>10. CountSaved'
  BY <1>3, <1>4 DEF CountSaved
<1>. QED
  BY <1>3, <1>8, <1>9, <1>10 DEF IInv, TInv

LEMMA CoarseKeeps ==
  ASSUME IInv, Coarse, job["esp"] = Idle,
         UNCHANGED <<settings, nvsCount, open, commands, cuts>>
  PROVE  IInv'
<1>. DEFINE idle == IF stuck = NotStuck THEN 0 ELSE Older(acted, MESH_RESYNC_GRACE)
            soft == softResets < MESH_MAX_SOFT_RESETS
            act == soft /\ idle >= MESH_RESYNC_GRACE
            again == ~soft /\ stuck' >= MESH_REBOOT_GRACE /\ MayRestart
<1>1. /\ stuck' = IF stuck = NotStuck THEN 0 ELSE Older(stuck, MESH_REBOOT_GRACE)
      /\ softResets' = IF act THEN softResets + 1 ELSE softResets
      /\ acted' = IF act THEN 0 ELSE idle
      /\ job' = IF again THEN [job EXCEPT !["esp"] = SaveCount(count + 1, SaveThenRestart)]
                ELSE job
      /\ UNCHANGED <<count, restarts, lost>>
  BY DEF Coarse
<1>2. job["esp"].key # "count"
  BY JobKeys
<1>3. /\ JobType'
      /\ \/ job'["esp"].key # "count"
         \/ job'["esp"].value = count + 1 /\ job'["esp"].todo = SaveThenRestart
  <2>1. CASE again
    <3>1. job' = [job EXCEPT !["esp"] = SaveCount(count + 1, SaveThenRestart)]
      BY <1>1, <2>1
    <3>2. count + 1 \in 0 .. MESH_MAX_AUTO_REBOOTS
      BY <2>1, NodeStoreAssumption, Bounds DEF MayRestart, IInv, TInv, TypeOK
    <3>. QED
      BY <3>1, <3>2, SaveCountJob, NonEmptyTodo DEF IInv
  <2>2. CASE ~again
    <3>1. job' = job
      BY <1>1, <2>2
    <3>. QED
      BY <3>1, <1>2 DEF IInv, TInv, JobType
  <2>. QED
    BY <2>1, <2>2
<1>4. \A u \in Task : job'[u].todo \in Seq(Step)
  BY <1>3, JobSteps DEF JobType
<1>5. stuck' \in NotStuck .. MESH_REBOOT_GRACE
  <2>1. stuck \in NotStuck .. MESH_REBOOT_GRACE /\ MESH_REBOOT_GRACE \in Nat
    BY NodeStoreAssumption DEF IInv, TInv, TypeOK
  <2>. QED
    BY <1>1, <2>1 DEF NotStuck, Older
<1>6. idle \in 0 .. MESH_RESYNC_GRACE
  <2>1. acted \in 0 .. MESH_RESYNC_GRACE /\ MESH_RESYNC_GRACE \in Nat
    BY NodeStoreAssumption DEF IInv, TInv, TypeOK
  <2>. QED
    BY <2>1 DEF Older
<1>7. acted' \in 0 .. MESH_RESYNC_GRACE
  BY <1>1, <1>6, NodeStoreAssumption
<1>8. softResets' \in 0 .. MESH_MAX_SOFT_RESETS
  BY <1>1, Bounds, NodeStoreAssumption DEF IInv, TInv, TypeOK
<1>9. TypeOK' /\ Domains'
  BY <1>1, <1>4, <1>5, <1>7, <1>8 DEF IInv, TInv, TypeOK, Domains, settings
<1>10. Bounded'
  BY <1>1 DEF IInv, Bounded
<1>11. CountSaved'
  <2>1. CASE job'["esp"].value = count + 1 /\ job'["esp"].todo = SaveThenRestart
    <3>1. count + 1 # 0
      BY CountRange DEF IInv
    <3>. QED
      BY <2>1, <3>1, <1>1, NonEmptyTodo DEF CountSaved
  <2>2. CASE job'["esp"].key # "count"
    BY <2>2 DEF CountSaved
  <2>. QED
    BY <1>3, <2>1, <2>2
<1>. QED
  BY <1>3, <1>9, <1>10, <1>11 DEF IInv, TInv

\* A step of a save that touches neither the count nor its copy.
LEMMA StepKeepsCount ==
  ASSUME IInv, NEW t \in Task, NEW step, step # "put", Doing(t, step), job' = Done(t),
         UNCHANGED <<count, nvsCount, restarts, lost>>
  PROVE  CountSaved' /\ Bounded'
<1>1. Bounded'
  BY DEF IInv, Bounded
<1>2. CASE job'["esp"].key # "count"
  BY <1>1, <1>2 DEF CountSaved
<1>3. CASE job'["esp"] = job["esp"]
  BY <1>3, CountsAlone DEF IInv
<1>4. CASE /\ job["esp"].key = "count" /\ job'["esp"].value = job["esp"].value
           /\ Head(job["esp"].todo) = step
           /\ job'["esp"].todo = Tail(job["esp"].todo) /\ Len(job["esp"].todo) # 1
           /\ job["esp"].value = 0 => job'["esp"].todo \in ZeroTodo
           /\ job["esp"].value > 0 => job'["esp"].todo \in RestartTodo
  <2>1. CASE job["esp"].value = 0
    <3>1. restarts' = 0 /\ job'["esp"].todo \in ZeroTodo /\ job'["esp"].value = 0
      BY <1>4, <2>1 DEF IInv, CountSaved
    <3>. QED
      BY <3>1, <1>1 DEF CountSaved
  <2>2. CASE job["esp"].value > 0
    <3>1. job["esp"].todo \in RestartTodo /\ job'["esp"].todo \in RestartTodo
      BY <1>4, <2>2 DEF IInv, CountSaved
    <3>2. CASE step = "begin"
      <4>1. job["esp"].value = count + 1
        BY <1>4, <2>2, <3>2 DEF IInv, CountSaved
      <4>2. Head(job'["esp"].todo) = "put"
        BY <1>4, <3>1, <3>2, CountHeads
      <4>3. job'["esp"].value = count' + 1 /\ job'["esp"].value # 0
        BY <1>4, <2>2, <4>1, CountRange DEF IInv
      <4>. QED
        BY <3>1, <4>2, <4>3, <1>1 DEF CountSaved
    <3>3. CASE step # "begin"
      <4>1. step \in {"end", "restart"}
        BY <1>4, <3>1, <3>3, CountHeads
      <4>2. restarts' + 1 <= nvsCount' + lost'
        BY <1>4, <2>2, <4>1 DEF IInv, CountSaved
      <4>3. Head(job'["esp"].todo) = "restart"
        BY <1>4, <3>1, <4>1, CountHeads DEF RestartTodo
      <4>4. job'["esp"].value # 0
        BY <1>4, <2>2, CountRange DEF IInv
      <4>. QED
        BY <3>1, <4>2, <4>3, <4>4, <1>1 DEF CountSaved
    <3>. QED
      BY <3>2, <3>3
  <2>. QED
    BY <1>4, <2>1, <2>2, CountRange DEF IInv
<1>. QED
  BY <1>2, <1>3, <1>4, CountGoesOn DEF IInv

\* What a job on a setting names.
LEMMA SettingOfJob ==
  ASSUME TInv, NEW t \in Task, job[t].todo # <<>>, job[t].key \in Setting
  PROVE  job[t].value \in Values[job[t].key]
<1>1. job[t] \in SomeJob
  BY DEF TInv, JobType
<1>. QED
  BY <1>1, JobKeys DEF SomeJob

\* Only a job on a setting assigns.
LEMMA AssignsSetting ==
  ASSUME TInv, CountSaved, NEW t \in Task, Doing(t, "assign")
  PROVE  job[t].key \in Setting \/ job[t].key = "clear"
<1>1. job[t] \in SomeJob /\ job[t].todo # <<>> /\ Head(job[t].todo) = "assign"
  BY DEF TInv, JobType, Doing
<1>2. CASE job[t] \in CountJob
  <2>1. job[t].todo \in ZeroTodo \union RestartTodo
    BY <1>2, JobKeys
  <2>2. \A s \in ZeroTodo : Head(s) # "assign"
    <3>1. /\ Head(<<"begin", "put", "end">>) = "begin" /\ Head(<<"put", "end">>) = "put"
          /\ Head(<<"end">>) = "end"
      OBVIOUS
    <3>2. "begin" # "assign" /\ "put" # "assign" /\ "end" # "assign"
      OBVIOUS
    <3>. QED
      BY <3>1, <3>2, Zenon DEF ZeroTodo
  <2>. QED
    BY <1>1, <2>1, <2>2, CountHeads
<1>. QED
  BY <1>1, <1>2, JobKeys DEF SomeJob

LEMMA AssignKeeps ==
  ASSUME IInv, NEW t \in Task, Assign(t)
  PROVE  IInv'
<1>1. Doing(t, "assign") /\ job' = Done(t) /\ ram' = [ram EXCEPT ![job[t].key] = job[t].value]
  BY DEF Assign
<1>2. UNCHANGED <<nvs, missed, count, nvsCount, open, resync, restarts, lost, commands, cuts>>
  BY DEF Assign
<1>3. JobType'
  BY <1>1, OneStepDone DEF IInv, TInv
<1>4. job[t].key \in Setting => job[t].value \in Values[job[t].key]
  BY <1>1, SettingOfJob DEF IInv, Doing
<1>5. (\A k \in Setting : ram'[k] \in Values[k] \union {Default[k]}) /\ DOMAIN ram' = Setting
  <2>1. DOMAIN ram' = Setting
    BY <1>1 DEF IInv, TInv, Domains
  <2>2. CASE job[t].key \in Setting
    <3>1. \A k \in Setting : ram'[k] = ram[k] \/ (k = job[t].key /\ ram'[k] = job[t].value)
      BY <1>1, <2>2 DEF IInv, TInv, Domains
    <3>2. \A k \in Setting : ram[k] \in Values[k] \union {Default[k]}
      BY DEF IInv, TInv, TypeOK
    <3>3. \A k \in Setting : ram'[k] \in Values[k] \union {Default[k]}
      BY <2>2, <3>1, <3>2, <1>4
    <3>. QED
      BY <2>1, <3>3
  <2>3. CASE job[t].key = "clear"
    <3>1. \A k \in Setting : ram'[k] = ram[k]
      BY <1>1, <2>3, JobKeys DEF IInv, TInv, Domains
    <3>. QED
      BY <2>1, <3>1 DEF IInv, TInv, TypeOK
  <2>. QED
    BY <2>1, <2>2, <2>3, <1>1, AssignsSetting DEF IInv
<1>6. \A u \in Task : job'[u].todo \in Seq(Step)
  BY <1>3, JobSteps DEF JobType
<1>7. TypeOK' /\ Domains'
  BY <1>2, <1>5, <1>6 DEF IInv, TInv, TypeOK, Domains, resync
<1>8. CountSaved' /\ Bounded'
  BY <1>1, <1>2, StepKeepsCount
<1>. QED
  BY <1>3, <1>7, <1>8 DEF IInv, TInv

LEMMA BeginKeeps ==
  ASSUME IInv, NEW t \in Task, Begin(t)
  PROVE  IInv'
<1>1. Doing(t, "begin") /\ job' = Done(t) /\ open' = TRUE
  BY DEF Begin
<1>2. UNCHANGED <<settings, count, nvsCount, resync, restarts, lost, commands, cuts>>
  BY DEF Begin
<1>3. JobType'
  BY <1>1, OneStepDone DEF IInv, TInv
<1>4. \A u \in Task : job'[u].todo \in Seq(Step)
  BY <1>3, JobSteps DEF JobType
<1>5. TypeOK' /\ Domains'
  BY <1>1, <1>2, <1>4 DEF IInv, TInv, TypeOK, Domains, settings, resync
<1>6. CountSaved' /\ Bounded'
  BY <1>1, <1>2, StepKeepsCount
<1>. QED
  BY <1>3, <1>5, <1>6 DEF IInv, TInv

LEMMA EndKeeps ==
  ASSUME IInv, NEW t \in Task, End(t)
  PROVE  IInv'
<1>1. Doing(t, "end") /\ job' = Done(t) /\ open' = FALSE
  BY DEF End
<1>2. UNCHANGED <<settings, count, nvsCount, resync, restarts, lost, commands, cuts>>
  BY DEF End
<1>3. JobType'
  BY <1>1, OneStepDone DEF IInv, TInv
<1>4. \A u \in Task : job'[u].todo \in Seq(Step)
  BY <1>3, JobSteps DEF JobType
<1>5. TypeOK' /\ Domains'
  BY <1>1, <1>2, <1>4 DEF IInv, TInv, TypeOK, Domains, settings, resync
<1>6. CountSaved' /\ Bounded'
  BY <1>1, <1>2, StepKeepsCount
<1>. QED
  BY <1>3, <1>5, <1>6 DEF IInv, TInv

LEMMA PutSettingType ==
  ASSUME IInv, NEW t \in Task, Doing(t, "put"), PutSetting(t)
  PROVE  /\ \A k \in Setting : nvs'[k] \in Values[k] \union {Default[k], Absent}
         /\ DOMAIN nvs' = Setting /\ missed' \subseteq Setting
<1>1. job[t].key \in Setting /\ DOMAIN nvs = Setting
  BY DEF PutSetting, IInv, TInv, Domains
<1>2. job[t].value \in Values[job[t].key]
  BY <1>1, SettingOfJob DEF IInv, Doing
<1>3. PutValue(t) \in Values[job[t].key] \union {Default[job[t].key]}
  BY <1>1, <1>2 DEF PutValue, IInv, TInv, TypeOK
<1>4. DOMAIN nvs' = Setting
  BY <1>1 DEF PutSetting
<1>5. \A k \in Setting : nvs'[k] = nvs[k] \/ (k = job[t].key /\ nvs'[k] = PutValue(t))
  BY <1>1 DEF PutSetting
<1>6. \A k \in Setting : nvs[k] \in Values[k] \union {Default[k], Absent}
  BY DEF IInv, TInv, TypeOK
<1>7. \A k \in Setting : nvs'[k] \in Values[k] \union {Default[k], Absent}
  BY <1>3, <1>5, <1>6
<1>8. missed' \subseteq Setting
  BY <1>1 DEF PutSetting, IInv, TInv, TypeOK
<1>. QED
  BY <1>4, <1>7, <1>8

\* The arithmetic of a save of the count, made or missed.
LEMMA SavedOrLost ==
  ASSUME NEW c \in Nat, NEW n \in Nat, NEW r \in Nat, NEW l \in Nat,
         r <= c + l, r <= n + l
  PROVE  r + 1 <= c + 1 + l /\ r + 1 <= n + l + 1 /\ r <= c + 1 + l /\ r <= c + l + 1
OBVIOUS

LEMMA PutCountKeeps ==
  ASSUME IInv, NEW t \in Task, Doing(t, "put"), PutCount(t), job' = Done(t),
         UNCHANGED count
  PROVE  CountSaved' /\ Bounded' /\ nvsCount' \in 0 .. MESH_MAX_AUTO_REBOOTS /\ lost' \in Nat
<1>1. t = "esp" /\ job["esp"].key = "count"
  <2>1. job[t].key = "count"
    BY DEF PutCount
  <2>2. t # "esp" => job[t] \in {Idle} \union SettingJob
    BY DEF IInv, TInv, JobType
  <2>. QED
    BY <2>1, <2>2, JobKeys
<1>. DEFINE v == job["esp"].value
<1>2. /\ v \in 0 .. MESH_MAX_AUTO_REBOOTS /\ v \in Nat
      /\ count \in Nat /\ nvsCount \in Nat /\ restarts \in Nat /\ lost \in Nat
      /\ nvsCount \in 0 .. MESH_MAX_AUTO_REBOOTS
  <2>1. \A n \in 0 .. MESH_MAX_AUTO_REBOOTS : n \in Nat
    BY NodeStoreAssumption
  <2>. QED
    BY <1>1, <2>1, CountRange DEF IInv, TInv, TypeOK
<1>3. /\ nvsCount' = IF open THEN v ELSE nvsCount
      /\ lost' = IF open \/ v = 0 THEN lost ELSE lost + 1
      /\ restarts' = restarts
  BY <1>1 DEF PutCount
<1>4. restarts <= count + lost /\ restarts <= nvsCount + lost
  BY DEF IInv, Bounded
<1>5. Head(job["esp"].todo) = "put"
  BY <1>1 DEF Doing
<1>6. nvsCount' \in 0 .. MESH_MAX_AUTO_REBOOTS /\ lost' \in Nat
  BY <1>2, <1>3
<1>7. \/ job'["esp"].key # "count"
      \/ /\ job'["esp"].value = v
         /\ job'["esp"].todo = Tail(job["esp"].todo)
         /\ v = 0 => job'["esp"].todo \in ZeroTodo
         /\ v > 0 => job'["esp"].todo \in RestartTodo
  BY <1>1, CountGoesOn DEF IInv
<1>8. CASE v = 0
  <2>1. restarts = 0
    BY <1>1, <1>8 DEF IInv, CountSaved
  <2>2. restarts' = 0 /\ count' = count /\ nvsCount' \in Nat /\ lost' = lost
    BY <2>1, <1>2, <1>3, <1>8
  <2>3. Bounded'
    BY <2>2, <1>2 DEF Bounded
  <2>4. CountSaved'
    BY <2>2, <1>7, <1>8 DEF CountSaved
  <2>. QED
    BY <2>3, <2>4, <1>6
<1>9. CASE v > 0
  <2>1. v = count + 1 /\ job["esp"].todo \in RestartTodo
    BY <1>1, <1>5, <1>9 DEF IInv, CountSaved
  <2>2. Head(Tail(job["esp"].todo)) = "end"
    BY <2>1, <1>5, CountHeads
  <2>3. restarts' + 1 <= nvsCount' + lost' /\ restarts' <= count' + lost'
    <3>1. CASE open
      <4>1. nvsCount' = count + 1 /\ lost' = lost /\ restarts' = restarts /\ count' = count
        BY <3>1, <2>1, <1>3
      <4>. QED
        BY <4>1, <1>2, <1>4
    <3>2. CASE ~open
      <4>1. nvsCount' = nvsCount /\ lost' = lost + 1 /\ restarts' = restarts /\ count' = count
        BY <3>2, <1>3, <1>9
      <4>. QED
        BY <4>1, <1>2, <1>4
    <3>. QED
      BY <3>1, <3>2
  <2>4. Bounded'
    <3>1. restarts' \in Nat /\ nvsCount' \in Nat /\ lost' \in Nat
      BY <1>2, <1>3
    <3>2. \A r, n, l \in Nat : r + 1 <= n + l => r <= n + l
      OBVIOUS
    <3>3. restarts' <= nvsCount' + lost'
      BY <2>3, <3>1, <3>2
    <3>. QED
      BY <2>3, <3>3 DEF Bounded
  <2>5. CountSaved'
    <3>1. v # 0 /\ "end" \notin {"begin", "put"}
      BY <1>9, <1>2
    <3>. QED
      BY <3>1, <2>2, <2>3, <1>7, <1>9 DEF CountSaved
  <2>. QED
    BY <2>4, <2>5, <1>6
<1>. QED
  BY <1>2, <1>8, <1>9

LEMMA PutKeeps ==
  ASSUME IInv, NEW t \in Task, Put(t)
  PROVE  IInv'
<1>1. Doing(t, "put") /\ job' = Done(t)
  BY DEF Put
<1>2. UNCHANGED <<ram, count, open, resync, commands, cuts>>
  BY DEF Put
<1>3. JobType'
  BY <1>1, OneStepDone DEF IInv, TInv
<1>4. \A u \in Task : job'[u].todo \in Seq(Step)
  BY <1>3, JobSteps DEF JobType
<1>5. CASE PutSetting(t)
  <2>1. UNCHANGED <<nvsCount, restarts, lost>>
    BY <1>5 DEF PutSetting
  <2>2. job[t].key # "count"
    BY <1>5, JobKeys DEF PutSetting
  <2>3. job'["esp"] = job["esp"] \/ job'["esp"].key # "count"
    BY <1>1, <2>2, CountGoesOn DEF IInv
  <2>4. CountSaved' /\ Bounded'
    <3>1. CASE job'["esp"] = job["esp"]
      BY <1>2, <2>1, <3>1, CountsAlone DEF IInv
    <3>2. CASE job'["esp"].key # "count"
      BY <1>2, <2>1, <3>2 DEF IInv, Bounded, CountSaved
    <3>. QED
      BY <2>3, <3>1, <3>2
  <2>5. /\ \A k \in Setting : nvs'[k] \in Values[k] \union {Default[k], Absent}
        /\ DOMAIN nvs' = Setting /\ missed' \subseteq Setting
    BY <1>1, <1>5, PutSettingType
  <2>6. TypeOK' /\ Domains'
    BY <1>2, <1>4, <2>1, <2>5 DEF IInv, TInv, TypeOK, Domains, resync
  <2>. QED
    BY <1>3, <2>4, <2>6 DEF IInv, TInv
<1>6. CASE PutCount(t)
  <2>1. /\ CountSaved' /\ Bounded'
        /\ nvsCount' \in 0 .. MESH_MAX_AUTO_REBOOTS /\ lost' \in Nat
    BY <1>1, <1>2, <1>6, PutCountKeeps
  <2>2. UNCHANGED <<nvs, missed, restarts>>
    BY <1>6 DEF PutCount
  <2>3. TypeOK' /\ Domains'
    BY <1>2, <1>4, <2>1, <2>2 DEF IInv, TInv, TypeOK, Domains, resync
  <2>. QED
    BY <1>3, <2>1, <2>3 DEF IInv, TInv
<1>7. CASE PutNothing(t)
  <2>1. job[t].key = "clear"
    BY <1>7 DEF PutNothing
  <2>2. t = "esp"
    <3>1. t # "esp" => job[t] \in {Idle} \union SettingJob
      BY DEF IInv, TInv, JobType
    <3>. QED
      BY <2>1, <3>1, JobKeys
  <2>3. job'["esp"].key # "count"
    BY <1>1, <2>1, <2>2, CountGoesOn DEF IInv
  <2>4. CASE open
    <3>1. /\ nvs' = [k \in Setting |-> Absent] /\ nvsCount' = 0
          /\ missed' = Setting /\ restarts' = 0 /\ lost' = 0
      BY <1>7, <2>4 DEF PutNothing
    <3>2. 0 \in 0 .. MESH_MAX_AUTO_REBOOTS /\ count' \in Nat
      BY <1>2, NodeStoreAssumption, CountRange DEF IInv
    <3>3. TypeOK' /\ Domains'
      BY <1>2, <1>4, <3>1, <3>2 DEF IInv, TInv, TypeOK, Domains, resync
    <3>4. \A n \in Nat : 0 <= n + 0
      OBVIOUS
    <3>5. restarts' <= count' + lost' /\ restarts' <= nvsCount' + lost'
      BY <3>1, <3>2, <3>4
    <3>. QED
      BY <1>3, <2>3, <3>3, <3>5 DEF IInv, TInv, CountSaved, Bounded
  <2>5. CASE ~open
    <3>1. UNCHANGED <<nvs, nvsCount, missed, restarts, lost>>
      BY <1>7, <2>5 DEF PutNothing
    <3>2. TypeOK' /\ Domains'
      BY <1>2, <1>4, <3>1 DEF IInv, TInv, TypeOK, Domains, resync
    <3>. QED
      BY <1>2, <1>3, <2>3, <3>1, <3>2 DEF IInv, TInv, CountSaved, Bounded
  <2>. QED
    BY <2>4, <2>5
<1>. QED
  BY <1>5, <1>6, <1>7 DEF Put

\* A restart: the count is its copy again, and nobody saves.
LEMMA BootType ==
  ASSUME IInv, Boot, restarts' \in Nat, cuts' \in 0 .. MaxCuts, UNCHANGED lost
  PROVE  TInv' /\ CountSaved' /\ count' = nvsCount /\ nvsCount' = nvsCount
<1>1. \A t \in Task : job'[t] = Idle
  BY DEF Boot
<1>2. JobType' /\ CountSaved'
  <2>1. job' = [t \in Task |-> Idle]
    BY DEF Boot
  <2>2. job'["esp"] = Idle /\ job'["esp"].key # "count"
    BY <1>1, JobKeys DEF Task
  <2>3. JobType'
    BY <2>1 DEF JobType, SomeJob
  <2>. QED
    BY <2>2, <2>3 DEF CountSaved
<1>3. \A u \in Task : job'[u].todo \in Seq(Step)
  BY <1>2, JobSteps DEF JobType
<1>4. \A k \in Setting : Loaded(k, nvs[k]) \in Values[k] \union {Default[k]}
  BY DEF Loaded, IInv, TInv, TypeOK
<1>5. (\A k \in Setting : ram'[k] \in Values[k] \union {Default[k]}) /\ DOMAIN ram' = Setting
  BY <1>4 DEF Boot
<1>6. /\ stuck' \in NotStuck .. MESH_REBOOT_GRACE /\ acted' \in 0 .. MESH_RESYNC_GRACE
      /\ softResets' \in 0 .. MESH_MAX_SOFT_RESETS
  BY NodeStoreAssumption DEF Boot, NotStuck
<1>7. /\ count' = nvsCount /\ open' = FALSE /\ missed' = {}
      /\ UNCHANGED <<nvs, nvsCount, commands>>
  BY DEF Boot
<1>8. TypeOK' /\ Domains'
  BY <1>3, <1>5, <1>6, <1>7 DEF IInv, TInv, TypeOK, Domains
<1>. QED
  BY <1>2, <1>7, <1>8 DEF TInv

LEMMA RestartKeeps ==
  ASSUME IInv, NEW t \in Task, Restart(t)
  PROVE  IInv'
<1>1. Doing(t, "restart") /\ Boot /\ UNCHANGED <<lost, cuts>>
  BY DEF Restart
<1>2. restarts' = IF job[t].key = "count" THEN restarts + 1 ELSE restarts
  BY DEF Restart
<1>3. restarts \in Nat /\ cuts \in 0 .. MaxCuts /\ nvsCount \in Nat /\ lost \in Nat
  BY CountRange DEF IInv, TInv, TypeOK
<1>4. restarts' \in Nat
  BY <1>2, <1>3
<1>5. TInv' /\ CountSaved' /\ count' = nvsCount /\ nvsCount' = nvsCount
  BY <1>1, <1>3, <1>4, BootType
<1>6. restarts' <= nvsCount + lost
  <2>1. CASE job[t].key = "count"
    <3>1. t = "esp"
      <4>1. t # "esp" => job[t] \in {Idle} \union SettingJob
        BY DEF IInv, TInv, JobType
      <4>. QED
        BY <2>1, <4>1, JobKeys
    <3>2. Head(job["esp"].todo) = "restart" /\ job["esp"].value \in Nat
      BY <1>1, <2>1, <3>1, CountRange, NodeStoreAssumption DEF Doing, IInv
    <3>3. job["esp"].value > 0
      <4>1. job["esp"].value # 0
        BY <2>1, <3>1, <3>2, CountHeads DEF IInv, CountSaved
      <4>. QED
        BY <3>2, <4>1
    <3>4. restarts + 1 <= nvsCount + lost
      <4>1. "restart" \notin {"begin", "put"}
        OBVIOUS
      <4>. QED
        BY <2>1, <3>1, <3>2, <3>3, <4>1 DEF IInv, CountSaved
    <3>. QED
      BY <1>2, <2>1, <3>4
  <2>2. CASE job[t].key # "count"
    BY <1>2, <2>2 DEF IInv, Bounded
  <2>. QED
    BY <2>1, <2>2
<1>7. Bounded'
  BY <1>1, <1>5, <1>6 DEF Bounded
<1>. QED
  BY <1>5, <1>7 DEF IInv

LEMMA PowerCutKeeps ==
  ASSUME IInv, PowerCut
  PROVE  IInv'
<1>1. Boot /\ UNCHANGED <<restarts, lost>>
  BY DEF PowerCut
<1>2. cuts' \in 0 .. MaxCuts
  <2>1. cuts \in 0 .. MaxCuts /\ MaxCuts \in Nat
    BY NodeStoreAssumption DEF IInv, TInv, TypeOK
  <2>2. cuts < MaxCuts /\ cuts' = cuts + 1
    BY DEF PowerCut
  <2>. QED
    BY <2>1, <2>2, Bounds
<1>3. restarts' \in Nat
  BY <1>1, CountRange DEF IInv
<1>4. TInv' /\ CountSaved' /\ count' = nvsCount /\ nvsCount' = nvsCount
  BY <1>1, <1>2, <1>3, BootType
<1>5. Bounded'
  BY <1>1, <1>4 DEF IInv, Bounded
<1>. QED
  BY <1>4, <1>5 DEF IInv

-----------------------------------------------------------------------------
(* What is left of a command on a setting. *)

AssignFirst == {<<"assign", "begin", "put", "end">>, <<"begin", "put", "end">>,
                <<"put", "end">>, <<"end">>}
AssignLast == {<<"begin", "put", "end", "assign">>, <<"put", "end", "assign">>,
               <<"end", "assign">>, <<"assign">>}
AssignThenRestart ==
  {<<"begin", "put", "end", "assign", "restart">>, <<"put", "end", "assign", "restart">>,
   <<"end", "assign", "restart">>, <<"assign", "restart">>, <<"restart">>}

Left(k) ==
  IF k \in {"role", "layer"} THEN AssignFirst
  ELSE IF k = "loss" THEN AssignLast ELSE AssignThenRestart

\* espnowTask changes no setting, the WiFi task the layer only.
JobShape ==
  /\ job["esp"].key \notin Setting
  /\ job["wifi"].key \in Setting => job["wifi"].key = "layer"
  /\ \A t \in Task : job[t].key \in Setting => job[t].todo \in Left(job[t].key)

RoleAssigned ==
  job["midi"].key \in Setting \intersect {"role"} /\ Head(job["midi"].todo) # "assign" =>
    ram["role"] = job["midi"].value

\* The two steps between which RAM and NVS may differ.
Between(k) == IF k \in {"role", "layer"} THEN {"begin", "put"} ELSE {"end", "assign"}

Halfway(t, k) == job[t].key = k /\ Head(job[t].todo) \in Between(k)

PutBeforeAssigned ==
  \A k \in Setting \ missed :
    k \notin {"role", "layer"} /\ Halfway("midi", k) => nvs[k] = job["midi"].value

InForce ==
  \A k \in Setting \ missed :
    Loaded(k, nvs[k]) = Loaded(k, ram[k]) \/ \E t \in Task : Halfway(t, k)

SInv == JobShape /\ RoleAssigned /\ PutBeforeAssigned /\ InForce

LEMMA FirstSteps ==
  \A s \in AssignFirst :
    /\ Len(s) # 1 => Tail(s) \in AssignFirst
    /\ Head(s) = "assign" => Len(s) # 1 /\ Head(Tail(s)) = "begin"
    /\ Head(s) = "begin" => Len(s) # 1 /\ Head(Tail(s)) = "put"
    /\ Head(s) = "put" => Len(s) # 1 /\ Head(Tail(s)) = "end"
    /\ Head(s) = "end" => Len(s) = 1
    /\ Head(s) \in {"assign", "begin", "put", "end"}
<1>1. /\ Tail(<<"assign", "begin", "put", "end">>) = <<"begin", "put", "end">>
      /\ Tail(<<"begin", "put", "end">>) = <<"put", "end">>
      /\ Tail(<<"put", "end">>) = <<"end">>
  OBVIOUS
<1>2. /\ Head(<<"assign", "begin", "put", "end">>) = "assign"
      /\ Head(<<"begin", "put", "end">>) = "begin"
      /\ Head(<<"put", "end">>) = "put" /\ Head(<<"end">>) = "end"
  OBVIOUS
<1>3. /\ Len(<<"assign", "begin", "put", "end">>) # 1 /\ Len(<<"begin", "put", "end">>) # 1
      /\ Len(<<"put", "end">>) # 1 /\ Len(<<"end">>) = 1
  OBVIOUS
<1>4. /\ "assign" # "begin" /\ "assign" # "put" /\ "assign" # "end"
      /\ "begin" # "put" /\ "begin" # "end" /\ "put" # "end"
  OBVIOUS
<1>. QED
  BY <1>1, <1>2, <1>3, <1>4, Zenon DEF AssignFirst

LEMMA LastSteps ==
  /\ \A s \in AssignLast : Len(s) # 1 => Tail(s) \in AssignLast
  /\ \A s \in AssignThenRestart : Len(s) # 1 => Tail(s) \in AssignThenRestart
  /\ \A s \in AssignLast \union AssignThenRestart :
       /\ Head(s) = "begin" => Len(s) # 1 /\ Head(Tail(s)) = "put"
       /\ Head(s) = "put" => Len(s) # 1 /\ Head(Tail(s)) = "end"
       /\ Head(s) = "end" => Len(s) # 1 /\ Head(Tail(s)) = "assign"
       /\ Head(s) = "assign" => Len(s) = 1 \/ Head(Tail(s)) = "restart"
       /\ Head(s) = "restart" => Len(s) = 1
<1>1. /\ Tail(<<"begin", "put", "end", "assign">>) = <<"put", "end", "assign">>
      /\ Tail(<<"put", "end", "assign">>) = <<"end", "assign">>
      /\ Tail(<<"end", "assign">>) = <<"assign">>
  OBVIOUS
<1>2. /\ Tail(<<"begin", "put", "end", "assign", "restart">>)
           = <<"put", "end", "assign", "restart">>
      /\ Tail(<<"put", "end", "assign", "restart">>) = <<"end", "assign", "restart">>
      /\ Tail(<<"end", "assign", "restart">>) = <<"assign", "restart">>
      /\ Tail(<<"assign", "restart">>) = <<"restart">>
  OBVIOUS
<1>3. /\ Head(<<"begin", "put", "end", "assign">>) = "begin"
      /\ Head(<<"put", "end", "assign">>) = "put"
      /\ Head(<<"end", "assign">>) = "end" /\ Head(<<"assign">>) = "assign"
  OBVIOUS
<1>4. /\ Head(<<"begin", "put", "end", "assign", "restart">>) = "begin"
      /\ Head(<<"put", "end", "assign", "restart">>) = "put"
      /\ Head(<<"end", "assign", "restart">>) = "end"
      /\ Head(<<"assign", "restart">>) = "assign" /\ Head(<<"restart">>) = "restart"
  OBVIOUS
<1>5. /\ Len(<<"begin", "put", "end", "assign">>) # 1 /\ Len(<<"put", "end", "assign">>) # 1
      /\ Len(<<"end", "assign">>) # 1 /\ Len(<<"assign">>) = 1
  OBVIOUS
<1>6. /\ Len(<<"begin", "put", "end", "assign", "restart">>) # 1
      /\ Len(<<"put", "end", "assign", "restart">>) # 1
      /\ Len(<<"end", "assign", "restart">>) # 1
      /\ Len(<<"assign", "restart">>) # 1 /\ Len(<<"restart">>) = 1
  OBVIOUS
<1>7. /\ "assign" # "begin" /\ "assign" # "put" /\ "assign" # "end" /\ "assign" # "restart"
      /\ "begin" # "put" /\ "begin" # "end" /\ "begin" # "restart"
      /\ "put" # "end" /\ "put" # "restart" /\ "end" # "restart"
  OBVIOUS
<1>8. \A s \in AssignLast : Len(s) # 1 => Tail(s) \in AssignLast
  BY <1>1, <1>5, Zenon DEF AssignLast
<1>9. \A s \in AssignThenRestart : Len(s) # 1 => Tail(s) \in AssignThenRestart
  BY <1>2, <1>6, Zenon DEF AssignThenRestart
<1>10. \A s \in AssignLast :
         /\ Head(s) = "begin" => Len(s) # 1 /\ Head(Tail(s)) = "put"
         /\ Head(s) = "put" => Len(s) # 1 /\ Head(Tail(s)) = "end"
         /\ Head(s) = "end" => Len(s) # 1 /\ Head(Tail(s)) = "assign"
         /\ Head(s) = "assign" => Len(s) = 1
         /\ Head(s) # "restart"
  BY <1>1, <1>3, <1>5, <1>7, Zenon DEF AssignLast
<1>11. \A s \in AssignThenRestart :
         /\ Head(s) = "begin" => Len(s) # 1 /\ Head(Tail(s)) = "put"
         /\ Head(s) = "put" => Len(s) # 1 /\ Head(Tail(s)) = "end"
         /\ Head(s) = "end" => Len(s) # 1 /\ Head(Tail(s)) = "assign"
         /\ Head(s) = "assign" => Head(Tail(s)) = "restart"
         /\ Head(s) = "restart" => Len(s) = 1
  BY <1>2, <1>4, <1>6, <1>7, Zenon DEF AssignThenRestart
<1>. QED
  BY <1>8, <1>9, <1>10, <1>11, Zenon

\* A command before its first step.
LEMMA StepsAre ==
  ASSUME NEW k \in Setting
  PROVE  /\ Steps(k) \in Left(k) /\ Head(Steps(k)) \notin Between(k)
         /\ k \in {"role", "layer"} => Head(Steps(k)) = "assign"
<1>1. k \in {"role", "layer", "lr", "loss"}
  BY NodeStoreAssumption
<1>2. /\ Head(<<"assign", "begin", "put", "end">>) = "assign"
      /\ Head(<<"begin", "put", "end", "assign">>) = "begin"
      /\ Head(<<"begin", "put", "end", "assign", "restart">>) = "begin"
  OBVIOUS
<1>3. CASE k \in {"role", "layer"}
  <2>1. Steps(k) = <<"assign", "begin", "put", "end">>
    BY <1>3 DEF Steps
  <2>2. Left(k) = AssignFirst /\ Between(k) = {"begin", "put"}
    BY <1>3 DEF Left, Between
  <2>. QED
    BY <2>1, <2>2, <1>2 DEF AssignFirst
<1>4. CASE k = "loss"
  <2>1. Steps(k) = <<"begin", "put", "end", "assign">>
    BY <1>4 DEF Steps
  <2>2. Left(k) = AssignLast /\ Between(k) = {"end", "assign"}
    BY <1>4 DEF Left, Between
  <2>. QED
    BY <1>4, <2>1, <2>2, <1>2 DEF AssignLast
<1>5. CASE k = "lr"
  <2>1. Steps(k) = <<"begin", "put", "end", "assign", "restart">>
    BY <1>5 DEF Steps
  <2>2. Left(k) = AssignThenRestart /\ Between(k) = {"end", "assign"}
    BY <1>5 DEF Left, Between
  <2>. QED
    BY <1>5, <2>1, <2>2, <1>2 DEF AssignThenRestart
<1>. QED
  BY <1>1, <1>3, <1>4, <1>5

\* One step of a command on a setting.
LEMMA SettingStep ==
  ASSUME IInv, JobShape, NEW t \in Task, NEW k \in Setting, job[t].key = k,
         NEW step, Doing(t, step), job' = Done(t)
  PROVE  /\ \/ job'[t] = Idle
            \/ job'[t].key = k /\ job'[t].value = job[t].value /\ job'[t].todo \in Left(k)
         /\ k \in {"role", "layer"} =>
              /\ step = "assign" => job'[t].key = k /\ Head(job'[t].todo) = "begin"
              /\ step = "begin" => job'[t].key = k /\ Head(job'[t].todo) = "put"
              /\ step = "put" => job'[t].key = k /\ Head(job'[t].todo) = "end"
              /\ step = "end" => job'[t] = Idle
         /\ k \notin {"role", "layer"} =>
              /\ step = "begin" => job'[t].key = k /\ Head(job'[t].todo) = "put"
              /\ step = "put" => job'[t].key = k /\ Head(job'[t].todo) = "end"
              /\ step = "end" => job'[t].key = k /\ Head(job'[t].todo) = "assign"
              /\ step = "assign" => job'[t] = Idle \/ Head(job'[t].todo) = "restart"
<1>. DEFINE s == job[t].todo
<1>1. s \in Left(k) /\ Head(s) = step /\ k # "clear"
  BY JobKeys DEF JobShape, Doing
<1>2. job'[t] = Idle \/ /\ job'[t].key = k /\ Len(s) # 1
                        /\ job'[t].todo = Tail(s) /\ job'[t].value = job[t].value
  BY <1>1, OneStepDone DEF IInv, TInv
<1>3. Len(s) = 1 <=> job'[t] = Idle
  <2>1. Len(s) = 1 => job'[t] = Idle
    BY <1>2
  <2>2. Len(s) # 1 => job'[t] # Idle
    <3>. SUFFICES ASSUME Len(s) # 1 PROVE job'[t].key = k
      BY JobKeys
    <3>1. job' = [job EXCEPT ![t].todo = Tail(@)]
      BY DEF Done
    <3>2. job[t] \in SomeJob /\ s # <<>> /\ job \in [Task -> SomeJob]
      BY DEF IInv, TInv, JobType, Doing
    <3>3. [job[t] EXCEPT !.todo = Tail(@)].key = k
      BY <3>2, OneStepOn
    <3>. QED
      BY <3>1, <3>2, <3>3
  <2>. QED
    BY <2>1, <2>2
<1>. HIDE DEF s
<1>4. Len(s) # 1 => Tail(s) \in Left(k)
  BY <1>1, FirstSteps, LastSteps DEF Left
<1>5. CASE k \in {"role", "layer"}
  <2>1. s \in AssignFirst
    BY <1>1, <1>5 DEF Left
  <2>. QED
    BY <1>1, <1>2, <1>3, <1>4, <1>5, <2>1, FirstSteps
<1>6. CASE k \notin {"role", "layer"}
  <2>1. s \in AssignLast \union AssignThenRestart
    BY <1>1, <1>6 DEF Left
  <2>. QED
    BY <1>1, <1>2, <1>3, <1>4, <1>6, <2>1, LastSteps
<1>. QED
  BY <1>5, <1>6

\* Loading twice is loading once.
LEMMA LoadedTwice ==
  ASSUME NEW k \in Setting, NEW v
  PROVE  Loaded(k, Loaded(k, v)) = Loaded(k, v)
BY DEF Loaded

LEMMA InitSettings == Init => SInv
<1>. SUFFICES ASSUME Init PROVE SInv
  OBVIOUS
<1>1. \A t \in Task : job[t].key = "none"
  BY JobKeys DEF Init
<1>2. \A k \in Setting : Loaded(k, nvs[k]) = Loaded(k, ram[k])
  BY DEF Init, Loaded
<1>3. {"midi", "wifi", "esp"} \subseteq Task /\ "none" \notin Setting
  BY JobKeys DEF Task
<1>. QED
  BY <1>1, <1>2, <1>3 DEF SInv, JobShape, RoleAssigned, PutBeforeAssigned, InForce, Halfway

\* A step that leaves the settings to the other two tasks.
LEMMA EspAlone ==
  ASSUME SInv, \A k \in Setting : ram'[k] = ram[k] /\ nvs'[k] = nvs[k],
         missed \subseteq missed',
         job'["esp"].key \notin Setting, \A t \in Task \ {"esp"} : job'[t] = job[t]
  PROVE  SInv'
<1>1. job'["midi"] = job["midi"] /\ job'["wifi"] = job["wifi"]
  BY DEF Task
<1>2. \A k \in Setting : ~Halfway("esp", k)
  BY DEF SInv, JobShape, Halfway
<1>3. \A k \in Setting, t \in Task : Halfway(t, k) => Halfway(t, k)'
  BY <1>2 DEF Halfway
<1>4. JobShape' /\ RoleAssigned'
  BY <1>1 DEF SInv, JobShape, RoleAssigned
<1>5. PutBeforeAssigned'
  BY <1>1 DEF SInv, PutBeforeAssigned, Halfway
<1>6. InForce'
  BY <1>3 DEF SInv, InForce, Loaded
<1>. QED
  BY <1>4, <1>5, <1>6 DEF SInv

LEMMA CommandStores ==
  ASSUME IInv, SInv, NEW t \in Task, NEW k \in Setting, NEW v \in Values[k], Command(t, k, v)
  PROVE  SInv'
<1>. DEFINE next == [key |-> k, value |-> v, todo |-> Steps(k)]
<1>1. next.key = k /\ next.todo = Steps(k)
  OBVIOUS
<1>2. /\ job' = [job EXCEPT ![t] = next] /\ job[t] = Idle
      /\ t = "midi" \/ (t = "wifi" /\ k = "layer")
      /\ UNCHANGED <<ram, nvs, missed>>
  BY DEF Command, settings
<1>. HIDE DEF next
<1>3. job'[t] = next /\ \A u \in Task \ {t} : job'[u] = job[u]
  BY <1>2 DEF IInv, TInv, JobType
<1>4. {"midi", "wifi", "esp"} = Task /\ "midi" # "wifi" /\ "midi" # "esp" /\ "wifi" # "esp"
  BY DEF Task
<1>5. \A j \in Setting : ~Halfway(t, j) /\ ~Halfway(t, j)'
  BY <1>1, <1>2, <1>3, JobKeys, StepsAre DEF Halfway
<1>6. \A u \in Task \ {t}, j \in Setting : Halfway(u, j)' <=> Halfway(u, j)
  BY <1>3 DEF Halfway
<1>7. JobShape'
  <2>1. job'["esp"].key \notin Setting
    BY <1>2, <1>3, <1>4 DEF SInv, JobShape
  <2>2. job'["wifi"].key \in Setting => job'["wifi"].key = "layer"
    BY <1>1, <1>2, <1>3, <1>4 DEF SInv, JobShape
  <2>3. \A u \in Task : job'[u].key \in Setting => job'[u].todo \in Left(job'[u].key)
    BY <1>1, <1>3, StepsAre DEF SInv, JobShape
  <2>. QED
    BY <2>1, <2>2, <2>3 DEF JobShape
<1>8. RoleAssigned'
  BY <1>1, <1>2, <1>3, <1>4, StepsAre DEF SInv, RoleAssigned
<1>9. PutBeforeAssigned'
  BY <1>2, <1>3, <1>4, <1>5, <1>6 DEF SInv, PutBeforeAssigned
<1>10. InForce'
  BY <1>2, <1>5, <1>6 DEF SInv, InForce
<1>. QED
  BY <1>7, <1>8, <1>9, <1>10 DEF SInv

\* A step of a save by espnowTask.
LEMMA EspStep ==
  ASSUME IInv, SInv, NEW step, Doing("esp", step), job' = Done("esp")
  PROVE  job'["esp"].key \notin Setting /\ \A t \in Task \ {"esp"} : job'[t] = job[t]
<1>1. "esp" \in Task
  BY DEF Task
<1>2. job'["esp"] = Idle \/ job'["esp"].key = job["esp"].key
  BY <1>1, OneStepDone DEF IInv, TInv
<1>3. \A t \in Task \ {"esp"} : job'[t] = job[t]
  BY <1>1, OneStepDone DEF IInv, TInv
<1>. QED
  BY <1>2, <1>3, JobKeys DEF SInv, JobShape

\* The host and the mesh ask for settings only.
LEMMA ServesSetting ==
  ASSUME IInv, NEW t \in Task \ {"esp"}, NEW step, Doing(t, step)
  PROVE  job[t].key \in Setting
<1>1. job[t] \in {Idle} \union SettingJob /\ job[t].todo # <<>>
  BY DEF IInv, TInv, JobType, Doing
<1>. QED
  BY <1>1, JobKeys

\* A step of a command, whose own setting the caller accounts for.
LEMMA CommandStep ==
  ASSUME IInv, SInv, NEW t \in Task \ {"esp"}, NEW k \in Setting, job[t].key = k,
         NEW step, Doing(t, step), job' = Done(t),
         \A j \in Setting \ {k} : nvs'[j] = nvs[j] /\ ram'[j] = ram[j],
         missed \subseteq missed' \union {k}
  PROVE  /\ JobShape'
         /\ \A u \in Task \ {t} : job'[u] = job[u]
         /\ \A j \in Setting \ ({k} \union missed') :
              Loaded(j, nvs[j])' = Loaded(j, ram[j])' \/ \E u \in Task : Halfway(u, j)'
         /\ \A j \in Setting \ ({k} \union missed') :
              j \notin {"role", "layer"} /\ Halfway("midi", j)' => nvs'[j] = job'["midi"].value
<1>2. \A u \in Task \ {t} : job'[u] = job[u]
  BY OneStepDone DEF IInv, TInv
<1>3. job'[t] = Idle \/ (job'[t].key = k /\ job'[t].todo \in Left(k))
  <2>1. t \in Task /\ JobShape
    BY DEF SInv
  <2>. QED
    BY <2>1, SettingStep, Zenon
<1>4. {"midi", "wifi", "esp"} = Task /\ "none" \notin Setting /\ Idle.key = "none"
  BY JobKeys DEF Task
<1>5. JobShape'
  <2>1. job'["esp"].key \notin Setting
    BY <1>2, <1>4 DEF SInv, JobShape
  <2>2. job'["wifi"].key \in Setting => job'["wifi"].key = "layer"
    BY <1>2, <1>3, <1>4 DEF SInv, JobShape
  <2>3. \A u \in Task : job'[u].key \in Setting => job'[u].todo \in Left(job'[u].key)
    BY <1>2, <1>3, <1>4 DEF SInv, JobShape
  <2>. QED
    BY <2>1, <2>2, <2>3 DEF JobShape
<1>6. \A j \in Setting \ {k} : ~Halfway(t, j) /\ ~Halfway(t, j)'
  BY <1>3, <1>4 DEF Halfway
<1>7. \A u \in Task \ {t}, j \in Setting : Halfway(u, j)' <=> Halfway(u, j)
  BY <1>2 DEF Halfway
<1>8. \A j \in Setting \ ({k} \union missed') : j \in Setting \ missed
  OBVIOUS
<1>9. ASSUME NEW j \in Setting \ ({k} \union missed')
      PROVE  Loaded(j, nvs[j])' = Loaded(j, ram[j])' \/ \E u \in Task : Halfway(u, j)'
  <2>1. nvs'[j] = nvs[j] /\ ram'[j] = ram[j]
    BY <1>9
  <2>2. Loaded(j, nvs[j]) = Loaded(j, ram[j]) \/ \E u \in Task : Halfway(u, j)
    BY <1>8 DEF SInv, InForce
  <2>3. CASE Loaded(j, nvs[j]) = Loaded(j, ram[j])
    BY <2>1, <2>3 DEF Loaded
  <2>4. ASSUME NEW u \in Task, Halfway(u, j) PROVE Halfway(u, j)'
    BY <2>4, <1>6, <1>7
  <2>. QED
    BY <2>2, <2>3, <2>4
<1>10. ASSUME NEW j \in Setting \ ({k} \union missed'), j \notin {"role", "layer"},
              Halfway("midi", j)'
       PROVE  nvs'[j] = job'["midi"].value
  <2>1. "midi" # t
    BY <1>6, <1>10
  <2>2. nvs[j] = job["midi"].value
    BY <2>1, <1>4, <1>7, <1>8, <1>10 DEF SInv, PutBeforeAssigned
  <2>. QED
    BY <2>1, <2>2, <1>2, <1>4
<1>. QED
  BY <1>2, <1>5, <1>9, <1>10

\* Which setting a task may be serving.
LEMMA WhoServes ==
  ASSUME SInv, NEW t \in Task \ {"esp"}, job[t].key \in Setting
  PROVE  t = "midi" \/ (t = "wifi" /\ job[t].key = "layer")
BY DEF SInv, JobShape, Task

LEMMA AssignStores ==
  ASSUME IInv, SInv, NEW t \in Task, Assign(t)
  PROVE  SInv'
<1>1. /\ Doing(t, "assign") /\ job' = Done(t) /\ UNCHANGED <<nvs, missed>>
      /\ ram' = [ram EXCEPT ![job[t].key] = job[t].value]
  BY DEF Assign
<1>2. CASE t = "esp"
  <2>1. job[t].key \notin Setting /\ DOMAIN ram = Setting
    BY <1>2 DEF SInv, JobShape, IInv, TInv, Domains
  <2>2. \A k \in Setting : ram'[k] = ram[k] /\ nvs'[k] = nvs[k]
    BY <1>1, <1>2, <2>1
  <2>3. missed \subseteq missed' /\ Doing("esp", "assign") /\ job' = Done("esp")
    BY <1>1, <1>2
  <2>. QED
    BY <1>1, <2>2, <2>3, EspStep, EspAlone
<1>3. CASE t # "esp"
  <2>. PICK k \in Setting : job[t].key = k
    BY <1>1, <1>3, ServesSetting
  <2>. PICK w : job[t].value = w
    OBVIOUS
  <2>0. JobShape
    BY DEF SInv
  <2>1. /\ JobShape'
        /\ \A u \in Task \ {t} : job'[u] = job[u]
        /\ \A j \in Setting \ ({k} \union missed') :
             Loaded(j, nvs[j])' = Loaded(j, ram[j])' \/ \E u \in Task : Halfway(u, j)'
        /\ \A j \in Setting \ ({k} \union missed') :
             j \notin {"role", "layer"} /\ Halfway("midi", j)' => nvs'[j] = job'["midi"].value
    BY <1>1, <1>3, CommandStep
  <2>2. ram'[k] = w /\ \A j \in Setting \ {k} : ram'[j] = ram[j]
    BY <1>1, <2>1 DEF IInv, TInv, Domains
  <2>3. t = "midi" \/ (t = "wifi" /\ k = "layer")
    BY <1>3, <2>1, WhoServes
  <2>4. job'[t] = Idle \/ (job'[t].key = k /\ job'[t].value = w)
    BY <1>1, <2>0, SettingStep, Zenon
  <2>5. Head(job[t].todo) = "assign"
    BY <1>1 DEF Doing
  <2>6. CASE k \in {"role", "layer"}
    <3>1. job'[t].key = k /\ Head(job'[t].todo) = "begin"
      BY <1>1, <2>1, <2>6, SettingStep DEF SInv
    <3>2. Halfway(t, k)'
      BY <3>1, <2>6 DEF Halfway, Between
    <3>3. RoleAssigned'
      <4>1. CASE t = "midi"
        BY <4>1, <2>2, <2>4, <3>1, JobKeys DEF RoleAssigned
      <4>2. CASE t = "wifi" /\ k = "layer"
        <5>. QED
          BY <4>2, <2>1, <2>2 DEF SInv, RoleAssigned, Task
      <4>. QED
        BY <2>3, <4>1, <4>2
    <3>4. PutBeforeAssigned'
      BY <2>1, <2>6 DEF PutBeforeAssigned
    <3>5. InForce'
      BY <2>1, <3>2 DEF InForce
    <3>. QED
      BY <2>1, <3>3, <3>4, <3>5 DEF SInv
  <2>7. CASE k \notin {"role", "layer"}
    <3>1. t = "midi" /\ Halfway("midi", k)
      BY <2>3, <2>5, <2>7 DEF Halfway, Between
    <3>2. k \notin missed => nvs[k] = w
      BY <2>1, <2>7, <3>1 DEF SInv, PutBeforeAssigned
    <3>3. k \notin missed' => Loaded(k, nvs[k])' = Loaded(k, ram[k])'
      <4>1. k \notin missed' => nvs'[k] = w /\ ram'[k] = w
        BY <1>1, <2>2, <3>2
      <4>. QED
        BY <4>1 DEF Loaded
    <3>4. job'["midi"] = Idle \/ Head(job'["midi"].todo) = "restart"
      BY <1>1, <2>1, <2>7, <3>1, SettingStep DEF SInv
    <3>5. ~Halfway("midi", k)'
      BY <3>4, <2>1, JobKeys DEF Halfway, Between
    <3>. QED
      BY <2>1, <2>4, <2>7, <3>1, <3>3, <3>4, <3>5, JobKeys
      DEF SInv, RoleAssigned, PutBeforeAssigned, InForce
  <2>. QED
    BY <2>6, <2>7
<1>. QED
  BY <1>2, <1>3

\* A step that changes no setting: begin, and end.
LEMMA BeginEndStores ==
  ASSUME IInv, SInv, NEW t \in Task, NEW step \in {"begin", "end"}, Doing(t, step),
         job' = Done(t), UNCHANGED settings
  PROVE  SInv'
<1>0. UNCHANGED <<ram, nvs, missed>>
  BY DEF settings
<1>1. CASE t = "esp"
  <2>1. Doing("esp", step) /\ job' = Done("esp")
    BY <1>1
  <2>2. job'["esp"].key \notin Setting /\ \A u \in Task \ {"esp"} : job'[u] = job[u]
    BY <2>1, EspStep
  <2>. QED
    BY <1>0, <2>2, EspAlone
<1>2. CASE t # "esp"
  <2>. PICK k \in Setting : job[t].key = k
    BY <1>2, ServesSetting
  <2>0. JobShape
    BY DEF SInv
  <2>1. /\ JobShape'
        /\ \A u \in Task \ {t} : job'[u] = job[u]
        /\ \A j \in Setting \ ({k} \union missed') :
             Loaded(j, nvs[j])' = Loaded(j, ram[j])' \/ \E u \in Task : Halfway(u, j)'
        /\ \A j \in Setting \ ({k} \union missed') :
             j \notin {"role", "layer"} /\ Halfway("midi", j)' => nvs'[j] = job'["midi"].value
    BY <1>0, <1>2, CommandStep
  <2>2. t = "midi" \/ (t = "wifi" /\ k = "layer")
    BY <1>2, WhoServes
  <2>3. job'[t] = Idle \/ (job'[t].key = k /\ job'[t].value = job[t].value)
    BY <2>0, SettingStep, Zenon
  <2>4. Head(job[t].todo) = step
    BY DEF Doing
  <2>5. Halfway(t, k)' <=> Halfway(t, k)
    <3>1. CASE k \in {"role", "layer"}
      <4>1. /\ step = "begin" => job'[t].key = k /\ Head(job'[t].todo) = "put"
            /\ step = "end" => job'[t] = Idle
        BY <2>0, <3>1, SettingStep
      <4>. QED
        BY <2>4, <3>1, <4>1, JobKeys DEF Halfway, Between
    <3>2. CASE k \notin {"role", "layer"}
      <4>1. /\ step = "begin" => job'[t].key = k /\ Head(job'[t].todo) = "put"
            /\ step = "end" => job'[t].key = k /\ Head(job'[t].todo) = "assign"
        BY <2>0, <3>2, SettingStep
      <4>. QED
        BY <2>4, <3>2, <4>1 DEF Halfway, Between
    <3>. QED
      BY <3>1, <3>2
  <2>6. \A u \in Task \ {t} : Halfway(u, k)' <=> Halfway(u, k)
    BY <2>1 DEF Halfway
  <2>7. InForce'
    <3>1. k \notin missed' => Loaded(k, nvs[k])' = Loaded(k, ram[k])'
                              \/ \E u \in Task : Halfway(u, k)'
      BY <1>0, <2>5, <2>6 DEF SInv, InForce, Loaded
    <3>. QED
      BY <2>1, <3>1 DEF InForce
  <2>8. PutBeforeAssigned'
    <3>1. ASSUME k \notin missed', k \notin {"role", "layer"}, Halfway("midi", k)'
          PROVE  nvs'[k] = job'["midi"].value
      <4>1. t = "midi" /\ Halfway("midi", k)
        BY <2>2, <2>5, <3>1
      <4>2. job'[t] # Idle
        BY <3>1, <4>1, JobKeys DEF Halfway
      <4>. QED
        BY <1>0, <2>3, <3>1, <4>1, <4>2 DEF SInv, PutBeforeAssigned
    <3>. QED
      BY <2>1, <3>1 DEF PutBeforeAssigned
  <2>9. RoleAssigned'
    <3>1. CASE t = "midi"
      <4>1. Head(job["midi"].todo) # "assign"
        BY <2>4, <3>1
      <4>. QED
        BY <1>0, <2>3, <3>1, <4>1, JobKeys DEF SInv, RoleAssigned
    <3>2. CASE t = "wifi"
      BY <1>0, <2>1, <3>2 DEF SInv, RoleAssigned, Task
    <3>. QED
      BY <2>2, <3>1, <3>2
  <2>. QED
    BY <2>1, <2>7, <2>8, <2>9 DEF SInv
<1>. QED
  BY <1>1, <1>2

LEMMA PutStores ==
  ASSUME IInv, SInv, NEW t \in Task, Put(t)
  PROVE  SInv'
<1>1. Doing(t, "put") /\ job' = Done(t) /\ ram' = ram
  BY DEF Put
<1>2. CASE t = "esp"
  <2>1. Doing("esp", "put") /\ job' = Done("esp")
    BY <1>1, <1>2
  <2>2. job'["esp"].key \notin Setting /\ \A u \in Task \ {"esp"} : job'[u] = job[u]
    BY <2>1, EspStep
  <2>3. job["esp"].key \notin Setting
    BY DEF SInv, JobShape
  <2>4. PutCount("esp") \/ PutNothing("esp")
    BY <1>2, <2>3 DEF Put, PutSetting
  <2>5. missed' = Setting \/ (nvs' = nvs /\ missed' = missed)
    BY <2>4 DEF PutCount, PutNothing
  <2>6. CASE missed' = Setting
    <3>1. JobShape' /\ RoleAssigned'
      BY <1>1, <2>2 DEF SInv, JobShape, RoleAssigned, Task
    <3>. QED
      BY <2>6, <3>1 DEF SInv, PutBeforeAssigned, InForce
  <2>7. CASE nvs' = nvs /\ missed' = missed
    BY <1>1, <2>2, <2>7, EspAlone
  <2>. QED
    BY <2>5, <2>6, <2>7
<1>3. CASE t # "esp"
  <2>. PICK k \in Setting : job[t].key = k
    BY <1>1, <1>3, ServesSetting
  <2>0. JobShape
    BY DEF SInv
  <2>1. /\ nvs' = IF open THEN [nvs EXCEPT ![k] = PutValue(t)] ELSE nvs
        /\ missed' = IF open THEN missed \ {k} ELSE missed \union {k}
    BY JobKeys DEF Put, PutSetting, PutCount, PutNothing
  <2>2. /\ \A j \in Setting \ {k} : nvs'[j] = nvs[j]
        /\ open => nvs'[k] = PutValue(t)
    BY <2>1 DEF IInv, TInv, Domains
  <2>3. /\ JobShape'
        /\ \A u \in Task \ {t} : job'[u] = job[u]
        /\ \A j \in Setting \ ({k} \union missed') :
             Loaded(j, nvs[j])' = Loaded(j, ram[j])' \/ \E u \in Task : Halfway(u, j)'
        /\ \A j \in Setting \ ({k} \union missed') :
             j \notin {"role", "layer"} /\ Halfway("midi", j)' => nvs'[j] = job'["midi"].value
    <3>1. missed \subseteq missed' \union {k}
      BY <2>1
    <3>. QED
      BY <1>1, <1>3, <2>2, <3>1, CommandStep
  <2>4. t = "midi" \/ (t = "wifi" /\ k = "layer")
    BY <1>3, WhoServes
  <2>5. job'[t].key = k /\ Head(job'[t].todo) = "end"
    <3>1. CASE k \in {"role", "layer"}
      BY <1>1, <2>0, <3>1, SettingStep
    <3>2. CASE k \notin {"role", "layer"}
      BY <1>1, <2>0, <3>2, SettingStep
    <3>. QED
      BY <3>1, <3>2
  <2>6. job'[t].value = job[t].value
    <3>1. job'[t] = Idle \/ (job'[t].key = k /\ job'[t].value = job[t].value)
      BY <1>1, <2>0, SettingStep, Zenon
    <3>. QED
      BY <2>5, <3>1, JobKeys
  <2>7. Head(job[t].todo) = "put"
    BY <1>1 DEF Doing
  <2>8. RoleAssigned'
    <3>1. CASE t = "midi"
      <4>1. Head(job["midi"].todo) # "assign"
        BY <2>7, <3>1
      <4>. QED
        BY <1>1, <2>5, <2>6, <3>1, <4>1 DEF SInv, RoleAssigned
    <3>2. CASE t = "wifi"
      BY <1>1, <2>3, <3>2 DEF SInv, RoleAssigned, Task
    <3>. QED
      BY <2>4, <3>1, <3>2
  <2>9. CASE ~open
    <3>1. k \in missed'
      BY <2>1, <2>9
    <3>. QED
      BY <2>3, <2>8, <3>1 DEF SInv, PutBeforeAssigned, InForce
  <2>10. CASE open /\ k \in {"role", "layer"}
    <3>1. nvs'[k] = ram[k]
      <4>1. CASE k = "layer"
        BY <2>2, <2>10, <4>1 DEF PutValue
      <4>2. CASE k = "role"
        <5>1. t = "midi" /\ nvs'["role"] = job["midi"].value
          BY <2>2, <2>4, <2>10, <4>2 DEF PutValue
        <5>2. ram["role"] = job["midi"].value
          BY <2>7, <4>2, <5>1 DEF SInv, RoleAssigned
        <5>. QED
          BY <4>2, <5>1, <5>2
      <4>. QED
        BY <2>10, <4>1, <4>2
    <3>2. Loaded(k, nvs[k])' = Loaded(k, ram[k])'
      BY <1>1, <3>1 DEF Loaded
    <3>. QED
      BY <2>3, <2>8, <2>10, <3>2 DEF SInv, PutBeforeAssigned, InForce
  <2>11. CASE open /\ k \notin {"role", "layer"}
    <3>1. t = "midi" /\ nvs'[k] = job'["midi"].value
      BY <2>2, <2>4, <2>6, <2>11 DEF PutValue
    <3>2. Halfway("midi", k)' /\ "midi" \in Task
      BY <2>5, <2>11, <3>1 DEF Halfway, Between, Task
    <3>. QED
      BY <2>3, <2>8, <3>1, <3>2 DEF SInv, PutBeforeAssigned, InForce
  <2>. QED
    BY <2>9, <2>10, <2>11
<1>. QED
  BY <1>2, <1>3

\* A restart: what is in force is what was stored.
LEMMA BootStores ==
  ASSUME Boot
  PROVE  SInv'
<1>1. /\ \A t \in Task : job'[t].key = "none"
      /\ {"midi", "wifi", "esp"} \subseteq Task /\ "none" \notin Setting
  BY JobKeys DEF Boot, Task
<1>2. \A k \in Setting : ram'[k] = Loaded(k, nvs[k]) /\ nvs'[k] = nvs[k]
  BY DEF Boot
<1>3. \A k \in Setting : Loaded(k, nvs[k])' = Loaded(k, ram[k])'
  BY <1>2, LoadedTwice DEF Loaded
<1>. QED
  BY <1>1, <1>3 DEF SInv, JobShape, RoleAssigned, PutBeforeAssigned, InForce, Halfway

LEMMA TickStores ==
  ASSUME IInv, SInv, meshResyncTick
  PROVE  SInv'
<1>1. /\ job'["esp"].key \notin Setting
      /\ \A t \in Task \ {"esp"} : job'[t] = job[t]
  <2>1. job \in [Task -> SomeJob] /\ "esp" \in Task /\ job["esp"].key \notin Setting
    BY DEF IInv, TInv, JobType, Task, SInv, JobShape
  <2>2. job' = job \/ \E n, todo : job' = [job EXCEPT !["esp"] = SaveCount(n, todo)]
    BY DEF meshResyncTick, Coarse, NotCoarse
  <2>3. \A n, todo : SaveCount(n, todo).key \notin Setting
    BY JobKeys DEF SaveCount
  <2>. QED
    BY <2>1, <2>2, <2>3
<1>2. UNCHANGED <<ram, nvs, missed>>
  BY DEF meshResyncTick, settings
<1>. QED
  BY <1>1, <1>2, EspAlone

LEMMA LongPressStores ==
  ASSUME IInv, SInv, LongPress
  PROVE  SInv'
<1>1. /\ job'["esp"].key \notin Setting
      /\ \A t \in Task \ {"esp"} : job'[t] = job[t]
  BY JobKeys DEF LongPress, IInv, TInv, JobType, Task
<1>2. UNCHANGED <<ram, nvs, missed>>
  BY DEF LongPress, settings
<1>. QED
  BY <1>1, <1>2, EspAlone

LEMMA NextStores ==
  ASSUME IInv, SInv, [Next]_vars
  PROVE  SInv'
<1>1. ASSUME NEW t \in Task, NEW k \in Setting, NEW v \in Values[k], Command(t, k, v)
      PROVE  SInv'
  BY <1>1, CommandStores
<1>2. ASSUME NEW t \in Task, Assign(t) \/ Put(t) PROVE SInv'
  BY <1>2, AssignStores, PutStores
<1>3. ASSUME NEW t \in Task, Begin(t) \/ End(t) PROVE SInv'
  BY <1>3, BeginEndStores DEF Begin, End
<1>4. ASSUME NEW t \in Task, Restart(t) PROVE SInv'
  BY <1>4, BootStores DEF Restart
<1>5. CASE PowerCut
  BY <1>5, BootStores DEF PowerCut
<1>6. CASE UNCHANGED vars
  BY <1>6 DEF vars, SInv, JobShape, RoleAssigned, PutBeforeAssigned, InForce, Halfway, Loaded
<1>. QED
  BY <1>1, <1>2, <1>3, <1>4, <1>5, <1>6, TickStores, LongPressStores DEF Next

-----------------------------------------------------------------------------
(* The theorems. *)

LEMMA NextKeeps == IInv /\ [Next]_vars => IInv'
<1>. SUFFICES ASSUME IInv, [Next]_vars PROVE IInv'
  OBVIOUS
<1>1. ASSUME NEW t \in Task, NEW k \in Setting, NEW v \in Values[k], Command(t, k, v)
      PROVE  IInv'
  BY <1>1, CommandKeeps
<1>2. ASSUME NEW t \in Task, Assign(t) \/ Begin(t) \/ Put(t) \/ End(t) \/ Restart(t)
      PROVE  IInv'
  BY <1>2, AssignKeeps, BeginKeeps, PutKeeps, EndKeeps, RestartKeeps
<1>3. CASE meshResyncTick
  BY <1>3, CoarseKeeps, NotCoarseKeeps DEF meshResyncTick
<1>4. CASE UNCHANGED vars
  BY <1>4 DEF vars, IInv, TInv, TypeOK, JobType, Domains, CountSaved, Bounded
<1>. QED
  BY <1>1, <1>2, <1>3, <1>4, LongPressKeeps, PowerCutKeeps DEF Next

LEMMA Inductive == Spec => []IInv
<1>1. Init => IInv
  BY InitInv
<1>2. IInv /\ [Next]_vars => IInv'
  BY NextKeeps
<1>. QED
  BY <1>1, <1>2, PTL DEF Spec

\* The settings, the count, its copy and what the three tasks have still to
\* do keep their types, whatever saves overlap and restarts interrupt them.
THEOREM TypeCorrect == Spec => []TypeOK
<1>1. IInv => TypeOK
  BY DEF IInv, TInv
<1>. QED
  BY <1>1, Inductive, PTL

\* meshResyncTick (main.cpp:151): between two locks a node restarts itself at
\* most as often as it may, plus once for each save of the count that found
\* the shared Preferences object closed.
THEOREM RestartsAreBounded == Spec => []RestartsBounded
<1>1. IInv => RestartsBounded
  <2>. SUFFICES ASSUME IInv PROVE RestartsBounded
    OBVIOUS
  <2>1. /\ restarts <= nvsCount + lost /\ nvsCount \in 0 .. MESH_MAX_AUTO_REBOOTS
        /\ restarts \in Nat /\ lost \in Nat
    BY DEF IInv, TInv, TypeOK, Bounded
  <2>. QED
    BY <2>1, NodeStoreAssumption DEF RestartsBounded
<1>. QED
  BY <1>1, Inductive, PTL

\* storage.cpp: for every set of settings, values and defaults, a setting on which no
\* command is being served is stored as it is in force, whatever saves overlap and
\* whatever restarts and cuts of power interrupt them, unless a put of it found the
\* shared Preferences object closed.
THEOREM StoredAsInForce == Spec => []SettingsAreStored
<1>1. Init => IInv /\ SInv
  BY InitInv, InitSettings
<1>2. IInv /\ SInv /\ [Next]_vars => (IInv /\ SInv)'
  BY NextKeeps, NextStores
<1>3. SInv => SettingsAreStored
  BY DEF SInv, InForce, SettingsAreStored, Halfway
<1>. QED
  BY <1>1, <1>2, <1>3, PTL DEF Spec

=============================================================================
