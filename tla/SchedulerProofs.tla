--------------------------- MODULE SchedulerProofs ---------------------------
(***************************************************************************)
(* Proofs about Scheduler, for any number of tasks, whatever SYS_KILL is   *)
(* given.  The safety properties follow from SchedInv: task 0 and          *)
(* net_poller do not sleep, so as long as one of them is there every       *)
(* yield_now() and preempt() of another task meets a Ready task before it  *)
(* comes back to the caller; what holds without them is kept apart.        *)
(***************************************************************************)
EXTENDS Scheduler, TLAPS

-----------------------------------------------------------------------------
(* The invariant, seen as predicates on explicit tables.                   *)

AloneIn(st, n) == n = 1 \/ (st[Kernel] = "Finished" /\ st[Poller] = "Finished")

\* A task in state s at location l.
Agree(s, l) ==
  /\ s \in {"Ready", "Running", "Sleeping"} => l \in LivePc \cup {"stale"}
  /\ s = "Finished" => l \in {"dead", "exiting", "hung"}
  /\ s = "Unborn" => l = "none"

\* The same while task 0 or net_poller is there.
Calm(t, s, l) ==
  /\ l \notin {"stale", "hung"}
  /\ s = "Sleeping" /\ t # Kernel => l \in {"run", "asleep"}

\* States, locations and their agreement, for a table of n tasks.
Table(st, p, n) ==
  /\ st \in [Tasks -> TaskState]
  /\ p \in [Tasks -> Location]
  /\ \A t \in Tasks : (st[t] = "Unborn" <=> t >= n) /\ Agree(st[t], p[t])
  /\ AloneIn(st, n) \/ \A t \in Tasks : Calm(t, st[t], p[t])
  /\ p[Kernel] \in {"boot", "dhcp", "drain", "shell", "dead", "stale"}
  /\ p[Kernel] \in {"dhcp", "stale"} => n = 1
  /\ p[Poller] \in {"none", "poll", "dead"}
  /\ st[Poller] \in {"Unborn", "Ready", "Running", "Finished"}

\* Only cur runs, and task 0 and net_poller are ready to take over.
Runner(st, cur, n) ==
  /\ cur \in Tasks
  /\ \A t \in Tasks : st[t] = "Running" => t = cur
  /\ cur # Kernel => st[Kernel] \in {"Ready", "Finished"}
  /\ st[Kernel] = "Finished" => cur # Kernel
  /\ st[Poller] \in {"Ready", "Finished"} => cur # Poller
  /\ cur = Kernel /\ st[Kernel] # "Running" /\ n > 1 => st[Poller] = "Ready"
  /\ cur < n

Cur(st, p, cur, n) ==
  \/ AloneIn(st, n)
  \/ st[cur] \in {"Running", "Ready"}
  \/ st[cur] = "Sleeping" /\ (p[cur] = "asleep" \/ cur = Kernel)
  \/ st[cur] = "Finished" /\ p[cur] = "exiting"

\* Task 0 sleeps until the next tick at most.
KernelTimer == state[Kernel] = "Sleeping" => timer[Kernel] <= 1

\* What a step does to the states: Finished stays, nobody comes to life except
\* the task just created, and the CPU goes to a Running task or stays.
Frame ==
  /\ \A t \in Tasks : state[t] = "Finished" => state'[t] = "Finished"
  /\ \A t \in Tasks : Live(t)' => Live(t) \/ t >= next_id
  /\ current' = current \/ state'[current'] = "Running"

\* SchedInv is the conjunction of the explicit tables and the memory part.
LEMMA Split ==
  SchedInv <=> /\ TypeOK /\ Table(state, pc, next_id) /\ Runner(state, current, next_id)
               /\ Cur(state, pc, current, next_id) /\ KernelTimer
               /\ cr3[Kernel] = NoTask /\ cr3[Poller] = NoTask
               /\ Groups /\ FreedStackIdle /\ ThreadHasSpace
<1>0. 0 \in Tasks /\ 1 \in Tasks
  BY SchedulerConstants DEF Tasks
<1>1. ASSUME SchedInv
      PROVE  /\ TypeOK /\ Table(state, pc, next_id) /\ Runner(state, current, next_id)
             /\ Cur(state, pc, current, next_id) /\ KernelTimer
             /\ cr3[Kernel] = NoTask /\ cr3[Poller] = NoTask
             /\ Groups /\ FreedStackIdle /\ ThreadHasSpace
  <2>1. /\ TypeOK /\ StatePc /\ Manned /\ KernelReady /\ PollerReady /\ Groups
        /\ OneRunner /\ FreedStackIdle /\ ThreadHasSpace
    BY <1>1 DEF SchedInv
  <2>2. \A t \in Tasks : (state[t] = "Unborn" <=> t >= next_id) /\ Agree(state[t], pc[t])
    BY <2>1 DEF StatePc, Agree, Live
  <2>3. AloneIn(state, next_id) \/ \A t \in Tasks : Calm(t, state[t], pc[t])
    <3>1. SUFFICES ASSUME ~AloneIn(state, next_id), NEW t \in Tasks
                   PROVE  Calm(t, state[t], pc[t])
      OBVIOUS
    <3>2. ~Alone
      BY <3>1 DEF Alone, AloneIn
    <3>3. NoStaleResume /\ \A u \in Tasks \ {Kernel} :
                             state[u] = "Sleeping" => pc[u] \in {"run", "asleep"}
      BY <2>1, <3>2 DEF Manned
    <3> QED  BY <3>3 DEF NoStaleResume, Calm
  <2>4. Table(state, pc, next_id)
    BY <2>1, <2>2, <2>3 DEF Table, TypeOK, KernelReady, PollerReady
  <2>5. Runner(state, current, next_id)
    BY <2>1 DEF Runner, TypeOK, KernelReady, PollerReady, OneRunner
  <2>6. Cur(state, pc, current, next_id)
    <3>1. AloneIn(state, next_id) <=> Alone
      BY DEF Alone, AloneIn
    <3> QED  BY <2>1, <3>1 DEF Cur, Manned
  <2>7. KernelTimer /\ cr3[Kernel] = NoTask /\ cr3[Poller] = NoTask
    BY <2>1 DEF KernelTimer, KernelReady, PollerReady
  <2> QED  BY <2>1, <2>4, <2>5, <2>6, <2>7
<1>2. ASSUME TypeOK, Table(state, pc, next_id), Runner(state, current, next_id),
             Cur(state, pc, current, next_id), KernelTimer,
             cr3[Kernel] = NoTask, cr3[Poller] = NoTask,
             Groups, FreedStackIdle, ThreadHasSpace
      PROVE  SchedInv
  <2>1. StatePc
    BY <1>2 DEF Table, StatePc, Agree, Live
  <2>2. Manned
    <3>1. SUFFICES ASSUME ~Alone PROVE Manned
      BY DEF Manned
    <3>2. \A t \in Tasks : Calm(t, state[t], pc[t])
      BY <1>2, <3>1 DEF Table, Alone, AloneIn
    <3> QED  BY <1>2, <3>1, <3>2 DEF Manned, Calm, NoStaleResume, Cur, AloneIn, Alone
  <2>3. KernelReady
    <3>1. state[Kernel] \in {"Ready", "Running", "Finished", "Sleeping"}
      BY <1>0, <1>2 DEF Table, Agree, TaskState, Kernel
    <3> QED  BY <1>2, <3>1 DEF Table, Runner, KernelReady, KernelTimer
  <2>4. PollerReady
    BY <1>2 DEF Table, Runner, PollerReady
  <2>5. OneRunner
    <3>1. \A t \in Tasks : state[t] = "Running" => t = current
      BY <1>2 DEF Runner
    <3>2. pc[current] = "run" => Alone \/ state[current] \in {"Running", "Ready"}
      BY <1>2 DEF Table, Cur, AloneIn, Alone
    <3> QED  BY <3>1, <3>2 DEF OneRunner
  <2> QED  BY <1>2, <2>1, <2>2, <2>3, <2>4, <2>5 DEF SchedInv
<1> QED  BY <1>1, <1>2

-----------------------------------------------------------------------------
(* Switching.                                                              *)

\* The round robin does not come back to the current task while another one,
\* of the table, is Ready.
LEMMA NextIsOther ==
  ASSUME current \in Tasks, next_id \in Nat, NEW st,
         NEW u \in Tasks, st[u] = "Ready", u # current, u < next_id,
         NEW nxt \in Tasks, IsNextReady(st, nxt)
  PROVE  nxt # current
<1>1. Hops(nxt) <= Hops(u)
  BY DEF IsNextReady, ReadyTasks
<1>2. current \in Nat /\ u \in Nat
  BY SchedulerConstants DEF Tasks
<1>3. Hops(current) = next_id
  BY <1>2 DEF Hops
<1>4. Hops(u) < next_id
  BY <1>2 DEF Hops
<1>5. Hops(u) \in Int
  BY <1>2 DEF Hops
<1> QED  BY <1>1, <1>3, <1>4, <1>5

\* As long as task 0 or net_poller is there, one of the two is waiting for the
\* CPU.
LEMMA SomeoneWaits ==
  ASSUME NEW st, NEW p, NEW n \in Nat, Table(st, p, n), Runner(st, current, n), ~AloneIn(st, n),
         st[current] # "Running" \/ current \notin {Kernel, Poller}
  PROVE  \E u \in {Kernel, Poller} : u \in Tasks /\ u # current /\ u < n /\ st[u] = "Ready"
<1>0. 0 \in Tasks /\ 1 \in Tasks /\ n # 0
  <2>1. 0 \in Tasks /\ 1 \in Tasks
    BY SchedulerConstants DEF Tasks
  <2>2. st[0] # "Unborn"
    BY <2>1 DEF Table, Agree, Kernel
  <2> QED  BY <2>1, <2>2 DEF Table
<1>1. n > 1 /\ st[Poller] \in {"Ready", "Running", "Finished"}
  <2>1. n > 1
    BY <1>0 DEF AloneIn
  <2>2. st[Poller] # "Unborn"
    BY <1>0, <2>1 DEF Table, Poller
  <2> QED  BY <2>1, <2>2 DEF Table
<1>2. current # Kernel => st[Kernel] \in {"Ready", "Finished"}
  BY DEF Runner
<1>3. current # Poller => st[Poller] \in {"Ready", "Finished"}
  BY <1>0, <1>1 DEF Runner, Poller
<1>4. CASE current = Kernel
  BY <1>0, <1>1, <1>4 DEF Runner, Kernel, Poller
<1>5. CASE current = Poller
  BY <1>0, <1>1, <1>5 DEF Runner, Kernel, Poller, Table, AloneIn
<1>6. CASE current \notin {Kernel, Poller}
  BY <1>0, <1>1, <1>2, <1>3, <1>6 DEF AloneIn, Kernel, Poller
<1> QED  BY <1>4, <1>5, <1>6

\* What a switch does to the states, whoever it goes to.
LEMMA SwitchStates ==
  ASSUME current \in Tasks, NEW st \in [Tasks -> TaskState], NEW nxt \in Tasks,
         st[nxt] = "Ready", state' = SwitchTo(st, nxt)
  PROVE  /\ state' \in [Tasks -> TaskState]
         /\ state'[nxt] = "Running"
         /\ current # nxt => state'[current] = IF st[current] = "Running" THEN "Ready" ELSE st[current]
         /\ \A t \in Tasks : t # nxt /\ t # current => state'[t] = st[t]
         /\ \A t \in Tasks : /\ state'[t] = "Finished" <=> st[t] = "Finished"
                             /\ state'[t] = "Unborn" <=> st[t] = "Unborn"
                             /\ state'[t] = "Sleeping" <=> st[t] = "Sleeping"
<1>1. state' \in [Tasks -> TaskState]
  BY DEF SwitchTo, TaskState
<1>2. /\ state'[nxt] = "Running"
      /\ current # nxt => state'[current] = IF st[current] = "Running" THEN "Ready" ELSE st[current]
      /\ \A t \in Tasks : t # nxt /\ t # current => state'[t] = st[t]
  BY DEF SwitchTo
<1> QED  BY <1>1, <1>2

\* A switch out of a consistent table leaves a consistent table, and the task
\* it gives the CPU to is Running.
LEMMA SwitchKeeps ==
  ASSUME NEW st, NEW p, NEW n \in Nat, Table(st, p, n), Runner(st, current, n),
         current = Kernel => st[Kernel] # "Sleeping",
         NEW nxt \in Tasks, st[nxt] = "Ready", state' = SwitchTo(st, nxt), current' = nxt,
         pc' = IF nxt = current THEN [p EXCEPT ![nxt] = "stale"] ELSE p,
         nxt = current => AloneIn(st, n)
  PROVE  /\ Table(state', pc', n) /\ Runner(state', current', n)
         /\ Cur(state', pc', current', n)
         /\ state'[current'] = "Running"
         /\ \A t \in Tasks : state'[t] = "Finished" <=> st[t] = "Finished"
         /\ \A t \in Tasks : state'[t] = "Unborn" <=> st[t] = "Unborn"
<1>0. 0 \in Tasks /\ 1 \in Tasks /\ current \in Tasks /\ st \in [Tasks -> TaskState]
      /\ p \in [Tasks -> Location]
  BY SchedulerConstants DEF Tasks, Runner, Table
<1>1. /\ state' \in [Tasks -> TaskState]
      /\ state'[nxt] = "Running"
      /\ current # nxt => state'[current] = IF st[current] = "Running" THEN "Ready" ELSE st[current]
      /\ \A t \in Tasks : t # nxt /\ t # current => state'[t] = st[t]
      /\ \A t \in Tasks : /\ state'[t] = "Finished" <=> st[t] = "Finished"
                          /\ state'[t] = "Unborn" <=> st[t] = "Unborn"
                          /\ state'[t] = "Sleeping" <=> st[t] = "Sleeping"
  BY <1>0, SwitchStates
<1>2. AloneIn(state', n) <=> AloneIn(st, n)
  BY <1>0, <1>1 DEF AloneIn, Kernel, Poller
<1>3. /\ pc' \in [Tasks -> Location]
      /\ \A t \in Tasks : pc'[t] = p[t] \/ (t = nxt /\ t = current /\ pc'[t] = "stale")
  <2>1. CASE nxt = current
    BY <1>0, <2>1 DEF Location
  <2>2. CASE nxt # current
    BY <1>0, <2>2
  <2> QED  BY <2>1, <2>2
<1>4. ASSUME NEW t \in Tasks
      PROVE  (state'[t] = "Unborn" <=> t >= n) /\ Agree(state'[t], pc'[t])
  <2>1. /\ st[t] = "Unborn" <=> t >= n
        /\ Agree(st[t], p[t]) /\ st[t] \in TaskState /\ state'[t] \in TaskState
    BY <1>0, <1>1 DEF Table
  <2>2. CASE pc'[t] = p[t]
    BY <1>1, <2>1, <2>2 DEF Agree, TaskState
  <2>3. CASE t = nxt /\ pc'[t] = "stale"
    BY <1>1, <2>1, <2>3 DEF Agree
  <2> QED  BY <1>3, <2>2, <2>3
<1>5. AloneIn(state', n) \/ \A t \in Tasks : Calm(t, state'[t], pc'[t])
  <2>1. CASE AloneIn(st, n)
    BY <1>2, <2>1
  <2>2. CASE ~AloneIn(st, n)
    <3>1. \A t \in Tasks : pc'[t] = p[t] /\ Calm(t, st[t], p[t])
      BY <1>3, <2>2 DEF Table
    <3> QED  BY <1>1, <3>1 DEF Calm
  <2> QED  BY <2>1, <2>2
<1>6. /\ pc'[Kernel] \in {"boot", "dhcp", "drain", "shell", "dead", "stale"}
      /\ pc'[Kernel] \in {"dhcp", "stale"} => n = 1
  <2>1. CASE pc'[Kernel] = p[Kernel]
    BY <2>1 DEF Table
  <2>2. CASE Kernel = nxt /\ Kernel = current
    BY <1>0, <1>3, <2>2 DEF Table, AloneIn, Kernel
  <2> QED  BY <1>0, <1>3, <2>1, <2>2 DEF Kernel
<1>7. pc'[Poller] = p[Poller]
  BY <1>0, <1>3 DEF Runner, Poller
<1>8. state'[Poller] \in {"Unborn", "Ready", "Running", "Finished"}
  BY <1>0, <1>1 DEF Table, TaskState, Poller
<1>9. Table(state', pc', n)
  BY <1>1, <1>3, <1>4, <1>5, <1>6, <1>7, <1>8 DEF Table
<1>10. Runner(state', current', n)
  <2>1. \A t \in Tasks : state'[t] = "Running" => t = nxt
    BY <1>0, <1>1 DEF Runner
  <2>2. nxt # Kernel => state'[Kernel] \in {"Ready", "Finished"}
    BY <1>0, <1>1 DEF Runner, Kernel, Table, Agree, TaskState
  <2>3. nxt < n
    BY <1>0, <1>1 DEF Table, Tasks
  <2> QED  BY <1>0, <1>1, <2>1, <2>2, <2>3 DEF Runner
<1> QED  BY <1>1, <1>9, <1>10 DEF Cur

-----------------------------------------------------------------------------
(* The control part of the invariant, action by action.                    *)

\* What every step establishes about states, locations and the CPU.
Control ==
  /\ Table(state', pc', next_id') /\ Runner(state', current', next_id')
  /\ Cur(state', pc', current', next_id')
  /\ Frame

\* A task that executes its program or a handler is an ordinary live task, and
\* task 0 has left the CPU to it.
LEMMA Actor ==
  ASSUME SchedInv, NEW t \in Tasks, NEW l \in {"run", "asleep", "wait", "join", "exiting"},
         At(t, l)
  PROVE  /\ current = t /\ t # Kernel /\ t # Poller /\ t < next_id
         /\ next_id \in Nat /\ next_id > 1
         /\ l # "exiting" => state[t] \in {"Ready", "Running", "Sleeping"}
         /\ l = "exiting" => state[t] = "Finished"
<1>0. /\ Table(state, pc, next_id) /\ Runner(state, current, next_id) /\ TypeOK
      /\ Cur(state, pc, current, next_id)
  BY Split
<1>1. current = t /\ pc[t] = l
  BY DEF At
<1>2. t # Kernel /\ t # Poller
  BY <1>0, <1>1 DEF Table
<1>3. state[t] \in TaskState /\ Agree(state[t], pc[t])
  BY <1>0 DEF Table
<1>4. /\ l # "exiting" => state[t] \in {"Ready", "Running", "Sleeping"}
      /\ l = "exiting" => state[t] = "Finished"
  BY <1>1, <1>3 DEF Agree, LivePc, TaskState
<1>5. next_id \in Nat /\ t \in Nat /\ next_id >= 1
  BY <1>0, SchedulerConstants DEF TypeOK, Tasks
<1>6. next_id > 1
  BY <1>0, <1>1, <1>2, <1>5 DEF Runner, Kernel
<1>7. t < next_id
  <2>1. state[t] # "Unborn"
    BY <1>4
  <2> QED  BY <1>0, <1>5, <2>1 DEF Table
<1> QED  BY <1>1, <1>2, <1>4, <1>5, <1>6, <1>7

\* A handler that ends in yield_now() establishes the control part if what it
\* hands to yield_now() is consistent.
LEMMA YieldControl ==
  ASSUME SchedInv, current # Kernel, current # Poller, next_id' \in Nat, next_id <= next_id',
         NEW st, NEW p, Table(st, p, next_id'), Runner(st, current, next_id'),
         \A t \in Tasks : state[t] = "Finished" => st[t] = "Finished",
         \A t \in Tasks : st[t] \in {"Ready", "Running", "Sleeping"} => Live(t) \/ t >= next_id,
         YieldNow(st, p)
  PROVE  Control
<1>1. current \in Tasks /\ next_id \in Nat /\ next_id > 1
  <2>1. TypeOK /\ Runner(state, current, next_id)
    BY Split
  <2> QED  BY <2>1, SchedulerConstants DEF TypeOK, Runner, Kernel, Tasks
<1>2. ASSUME /\ Table(state', pc', next_id') /\ Runner(state', current', next_id')
             /\ Cur(state', pc', current', next_id')
             /\ state'[current'] = "Running" \/ current' = current
             /\ \A t \in Tasks : state'[t] = "Finished" <=> st[t] = "Finished"
             /\ \A t \in Tasks : state'[t] = "Unborn" <=> st[t] = "Unborn"
      PROVE  Control
  <2>1. \A t \in Tasks : state[t] = "Finished" => state'[t] = "Finished"
    BY <1>2
  <2>2. ASSUME NEW t \in Tasks, Live(t)'
        PROVE  Live(t) \/ t >= next_id
    <3>1. state'[t] \in {"Ready", "Running", "Sleeping"}
      BY <2>2 DEF Live
    <3>2. st[t] \in {"Ready", "Running", "Sleeping"}
      BY <1>2, <3>1 DEF Table, TaskState
    <3> QED  BY <3>2
  <2> QED  BY <1>2, <2>1, <2>2 DEF Control, Frame
<1>3. CASE SwitchStep(st, p)
  <2>1. PICK nxt \in Tasks :
          /\ IsNextReady(st, nxt)
          /\ state' = SwitchTo(st, nxt)
          /\ current' = nxt
          /\ pc' = IF nxt = current THEN [p EXCEPT ![nxt] = "stale"] ELSE p
    BY <1>3 DEF SwitchStep
  <2>2. st[nxt] = "Ready"
    BY <2>1 DEF IsNextReady, ReadyTasks
  <2>3. ASSUME ~AloneIn(st, next_id') PROVE nxt # current
    <3>1. PICK u \in {Kernel, Poller} : u \in Tasks /\ u # current /\ st[u] = "Ready"
      BY <2>3, SomeoneWaits
    <3>2. u < next_id
      BY <1>1, <3>1 DEF Kernel, Poller
    <3> QED  BY <1>1, <2>1, <3>1, <3>2, NextIsOther
  <2> QED  BY <1>2, <2>1, <2>2, <2>3, SwitchKeeps
<1>4. CASE ReadyTasks(st) = {} /\ state' = st /\ pc' = p /\ UNCHANGED current
  <2>1. AloneIn(st, next_id')
    <3>1. SUFFICES ASSUME ~AloneIn(st, next_id') PROVE FALSE
      OBVIOUS
    <3> QED  BY <1>4, <3>1, SomeoneWaits DEF ReadyTasks
  <2> QED  BY <1>2, <1>4, <2>1 DEF Cur
<1> QED  BY <1>3, <1>4 DEF YieldNow

\* A step that keeps the task on the CPU and changes only its location.
LEMMA MoveControl ==
  ASSUME SchedInv, NEW t \in Tasks, NEW l \in {"run", "wait"},
         t # Kernel, t # Poller, current = t, state[t] \in {"Ready", "Running", "Sleeping"},
         pc[t] \in {"run", "wait", "join"},
         state' = state, current' = current, next_id' = next_id,
         pc' = [pc EXCEPT ![t] = l]
  PROVE  Control
<1>0. /\ Table(state, pc, next_id) /\ Runner(state, current, next_id)
      /\ Cur(state, pc, current, next_id) /\ 0 \in Tasks /\ 1 \in Tasks
  BY Split, SchedulerConstants DEF Tasks
<1>1. pc' \in [Tasks -> Location]
  BY <1>0 DEF Table, Location
<1>2. pc'[t] = l /\ \A u \in Tasks : u # t => pc'[u] = pc[u]
  BY <1>0 DEF Table
<1>3. \A u \in Tasks : Agree(state[u], pc'[u])
  BY <1>0, <1>2 DEF Table, Agree, LivePc
<1>4. AloneIn(state, next_id) \/ state[t] \in {"Ready", "Running"}
  BY <1>0 DEF Cur
<1>5. AloneIn(state, next_id) \/ \A u \in Tasks : Calm(u, state[u], pc'[u])
  BY <1>0, <1>2, <1>4 DEF Table, Calm
<1>6. Table(state', pc', next_id')
  BY <1>0, <1>1, <1>2, <1>3, <1>5 DEF Table, Kernel, Poller
<1> QED  BY <1>0, <1>4, <1>6 DEF Control, Frame, Cur, Live

\* preempt() keeps the control part, whether it switches, finds nobody else to
\* run, or finds SCHEDULER locked.
LEMMA TickControl ==
  ASSUME SchedInv, Tick
  PROVE  Control
<1>0. /\ Table(state, pc, next_id) /\ Runner(state, current, next_id)
      /\ Cur(state, pc, current, next_id) /\ KernelTimer /\ timer \in [Tasks -> 0..Forever]
      /\ 0 \in Tasks /\ 1 \in Tasks /\ next_id \in Nat
  BY Split, SchedulerConstants DEF Tasks, TypeOK
<1>1. CASE TickPreempt
  <2> DEFINE st == Woken(state, Elapse(timer))
  <2>1. st \in [Tasks -> TaskState]
    BY <1>0 DEF Woken, Table, TaskState
  <2>2. \A t \in Tasks : \/ st[t] = state[t]
                         \/ state[t] = "Sleeping" /\ st[t] = "Ready"
    BY DEF Woken
  <2>3. st[Kernel] # "Sleeping"
    <3>1. state[Kernel] = "Sleeping" => Elapse(timer)[Kernel] = 0
      <4>1. timer[Kernel] \in Nat
        BY <1>0, SchedulerConstants DEF Kernel, Forever
      <4> QED  BY <1>0, <4>1, SchedulerConstants DEF KernelTimer, Elapse, Kernel
    <3> QED  BY <1>0, <3>1 DEF Woken, Kernel
  <2> HIDE DEF st
  <2>4. AloneIn(st, next_id) <=> AloneIn(state, next_id)
    BY <1>0, <2>2 DEF AloneIn, Kernel, Poller
  <2>5. Table(st, pc, next_id)
    <3>1. \A t \in Tasks : (st[t] = "Unborn" <=> t >= next_id) /\ Agree(st[t], pc[t])
      BY <1>0, <2>2 DEF Table, Agree
    <3>2. AloneIn(st, next_id) \/ \A t \in Tasks : Calm(t, st[t], pc[t])
      BY <1>0, <2>2, <2>4 DEF Table, Calm
    <3> QED  BY <1>0, <2>1, <2>2, <3>1, <3>2 DEF Table, Poller
  <2>6. Runner(st, current, next_id)
    BY <1>0, <2>2 DEF Runner, Table, Kernel, Poller
  <2>7. next_id' = next_id
    BY <1>1 DEF TickPreempt
  <2>8. CASE SwitchStep(st, pc)
    <3>1. PICK nxt \in Tasks :
            /\ IsNextReady(st, nxt)
            /\ state' = SwitchTo(st, nxt)
            /\ current' = nxt
            /\ pc' = IF nxt = current THEN [pc EXCEPT ![nxt] = "stale"] ELSE pc
      BY <2>8 DEF SwitchStep
    <3>2. st[nxt] = "Ready"
      BY <3>1 DEF IsNextReady, ReadyTasks
    <3>3. ASSUME ~AloneIn(st, next_id) PROVE nxt # current
      <4>1. CASE st[current] = "Running"
        BY <3>2, <4>1
      <4>2. CASE st[current] # "Running"
        <5>1. PICK u \in {Kernel, Poller} : /\ u \in Tasks /\ u # current
                                            /\ u < next_id /\ st[u] = "Ready"
          BY <1>0, <2>5, <2>6, <3>3, <4>2, SomeoneWaits
        <5> QED  BY <1>0, <3>1, <5>1, NextIsOther DEF Runner
      <4> QED  BY <4>1, <4>2
    <3>4. /\ Table(state', pc', next_id) /\ Runner(state', current', next_id)
          /\ Cur(state', pc', current', next_id) /\ state'[current'] = "Running"
          /\ \A t \in Tasks : state'[t] = "Finished" <=> st[t] = "Finished"
          /\ \A t \in Tasks : state'[t] = "Unborn" <=> st[t] = "Unborn"
      BY <1>0, <2>3, <2>5, <2>6, <3>1, <3>2, <3>3, SwitchKeeps
    <3>5. Frame
      <4>1. \A t \in Tasks : state[t] = "Finished" => state'[t] = "Finished"
        BY <2>2, <3>4
      <4>2. ASSUME NEW t \in Tasks, Live(t)' PROVE Live(t)
        <5>1. state'[t] # "Finished" /\ state'[t] # "Unborn"
          BY <4>2 DEF Live
        <5>2. st[t] # "Finished" /\ st[t] # "Unborn"
          BY <3>4, <5>1
        <5>3. state[t] # "Finished" /\ state[t] # "Unborn" /\ state[t] \in TaskState
          BY <1>0, <2>2, <5>2 DEF Table
        <5> QED  BY <5>3 DEF Live, TaskState
      <4> QED  BY <3>4, <4>1, <4>2 DEF Frame
    <3> QED  BY <2>7, <3>4, <3>5 DEF Control
  <2>9. CASE state' = st /\ current' = current /\ pc' = pc
    <3>1. Cur(state', pc', current', next_id)
      BY <1>0, <2>2, <2>4, <2>9 DEF Cur, Runner
    <3>2. Frame
      BY <2>2, <2>9 DEF Frame, Live
    <3> QED  BY <2>5, <2>6, <2>7, <2>9, <3>1, <3>2 DEF Control
  <2> QED  BY <1>1, <2>8, <2>9 DEF TickPreempt, st
<1>2. CASE TickSkipped
  BY <1>0, <1>2 DEF TickSkipped, Control, Frame, Live
<1> QED  BY <1>1, <1>2 DEF Tick

\* The table with one more task in it: net_poller, or a task that starts at its
\* program.
LEMMA BornTable ==
  ASSUME SchedInv, next_id < MaxTasks, NEW l,
         \/ l = "poll" /\ next_id = 1 /\ pc[Kernel] = "boot"
         \/ l = "run" /\ next_id > 1
  PROVE  /\ Table(Born(state), [pc EXCEPT ![next_id] = l], next_id + 1)
         /\ Runner(Born(state), current, next_id + 1)
         /\ next_id \in Tasks /\ next_id # Kernel /\ current # next_id
         /\ \A t \in Tasks : t # next_id => /\ Born(state)[t] = state[t]
                                            /\ [pc EXCEPT ![next_id] = l][t] = pc[t]
         /\ Born(state)[next_id] = "Ready" /\ [pc EXCEPT ![next_id] = l][next_id] = l
         /\ state[next_id] = "Unborn"
         /\ AloneIn(Born(state), next_id + 1) => AloneIn(state, next_id)
         /\ l = "run" /\ AloneIn(state, next_id) => AloneIn(Born(state), next_id + 1)
<1>0. /\ Table(state, pc, next_id) /\ Runner(state, current, next_id)
      /\ Cur(state, pc, current, next_id)
      /\ 0 \in Tasks /\ 1 \in Tasks /\ next_id \in 1..MaxTasks
  BY Split, SchedulerConstants DEF Tasks, TypeOK
<1>1. next_id \in Tasks /\ next_id \in Nat /\ next_id # 0
  BY <1>0, SchedulerConstants DEF Tasks
<1>2. state[next_id] = "Unborn" /\ pc[next_id] = "none"
  BY <1>0, <1>1 DEF Table, Agree
<1>3. current # next_id
  BY <1>0, <1>1 DEF Runner
<1> DEFINE b == Born(state)
           p == [pc EXCEPT ![next_id] = l]
<1>4. /\ \A t \in Tasks : t # next_id => b[t] = state[t] /\ p[t] = pc[t]
      /\ b[next_id] = "Ready" /\ p[next_id] = l
      /\ b \in [Tasks -> TaskState] /\ p \in [Tasks -> Location]
  BY <1>0, <1>1 DEF Born, Table, TaskState, Location
<1> HIDE DEF b, p
<1>5. \A t \in Tasks : t # next_id => (t >= next_id <=> t >= next_id + 1)
  BY <1>1, SchedulerConstants DEF Tasks
<1>6. b[Kernel] = state[Kernel] /\ p[Kernel] = pc[Kernel]
  BY <1>0, <1>1, <1>4 DEF Kernel
<1>7. next_id # 1 => b[Poller] = state[Poller] /\ p[Poller] = pc[Poller]
  BY <1>0, <1>1, <1>4 DEF Poller
<1>8. next_id = 1 => b[Poller] = "Ready" /\ p[Poller] = "poll"
  BY <1>4 DEF Poller
<1>9. /\ AloneIn(b, next_id + 1) => AloneIn(state, next_id)
      /\ l = "run" /\ AloneIn(state, next_id) => AloneIn(b, next_id + 1)
  BY <1>1, <1>6, <1>7, <1>8 DEF AloneIn
<1>10. \A t \in Tasks : (b[t] = "Unborn" <=> t >= next_id + 1) /\ Agree(b[t], p[t])
  <2> SUFFICES ASSUME NEW t \in Tasks
               PROVE  (b[t] = "Unborn" <=> t >= next_id + 1) /\ Agree(b[t], p[t])
    OBVIOUS
  <2>1. CASE t = next_id
    BY <1>1, <1>4, <2>1 DEF Agree, LivePc
  <2>2. CASE t # next_id
    BY <1>0, <1>4, <1>5, <2>2 DEF Table
  <2> QED  BY <2>1, <2>2
<1>11. AloneIn(b, next_id + 1) \/ \A t \in Tasks : Calm(t, b[t], p[t])
  <2>1. CASE l = "run"
    <3>1. SUFFICES ASSUME ~AloneIn(b, next_id + 1), NEW t \in Tasks
                   PROVE  Calm(t, b[t], p[t])
      OBVIOUS
    <3>2. Calm(t, state[t], pc[t])
      BY <1>0, <1>9, <2>1, <3>1 DEF Table
    <3> QED  BY <1>4, <2>1, <3>2 DEF Calm
  <2>2. CASE l = "poll"
    <3> SUFFICES ASSUME NEW t \in Tasks PROVE Calm(t, b[t], p[t])
      OBVIOUS
    <3>1. CASE t = next_id
      BY <1>4, <2>2, <3>1 DEF Calm
    <3>2. CASE t = Kernel
      BY <1>6, <2>2, <3>2 DEF Calm
    <3>3. CASE t # next_id /\ t # Kernel
      <4>1. t >= next_id
        BY <1>0, <2>2, <3>3 DEF Tasks, Kernel
      <4>2. state[t] = "Unborn" /\ pc[t] = "none"
        BY <1>0, <4>1 DEF Table, Agree
      <4> QED  BY <1>4, <3>3, <4>2 DEF Calm
    <3> QED  BY <3>1, <3>2, <3>3
  <2> QED  BY <2>1, <2>2
<1>12. Table(b, p, next_id + 1)
  <2>1. pc[Kernel] \in {"dhcp", "stale"} => FALSE
    BY <1>0, <1>1 DEF Table
  <2>2. CASE next_id = 1
    BY <1>0, <1>4, <1>6, <1>8, <1>10, <1>11, <2>1, <2>2 DEF Table
  <2>3. CASE next_id # 1
    BY <1>0, <1>4, <1>6, <1>7, <1>10, <1>11, <2>1, <2>3 DEF Table
  <2> QED  BY <2>2, <2>3
<1>13. Runner(b, current, next_id + 1)
  <2>1. \A t \in Tasks : b[t] = "Running" => t = current
    BY <1>0, <1>4 DEF Runner
  <2>2. CASE next_id = 1
    <3>1. current = 0
      BY <1>0, <2>2 DEF Runner, Tasks
    <3> QED  BY <1>0, <1>6, <1>8, <2>1, <2>2, <3>1 DEF Runner, Kernel, Poller
  <2>3. CASE next_id # 1
    <3>1. current < next_id + 1
      BY <1>0, <1>1 DEF Runner, Tasks
    <3> QED  BY <3>1, <1>0, <1>1, <1>6, <1>7, <2>1, <2>3 DEF Runner
  <2> QED  BY <2>2, <2>3
<1> QED  BY <1>1, <1>2, <1>3, <1>4, <1>9, <1>12, <1>13 DEF b, p, Kernel

\* So do spawn(), spawn_user(), spawn_thread() and SYS_EXEC.
LEMMA SpawnControl ==
  ASSUME SchedInv, NEW t \in Tasks,
         \/ SpawnPoller \/ SpawnKernelTask \/ BootInit
         \/ SpawnUser(t) \/ SpawnThread(t) \/ Exec(t)
  PROVE  Control
<1>0. /\ Cur(state, pc, current, next_id) /\ current \in Tasks /\ 0 \in Tasks /\ 1 \in Tasks
      /\ Table(state, pc, next_id) /\ next_id \in Nat
  BY Split, SchedulerConstants DEF TypeOK, Tasks
<1>1. next_id < MaxTasks /\ next_id' = next_id + 1
  BY DEF SpawnPoller, SpawnKernelTask, BootInit, SpawnUser, SpawnThread, Exec, Push
<1> DEFINE l == IF SpawnPoller THEN "poll" ELSE "run"
           p == [pc EXCEPT ![next_id] = l]
<1>2. \/ l = "poll" /\ next_id = 1 /\ pc[Kernel] = "boot"
      \/ l = "run" /\ next_id > 1
  <2>1. At(t, "run") => next_id > 1
    BY Actor
  <2> QED  BY <2>1 DEF SpawnPoller, SpawnKernelTask, BootInit, SpawnUser, SpawnThread, Exec, At
<1> HIDE DEF l
<1>3. /\ Table(Born(state), p, next_id + 1)
      /\ Runner(Born(state), current, next_id + 1)
      /\ next_id \in Tasks /\ next_id # Kernel /\ current # next_id
      /\ \A u \in Tasks : u # next_id => Born(state)[u] = state[u] /\ p[u] = pc[u]
      /\ Born(state)[next_id] = "Ready" /\ p[next_id] = l
      /\ state[next_id] = "Unborn"
      /\ l = "run" /\ AloneIn(state, next_id) => AloneIn(Born(state), next_id + 1)
  BY <1>1, <1>2, BornTable
<1>4. /\ \A u \in Tasks : state[u] = "Finished" => Born(state)[u] = "Finished"
      /\ \A u \in Tasks : Born(state)[u] \in {"Ready", "Running", "Sleeping"}
                             => Live(u) \/ u >= next_id
  BY <1>0, <1>3 DEF Live
<1>5. l = "run" => p = BornAt
  BY DEF BornAt
<1> HIDE DEF p
<1>6. CASE SpawnKernelTask \/ SpawnUser(t) \/ SpawnThread(t)
  <2>1. l = "run"
    BY <1>2, <1>6, Actor DEF SpawnKernelTask, SpawnUser, SpawnThread
  <2>2. state' = Born(state) /\ pc' = p /\ current' = current
    BY <1>5, <1>6, <2>1 DEF SpawnKernelTask, SpawnUser, SpawnThread
  <2>3. Cur(state', pc', current', next_id')
    BY <1>0, <1>1, <1>3, <2>1, <2>2 DEF Cur
  <2>4. Frame
    BY <1>4, <2>2 DEF Frame, Live
  <2> QED  BY <1>1, <1>3, <2>2, <2>3, <2>4 DEF Control
<1>7. CASE SpawnPoller
  <2>1. l = "poll"
    BY <1>7 DEF l
  <2>2. state' = Born(state) /\ pc' = p /\ current' = current /\ current = Kernel
    BY <1>2, <1>7, <2>1 DEF SpawnPoller, Poller, At, p
  <2>3. state'[Kernel] \in {"Ready", "Running", "Sleeping"}
    <3>1. state[Kernel] \in TaskState /\ Agree(state[Kernel], pc[Kernel]) /\ pc[Kernel] = "boot"
      BY <1>0, <1>2, <2>1 DEF Table, Kernel
    <3>2. state'[Kernel] = state[Kernel]
      BY <1>0, <1>3, <2>2 DEF Kernel
    <3> QED  BY <3>1, <3>2 DEF Agree, TaskState
  <2>4. Cur(state', pc', current', next_id')
    BY <2>2, <2>3 DEF Cur
  <2>5. Frame
    BY <1>4, <2>2 DEF Frame, Live
  <2> QED  BY <1>1, <1>3, <2>2, <2>4, <2>5 DEF Control
<1>8. CASE BootInit
  <2>1. /\ state' = Born(state) /\ pc' = [BornAt EXCEPT ![Kernel] = "drain"]
        /\ current' = current /\ current = Kernel /\ next_id > 1 /\ pc[Kernel] = "boot"
    BY <1>8 DEF BootInit, At
  <2>2. l = "run"
    BY <1>2, <2>1
  <2>3. /\ pc' \in [Tasks -> Location] /\ pc'[Kernel] = "drain" /\ p[Kernel] = "boot"
        /\ \A u \in Tasks : u # Kernel => pc'[u] = p[u]
    BY <1>0, <1>3, <1>5, <2>1, <2>2 DEF Table, Location, Kernel
  <2>4. Table(Born(state), pc', next_id + 1)
    <3>1. \A u \in Tasks : Agree(Born(state)[u], pc'[u])
      BY <1>3, <2>3 DEF Table, Agree, LivePc
    <3>2. AloneIn(Born(state), next_id + 1) \/ \A u \in Tasks : Calm(u, Born(state)[u], pc'[u])
      BY <1>3, <2>3 DEF Table, Calm
    <3> QED  BY <1>0, <1>3, <2>3, <3>1, <3>2 DEF Table, Poller, Kernel
  <2>5. Cur(state', pc', current', next_id')
    <3>1. state'[Kernel] = state[Kernel] /\ state[Kernel] \in {"Ready", "Running", "Sleeping"}
      BY <1>0, <1>3, <2>1 DEF Kernel, Table, Agree, TaskState
    <3> QED  BY <2>1, <3>1 DEF Cur
  <2>6. Frame
    BY <1>4, <2>1 DEF Frame, Live
  <2> QED  BY <1>1, <1>3, <2>1, <2>4, <2>5, <2>6 DEF Control
<1>9. CASE Exec(t)
  <2> DEFINE q == [BornAt EXCEPT ![t] = "wait"]
  <2>1. At(t, "run") /\ YieldNow(Born(state), q) /\ pc[t] = "run"
    BY <1>9 DEF Exec, At
  <2>2. /\ current = t /\ t # Kernel /\ t # Poller /\ state[t] \in {"Ready", "Running", "Sleeping"}
        /\ next_id > 1
    BY <2>1, Actor
  <2>3. l = "run"
    BY <1>2, <2>2
  <2>4. /\ q \in [Tasks -> Location] /\ q[t] = "wait"
        /\ \A u \in Tasks : u # t => q[u] = p[u]
    BY <1>3, <1>5, <2>3 DEF Table, Location
  <2>5. Born(state)[t] = state[t]
    BY <1>3, <2>2
  <2> HIDE DEF q
  <2>6. Table(Born(state), q, next_id')
    <3>1. \A u \in Tasks : Agree(Born(state)[u], q[u])
      BY <1>3, <2>2, <2>4, <2>5 DEF Table, Agree, LivePc
    <3>2. AloneIn(Born(state), next_id + 1) \/ \A u \in Tasks : Calm(u, Born(state)[u], q[u])
      <4>1. SUFFICES ASSUME ~AloneIn(Born(state), next_id + 1)
                     PROVE  \A u \in Tasks : Calm(u, Born(state)[u], q[u])
        OBVIOUS
      <4>2. state[t] \in {"Ready", "Running"}
        BY <1>0, <1>3, <2>1, <2>2, <2>3, <4>1 DEF Cur
      <4> QED  BY <1>3, <2>4, <2>5, <4>1, <4>2 DEF Table, Calm
    <3> QED  BY <1>0, <1>1, <1>3, <2>2, <2>4, <3>1, <3>2 DEF Table, Poller, Kernel
  <2> QED  BY <1>0, <1>1, <1>3, <1>4, <2>1, <2>2, <2>6, YieldControl
<1> QED  BY <1>6, <1>7, <1>8, <1>9

\* So do the rounds of wait_net_condition() while task 0 is alone, and the boot
\* without init.
LEMMA BootControl ==
  ASSUME SchedInv, DhcpWait \/ DhcpYield \/ BootNoInit \/ DrainDone
  PROVE  Control
<1>0. /\ Table(state, pc, next_id) /\ Runner(state, current, next_id)
      /\ Cur(state, pc, current, next_id)
      /\ 0 \in Tasks /\ 1 \in Tasks /\ next_id \in Nat
  BY Split, SchedulerConstants DEF Tasks, TypeOK
<1>1. current = Kernel /\ next_id' = next_id /\ pc[Kernel] \in {"boot", "dhcp", "drain"}
  BY DEF DhcpWait, DhcpYield, BootNoInit, DrainDone, At, TableUnchanged
<1>2. state[Kernel] \in {"Ready", "Running", "Sleeping"}
  BY <1>0, <1>1 DEF Table, Agree, TaskState, Kernel
<1>3. CASE DhcpWait
  <2>1. /\ next_id = 1 /\ current' = current
        /\ state' = [state EXCEPT ![Kernel] = "Sleeping"]
        /\ pc' = [pc EXCEPT ![Kernel] = "dhcp"]
    BY <1>3 DEF DhcpWait
  <2>2. /\ state' \in [Tasks -> TaskState] /\ pc' \in [Tasks -> Location]
        /\ state'[Kernel] = "Sleeping" /\ pc'[Kernel] = "dhcp"
        /\ \A v \in Tasks : v # Kernel => state'[v] = state[v] /\ pc'[v] = pc[v]
    BY <1>0, <2>1 DEF Table, TaskState, Location, Kernel
  <2>3. \A v \in Tasks : (state'[v] = "Unborn" <=> v >= next_id) /\ Agree(state'[v], pc'[v])
    <3> SUFFICES ASSUME NEW v \in Tasks
                 PROVE  (state'[v] = "Unborn" <=> v >= next_id) /\ Agree(state'[v], pc'[v])
      OBVIOUS
    <3>1. CASE v = Kernel
      BY <1>0, <2>1, <2>2, <3>1 DEF Agree, LivePc, Kernel
    <3>2. CASE v # Kernel
      BY <1>0, <2>2, <3>2 DEF Table
    <3> QED  BY <3>1, <3>2
  <2>4. Table(state', pc', next_id')
    BY <1>0, <1>1, <2>1, <2>2, <2>3 DEF Table, AloneIn, Poller, Kernel
  <2>5. Runner(state', current', next_id')
    BY <1>0, <1>1, <2>1, <2>2 DEF Runner, Kernel, Poller
  <2>6. Cur(state', pc', current', next_id') /\ Frame
    BY <1>1, <1>2, <2>1, <2>2 DEF Cur, AloneIn, Frame, Live
  <2> QED  BY <2>4, <2>5, <2>6 DEF Control
<1>4. CASE DhcpYield
  <2> DEFINE p == [pc EXCEPT ![Kernel] = "boot"]
  <2>1. YieldNow(state, p) /\ next_id = 1
    BY <1>0, <1>4 DEF DhcpYield, At, Table
  <2>2. /\ p \in [Tasks -> Location] /\ p[Kernel] = "boot"
        /\ \A v \in Tasks : v # Kernel => p[v] = pc[v]
    BY <1>0 DEF Table, Location, Kernel
  <2> HIDE DEF p
  <2>3. Table(state, p, next_id)
    <3>1. \A v \in Tasks : Agree(state[v], p[v])
      BY <1>0, <1>2, <2>2 DEF Table, Agree, LivePc
    <3> QED  BY <1>0, <2>1, <2>2, <3>1 DEF Table, AloneIn, Poller, Kernel
  <2>4. CASE SwitchStep(state, p)
    <3>1. PICK nxt \in Tasks :
            /\ IsNextReady(state, nxt)
            /\ state' = SwitchTo(state, nxt)
            /\ current' = nxt
            /\ pc' = IF nxt = current THEN [p EXCEPT ![nxt] = "stale"] ELSE p
      BY <2>4 DEF SwitchStep
    <3>2. state[nxt] = "Ready"
      BY <3>1 DEF IsNextReady, ReadyTasks
    <3>3. nxt = Kernel
      BY <1>0, <2>1, <3>2 DEF Table, Kernel, Tasks
    <3>4. /\ Table(state', pc', next_id) /\ Runner(state', current', next_id)
          /\ Cur(state', pc', current', next_id) /\ state'[current'] = "Running"
          /\ \A t \in Tasks : state'[t] = "Finished" <=> state[t] = "Finished"
          /\ \A t \in Tasks : state'[t] = "Unborn" <=> state[t] = "Unborn"
      BY <1>0, <2>1, <2>3, <3>1, <3>2, <3>3, SwitchKeeps DEF AloneIn
    <3>5. Frame
      <4>1. ASSUME NEW t \in Tasks, Live(t)' PROVE Live(t)
        <5>1. state'[t] # "Finished" /\ state'[t] # "Unborn"
          BY <4>1 DEF Live
        <5>2. state[t] # "Finished" /\ state[t] # "Unborn" /\ state[t] \in TaskState
          BY <1>0, <3>4, <5>1 DEF Table
        <5> QED  BY <5>2 DEF Live, TaskState
      <4> QED  BY <3>4, <4>1 DEF Frame
    <3> QED  BY <1>1, <3>4, <3>5 DEF Control
  <2>5. CASE state' = state /\ pc' = p /\ UNCHANGED current
    BY <1>0, <1>1, <2>1, <2>3, <2>5 DEF Control, Cur, AloneIn, Frame, Live
  <2> QED  BY <2>1, <2>4, <2>5 DEF YieldNow
<1>5. CASE BootNoInit \/ DrainDone
  <2>1. PICK l \in {"drain", "shell"} :
          state' = state /\ current' = current /\ pc' = [pc EXCEPT ![Kernel] = l]
    BY <1>5 DEF BootNoInit, DrainDone
  <2>2. /\ pc' \in [Tasks -> Location] /\ pc'[Kernel] = l
        /\ \A v \in Tasks : v # Kernel => pc'[v] = pc[v]
    BY <1>0, <2>1 DEF Table, Location, Kernel
  <2>3. \A v \in Tasks : Agree(state[v], pc'[v])
    BY <1>0, <1>2, <2>2 DEF Table, Agree, LivePc
  <2>4. AloneIn(state, next_id) \/ \A v \in Tasks : Calm(v, state[v], pc'[v])
    BY <1>0, <2>2 DEF Table, Calm
  <2>5. Table(state', pc', next_id')
    BY <1>0, <1>1, <2>1, <2>2, <2>3, <2>4 DEF Table, Poller, Kernel
  <2> QED  BY <1>0, <1>1, <1>2, <2>1, <2>5 DEF Control, Frame, Cur, Live
<1> QED  BY <1>3, <1>4, <1>5

\* So do sleep_ticks(), futex_wait(), wake_task() and the cancelled sleep of
\* ipc::recv().
LEMMA SleepControl ==
  ASSUME SchedInv, NEW t \in Tasks, NEW u \in Tasks, NEW d \in Delays,
         \/ SysYield(t) \/ SleepStart(t, d) \/ SleepYield(t) \/ SleepCancel(t)
         \/ Block(t, d) \/ WakeTask(t, u)
  PROVE  Control
<1>0. /\ Table(state, pc, next_id) /\ Runner(state, current, next_id)
      /\ Cur(state, pc, current, next_id)
      /\ 0 \in Tasks /\ 1 \in Tasks /\ next_id \in Nat
      /\ \A v \in Tasks : state[v] \in {"Ready", "Running", "Sleeping"} => Live(v)
  <2>1. TypeOK /\ Table(state, pc, next_id) /\ Runner(state, current, next_id)
        /\ Cur(state, pc, current, next_id)
    BY Split
  <2>2. 0 \in Tasks /\ 1 \in Tasks /\ next_id \in Nat
    <3>1. next_id \in 1..MaxTasks
      BY <2>1 DEF TypeOK
    <3> QED  BY <3>1, SchedulerConstants DEF Tasks
  <2> QED  BY <2>1, <2>2 DEF Live
<1>1. next_id' = next_id
  BY DEF SysYield, SleepStart, SleepYield, SleepCancel, Block, WakeTask, TableUnchanged
\* Only t is moved, to a state s and a location l of its program.
<1>2. ASSUME NEW st, NEW p, NEW s \in {"Ready", "Running", "Sleeping"},
             NEW l \in {"run", "asleep"},
             t # Kernel, t # Poller, current = t, t < next_id,
             state[t] \in {"Ready", "Running", "Sleeping"},
             pc[t] \in {"run", "asleep"}, s = "Running" => state[t] = "Running",
             st = [state EXCEPT ![t] = s], p = [pc EXCEPT ![t] = l]
      PROVE  /\ Table(st, p, next_id) /\ Runner(st, current, next_id)
             /\ AloneIn(st, next_id) <=> AloneIn(state, next_id)
             /\ st[t] = s /\ p[t] = l
             /\ \A v \in Tasks : v # t => st[v] = state[v] /\ p[v] = pc[v]
             /\ \A v \in Tasks : state[v] = "Finished" => st[v] = "Finished"
             /\ \A v \in Tasks : st[v] \in {"Ready", "Running", "Sleeping"} => Live(v)
  <2>1. /\ st \in [Tasks -> TaskState] /\ p \in [Tasks -> Location]
        /\ st[t] = s /\ p[t] = l
        /\ \A v \in Tasks : v # t => st[v] = state[v] /\ p[v] = pc[v]
    BY <1>0, <1>2 DEF Table, TaskState, Location
  <2>2. AloneIn(st, next_id) <=> AloneIn(state, next_id)
    BY <1>0, <1>2, <2>1 DEF AloneIn, Kernel, Poller
  <2>3. \A v \in Tasks : (st[v] = "Unborn" <=> v >= next_id) /\ Agree(st[v], p[v])
    BY <1>0, <1>2, <2>1 DEF Table, Agree, LivePc
  <2>4. AloneIn(st, next_id) \/ \A v \in Tasks : Calm(v, st[v], p[v])
    BY <1>0, <2>1, <2>2 DEF Table, Calm
  <2>5. Table(st, p, next_id)
    BY <1>0, <1>2, <2>1, <2>3, <2>4 DEF Table, Kernel, Poller
  <2>6. Runner(st, current, next_id)
    BY <1>0, <1>2, <2>1 DEF Runner, Kernel, Poller
  <2>7. /\ \A v \in Tasks : state[v] = "Finished" => st[v] = "Finished"
        /\ \A v \in Tasks : st[v] \in {"Ready", "Running", "Sleeping"} => Live(v)
    BY <1>0, <1>2, <2>1
  <2> QED  BY <2>1, <2>2, <2>5, <2>6, <2>7
<1>3. /\ state = [state EXCEPT ![t] = state[t]] /\ pc = [pc EXCEPT ![t] = pc[t]]
  BY <1>0 DEF Table
<1>4. ASSUME At(t, "run") \/ At(t, "asleep")
      PROVE  /\ current = t /\ t # Kernel /\ t # Poller /\ t < next_id /\ next_id > 1
             /\ state[t] \in {"Ready", "Running", "Sleeping"} /\ pc[t] \in {"run", "asleep"}
  <2>1. PICK l \in {"run", "asleep"} : At(t, l)
    BY <1>4
  <2> QED  BY <2>1, Actor DEF At
<1>5. CASE SysYield(t)
  <2>1. At(t, "run") /\ YieldNow(state, pc)
    BY <1>5 DEF SysYield
  <2> QED  BY <1>0, <1>1, <1>4, <2>1, YieldControl
<1>6. CASE SleepStart(t, d)
  <2>1. /\ At(t, "run") /\ current' = current
        /\ state' = [state EXCEPT ![t] = "Sleeping"]
        /\ pc' = [pc EXCEPT ![t] = "asleep"]
    BY <1>6 DEF SleepStart
  <2>2. /\ Table(state', pc', next_id) /\ Runner(state', current, next_id)
        /\ state'[t] = "Sleeping" /\ pc'[t] = "asleep"
        /\ \A v \in Tasks : state[v] = "Finished" => state'[v] = "Finished"
        /\ \A v \in Tasks : state'[v] \in {"Ready", "Running", "Sleeping"} => Live(v)
    BY <1>2, <1>4, <2>1
  <2> QED  BY <1>1, <1>4, <2>1, <2>2 DEF Control, Cur, Frame, Live
<1>7. CASE SleepYield(t)
  <2> DEFINE p == [pc EXCEPT ![t] = "run"]
  <2>1. At(t, "asleep") /\ YieldNow(state, p)
    BY <1>7 DEF SleepYield
  <2>2. Table(state, p, next_id)
    BY <1>2, <1>3, <1>4, <2>1
  <2> HIDE DEF p
  <2> QED  BY <1>0, <1>1, <1>4, <2>1, <2>2, YieldControl
<1>8. CASE SleepCancel(t)
  <2> DEFINE s == IF state[t] = "Sleeping" THEN "Ready" ELSE state[t]
  <2>1. /\ At(t, "asleep") /\ current' = current
        /\ state' = [state EXCEPT ![t] = s]
        /\ pc' = [pc EXCEPT ![t] = "run"]
    BY <1>8 DEF SleepCancel
  <2>2. s \in {"Ready", "Running"} /\ (s = "Running" => state[t] = "Running")
    BY <1>4, <2>1
  <2> HIDE DEF s
  <2>3. /\ Table(state', pc', next_id) /\ Runner(state', current, next_id)
        /\ state'[t] = s
        /\ \A v \in Tasks : state[v] = "Finished" => state'[v] = "Finished"
        /\ \A v \in Tasks : state'[v] \in {"Ready", "Running", "Sleeping"} => Live(v)
    <3>1. /\ t # Kernel /\ t # Poller /\ current = t /\ t < next_id
          /\ state[t] \in {"Ready", "Running", "Sleeping"} /\ pc[t] \in {"run", "asleep"}
      BY <1>4, <2>1
    <3>2. s \in {"Ready", "Running", "Sleeping"} /\ "run" \in {"run", "asleep"}
      BY <2>2
    <3> QED  BY <1>2, <2>1, <2>2, <3>1, <3>2, Zenon
  <2> QED  BY <1>1, <1>4, <2>1, <2>2, <2>3 DEF Control, Cur, Frame, Live
<1>9. CASE Block(t, d)
  <2> DEFINE st == [state EXCEPT ![t] = "Sleeping"]
  <2>1. At(t, "run") /\ YieldNow(st, pc) /\ pc[t] = "run"
    BY <1>9 DEF Block, At
  <2>2. /\ Table(st, pc, next_id) /\ Runner(st, current, next_id)
        /\ \A v \in Tasks : state[v] = "Finished" => st[v] = "Finished"
        /\ \A v \in Tasks : st[v] \in {"Ready", "Running", "Sleeping"} => Live(v)
    BY <1>2, <1>3, <1>4, <2>1
  <2> HIDE DEF st
  <2> QED  BY <1>0, <1>1, <1>4, <2>1, <2>2, YieldControl
<1>10. CASE WakeTask(t, u)
  <2>1. /\ state[u] = "Sleeping" /\ state' = [state EXCEPT ![u] = "Ready"]
        /\ current' = current /\ pc' = pc /\ current = t /\ pc[t] \in {"run", "poll"}
    BY <1>10 DEF WakeTask
  <2>2. /\ state' \in [Tasks -> TaskState] /\ state'[u] = "Ready"
        /\ \A v \in Tasks : v # u => state'[v] = state[v]
    BY <1>0, <2>1 DEF Table, TaskState
  <2>3. u # Kernel /\ u # Poller
    BY <1>0, <2>1 DEF Table, Runner
  <2>4. AloneIn(state', next_id) <=> AloneIn(state, next_id)
    BY <1>0, <2>2, <2>3 DEF AloneIn, Kernel, Poller
  <2>5. Table(state', pc', next_id')
    <3>1. \A v \in Tasks : (state'[v] = "Unborn" <=> v >= next_id) /\ Agree(state'[v], pc[v])
      BY <1>0, <2>1, <2>2 DEF Table, Agree
    <3>2. AloneIn(state', next_id) \/ \A v \in Tasks : Calm(v, state'[v], pc[v])
      BY <1>0, <2>2, <2>4 DEF Table, Calm
    <3> QED  BY <1>0, <1>1, <2>1, <2>2, <2>3, <3>1, <3>2 DEF Table, Poller
  <2>6. Runner(state', current', next_id')
    BY <1>0, <1>1, <2>1, <2>2, <2>3 DEF Runner, Kernel, Poller
  <2>7. Cur(state', pc', current', next_id')
    BY <1>0, <1>1, <2>1, <2>2, <2>4 DEF Cur, Runner
  <2>8. Frame
    BY <2>1, <2>2 DEF Frame, Live
  <2> QED  BY <2>5, <2>6, <2>7, <2>8 DEF Control
<1> QED  BY <1>5, <1>6, <1>7, <1>8, <1>9, <1>10

\* So does every round of wait_for_child(), waitpid() and wait_for_thread().
LEMMA WaitControl ==
  ASSUME SchedInv, NEW t \in Tasks, NEW u \in Tasks, NEW d \in Delays,
         \/ WaitStart(t, u, d) \/ WaitReturn(t) \/ WaitYield(t) \/ WaitNoHang(t, u)
         \/ JoinStart(t, u, d) \/ JoinLoop(t)
  PROVE  Control
<1>0. /\ Table(state, pc, next_id) /\ Runner(state, current, next_id)
      /\ Cur(state, pc, current, next_id) /\ next_id \in Nat
      /\ \A v \in Tasks : state[v] \in {"Ready", "Running", "Sleeping"} => Live(v)
  BY Split DEF Live, TypeOK
<1>1. next_id' = next_id
  BY DEF WaitStart, WaitReturn, WaitYield, WaitNoHang, JoinStart, JoinLoop, JoinReturn,
         TableUnchanged
<1>2. PICK l \in {"run", "wait", "join"} : At(t, l)
  BY DEF WaitStart, WaitReturn, WaitYield, WaitNoHang, JoinStart, JoinLoop, At
<1>3. /\ current = t /\ t # Kernel /\ t # Poller /\ state[t] \in {"Ready", "Running", "Sleeping"}
      /\ pc[t] \in {"run", "wait", "join"}
  BY <1>2, Actor DEF At
<1>4. CASE /\ state' = state /\ current' = current
           /\ \E m \in {"run", "wait"} : pc' = [pc EXCEPT ![t] = m]
  BY <1>1, <1>3, <1>4, MoveControl
<1>5. CASE state' = state /\ current' = current /\ pc' = pc
  BY <1>0, <1>1, <1>5 DEF Control, Frame, Live
<1>6. CASE YieldNow(state, pc)
  BY <1>0, <1>1, <1>3, <1>6, YieldControl
<1>7. CASE YieldNow(state, [pc EXCEPT ![t] = "join"])
  <2> DEFINE p == [pc EXCEPT ![t] = "join"]
  <2>1. /\ p \in [Tasks -> Location] /\ p[t] = "join"
        /\ \A v \in Tasks : v # t => p[v] = pc[v]
    BY <1>0 DEF Table, Location
  <2>2. YieldNow(state, p)
    BY <1>7
  <2>3. 0 \in Tasks /\ 1 \in Tasks
    BY SchedulerConstants DEF Tasks
  <2> HIDE DEF p
  <2>4. \A v \in Tasks : Agree(state[v], p[v])
    BY <1>0, <1>3, <2>1 DEF Table, Agree, LivePc
  <2>5. AloneIn(state, next_id) \/ state[t] \in {"Ready", "Running"}
    BY <1>0, <1>3 DEF Cur
  <2>6. AloneIn(state, next_id) \/ \A v \in Tasks : Calm(v, state[v], p[v])
    BY <1>0, <2>1, <2>5 DEF Table, Calm
  <2>7. Table(state, p, next_id')
    BY <1>0, <1>1, <1>3, <2>1, <2>3, <2>4, <2>6 DEF Table, Kernel, Poller
  <2> QED  BY <1>0, <1>1, <1>3, <2>2, <2>7, YieldControl
<1>8. CASE WaitStart(t, u, d)
  BY <1>4, <1>8 DEF WaitStart
<1>9. CASE WaitReturn(t)
  BY <1>4, <1>9 DEF WaitReturn
<1>10. CASE WaitYield(t)
  BY <1>6, <1>10 DEF WaitYield
<1>11. CASE WaitNoHang(t, u)
  BY <1>5, <1>11 DEF WaitNoHang
<1>12. CASE JoinStart(t, u, d)
  BY <1>4, <1>7, <1>12 DEF JoinStart, JoinReturn
<1>13. CASE JoinLoop(t)
  BY <1>4, <1>6, <1>13 DEF JoinLoop, JoinReturn
<1> QED  BY <1>8, <1>9, <1>10, <1>11, <1>12, <1>13

\* Ending a set of tasks leaves a consistent table when the CPU is with an
\* ordinary task.
LEMMA DieTable ==
  ASSUME SchedInv, NEW gone, current # Kernel, current # Poller, next_id > 1,
         \A u \in gone : u \in Tasks /\ u < next_id
  PROVE  /\ Table(Die(state, gone), DeadAt(gone), next_id)
         /\ Runner(Die(state, gone), current, next_id)
         /\ AloneIn(state, next_id) => AloneIn(Die(state, gone), next_id)
         /\ \A u \in Tasks : /\ u \in gone => Die(state, gone)[u] = "Finished"
                             /\ u \notin gone => Die(state, gone)[u] = state[u]
         /\ \A u \in Tasks : state[u] = "Finished" => Die(state, gone)[u] = "Finished"
         /\ \A u \in Tasks : Die(state, gone)[u] \in {"Ready", "Running", "Sleeping"} => Live(u)
<1>0. /\ Table(state, pc, next_id) /\ Runner(state, current, next_id)
      /\ 0 \in Tasks /\ 1 \in Tasks /\ next_id \in Nat
  BY Split, SchedulerConstants DEF Tasks, TypeOK
<1> DEFINE st == Die(state, gone)
           p  == DeadAt(gone)
<1>1. st \in [Tasks -> TaskState] /\ p \in [Tasks -> Location]
  BY <1>0 DEF Die, DeadAt, Table, TaskState, Location
<1>2. \A u \in Tasks : /\ u \in gone => st[u] = "Finished" /\ p[u] = "dead"
                       /\ u \notin gone => st[u] = state[u] /\ p[u] = pc[u]
  BY DEF Die, DeadAt
<1>3. \A u \in Tasks : u \in gone => ~(u >= next_id)
  BY <1>0 DEF Tasks
<1> HIDE DEF st, p
<1>4. AloneIn(state, next_id) => AloneIn(st, next_id)
  BY <1>0, <1>2 DEF AloneIn, Kernel, Poller
<1>5. Table(st, p, next_id)
  <2>1. ASSUME NEW u \in Tasks
        PROVE  (st[u] = "Unborn" <=> u >= next_id) /\ Agree(st[u], p[u])
    <3>1. CASE u \in gone
      BY <1>2, <1>3, <3>1 DEF Agree
    <3>2. CASE u \notin gone
      BY <1>0, <1>2, <3>2 DEF Table
    <3> QED  BY <3>1, <3>2
  <2>2. AloneIn(st, next_id) \/ \A u \in Tasks : Calm(u, st[u], p[u])
    <3>1. SUFFICES ASSUME ~AloneIn(st, next_id), NEW u \in Tasks PROVE Calm(u, st[u], p[u])
      OBVIOUS
    <3>2. Calm(u, state[u], pc[u])
      BY <1>0, <1>4, <3>1 DEF Table
    <3> QED  BY <1>2, <3>2 DEF Calm
  <2>3. /\ p[Kernel] \in {"boot", "dhcp", "drain", "shell", "dead", "stale"}
        /\ p[Kernel] \in {"dhcp", "stale"} => next_id = 1
        /\ p[Poller] \in {"none", "poll", "dead"}
        /\ st[Poller] \in {"Unborn", "Ready", "Running", "Finished"}
    BY <1>0, <1>2 DEF Table, Kernel, Poller
  <2> QED  BY <1>1, <2>1, <2>2, <2>3 DEF Table
<1>6. Runner(st, current, next_id)
  BY <1>0, <1>2 DEF Runner, Kernel, Poller
<1>7. /\ \A u \in Tasks : state[u] = "Finished" => st[u] = "Finished"
      /\ \A u \in Tasks : st[u] \in {"Ready", "Running", "Sleeping"} => Live(u)
  BY <1>2 DEF Live
<1> QED  BY <1>2, <1>4, <1>5, <1>6, <1>7 DEF st, p

\* So does every end of a task: exits, SYS_KILL of anyone, and faults.
LEMMA EndControl ==
  ASSUME SchedInv, NEW t \in Tasks, NEW u \in Tasks,
         \/ ExitProcess(t) \/ ExitThread(t) \/ ExitKernelTask(t) \/ ExitKernelYield(t)
         \/ KillTask(t, u) \/ AbortTask(t)
  PROVE  Control
<1>0. /\ Table(state, pc, next_id) /\ Runner(state, current, next_id)
      /\ Cur(state, pc, current, next_id)
      /\ TypeOK /\ Groups /\ 0 \in Tasks /\ 1 \in Tasks /\ next_id \in Nat
  <2>1. TypeOK /\ Groups /\ Table(state, pc, next_id) /\ Runner(state, current, next_id)
        /\ Cur(state, pc, current, next_id)
    BY Split
  <2>2. next_id \in 1..MaxTasks
    BY <2>1 DEF TypeOK
  <2>3. 0 \in Tasks /\ 1 \in Tasks /\ next_id \in Nat
    BY <2>2, SchedulerConstants DEF Tasks
  <2> QED  BY <2>1, <2>3
<1>1. next_id' = next_id
  BY DEF ExitProcess, ExitThread, ExitKernelTask, ExitKernelYield, KillTask, AbortTask,
         TableUnchanged
<1>2. PICK l \in {"run", "exiting"} : At(t, l)
  BY DEF ExitProcess, ExitThread, ExitKernelTask, ExitKernelYield, KillTask, AbortTask
<1>3. current = t /\ t # Kernel /\ t # Poller /\ t < next_id /\ next_id > 1
  BY <1>2, Actor
<1>4. CASE ExitProcess(t)
  <2> DEFINE gone == {t} \cup ThreadsOf(t)
  <2>1. YieldNow(Die(state, gone), DeadAt(gone))
    BY <1>4 DEF ExitProcess
  <2>2. \A v \in gone : v \in Tasks /\ v < next_id
    BY <1>0, <1>3 DEF ThreadsOf, Groups, NoTask, Tasks
  <2> HIDE DEF gone
  <2> QED  BY <1>0, <1>1, <1>3, <2>1, <2>2, DieTable, YieldControl
<1>5. /\ Table(Die(state, {t}), DeadAt({t}), next_id)
      /\ Runner(Die(state, {t}), current, next_id)
      /\ \A v \in Tasks : state[v] = "Finished" => Die(state, {t})[v] = "Finished"
      /\ \A v \in Tasks : Die(state, {t})[v] \in {"Ready", "Running", "Sleeping"} => Live(v)
      /\ Die(state, {t})[t] = "Finished"
  BY <1>3, DieTable
<1>6. CASE ExitThread(t) \/ ExitKernelYield(t)
  <2>1. ExitKernelYield(t) => state = Die(state, {t})
    <3>1. SUFFICES ASSUME ExitKernelYield(t) PROVE state = Die(state, {t})
      OBVIOUS
    <3>2. state[t] = "Finished"
      BY <3>1, Actor DEF ExitKernelYield
    <3> QED  BY <1>0, <3>2 DEF Table, Die
  <2>2. YieldNow(Die(state, {t}), DeadAt({t}))
    BY <1>6, <2>1 DEF ExitThread, ExitKernelYield
  <2> QED  BY <1>0, <1>1, <1>3, <1>5, <2>2, YieldControl
<1>7. CASE ExitKernelTask(t)
  <2>1. /\ state' = Die(state, {t}) /\ pc' = [pc EXCEPT ![t] = "exiting"]
        /\ current' = current
    BY <1>7 DEF ExitKernelTask
  <2>2. /\ pc' \in [Tasks -> Location] /\ pc'[t] = "exiting" /\ state'[t] = "Finished"
        /\ \A v \in Tasks : v # t => pc'[v] = DeadAt({t})[v]
    BY <1>0, <2>1 DEF Table, Location, DeadAt, Die
  <2>3. \A v \in Tasks : Agree(state'[v], pc'[v])
    BY <1>5, <2>1, <2>2 DEF Table, Agree
  <2>4. AloneIn(state', next_id) \/ \A v \in Tasks : Calm(v, state'[v], pc'[v])
    BY <1>5, <2>1, <2>2 DEF Table, Calm
  <2>5. Table(state', pc', next_id')
    BY <1>0, <1>1, <1>3, <1>5, <2>1, <2>2, <2>3, <2>4 DEF Table, Kernel, Poller
  <2>6. Cur(state', pc', current', next_id') /\ Frame
    BY <1>3, <1>5, <2>1, <2>2 DEF Cur, Frame, Live
  <2> QED  BY <1>1, <1>5, <2>1, <2>5, <2>6 DEF Control
<1>8. CASE KillTask(t, u)
  <2>1. /\ state' = Die(state, {u}) /\ pc' = DeadAt({u})
        /\ current' = current /\ u # t /\ u < next_id /\ pc[t] = "run"
    BY <1>8 DEF KillTask, At
  <2>2. /\ Table(state', pc', next_id) /\ Runner(state', current, next_id)
        /\ AloneIn(state, next_id) => AloneIn(state', next_id)
        /\ state'[t] = state[t]
        /\ \A v \in Tasks : state[v] = "Finished" => state'[v] = "Finished"
        /\ \A v \in Tasks : state'[v] \in {"Ready", "Running", "Sleeping"} => Live(v)
    BY <1>3, <2>1, DieTable
  <2>3. Cur(state', pc', current', next_id') /\ Frame
    BY <1>0, <1>1, <1>3, <2>1, <2>2 DEF Cur, Frame, Live
  <2> QED  BY <1>1, <2>1, <2>2, <2>3 DEF Control
<1>9. CASE AbortTask(t)
  <2> DEFINE st == Die(state, {t})
             p  == DeadAt({t})
  <2>1. st \in [Tasks -> TaskState]
    BY <1>5 DEF Table
  <2>2. CASE \E nxt \in Tasks : /\ AbortTo(st, nxt)
                                /\ state' = [st EXCEPT ![nxt] = "Running"]
                                /\ current' = nxt
                                /\ pc' = p
    <3>1. PICK nxt \in Tasks : /\ AbortTo(st, nxt)
                               /\ state' = [st EXCEPT ![nxt] = "Running"]
                               /\ current' = nxt
                               /\ pc' = p
      BY <2>2
    <3>2. st[Kernel] # "Finished" => st[Kernel] = "Ready"
      BY <1>3, <1>5 DEF Runner
    <3> HIDE DEF st, p
    <3>3. st[nxt] = "Ready"
      BY <1>0, <3>1, <3>2 DEF AbortTo, IsNextReady, ReadyTasks, Kernel
    <3>4. SwitchTo(st, nxt) = [st EXCEPT ![nxt] = "Running"] /\ nxt # current
      BY <1>3, <1>5, <2>1, <3>3 DEF SwitchTo, st
    <3>5. /\ Table(state', pc', next_id) /\ Runner(state', current', next_id)
          /\ Cur(state', pc', current', next_id) /\ state'[current'] = "Running"
          /\ \A v \in Tasks : state'[v] = "Finished" <=> st[v] = "Finished"
          /\ \A v \in Tasks : state'[v] = "Unborn" <=> st[v] = "Unborn"
      BY <1>0, <1>3, <1>5, <3>1, <3>3, <3>4, SwitchKeeps DEF st, p
    <3>6. Frame
      <4>1. ASSUME NEW v \in Tasks, Live(v)' PROVE Live(v)
        <5>1. state'[v] # "Finished" /\ state'[v] # "Unborn"
          BY <4>1 DEF Live
        <5>2. st[v] \in {"Ready", "Running", "Sleeping"}
          BY <2>1, <3>5, <5>1 DEF TaskState
        <5> QED  BY <1>5, <5>2 DEF st
      <4> QED  BY <1>5, <3>5, <4>1 DEF Frame, st
    <3> QED  BY <1>1, <3>5, <3>6 DEF Control
  <2>3. CASE /\ ReadyTasks(st) = {} /\ st[Kernel] = "Finished"
             /\ state' = st
             /\ pc' = [pc EXCEPT ![t] = "hung"]
             /\ UNCHANGED current
    <3>1. AloneIn(st, next_id)
      <4>1. SUFFICES ASSUME ~AloneIn(st, next_id) PROVE FALSE
        OBVIOUS
      <4> HIDE DEF st
      <4> QED  BY <1>0, <1>3, <1>5, <2>3, <4>1, SomeoneWaits DEF ReadyTasks, st
    <3>2. /\ pc' \in [Tasks -> Location] /\ pc'[t] = "hung"
          /\ \A v \in Tasks : v # t => pc'[v] = p[v]
      BY <1>0, <2>3 DEF Table, Location, DeadAt
    <3> HIDE DEF st, p
    <3>3. \A v \in Tasks : Agree(state'[v], pc'[v])
      BY <1>5, <2>3, <3>2 DEF Table, Agree, st, p
    <3>4. Table(state', pc', next_id')
      BY <1>0, <1>1, <1>3, <1>5, <2>3, <3>1, <3>2, <3>3 DEF Table, Kernel, Poller, st, p
    <3>5. Cur(state', pc', current', next_id') /\ Frame
      BY <1>1, <1>5, <2>3, <3>1 DEF Cur, Frame, Live, st
    <3> QED  BY <1>1, <1>5, <2>3, <3>4, <3>5 DEF Control, st
  <2> QED  BY <1>9, <2>2, <2>3 DEF AbortTask
<1> QED  BY <1>4, <1>6, <1>7, <1>8, <1>9

-----------------------------------------------------------------------------
(* The memory part: page tables, thread groups and freed stacks.           *)

\* Every variable that Table and Runner do not type.
RestOK ==
  /\ next_id \in 1..MaxTasks
  /\ timer \in [Tasks -> 0..Forever]
  /\ cr3 \in [Tasks -> Tasks \cup {NoTask}]
  /\ leader \in [Tasks -> Tasks \cup {NoTask}]
  /\ parent \in [Tasks -> Tasks \cup {NoTask}]
  /\ owns \subseteq Tasks
  /\ reaped \in [Tasks -> BOOLEAN]
  /\ exit_code \in [Tasks -> {0, -1}]
  /\ target \in [Tasks -> Tasks]

Memory ==
  /\ RestOK
  /\ cr3[Kernel] = NoTask /\ cr3[Poller] = NoTask
  /\ Groups /\ FreedStackIdle /\ ThreadHasSpace

\* The two parts make up the invariant.
LEMMA Join ==
  ASSUME Control, Memory', KernelTimer'
  PROVE  SchedInv'
<1>1. TypeOK'
  BY DEF Control, Table, Runner, Memory, RestOK, TypeOK
<1>2. (/\ TypeOK /\ Table(state, pc, next_id) /\ Runner(state, current, next_id)
       /\ Cur(state, pc, current, next_id) /\ KernelTimer
       /\ cr3[Kernel] = NoTask /\ cr3[Poller] = NoTask
       /\ Groups /\ FreedStackIdle /\ ThreadHasSpace)'
  BY <1>1 DEF Control, Memory
<1> QED  BY <1>2, Split, PTL

\* What SchedInv says about memory.
LEMMA MemoryNow ==
  ASSUME SchedInv
  PROVE  Memory /\ 0 \in Tasks /\ 1 \in Tasks /\ next_id \in Nat
<1>1. TypeOK /\ cr3[Kernel] = NoTask /\ cr3[Poller] = NoTask
      /\ Groups /\ FreedStackIdle /\ ThreadHasSpace
  BY Split
<1>2. RestOK
  BY <1>1 DEF TypeOK, RestOK
<1>3. 0 \in Tasks /\ 1 \in Tasks /\ next_id \in Nat
  BY <1>2, SchedulerConstants DEF Tasks, RestOK
<1> QED  BY <1>1, <1>2, <1>3 DEF Memory

\* A stack that was free stays out of use: its owner is Finished for good and
\* the CPU only goes to Running tasks.
LEMMA FreedStays ==
  ASSUME SchedInv, Control, reaped' = reaped
  PROVE  FreedStackIdle'
<1>1. FreedStackIdle
  BY Split
<1> QED  BY <1>1 DEF FreedStackIdle, Control, Frame

\* Steps that leave the memory part alone.
LEMMA QuietMemory ==
  ASSUME SchedInv, Control, TableUnchanged,
         timer' \in [Tasks -> 0..Forever], target' \in [Tasks -> Tasks]
  PROVE  Memory'
<1>0. Memory /\ next_id \in Nat
  BY MemoryNow
<1>1. RestOK'
  BY <1>0 DEF Memory, RestOK, TableUnchanged
<1>2. Groups' /\ cr3'[Kernel] = NoTask /\ cr3'[Poller] = NoTask
  BY <1>0 DEF Memory, TableUnchanged, Groups, IsUser
<1>3. FreedStackIdle'
  BY FreedStays DEF TableUnchanged
<1>4. ThreadHasSpace'
  <2> SUFFICES ASSUME NEW t \in Tasks, Live(t)', IsUser(t)'
               PROVE  cr3'[t] \in owns' \/ exit_code'[cr3'[t]] = -1
    BY DEF ThreadHasSpace, Live
  <2>1. t < next_id /\ t \in Int
    BY <1>0 DEF Memory, Groups, IsUser, TableUnchanged, Tasks
  <2>2. Live(t)
    BY <1>0, <2>1 DEF Control, Frame
  <2> QED  BY <1>0, <2>2 DEF Memory, ThreadHasSpace, Live, IsUser, TableUnchanged
<1> QED  BY <1>1, <1>2, <1>3, <1>4 DEF Memory

\* Creating a task: a process owns the page table it runs on, a thread shares
\* the one its creator runs on.
LEMMA SpawnMemory ==
  ASSUME SchedInv, Control, NEW t \in Tasks,
         \/ SpawnPoller \/ SpawnKernelTask \/ BootInit
         \/ SpawnUser(t) \/ SpawnThread(t) \/ Exec(t)
  PROVE  Memory'
<1>a. Memory /\ 0 \in Tasks /\ 1 \in Tasks /\ next_id \in Nat
  BY MemoryNow
<1>b. next_id < MaxTasks
  BY DEF SpawnPoller, SpawnKernelTask, BootInit, SpawnUser, SpawnThread, Exec, Push
<1>c. next_id \in Tasks /\ next_id # 0 /\ next_id # NoTask /\ state[next_id] = "Unborn"
  <2>1. next_id \in Tasks /\ next_id # 0
    BY <1>a, <1>b, SchedulerConstants DEF Tasks, Memory, RestOK
  <2>2. Table(state, pc, next_id)
    BY Split
  <2> QED  BY <1>a, <2>1, <2>2 DEF Table, NoTask
<1>d. At(t, "run") => t < next_id /\ Live(t)
  BY Actor DEF Live
<1>1. PICK c \in Tasks \cup {NoTask}, l \in Tasks \cup {NoTask}, p \in Tasks \cup {NoTask} :
        /\ Push(c, l, p)
        /\ \/ c = NoTask /\ l = NoTask /\ owns' = owns
           \/ c = next_id /\ l = NoTask /\ owns' = owns \cup {next_id}
           \/ /\ c = cr3[t] /\ c # NoTask /\ At(t, "run")
              /\ l = (IF leader[t] = NoTask THEN t ELSE leader[t]) /\ owns' = owns
  <2>1. CASE SpawnPoller \/ SpawnKernelTask
    BY <2>1 DEF SpawnPoller, SpawnKernelTask
  <2>2. CASE BootInit
    BY <1>a, <1>c, <2>2 DEF BootInit, Kernel
  <2>3. CASE SpawnUser(t)
    BY <1>c, <2>3 DEF SpawnUser
  <2>4. CASE SpawnThread(t)
    BY <1>a, <2>4 DEF SpawnThread, IsUser, Memory, RestOK
  <2>5. CASE Exec(t)
    BY <1>c, <2>5 DEF Exec
  <2> QED  BY <2>1, <2>2, <2>3, <2>4, <2>5
<1>2. /\ next_id' = next_id + 1 /\ reaped' = reaped /\ exit_code' = exit_code
      /\ cr3'[next_id] = c /\ leader'[next_id] = l
      /\ \A u \in Tasks : u # next_id => cr3'[u] = cr3[u] /\ leader'[u] = leader[u]
      /\ cr3' \in [Tasks -> Tasks \cup {NoTask}] /\ leader' \in [Tasks -> Tasks \cup {NoTask}]
      /\ parent' \in [Tasks -> Tasks \cup {NoTask}]
  BY <1>1, <1>a, <1>c DEF Push, Memory, RestOK
<1>3. timer' \in [Tasks -> 0..Forever] /\ target' \in [Tasks -> Tasks]
  <2>1. Forever \in 0..Forever
    BY SchedulerConstants DEF Forever
  <2> QED  BY <2>1, <1>a, <1>c
           DEF SpawnPoller, SpawnKernelTask, BootInit, SpawnUser, SpawnThread, Exec,
               Memory, RestOK
<1>4. RestOK'
  <2>1. next_id' \in 1..MaxTasks
    BY <1>2, <1>b, <1>c, <1>a, SchedulerConstants
  <2>2. owns' \subseteq Tasks
    <3>1. owns \subseteq Tasks
      BY <1>a DEF Memory, RestOK
    <3>2. owns' = owns \/ owns' = owns \cup {next_id}
      BY <1>1
    <3> QED  BY <3>1, <3>2, <1>c
  <2>3. reaped' \in [Tasks -> BOOLEAN] /\ exit_code' \in [Tasks -> {0, -1}]
    BY <1>2, <1>a DEF Memory, RestOK
  <2> QED  BY <1>2, <1>3, <2>1, <2>2, <2>3 DEF RestOK
<1>5. cr3'[Kernel] = NoTask /\ cr3'[Poller] = NoTask
  <2>1. CASE next_id = 1
    <3>1. ~At(t, "run") /\ SpawnPoller
      <4>1. ~At(t, "run")
        BY <2>1, Actor
      <4> QED  BY <2>1, <4>1 DEF SpawnKernelTask, BootInit, SpawnUser, SpawnThread, Exec
    <3>2. cr3'[1] = NoTask
      BY <1>a, <2>1, <3>1 DEF SpawnPoller, Push, Memory, RestOK
    <3> QED  BY <1>2, <1>a, <1>c, <2>1, <3>2 DEF Memory, Kernel, Poller
  <2>2. CASE next_id # 1
    BY <1>2, <1>a, <1>c, <2>2 DEF Memory, Kernel, Poller
  <2> QED  BY <2>1, <2>2
<1>6. Groups'
  <2>1. next_id \notin owns /\ NoTask \notin Tasks
    BY <1>a, <1>c DEF Memory, Groups, NoTask, Tasks
  <2> SUFFICES ASSUME NEW u \in Tasks
               PROVE  /\ u \in owns' => cr3'[u] = u /\ leader'[u] = NoTask
                      /\ cr3'[u] # NoTask => IF leader'[u] = NoTask THEN cr3'[u] = u
                                             ELSE leader'[u] = cr3'[u]
                      /\ leader'[u] # NoTask => cr3'[u] # NoTask
                      /\ u \in owns' => u < next_id'
                      /\ cr3'[u] # NoTask => u < next_id' /\ cr3'[u] < next_id'
    BY DEF Groups, IsUser
  <2>2. CASE u # next_id
    <3>1. u \in owns' => u \in owns
      BY <1>1, <2>2
    <3>2. /\ u < next_id => u < next_id'
          /\ cr3[u] # NoTask /\ cr3[u] < next_id => cr3[u] < next_id'
      <4>1. cr3[u] # NoTask => cr3[u] \in Tasks
        BY <1>a DEF Memory, RestOK
      <4>2. \A v \in Tasks : v \in Int
        BY DEF Tasks
      <4> QED  BY <1>a, <1>2, <4>1, <4>2
    <3> QED  BY <1>2, <1>a, <2>2, <3>1, <3>2 DEF Memory, Groups, IsUser
  <2>3. CASE u = next_id
    <3>1. next_id < next_id'
      BY <1>a, <1>2
    <3>2. CASE c = NoTask /\ l = NoTask /\ owns' = owns
      BY <1>2, <2>1, <2>3, <3>2
    <3>3. CASE c = next_id /\ l = NoTask /\ owns' = owns \cup {next_id}
      BY <1>2, <2>3, <3>1, <3>3
    <3>4. CASE /\ c = cr3[t] /\ c # NoTask /\ At(t, "run")
               /\ l = (IF leader[t] = NoTask THEN t ELSE leader[t]) /\ owns' = owns
      <4>1. l = c /\ l # NoTask
        BY <1>a, <2>1, <3>4 DEF Memory, Groups, IsUser
      <4>2. c < next_id
        BY <1>a, <3>4 DEF Memory, Groups, IsUser
      <4>3. c < next_id'
        BY <1>1, <1>a, <1>2, <4>2, <3>4 DEF Tasks, NoTask
      <4> QED  BY <1>2, <2>1, <2>3, <3>1, <3>4, <4>1, <4>3
    <3> QED  BY <1>1, <3>2, <3>3, <3>4
  <2> QED  BY <2>2, <2>3
<1>7. FreedStackIdle'
  BY <1>2, FreedStays
<1>8. ThreadHasSpace'
  <2> SUFFICES ASSUME NEW u \in Tasks, Live(u)', cr3'[u] # NoTask
               PROVE  cr3'[u] \in owns' \/ exit_code'[cr3'[u]] = -1
    BY DEF ThreadHasSpace, Live, IsUser
  <2>1. CASE u # next_id
    <3>1. u < next_id /\ u \in Int /\ cr3[u] # NoTask
      BY <1>a, <1>2, <2>1 DEF Memory, Groups, IsUser, Tasks
    <3>2. Live(u)
      BY <1>a, <3>1 DEF Control, Frame
    <3>3. owns \subseteq owns'
      BY <1>1
    <3> QED  BY <1>a, <1>2, <2>1, <3>1, <3>2, <3>3 DEF Memory, ThreadHasSpace, Live, IsUser
  <2>2. CASE u = next_id
    <3>1. CASE At(t, "run") /\ c = cr3[t] /\ owns' = owns
      BY <1>a, <1>2, <1>d, <2>2, <3>1 DEF Memory, ThreadHasSpace, Live, IsUser
    <3> QED  BY <1>1, <1>2, <2>2, <3>1
  <2> QED  BY <2>1, <2>2
<1> QED  BY <1>4, <1>5, <1>6, <1>7, <1>8 DEF Memory

\* The deadlines a handler sets are ticks.
LEMMA DelayType ==
  ASSUME SchedInv
  PROVE  /\ timer \in [Tasks -> 0..Forever] /\ target \in [Tasks -> Tasks]
         /\ 0 \in 0..Forever /\ Forever \in 0..Forever /\ \A d \in Delays : d \in 0..Forever
         /\ Elapse(timer) \in [Tasks -> 0..Forever]
<1>1. timer \in [Tasks -> 0..Forever] /\ target \in [Tasks -> Tasks]
  BY MemoryNow DEF Memory, RestOK
<1>2. 0 \in 0..Forever /\ Forever \in 0..Forever /\ \A d \in Delays : d \in 0..Forever
  BY SchedulerConstants DEF Forever, Delays
<1>3. Elapse(timer) \in [Tasks -> 0..Forever]
  BY <1>1, SchedulerConstants DEF Elapse, Forever
<1> QED  BY <1>1, <1>2, <1>3

\* wait and join free the stack of a Finished task that is not the caller.
LEMMA ReapMemory ==
  ASSUME SchedInv, Control, NEW t \in Tasks, state[t] # "Finished", current = t,
         NEW u \in Tasks, state[u] = "Finished", reaped' = [reaped EXCEPT ![u] = TRUE],
         timer' \in [Tasks -> 0..Forever], target' \in [Tasks -> Tasks],
         UNCHANGED <<next_id, current, state, cr3, leader, parent, owns, exit_code>>
  PROVE  Memory'
<1>0. Memory /\ next_id \in Nat
  BY MemoryNow
<1>1. reaped \in [Tasks -> BOOLEAN]
  BY <1>0 DEF Memory, RestOK
<1>2. RestOK'
  BY <1>0, <1>1 DEF Memory, RestOK
<1>3. Groups' /\ cr3'[Kernel] = NoTask /\ cr3'[Poller] = NoTask /\ ThreadHasSpace'
  BY <1>0 DEF Memory, Groups, IsUser, ThreadHasSpace
<1>4. FreedStackIdle'
  BY <1>0, <1>1 DEF Memory, FreedStackIdle
<1> QED  BY <1>2, <1>3, <1>4 DEF Memory

\* Waiting keeps the memory part.
LEMMA WaitMemory ==
  ASSUME SchedInv, Control, NEW t \in Tasks, NEW u \in Tasks, NEW d \in Delays,
         \/ WaitStart(t, u, d) \/ WaitReturn(t) \/ WaitYield(t) \/ WaitNoHang(t, u)
         \/ JoinStart(t, u, d) \/ JoinLoop(t)
  PROVE  Memory'
<1>0. PICK l \in {"run", "wait", "join"} : At(t, l)
  BY DEF WaitStart, WaitReturn, WaitYield, WaitNoHang, JoinStart, JoinLoop, At
<1>1. current = t /\ state[t] # "Finished"
  BY <1>0, Actor
<1>2. timer' \in [Tasks -> 0..Forever] /\ target' \in [Tasks -> Tasks]
  <2>1. 0 \in Tasks
    BY SchedulerConstants DEF Tasks
  <2> QED  BY <2>1, DelayType DEF WaitStart, WaitReturn, WaitYield, WaitNoHang, JoinStart, JoinLoop,
              JoinReturn, Forget
<1>3. CASE TableUnchanged
  BY <1>2, <1>3, QuietMemory
<1>4. CASE /\ UNCHANGED <<next_id, current, state, cr3, leader, parent, owns, exit_code>>
           /\ \/ UNCHANGED reaped
              \/ \E v \in Tasks : state[v] = "Finished" /\ reaped' = [reaped EXCEPT ![v] = TRUE]
  <2>1. CASE UNCHANGED reaped
    BY <1>3, <1>4, <2>1 DEF TableUnchanged
  <2>2. CASE \E v \in Tasks : state[v] = "Finished" /\ reaped' = [reaped EXCEPT ![v] = TRUE]
    BY <1>1, <1>2, <1>4, <2>2, ReapMemory
  <2> QED  BY <1>4, <2>1, <2>2
<1>5. \A v : ReapChild(t, v) =>
        \E w \in Tasks : state[w] = "Finished" /\ reaped' = [reaped EXCEPT ![w] = TRUE]
  BY DEF ReapChild, Collectable
<1>6. CASE WaitStart(t, u, d) \/ WaitYield(t)
  BY <1>3, <1>6 DEF WaitStart, WaitYield
<1>7. CASE WaitReturn(t) \/ WaitNoHang(t, u)
  BY <1>4, <1>5, <1>7 DEF WaitReturn, WaitNoHang
<1>8. target[t] \in Tasks
  BY DelayType
<1>9. CASE JoinReturn(t, u) \/ JoinReturn(t, target[t])
  BY <1>4, <1>8, <1>9 DEF JoinReturn
<1>10. CASE JoinStart(t, u, d)
  BY <1>3, <1>9, <1>10 DEF JoinStart
<1>11. CASE JoinLoop(t)
  BY <1>3, <1>9, <1>11 DEF JoinLoop
<1> QED  BY <1>6, <1>7, <1>10, <1>11

\* The ends of a task keep it: an exiting process takes its threads with it,
\* and a process that is killed is marked as ended by force.
LEMMA EndMemory ==
  ASSUME SchedInv, Control, NEW t \in Tasks, NEW u \in Tasks,
         ExitProcess(t) \/ KillTask(t, u) \/ AbortTask(t)
  PROVE  Memory'
<1>0. Memory /\ next_id \in Nat
  BY MemoryNow
<1>a. At(t, "run")
  BY DEF ExitProcess, KillTask, AbortTask
<1>b. current = t /\ t # Kernel
  BY <1>a, Actor
<1>1. UNCHANGED <<next_id, timer, cr3, leader, parent, reaped, target>>
  BY DEF ExitProcess, KillTask, AbortTask
<1>2. PICK g \in Tasks :
        /\ owns' = owns \ {g}
        /\ \/ exit_code' = [exit_code EXCEPT ![g] = -1]
           \/ /\ g = t /\ ExitProcess(t)
              /\ exit_code' = [v \in Tasks |-> IF v \in ThreadsOf(t) THEN -1 ELSE exit_code[v]]
  BY DEF ExitProcess, KillTask, AbortTask
<1>3. exit_code \in [Tasks -> {0, -1}]
  BY <1>0 DEF Memory, RestOK
<1>4. exit_code' \in [Tasks -> {0, -1}]
  BY <1>2, <1>3
<1>5. \A v \in Tasks : exit_code[v] = -1 => exit_code'[v] = -1
  BY <1>2, <1>3
<1>6. RestOK'
  BY <1>0, <1>1, <1>2, <1>4 DEF Memory, RestOK
<1>7. Groups' /\ cr3'[Kernel] = NoTask /\ cr3'[Poller] = NoTask
  BY <1>0, <1>1, <1>2 DEF Memory, Groups, IsUser
<1>8. FreedStackIdle'
  BY <1>1, FreedStays
<1>9. ASSUME NEW v \in Tasks, Live(v)', IsUser(v), cr3[v] = t, ExitProcess(t)
      PROVE  FALSE
  <2>1. Live(v)
    <3>1. v < next_id /\ v \in Int
      BY <1>0, <1>9 DEF Memory, Groups, Tasks
    <3> QED  BY <1>0, <1>9, <3>1 DEF Control, Frame
  <2>2. v = t \/ leader[v] = t
    BY <1>0, <1>9 DEF Memory, Groups
  <2>3. v \in {t} \cup ThreadsOf(t)
    BY <2>1, <2>2 DEF ThreadsOf, Live
  <2> DEFINE gone == {t} \cup ThreadsOf(t)
             st   == Die(state, gone)
  <2>4. st[v] = "Finished"
    BY <2>3 DEF Die
  <2>5. YieldNow(st, DeadAt(gone))
    BY <1>9 DEF ExitProcess
  <2>6. st \in [Tasks -> TaskState] /\ current \in Tasks
    BY Split DEF Die, Table, TaskState, Runner
  <2> HIDE DEF st, gone
  <2>7. state'[v] = "Finished"
    <3>1. CASE state' = st
      BY <2>4, <3>1
    <3>2. CASE \E nxt \in Tasks : IsNextReady(st, nxt) /\ state' = SwitchTo(st, nxt)
      <4>1. PICK nxt \in Tasks : st[nxt] = "Ready" /\ state' = SwitchTo(st, nxt)
        BY <3>2 DEF IsNextReady, ReadyTasks
      <4> QED  BY <2>4, <2>6, <4>1, SwitchStates
    <3> QED  BY <2>5, <3>1, <3>2 DEF YieldNow, SwitchStep
  <2> QED  BY <1>9, <2>7 DEF Live
<1>10. ThreadHasSpace'
  <2> SUFFICES ASSUME NEW v \in Tasks, Live(v)', IsUser(v)
               PROVE  cr3[v] \in owns' \/ exit_code'[cr3[v]] = -1
    BY <1>1 DEF ThreadHasSpace, Live, IsUser
  <2>1. Live(v)
    <3>1. v < next_id /\ v \in Int
      BY <1>0 DEF Memory, Groups, Tasks
    <3> QED  BY <1>0, <3>1 DEF Control, Frame
  <2>2. cr3[v] \in Tasks
    BY <1>0 DEF Memory, RestOK, IsUser
  <2>3. cr3[v] \in owns \/ exit_code[cr3[v]] = -1
    BY <1>0, <2>1 DEF Memory, ThreadHasSpace, Live
  <2>4. CASE cr3[v] # g
    BY <1>2, <1>5, <2>2, <2>3, <2>4
  <2>5. CASE cr3[v] = g
    BY <1>2, <1>3, <1>9, <2>5
  <2> QED  BY <2>4, <2>5
<1> QED  BY <1>6, <1>7, <1>8, <1>10 DEF Memory

-----------------------------------------------------------------------------
(* The invariant.                                                          *)

\* Every step, or stuttering, establishes the control part.
LEMMA NextControl ==
  ASSUME SchedInv, [Next]_vars
  PROVE  Control
<1>0. \E d \in Delays : TRUE
  BY SchedulerConstants DEF Delays
<1>1. CASE UNCHANGED vars
  BY <1>1, Split DEF vars, Control, Frame, Live
<1>2. CASE Tick
  BY <1>2, TickControl
<1>3. CASE \/ DhcpWait \/ DhcpYield \/ SpawnPoller \/ SpawnKernelTask \/ BootInit
           \/ BootNoInit \/ DrainDone
  <2>1. 0 \in Tasks
    BY MemoryNow
  <2> QED  BY <1>3, <2>1, SpawnControl, BootControl
<1>4. ASSUME NEW t \in Tasks, ProgramStep(t)
      PROVE  Control
  <2>1. CASE SysYield(t)
    BY <1>0, <2>1, SleepControl
  <2>2. CASE SpawnUser(t) \/ SpawnThread(t) \/ Exec(t)
    BY <2>2, SpawnControl
  <2>3. CASE \E d \in Delays : SleepStart(t, d) \/ Block(t, d)
    BY <2>3, SleepControl
  <2>4. CASE \E u \in Tasks : WakeTask(t, u) \/ KillTask(t, u) \/ WaitNoHang(t, u)
    BY <1>0, <2>4, SleepControl, EndControl, WaitControl
  <2>5. CASE \E u \in Tasks, d \in Delays : WaitStart(t, u, d) \/ JoinStart(t, u, d)
    BY <2>5, WaitControl
  <2>6. CASE ExitProcess(t) \/ ExitThread(t) \/ ExitKernelTask(t) \/ AbortTask(t)
    BY <2>6, EndControl
  <2> QED  BY <1>4, <2>1, <2>2, <2>3, <2>4, <2>5, <2>6 DEF ProgramStep
<1>5. ASSUME NEW t \in Tasks, KernelStep(t)
      PROVE  Control
  BY <1>0, <1>5, SleepControl, WaitControl, EndControl DEF KernelStep
<1> QED  BY <1>1, <1>2, <1>3, <1>4, <1>5 DEF Next

\* Every step, or stuttering, keeps the memory part.
LEMMA NextMemory ==
  ASSUME SchedInv, [Next]_vars, Control
  PROVE  Memory'
<1>0. \E d \in Delays : TRUE
  BY SchedulerConstants DEF Delays
<1>a. /\ timer \in [Tasks -> 0..Forever] /\ target \in [Tasks -> Tasks]
      /\ 0 \in 0..Forever /\ \A d \in Delays : d \in 0..Forever
      /\ Elapse(timer) \in [Tasks -> 0..Forever]
  BY DelayType
<1>b. CASE /\ TableUnchanged /\ UNCHANGED target
           /\ \/ timer' = timer \/ timer' = Elapse(timer)
              \/ \E u \in Tasks, d \in Delays \cup {0} : timer' = [timer EXCEPT ![u] = d]
  <2>1. timer' \in [Tasks -> 0..Forever]
    BY <1>a, <1>b
  <2> QED  BY <1>a, <1>b, <2>1, QuietMemory
<1>1. CASE UNCHANGED vars
  BY <1>b, <1>1 DEF vars, TableUnchanged
<1>2. CASE Tick
  BY <1>b, <1>2 DEF Tick, TickPreempt, TickSkipped, TableUnchanged
<1>3. CASE SpawnPoller \/ SpawnKernelTask \/ BootInit
  <2>1. 0 \in Tasks
    BY MemoryNow
  <2> QED  BY <1>3, <2>1, SpawnMemory
<1>4. CASE DhcpWait \/ DhcpYield \/ BootNoInit \/ DrainDone
  <2>1. 1 \in Delays /\ Kernel \in Tasks
    BY SchedulerConstants DEF Delays, Tasks, Kernel
  <2> QED  BY <1>b, <1>4, <2>1 DEF DhcpWait, DhcpYield, BootNoInit, DrainDone, TableUnchanged
<1>5. ASSUME NEW t \in Tasks, ProgramStep(t)
      PROVE  Memory'
  <2>1. CASE SysYield(t) \/ ExitThread(t) \/ ExitKernelTask(t)
    BY <1>b, <2>1 DEF SysYield, ExitThread, ExitKernelTask
  <2>2. CASE SpawnUser(t) \/ SpawnThread(t) \/ Exec(t)
    BY <2>2, SpawnMemory
  <2>3. CASE \E d \in Delays : SleepStart(t, d) \/ Block(t, d)
    BY <1>b, <2>3 DEF SleepStart, Block
  <2>4. CASE \E u \in Tasks : WakeTask(t, u)
    BY <1>b, <2>4 DEF WakeTask
  <2>5. CASE \E u \in Tasks : KillTask(t, u) \/ WaitNoHang(t, u)
    BY <1>0, <2>5, EndMemory, WaitMemory
  <2>6. CASE \E u \in Tasks, d \in Delays : WaitStart(t, u, d) \/ JoinStart(t, u, d)
    BY <2>6, WaitMemory
  <2>7. CASE ExitProcess(t) \/ AbortTask(t)
    BY <2>7, EndMemory
  <2> QED  BY <1>5, <2>1, <2>2, <2>3, <2>4, <2>5, <2>6, <2>7 DEF ProgramStep
<1>6. ASSUME NEW t \in Tasks, KernelStep(t)
      PROVE  Memory'
  <2>1. CASE SleepYield(t) \/ SleepCancel(t) \/ ExitKernelYield(t)
    BY <1>b, <2>1 DEF SleepYield, SleepCancel, ExitKernelYield
  <2>2. CASE WaitReturn(t) \/ WaitYield(t) \/ JoinLoop(t)
    BY <1>0, <2>2, WaitMemory
  <2> QED  BY <1>6, <2>1, <2>2 DEF KernelStep
<1> QED  BY <1>1, <1>2, <1>3, <1>4, <1>5, <1>6 DEF Next

\* Task 0 is put to sleep by its own wait for DHCP only, and until the next tick.
LEMMA NextTimer ==
  ASSUME SchedInv, [Next]_vars, Control
  PROVE  KernelTimer'
<1>0. /\ Runner(state, current, next_id) /\ KernelTimer /\ timer \in [Tasks -> 0..Forever]
      /\ current \in Tasks
  BY Split DEF TypeOK, Runner
<1>1. 0 \in Tasks /\ Kernel = 0 /\ timer[Kernel] \in Nat
  BY <1>0, SchedulerConstants DEF Tasks, Kernel, Forever
<1>2. CASE current # Kernel \/ current' # current
  <2>1. state'[Kernel] # "Sleeping"
    BY <1>2, <1>1 DEF Control, Frame, Runner
  <2> QED  BY <2>1 DEF KernelTimer
<1>3. CASE current = Kernel /\ current' = current
  <2>1. pc[Kernel] \in {"boot", "dhcp", "drain", "shell", "dead", "stale"}
    BY Split DEF Table
  <2>2. CASE UNCHANGED <<state, timer>> \/ (timer' = timer /\ state'[Kernel] = state[Kernel])
    BY <1>0, <2>2 DEF KernelTimer
  <2>3. CASE UNCHANGED vars
    BY <2>2, <2>3 DEF vars
  <2>4. CASE TickPreempt
    <3>1. timer' = Elapse(timer) /\ Elapse(timer)[Kernel] <= timer[Kernel]
      BY <1>0, <1>1, <2>4 DEF TickPreempt, Elapse
    <3>2. Elapse(timer)[Kernel] \in Nat
      BY <1>0, <1>1 DEF Elapse
    <3>3. state'[Kernel] = "Sleeping" => state[Kernel] = "Sleeping"
      <4> DEFINE st == Woken(state, Elapse(timer))
      <4>1. /\ st \in [Tasks -> TaskState]
            /\ st[Kernel] = "Sleeping" => state[Kernel] = "Sleeping"
        BY <1>1, Split DEF Woken, Table, TaskState
      <4> HIDE DEF st
      <4>2. CASE state' = st
        BY <4>1, <4>2
      <4>3. CASE \E nxt \in Tasks : IsNextReady(st, nxt) /\ state' = SwitchTo(st, nxt)
        <5>1. PICK nxt \in Tasks : st[nxt] = "Ready" /\ state' = SwitchTo(st, nxt)
          BY <4>3 DEF IsNextReady, ReadyTasks
        <5> QED  BY <1>0, <1>1, <4>1, <5>1, SwitchStates
      <4> QED  BY <2>4, <4>2, <4>3 DEF TickPreempt, SwitchStep, st
    <3> QED  BY <1>0, <1>1, <3>1, <3>2, <3>3 DEF KernelTimer
  <2>5. CASE TickSkipped
    <3>1. timer' = Elapse(timer) /\ Elapse(timer)[Kernel] <= timer[Kernel] /\ state' = state
      BY <1>0, <1>1, <2>5 DEF TickSkipped, Elapse
    <3>2. Elapse(timer)[Kernel] \in Nat
      BY <1>0, <1>1 DEF Elapse
    <3> QED  BY <1>0, <1>1, <3>1, <3>2 DEF KernelTimer
  <2>6. CASE DhcpWait
    BY <1>0, <1>1, <2>6 DEF DhcpWait, KernelTimer
  <2>7. CASE DhcpYield
    <3>1. timer' = timer /\ YieldNow(state, [pc EXCEPT ![Kernel] = "boot"])
      BY <2>7 DEF DhcpYield
    <3>2. state'[Kernel] = "Sleeping" => state[Kernel] = "Sleeping"
      <4>1. state \in [Tasks -> TaskState]
        BY Split DEF Table
      <4>2. CASE state' = state
        BY <4>2
      <4>3. CASE \E nxt \in Tasks : IsNextReady(state, nxt) /\ state' = SwitchTo(state, nxt)
        <5>1. PICK nxt \in Tasks : state[nxt] = "Ready" /\ state' = SwitchTo(state, nxt)
          BY <4>3 DEF IsNextReady, ReadyTasks
        <5> QED  BY <1>0, <1>1, <4>1, <5>1, SwitchStates
      <4> QED  BY <3>1, <4>2, <4>3 DEF YieldNow, SwitchStep
    <3> QED  BY <1>0, <3>1, <3>2 DEF KernelTimer
  <2>8. CASE SpawnPoller \/ SpawnKernelTask \/ BootInit
    <3>1. next_id # 0 /\ state \in [Tasks -> TaskState]
      BY Split DEF TypeOK
    <3>2. state'[Kernel] = state[Kernel] /\ timer' = timer
      BY <1>1, <2>8, <3>1 DEF SpawnPoller, SpawnKernelTask, BootInit, Born
    <3> QED  BY <2>2, <3>2
  <2>9. CASE BootNoInit \/ DrainDone
    BY <2>2, <2>9 DEF BootNoInit, DrainDone
  <2>10. ASSUME NEW t \in Tasks, ProgramStep(t) \/ KernelStep(t)
         PROVE  FALSE
    <3>1. current = t /\ pc[t] \in {"run", "poll", "asleep", "wait", "join", "exiting"}
      BY <2>10 DEF ProgramStep, KernelStep, SysYield, SpawnUser, SpawnThread, Exec, SleepStart,
         Block, WakeTask, KillTask, WaitNoHang, WaitStart, JoinStart, ExitProcess, ExitThread,
         ExitKernelTask, AbortTask, SleepYield, SleepCancel, WaitReturn, WaitYield, JoinLoop,
         ExitKernelYield, At
    <3> QED  BY <1>3, <2>1, <3>1
  <2> QED  BY <2>3, <2>4, <2>5, <2>6, <2>7, <2>8, <2>9, <2>10 DEF Next, Tick
<1> QED  BY <1>2, <1>3

\* The state scheduler::init() leaves satisfies the invariant.
LEMMA InitInv ==
  ASSUME Init
  PROVE  SchedInv
<1>0. 0 \in Tasks /\ 1 \in Tasks /\ 1 \in 1..MaxTasks /\ \A t \in Tasks : t \in Nat
  BY SchedulerConstants DEF Tasks
<1>1. state[0] = "Running" /\ pc[0] = "boot" /\ next_id = 1 /\ current = 0
      /\ \A t \in Tasks : t # 0 => state[t] = "Unborn" /\ pc[t] = "none"
  BY <1>0 DEF Init, Kernel
<1>2. state \in [Tasks -> TaskState] /\ pc \in [Tasks -> Location]
  BY DEF Init, TaskState, Location
<1>3. TypeOK
  <2>1. 0 \in 0..Forever
    BY SchedulerConstants DEF Forever
  <2> QED  BY <1>0, <1>2, <2>1 DEF Init, TypeOK, Kernel
<1>4. Table(state, pc, next_id)
  <2>1. \A t \in Tasks : t >= 1 <=> t # 0
    BY <1>0
  <2>2. \A t \in Tasks : (state[t] = "Unborn" <=> t >= next_id) /\ Agree(state[t], pc[t])
    BY <1>1, <2>1 DEF Agree, LivePc
  <2> QED  BY <1>0, <1>1, <1>2, <2>2 DEF Table, AloneIn, Kernel, Poller
<1>5. Runner(state, current, next_id) /\ Cur(state, pc, current, next_id) /\ KernelTimer
  BY <1>0, <1>1 DEF Runner, Cur, AloneIn, KernelTimer, Kernel, Poller
<1>6. cr3[Kernel] = NoTask /\ cr3[Poller] = NoTask /\ Groups /\ FreedStackIdle /\ ThreadHasSpace
  BY <1>0 DEF Init, Groups, FreedStackIdle, ThreadHasSpace, IsUser, Kernel, Poller
<1> QED  BY <1>3, <1>4, <1>5, <1>6, Split

\* The inductive invariant holds in every reachable state of the scheduler,
\* from the boot of task 0 on and whatever tasks are killed.
THEOREM Invariant == Spec => []SchedInv
<1>1. Init => SchedInv
  BY InitInv
<1>2. SchedInv /\ [Next]_vars => SchedInv'
  <2> SUFFICES ASSUME SchedInv, [Next]_vars PROVE SchedInv'
    OBVIOUS
  <2>1. Control
    BY NextControl
  <2>2. Memory'
    BY <2>1, NextMemory
  <2>3. KernelTimer'
    BY <2>1, NextTimer
  <2> QED  BY <2>1, <2>2, <2>3, Join
<1> QED  BY <1>1, <1>2, PTL DEF Spec

\* Every variable of the task table keeps its type.
THEOREM TypeCorrect == Spec => []TypeOK
<1>1. SchedInv => TypeOK
  BY DEF SchedInv
<1> QED  BY <1>1, Invariant, PTL

\* As long as task 0 or net_poller is there, yield_now(), preempt() and the
\* exception path never switch a task to itself and never run out of tasks.
THEOREM NeverStale == Spec => []StaleOnlyAlone
<1>1. SchedInv => StaleOnlyAlone
  BY DEF SchedInv, Manned, StaleOnlyAlone
<1> QED  BY <1>1, Invariant, PTL

\* One task runs at a time; and as long as task 0 or net_poller is there,
\* yield_now() never returns to a task that is still Sleeping or Finished.
THEOREM MutualExclusion == Spec => []OneRunner
<1>1. SchedInv => OneRunner
  BY DEF SchedInv
<1> QED  BY <1>1, Invariant, PTL

\* wait() and join() never free the kernel stack of a task that can still run.
THEOREM StackSafety == Spec => []FreedStackIdle
<1>1. SchedInv => FreedStackIdle
  BY DEF SchedInv
<1> QED  BY <1>1, Invariant, PTL

\* user_task_exit_handler() leaves no thread without its address space.
THEOREM SpaceSafety == Spec => []ThreadHasSpace
<1>1. SchedInv => ThreadHasSpace
  BY DEF SchedInv
<1> QED  BY <1>1, Invariant, PTL

\* No wake-up, switch or requeue revives a Finished task.
THEOREM NoResurrection == Spec => FinishedIsFinal
<1>1. SchedInv /\ [Next]_vars =>
        [\A t \in Tasks : state[t] = "Finished" => state'[t] = "Finished"]_vars
  BY NextControl DEF Control, Frame
<1> QED  BY <1>1, Invariant, PTL DEF Spec, FinishedIsFinal

=============================================================================
