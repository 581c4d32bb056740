------------------------------ MODULE Scheduler ------------------------------
(***************************************************************************)
(* The task table of the SABOS kernel and everything that changes it       *)
(* (kernel/src/scheduler.rs and the system calls of syscall/process.rs and *)
(* syscall/misc.rs that call it).                                          *)
(*                                                                         *)
(* The kernel runs on one core.  A system call runs with interrupts off    *)
(* until it enables them itself or calls yield_now(), which returns with   *)
(* interrupts on.  One action is one stretch of code that no timer         *)
(* interrupt can cut; the timer (Tick...) may come between any two         *)
(* actions.  Only the task `current` executes.                             *)
(*                                                                         *)
(* Tasks are never removed from the Vec and ids are handed out in order,   *)
(* so a task's id is its index.  Tick counts are kept relative: timer[t]   *)
(* is what is left of wake_at (Sleeping) or of a wait's timeout.           *)
(***************************************************************************)
EXTENDS Integers, FiniteSets

CONSTANTS
  MaxTasks,     \* bound: tasks ever created
  MaxTicks      \* bound: the longest finite sleep or timeout, in ticks

ASSUME SchedulerConstants ==
  /\ MaxTasks \in Nat /\ MaxTasks >= 2
  /\ MaxTicks \in Nat \ {0}

Tasks    == 0..(MaxTasks - 1)
NoTask   == -1                \* None, for parent_id, process_leader_id and cr3
Forever  == MaxTicks + 1      \* wake_at = u64::MAX, and timeout_ms = 0
Kernel   == 0                 \* the boot context, task 0
Poller   == 1                 \* net_poller, spawned before any other task

VARIABLES
  next_id,     \* Scheduler.next_id, and tasks.len()
  current,     \* Scheduler.current
  state,       \* Task.state; "Unborn" for an id not handed out yet
  timer,       \* ticks until wake_at, or until the timeout of a wait
  cr3,         \* the task whose page table this task runs on
  leader,      \* Task.process_leader_id
  parent,      \* Task.parent_id
  owns,        \* tasks whose user_process_info is Some (live address spaces)
  reaped,      \* Task.reaped: also, its kernel stack has been freed
  exit_code,   \* 0: chosen by the program, -1: ended by force
  pc,          \* where the task's own code is
  target       \* target_task_id of a wait or a join (0 = any child)

vars == <<next_id, current, state, timer, cr3, leader, parent, owns, reaped,
          exit_code, pc, target>>

TaskState == {"Unborn", "Ready", "Running", "Sleeping", "Finished"}

\* boot, drain, shell: task 0 in main.rs; dhcp: task 0 marked Sleeping in
\* wait_net_condition(), yield_now not yet reached; poll: net_poller's endless loop;
\* run: the task's own program; asleep: marked Sleeping, yield_now not yet
\* reached; wait, join: at the head of a wait loop; exiting: a kernel task in
\* task_exit_handler; dead: finished; stale: resumed from an outdated stack
\* pointer; hung: in the final hlt loop of the exception path.
Location == {"none", "boot", "dhcp", "drain", "shell", "poll", "run", "asleep",
             "wait", "join", "exiting", "dead", "stale", "hung"}

-----------------------------------------------------------------------------
(* Choosing and switching.                                                 *)

ReadyTasks(st) == {t \in Tasks : st[t] = "Ready"}

\* A search "for i in 0..num_tasks": the current task comes first.
Hops_FromSelf(t) == IF t >= current THEN t - current ELSE t - current + next_id

\* How far the round robin "for i in 1..=num_tasks" walks before it meets t;
\* the current task itself comes last.
Hops(t) == IF t > current THEN t - current ELSE t - current + next_id

\* A search that starts over at the head of the table.
IsNextReady_FromZero(st, t) ==
  /\ t \in ReadyTasks(st)
  /\ \A u \in ReadyTasks(st) : t <= u

\* The first Ready task after the current one.
IsNextReady(st, t) ==
  /\ t \in ReadyTasks(st)
  /\ \A u \in ReadyTasks(st) : Hops(t) <= Hops(u)

\* The outgoing task is put back in the race whatever it was doing.
SwitchTo_AlwaysRequeue(st, nxt) ==
  [st EXCEPT ![current] = "Ready", ![nxt] = "Running"]

\* The outgoing task keeps Sleeping and Finished, and only Running becomes Ready.
SwitchTo(st, nxt) ==
  [st EXCEPT ![current] = IF @ = "Running" THEN "Ready" ELSE @,
             ![nxt] = "Running"]

\* The switch, once next_idx is known.  new_rsp is read before the outgoing
\* stack pointer is saved, so a switch of a task to itself would resume it from
\* the stack pointer of its previous switch.
SwitchStep(st, p) ==
  \E nxt \in Tasks :
    /\ IsNextReady(st, nxt)
    /\ state' = SwitchTo(st, nxt)
    /\ current' = nxt
    /\ pc' = IF nxt = current THEN [p EXCEPT ![nxt] = "stale"] ELSE p

\* yield_now() from a handler that has made the state st and the locations p.
\* With no Ready task it executes enable_and_hlt and simply returns.
YieldNow(st, p) ==
  \/ SwitchStep(st, p)
  \/ ReadyTasks(st) = {} /\ state' = st /\ pc' = p /\ UNCHANGED current

At(t, l) == current = t /\ pc[t] = l

IsUser(t) == cr3[t] # NoTask

-----------------------------------------------------------------------------
(* The timer interrupt.                                                    *)

\* Elapsed ticks subtracted without saturation.
Elapse_Wrapping(tm) == [t \in Tasks |-> IF tm[t] # Forever THEN tm[t] - 1 ELSE tm[t]]

\* One tick passes for every deadline that is not u64::MAX.
Elapse(tm) == [t \in Tasks |-> IF tm[t] \in 1..MaxTicks THEN tm[t] - 1 ELSE tm[t]]

\* A wake-up test "now == wake_at".
Woken_Exact(st, tm) ==
  [t \in Tasks |-> IF st[t] = "Sleeping" /\ tm[t] = 0 /\ timer[t] = 1
                  THEN "Ready" ELSE st[t]]

\* The sleepers whose wake_at has come are made Ready.
Woken(st, tm) ==
  [t \in Tasks |-> IF st[t] = "Sleeping" /\ tm[t] = 0 THEN "Ready" ELSE st[t]]

Interruptible == pc[current] \notin {"stale", "hung"}

\* preempt(): wake sleepers, then switch unless the task is alone or nobody
\* else can run.
TickPreempt ==
  LET tm == Elapse(timer)
      st == Woken(state, tm)
  IN  /\ Interruptible
      /\ timer' = tm
      /\ \/ next_id > 1 /\ SwitchStep(st, pc)
         \/ /\ next_id <= 1 \/ ReadyTasks(st) = {}
            /\ state' = st
            /\ UNCHANGED <<current, pc>>
      /\ UNCHANGED <<next_id, cr3, leader, parent, owns, reaped, exit_code, target>>

\* The tick comes while the interrupted kernel code holds SCHEDULER:
\* try_lock() fails and preempt() returns at once.
TickSkipped ==
  /\ pc[current] \in {"boot", "dhcp", "drain", "poll", "asleep", "wait", "join"}
  /\ timer' = Elapse(timer)
  /\ UNCHANGED <<next_id, current, state, cr3, leader, parent, owns, reaped,
                 exit_code, pc, target>>

-----------------------------------------------------------------------------
(* Creating tasks.                                                         *)

\* The entry pushed on the task table: page table c, leader l, parent p.
Push(c, l, p) ==
  /\ next_id < MaxTasks
  /\ next_id' = next_id + 1
  /\ cr3' = [cr3 EXCEPT ![next_id] = c]
  /\ leader' = [leader EXCEPT ![next_id] = l]
  /\ parent' = [parent EXCEPT ![next_id] = p]
  /\ UNCHANGED <<reaped, exit_code>>

Born(st) == [st EXCEPT ![next_id] = "Ready"]
BornAt   == [pc EXCEPT ![next_id] = "run"]

\* netstack::init() waits for a DHCP answer while task 0 is the only task: one
\* round of wait_net_condition() marks it Sleeping until the next tick ...
DhcpWait ==
  /\ At(Kernel, "boot") /\ next_id = 1
  /\ state' = [state EXCEPT ![Kernel] = "Sleeping"]
  /\ timer' = [timer EXCEPT ![Kernel] = 1]
  /\ pc' = [pc EXCEPT ![Kernel] = "dhcp"]
  /\ UNCHANGED <<next_id, current, cr3, leader, parent, owns, reaped, exit_code, target>>

\* ... and yields, to nobody: it goes on after the hlt in the state it has then.
DhcpYield ==
  /\ At(Kernel, "dhcp")
  /\ YieldNow(state, [pc EXCEPT ![Kernel] = "boot"])
  /\ UNCHANGED <<next_id, timer, cr3, leader, parent, owns, reaped, exit_code, target>>

\* main.rs: spawn("net_poller"), the first task after task 0.
SpawnPoller ==
  /\ At(Kernel, "boot") /\ next_id = 1
  /\ Push(NoTask, NoTask, NoTask)
  /\ state' = Born(state) /\ pc' = [pc EXCEPT ![Poller] = "poll"]
  /\ UNCHANGED <<current, timer, owns, target>>

\* spawn(): a kernel task, from task 0.
SpawnKernelTask ==
  /\ At(Kernel, "boot") /\ next_id > 1
  /\ Push(NoTask, NoTask, NoTask)
  /\ state' = Born(state) /\ pc' = BornAt
  /\ UNCHANGED <<current, timer, owns, target>>

\* main.rs: init is spawned and task 0 enters wait_until_no_ready_tasks().
BootInit ==
  /\ At(Kernel, "boot") /\ next_id > 1
  /\ Push(next_id, NoTask, Kernel)
  /\ owns' = owns \cup {next_id}
  /\ state' = Born(state)
  /\ pc' = [BornAt EXCEPT ![Kernel] = "drain"]
  /\ UNCHANGED <<current, timer, target>>

\* main.rs: INIT.ELF cannot be read or loaded; task 0 waits all the same.
BootNoInit ==
  /\ At(Kernel, "boot") /\ next_id > 1
  /\ pc' = [pc EXCEPT ![Kernel] = "drain"]
  /\ UNCHANGED <<next_id, current, state, timer, cr3, leader, parent, owns, reaped,
                 exit_code, target>>

\* SYS_SPAWN: spawn_user() with interrupts off.
SpawnUser(t) ==
  /\ At(t, "run") /\ IsUser(t)
  /\ Push(next_id, NoTask, t)
  /\ owns' = owns \cup {next_id}
  /\ state' = Born(state) /\ pc' = BornAt
  /\ UNCHANGED <<current, timer, target>>

\* SYS_THREAD_CREATE: spawn_thread() shares the creator's page table and joins
\* its thread group.
SpawnThread(t) ==
  /\ At(t, "run") /\ IsUser(t)
  /\ Push(cr3[t], IF leader[t] = NoTask THEN t ELSE leader[t], t)
  /\ state' = Born(state) /\ pc' = BornAt
  /\ UNCHANGED <<current, timer, owns, target>>

\* SYS_EXEC: spawn_user(), then the first round of wait_for_child(id, 0), all
\* with interrupts off; the child cannot have finished yet.
Exec(t) ==
  /\ At(t, "run") /\ IsUser(t)
  /\ Push(next_id, NoTask, t)
  /\ owns' = owns \cup {next_id}
  /\ target' = [target EXCEPT ![t] = next_id]
  /\ timer' = [timer EXCEPT ![t] = Forever]
  /\ YieldNow(Born(state), [BornAt EXCEPT ![t] = "wait"])

-----------------------------------------------------------------------------
(* Sleeping and waking.                                                    *)

TableUnchanged == UNCHANGED <<next_id, cr3, leader, parent, owns, reaped, exit_code>>

\* SYS_YIELD.
SysYield(t) ==
  /\ At(t, "run")
  /\ YieldNow(state, pc)
  /\ TableUnchanged /\ UNCHANGED <<timer, target>>

\* sleep_ticks(), recv() and wait_net_condition(): Sleeping is set with
\* interrupts on, so the timer may come before yield_now.
SleepStart(t, ticks) ==
  /\ At(t, "run")
  /\ state' = [state EXCEPT ![t] = "Sleeping"]
  /\ timer' = [timer EXCEPT ![t] = ticks]
  /\ pc' = [pc EXCEPT ![t] = "asleep"]
  /\ TableUnchanged /\ UNCHANGED <<current, target>>

SleepYield(t) ==
  /\ At(t, "asleep")
  /\ YieldNow(state, [pc EXCEPT ![t] = "run"])
  /\ TableUnchanged /\ UNCHANGED <<timer, target>>

\* The double check of ipc::recv() found a message: wake_task(self).
SleepCancel(t) ==
  /\ At(t, "asleep")
  /\ state' = [state EXCEPT ![t] = IF @ = "Sleeping" THEN "Ready" ELSE @]
  /\ timer' = [timer EXCEPT ![t] = 0]
  /\ pc' = [pc EXCEPT ![t] = "run"]
  /\ TableUnchanged /\ UNCHANGED <<current, target>>

\* futex_wait(): set_current_sleeping() and yield_now() with interrupts off.
Block(t, ticks) ==
  /\ At(t, "run") /\ IsUser(t)
  /\ timer' = [timer EXCEPT ![t] = ticks]
  /\ YieldNow([state EXCEPT ![t] = "Sleeping"], pc)
  /\ TableUnchanged /\ UNCHANGED target

\* wake_task(), called by ipc::send, ipc::cancel_recv, futex_wake and
\* wake_all_net_waiters.
WakeTask(t, u) ==
  /\ current = t /\ pc[t] \in {"run", "poll"}
  /\ state[u] = "Sleeping"
  /\ state' = [state EXCEPT ![u] = "Ready"]
  /\ timer' = [timer EXCEPT ![u] = 0]
  /\ TableUnchanged /\ UNCHANGED <<current, pc, target>>

-----------------------------------------------------------------------------
(* Waiting for children and threads.                                       *)

\* Children a wait(tgt) of task t may collect.
Collectable(t, tgt) ==
  {u \in Tasks : /\ parent[u] = t /\ state[u] = "Finished" /\ ~reaped[u]
                 /\ tgt \in {0, u}}

\* NoChild and NotChild.
WaitFails(t, tgt) ==
  IF tgt > 0
  THEN parent[tgt] # t \/ reaped[tgt]
  ELSE \A u \in Tasks : parent[u] = t => reaped[u]

\* The first match in table order is marked reaped and its stack is freed.
ReapChild(t, tgt) ==
  \E u \in Collectable(t, tgt) :
    /\ \A v \in Collectable(t, tgt) : u <= v
    /\ reaped' = [reaped EXCEPT ![u] = TRUE]

\* The locals of a wait go out of scope.
Forget(t) ==
  /\ timer' = [timer EXCEPT ![t] = 0]
  /\ target' = [target EXCEPT ![t] = 0]

\* SYS_WAIT and SYS_WAITPID without WNOHANG: interrupts are enabled first.
WaitStart(t, tgt, ticks) ==
  /\ At(t, "run") /\ IsUser(t)
  /\ pc' = [pc EXCEPT ![t] = "wait"]
  /\ target' = [target EXCEPT ![t] = tgt]
  /\ timer' = [timer EXCEPT ![t] = ticks]
  /\ TableUnchanged /\ UNCHANGED <<current, state>>

\* The timeout is not looked at.
WaitReturn_NoTimeout(t) ==
  /\ At(t, "wait")
  /\ pc' = [pc EXCEPT ![t] = "run"]
  /\ \/ ReapChild(t, target[t])
     \/ /\ Collectable(t, target[t]) = {} /\ WaitFails(t, target[t])
        /\ UNCHANGED reaped
  /\ Forget(t)
  /\ UNCHANGED <<next_id, current, state, cr3, leader, parent, owns, exit_code>>

\* One round of wait_for_child() / waitpid() that ends the call.
WaitReturn(t) ==
  /\ At(t, "wait")
  /\ pc' = [pc EXCEPT ![t] = "run"]
  /\ \/ ReapChild(t, target[t])
     \/ /\ Collectable(t, target[t]) = {}
        /\ WaitFails(t, target[t]) \/ timer[t] = 0
        /\ UNCHANGED reaped
  /\ Forget(t)
  /\ UNCHANGED <<next_id, current, state, cr3, leader, parent, owns, exit_code>>

\* One round that finds the child still alive and yields.
WaitYield(t) ==
  /\ At(t, "wait")
  /\ Collectable(t, target[t]) = {}
  /\ ~WaitFails(t, target[t])
  /\ timer[t] # 0
  /\ YieldNow(state, pc)
  /\ TableUnchanged /\ UNCHANGED <<timer, target>>

\* SYS_WAITPID with WNOHANG (when it collects nothing, nothing changes).
WaitNoHang(t, tgt) ==
  /\ At(t, "run") /\ IsUser(t)
  /\ ReapChild(t, tgt)
  /\ UNCHANGED <<next_id, current, state, timer, cr3, leader, parent, owns,
                 exit_code, pc, target>>

GroupOf(t) == IF leader[t] = NoTask THEN t ELSE leader[t]

JoinFails(t, u) == leader[u] # GroupOf(t) \/ reaped[u]

\* A round of wait_for_thread() that tests only reaped.
JoinReturn_BeforeEnd(t, u) ==
  /\ \/ ~JoinFails(t, u) /\ reaped' = [reaped EXCEPT ![u] = TRUE]
     \/ JoinFails(t, u) /\ UNCHANGED reaped
  /\ pc' = [pc EXCEPT ![t] = "run"]
  /\ Forget(t)
  /\ UNCHANGED <<next_id, current, state, cr3, leader, parent, owns, exit_code>>

\* A round of wait_for_thread(u) that ends the call.
JoinReturn(t, u) ==
  /\ \/ /\ ~JoinFails(t, u) /\ state[u] = "Finished"
        /\ reaped' = [reaped EXCEPT ![u] = TRUE]
     \/ JoinFails(t, u) /\ UNCHANGED reaped
     \/ ~JoinFails(t, u) /\ state[u] # "Finished" /\ timer[t] = 0 /\ UNCHANGED reaped
  /\ pc' = [pc EXCEPT ![t] = "run"]
  /\ Forget(t)
  /\ UNCHANGED <<next_id, current, state, cr3, leader, parent, owns, exit_code>>

\* SYS_THREAD_JOIN: the first round runs with interrupts off.
JoinStart(t, u, ticks) ==
  /\ At(t, "run") /\ IsUser(t)
  /\ \/ JoinReturn(t, u)
     \/ /\ ~JoinFails(t, u) /\ state[u] # "Finished"
        /\ target' = [target EXCEPT ![t] = u]
        /\ timer' = [timer EXCEPT ![t] = ticks]
        /\ YieldNow(state, [pc EXCEPT ![t] = "join"])
        /\ TableUnchanged

\* A later round, after yield_now has turned interrupts on.
JoinLoop(t) ==
  /\ At(t, "join")
  /\ \/ JoinReturn(t, target[t])
     \/ /\ ~JoinFails(t, target[t]) /\ state[target[t]] # "Finished" /\ timer[t] # 0
        /\ YieldNow(state, pc)
        /\ TableUnchanged /\ UNCHANGED <<timer, target>>

-----------------------------------------------------------------------------
(* The ends of a task.                                                     *)

Die(st, dead) == [t \in Tasks |-> IF t \in dead THEN "Finished" ELSE st[t]]
DeadAt(dead)  == [t \in Tasks |-> IF t \in dead THEN "dead" ELSE pc[t]]

\* kill_all_threads_of_leader() that spares sleeping threads.
ThreadsOf_AwakeOnly(t) ==
  {u \in Tasks : leader[u] = t /\ state[u] \in {"Ready", "Running"}}

\* The threads kill_all_threads_of_leader() ends.
ThreadsOf(t) == {u \in Tasks : leader[u] = t /\ state[u] # "Finished"}

\* SYS_EXIT of a process: exit_usermode() keeps interrupts off, and
\* user_task_exit_handler() ends the whole group before the address space goes.
ExitProcess(t) ==
  LET gone == {t} \cup ThreadsOf(t)
  IN  /\ At(t, "run") /\ t \in owns
      /\ owns' = owns \ {t}
      /\ exit_code' = [u \in Tasks |-> IF u \in ThreadsOf(t) THEN -1 ELSE exit_code[u]]
      /\ YieldNow(Die(state, gone), DeadAt(gone))
      /\ UNCHANGED <<next_id, timer, cr3, leader, parent, reaped, target>>

\* SYS_THREAD_EXIT or SYS_EXIT of a thread: thread_exit_handler().
ExitThread(t) ==
  /\ At(t, "run") /\ leader[t] # NoTask
  /\ YieldNow(Die(state, {t}), DeadAt({t}))
  /\ TableUnchanged /\ UNCHANGED <<timer, target>>

\* A kernel task's function returns: task_exit_handler() marks it Finished with
\* interrupts on ...
ExitKernelTask(t) ==
  /\ At(t, "run") /\ ~IsUser(t)
  /\ state' = Die(state, {t})
  /\ pc' = [pc EXCEPT ![t] = "exiting"]
  /\ TableUnchanged /\ UNCHANGED <<current, timer, target>>

\* ... and yields, unless the timer has already taken the CPU for good.
ExitKernelYield(t) ==
  /\ At(t, "exiting")
  /\ YieldNow(state, DeadAt({t}))
  /\ TableUnchanged /\ UNCHANGED <<timer, target>>

\* kill_task() that lets a task end itself.
KillTask_Self(t, u) ==
  /\ At(t, "run") /\ IsUser(t)
  /\ u < next_id /\ state[u] # "Finished"
  /\ state' = Die(state, {u})
  /\ pc' = IF u = t THEN pc ELSE DeadAt({u})
  /\ exit_code' = [exit_code EXCEPT ![u] = -1]
  /\ owns' = owns \ {u}
  /\ UNCHANGED <<next_id, current, timer, cr3, leader, parent, reaped, target>>

\* SYS_KILL: kill_task() ends one task, whichever it is, task 0 and net_poller
\* included; unlike user_task_exit_handler() it does not end the threads of a
\* process it destroys.
KillTask(t, u) ==
  /\ At(t, "run") /\ IsUser(t)
  /\ u # t /\ u < next_id /\ state[u] # "Finished"
  /\ state' = Die(state, {u})
  /\ pc' = DeadAt({u})
  /\ exit_code' = [exit_code EXCEPT ![u] = -1]
  /\ owns' = owns \ {u}
  /\ UNCHANGED <<next_id, current, timer, cr3, leader, parent, reaped, target>>

\* Where the exception path may switch to: the next Ready task, else task 0
\* unless it has finished.
AbortTo(st, nxt) ==
  \/ IsNextReady(st, nxt)
  \/ ReadyTasks(st) = {} /\ nxt = Kernel /\ st[Kernel] # "Finished"

\* A fault in user code: abort_current_user_task_from_exception().  It ends
\* only the faulting task and, with nowhere to go, halts with interrupts off.
AbortTask(t) ==
  LET st == Die(state, {t})
  IN  /\ At(t, "run") /\ IsUser(t)
      /\ exit_code' = [exit_code EXCEPT ![t] = -1]
      /\ owns' = owns \ {t}
      /\ \/ \E nxt \in Tasks :
              /\ AbortTo(st, nxt)
              /\ state' = [st EXCEPT ![nxt] = "Running"]
              /\ current' = nxt
              /\ pc' = DeadAt({t})
         \/ /\ ReadyTasks(st) = {} /\ st[Kernel] = "Finished"
            /\ state' = st
            /\ pc' = [pc EXCEPT ![t] = "hung"]
            /\ UNCHANGED current
      /\ UNCHANGED <<next_id, timer, cr3, leader, parent, reaped, target>>

\* ~has_ready_tasks(): no task is Ready or Sleeping.
NoReadyTasks == \A t \in Tasks : state[t] \notin {"Ready", "Sleeping"}

\* wait_until_no_ready_tasks() returns and main.rs starts the kernel shell.
DrainDone ==
  /\ At(Kernel, "drain")
  /\ NoReadyTasks
  /\ pc' = [pc EXCEPT ![Kernel] = "shell"]
  /\ TableUnchanged /\ UNCHANGED <<current, state, timer, target>>

-----------------------------------------------------------------------------
\* After scheduler::init(), main.rs:270: task 0 is alone.
Init ==
  /\ next_id = 1
  /\ current = Kernel
  /\ state = [t \in Tasks |-> IF t = Kernel THEN "Running" ELSE "Unborn"]
  /\ timer = [t \in Tasks |-> 0]
  /\ cr3 = [t \in Tasks |-> NoTask]
  /\ leader = [t \in Tasks |-> NoTask]
  /\ parent = [t \in Tasks |-> NoTask]
  /\ owns = {}
  /\ reaped = [t \in Tasks |-> FALSE]
  /\ exit_code = [t \in Tasks |-> 0]
  /\ pc = [t \in Tasks |-> IF t = Kernel THEN "boot" ELSE "none"]
  /\ target = [t \in Tasks |-> 0]

Tick == TickPreempt \/ TickSkipped

Delays == 1..MaxTicks \cup {Forever}

\* The steps a task's own program chooses to take.
ProgramStep(t) ==
  \/ SysYield(t) \/ SpawnUser(t) \/ SpawnThread(t) \/ Exec(t)
  \/ \E d \in Delays : SleepStart(t, d) \/ Block(t, d)
  \/ \E u \in Tasks : WakeTask(t, u) \/ KillTask(t, u) \/ WaitNoHang(t, u)
  \/ \E u \in Tasks, d \in Delays : WaitStart(t, u, d) \/ JoinStart(t, u, d)
  \/ ExitProcess(t) \/ ExitThread(t) \/ ExitKernelTask(t) \/ AbortTask(t)

\* The steps of a handler already under way.
KernelStep(t) ==
  SleepYield(t) \/ SleepCancel(t) \/ WaitReturn(t) \/ WaitYield(t)
    \/ JoinLoop(t) \/ ExitKernelYield(t)

Next ==
  \/ Tick
  \/ DhcpWait \/ DhcpYield \/ SpawnPoller \/ SpawnKernelTask \/ BootInit \/ BootNoInit
  \/ DrainDone
  \/ \E t \in Tasks : ProgramStep(t) \/ KernelStep(t)

Spec == Init /\ [][Next]_vars

\* The timer keeps ticking and does not always hit the lock; a task gets far
\* enough in its 55 ms slices to finish the handler it is in, task 0 its round of
\* wait_until_no_ready_tasks().
Fairness ==
  /\ WF_vars(TickPreempt)
  /\ SF_vars(DrainDone)
  /\ \A t \in Tasks : SF_vars(KernelStep(t))

FairSpec == Spec /\ Fairness

-----------------------------------------------------------------------------
\* The types of the task table; no wake_at or timeout is counted below zero and
\* the table keeps to the tasks handed out.
TypeOK ==
  /\ next_id \in 1..MaxTasks
  /\ current \in Tasks
  /\ state \in [Tasks -> TaskState]
  /\ timer \in [Tasks -> 0..Forever]
  /\ cr3 \in [Tasks -> Tasks \cup {NoTask}]
  /\ leader \in [Tasks -> Tasks \cup {NoTask}]
  /\ parent \in [Tasks -> Tasks \cup {NoTask}]
  /\ owns \subseteq Tasks
  /\ reaped \in [Tasks -> BOOLEAN]
  /\ exit_code \in [Tasks -> {0, -1}]
  /\ pc \in [Tasks -> Location]
  /\ target \in [Tasks -> Tasks]

\* A context switch returns to a task from the yield_now() or preempt() of
\* another one, as the comment on context_switch in yield_now() (scheduler.rs:552)
\* has it, and the exception path never comes back to the task it ended.
NoStaleResume == \A t \in Tasks : pc[t] \notin {"stale", "hung"}

\* Nobody is left who is always Ready: net_poller does not exist yet, or both it
\* and task 0 were killed.
Alone ==
  \/ next_id = 1
  \/ state[Kernel] = "Finished" /\ state[Poller] = "Finished"

\* The round robin of yield_now() and preempt() meets another Ready task before
\* it comes back to a task that was woken while still on the CPU, and the
\* exception path finds a task to go to, as long as task 0 or net_poller is there.
StaleOnlyAlone == Alone \/ NoStaleResume

\* Only the current task is Running; and a task that executes its own program
\* is neither Sleeping nor Finished, although yield_now() returns to its caller
\* when it finds nobody to switch to, as long as task 0 or net_poller is there.
OneRunner ==
  /\ \A t \in Tasks : state[t] = "Running" => t = current
  /\ pc[current] = "run" => Alone \/ state[current] \in {"Running", "Ready"}

\* wait() and join() free the kernel stack of a task only when that task has
\* left the CPU for good.
FreedStackIdle ==
  \A t \in Tasks : reaped[t] => state[t] = "Finished" /\ t # current

\* A thread that can still be scheduled runs on a page table that exists,
\* unless its process was ended by force.
ThreadHasSpace ==
  \A t \in Tasks :
    state[t] \in {"Ready", "Running", "Sleeping"} /\ IsUser(t) =>
      cr3[t] \in owns \/ exit_code[cr3[t]] = -1

\* The same without exception: what the comment on kill_all_threads_of_leader
\* (scheduler.rs:1298) asks for.
NoDanglingThread ==
  \A t \in Tasks :
    state[t] \in {"Ready", "Running", "Sleeping"} /\ IsUser(t) => cr3[t] \in owns

\* What main.rs:492 announces: task 0 waits while init and its processes run,
\* and once the last of them has ended it falls back to the kernel shell.
ShellFallback ==
  pc[Kernel] = "drain" /\ (\A t \in Tasks : IsUser(t) => state[t] = "Finished")
    ~> pc[Kernel] = "shell"

\* Finished is final: no wake_task(), switch or requeue by yield_now() and
\* preempt() revives a task.
FinishedIsFinal ==
  [][\A t \in Tasks : state[t] = "Finished" => state'[t] = "Finished"]_vars

\* The round robin of yield_now() and preempt() starves nobody: a Ready task gets
\* the CPU or is ended.
ReadyRuns ==
  \A t \in Tasks : state[t] = "Ready" ~> current = t \/ state[t] = "Finished"

\* preempt() wakes sleepers: one with a deadline leaves Sleeping, although ticks
\* that find SCHEDULER locked wake nobody, as long as task 0 or net_poller is there.
SleeperWakes ==
  \A t \in Tasks :
    state[t] = "Sleeping" /\ timer[t] # Forever ~> state[t] # "Sleeping" \/ Alone

\* wait_for_child() and waitpid(): a wait with a timeout, or whose child has
\* finished, returns, as long as task 0 or net_poller is there.
WaitEnds ==
  \A t \in Tasks :
    pc[t] = "wait" /\ (timer[t] # Forever \/ Collectable(t, target[t]) # {})
      ~> pc[t] # "wait" \/ Alone

-----------------------------------------------------------------------------
(* The inductive invariant behind the safety properties (SchedulerProofs). *)

LivePc == {"boot", "dhcp", "drain", "shell", "poll", "run", "asleep", "wait", "join"}
Live(t) == state[t] \in {"Ready", "Running", "Sleeping"}

\* Where a task can be, by its state.
StatePc ==
  \A t \in Tasks :
    /\ state[t] = "Unborn" <=> t >= next_id
    /\ Live(t) => pc[t] \in LivePc \cup {"stale"}
    /\ state[t] = "Finished" => pc[t] \in {"dead", "exiting", "hung"}
    /\ state[t] = "Unborn" => pc[t] = "none"

\* With task 0 or net_poller there, nobody runs into an outdated stack pointer,
\* a sleeper is in its program or about to yield, and so is the task on the CPU
\* if it is not runnable; task 0 may still be marked from its wait for DHCP.
Manned ==
  Alone \/ /\ NoStaleResume
           /\ \A t \in Tasks \ {Kernel} :
                state[t] = "Sleeping" => pc[t] \in {"run", "asleep"}
           /\ \/ state[current] \in {"Running", "Ready"}
              \/ state[current] = "Sleeping" /\ (pc[current] = "asleep" \/ current = Kernel)
              \/ state[current] = "Finished" /\ pc[current] = "exiting"

\* Task 0 sleeps only while it waits for DHCP, until the next tick: it is Ready
\* whenever another task is on the CPU.
KernelReady ==
  /\ cr3[Kernel] = NoTask
  /\ pc[Kernel] \in {"boot", "dhcp", "drain", "shell", "dead", "stale"}
  /\ \/ state[Kernel] \in {"Ready", "Running", "Finished"}
     \/ current = Kernel /\ state[Kernel] = "Sleeping" /\ timer[Kernel] <= 1
  /\ current # Kernel => state[Kernel] \in {"Ready", "Finished"}
  /\ pc[Kernel] \in {"dhcp", "stale"} => next_id = 1
  /\ state[Kernel] = "Finished" => current # Kernel

\* net_poller never sleeps either, and it is there when task 0 leaves the CPU
\* for the first time.
PollerReady ==
  /\ cr3[Poller] = NoTask
  /\ pc[Poller] \in {"none", "poll", "dead"}
  /\ state[Poller] \in {"Unborn", "Ready", "Running", "Finished"}
  /\ state[Poller] = "Ready" => current # Poller
  /\ state[Poller] = "Finished" => current # Poller
  /\ current = Kernel /\ state[Kernel] # "Running" /\ next_id > 1
       => state[Poller] = "Ready"
  /\ current < next_id

\* Every user task runs on its own page table or on its leader's.
Groups ==
  \A t \in Tasks :
    /\ t \in owns => cr3[t] = t /\ leader[t] = NoTask
    /\ IsUser(t) => IF leader[t] = NoTask THEN cr3[t] = t ELSE leader[t] = cr3[t]
    /\ leader[t] # NoTask => IsUser(t)
    /\ t \in owns => t < next_id
    /\ IsUser(t) => t < next_id /\ cr3[t] < next_id

\* Inductive: Init implies it and every action keeps it.
SchedInv ==
  /\ TypeOK /\ StatePc /\ Manned /\ KernelReady /\ PollerReady /\ Groups
  /\ OneRunner /\ FreedStackIdle /\ ThreadHasSpace

=============================================================================
