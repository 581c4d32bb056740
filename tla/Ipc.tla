--------------------------------- MODULE Ipc ---------------------------------
(***************************************************************************)
(* The message queues of kernel/src/ipc.rs: send, recv, recv_from,         *)
(* send_with_handle, recv_with_handle, cancel_recv and cleanup_task.       *)
(*                                                                         *)
(* SYS_IPC_SEND and SYS_IPC_CANCEL run with interrupts off and are one     *)
(* step each.  The receiving calls enable interrupts first, so the timer   *)
(* may take the CPU between any two of their lock sections: each section   *)
(* is an action.  The scheduler is reduced to what Scheduler shows of it:  *)
(* one task on the CPU, any Ready task may come next, Idle (task 0 or      *)
(* net_poller) is always Ready, and a task that is switched out while      *)
(* marked Sleeping comes back only after a wake-up or its deadline.        *)
(***************************************************************************)
EXTENDS Integers, Sequences, FiniteSets

CONSTANTS
  Tasks,      \* user tasks
  Receivers,  \* those that receive
  Threads,    \* those that are threads of another task's process
  MaxSent,    \* bound: messages sent in all
  MaxTicks    \* bound: the longest finite timeout, in ticks

ASSUME IpcConstants ==
  /\ IsFiniteSet(Tasks) /\ Receivers \subseteq Tasks /\ Threads \subseteq Tasks
  /\ MaxSent \in Nat /\ MaxTicks \in Nat \ {0}
  /\ \A t \in Tasks : t \notin {"Idle", "Any"}

Idle    == "Idle"
Any     == "Any"              \* recv: no filter on the sender
Forever == MaxTicks + 1       \* wake_at = u64::MAX
Kinds   == {"plain", "handle"}  \* IPC_QUEUES and IPC_HANDLE_QUEUES

VARIABLES
  current,    \* the task on the CPU
  state,      \* Task.state
  timer,      \* ticks left of the deadline
  pc,         \* where the task is in a receiving call
  want,       \* the queue and the sender that call looks for
  queue,      \* the receive queues, by kind and destination
  waiters,    \* IPC_WAITERS
  cancelled,  \* IPC_CANCELLED
  sent,       \* messages sent so far, by kind, sender and destination
  last,       \* number of the last one delivered, likewise
  caught      \* history: the Task.state cancel_recv() met in the present call

vars == <<current, state, timer, pc, want, queue, waiters, cancelled, sent, last, caught>>

\* idle: in user code; check: at the head of the loop; register: about to enter
\* IPC_WAITERS; sleep: about to call set_current_sleeping; recheck: before the
\* double check; claimed: it has taken a message, wake_task(self) comes next;
\* leave: about to leave IPC_WAITERS with it; yield: before yield_now; woken:
\* behind it, about to leave IPC_WAITERS; flag: before the look at IPC_CANCELLED;
\* dead.
Location == {"idle", "check", "register", "sleep", "recheck", "claimed", "leave",
             "yield", "woken", "flag", "dead"}
InRecv   == Location \ {"idle", "dead"}

Message == [from : Tasks, n : 1..MaxSent]
Want    == [kind : Kinds, from : Tasks \cup {Any}]

Alive(t) == state[t] # "Finished"

At(t, l) == current = t /\ pc[t] = l

Goto(t, l) == pc' = [pc EXCEPT ![t] = l]

-----------------------------------------------------------------------------
(* The scheduler, as Scheduler shows it to this module.                    *)

\* The outgoing task keeps Sleeping and Finished.
SwitchTo(st, nxt) ==
  [t \in Tasks |-> IF t = nxt THEN "Running"
                   ELSE IF t = current /\ st[t] = "Running" THEN "Ready" ELSE st[t]]

\* yield_now(): Idle can always take over.
Yield(st) ==
  \E nxt \in (Tasks \cup {Idle}) \ {current} :
    /\ nxt \in Tasks => st[nxt] = "Ready"
    /\ current' = nxt
    /\ state' = SwitchTo(st, nxt)

\* wake_task(): only a Sleeping task is affected.
WakeTask(st, t) == [st EXCEPT ![t] = IF @ = "Sleeping" THEN "Ready" ELSE @]

\* Elapsed ticks subtracted without saturation.
Elapse_Wrapping == [t \in Tasks |-> IF timer[t] # Forever THEN timer[t] - 1 ELSE timer[t]]

\* One tick passes for every deadline that is not u64::MAX.
Elapse == [t \in Tasks |-> IF timer[t] \in 1..MaxTicks THEN timer[t] - 1 ELSE timer[t]]

\* The timer interrupt: sleepers whose deadline has come are woken, and the CPU
\* goes to nxt or stays.
Tick(nxt) ==
  LET st == [t \in Tasks |-> IF state[t] = "Sleeping" /\ Elapse[t] = 0
                             THEN "Ready" ELSE state[t]]
  IN  /\ timer' = Elapse
      /\ \/ nxt = current /\ state' = st
         \/ /\ nxt # current
            /\ nxt \in Tasks => st[nxt] = "Ready"
            /\ state' = SwitchTo(st, nxt)
      /\ current' = nxt
      /\ UNCHANGED <<pc, want, queue, waiters, cancelled, sent, last, caught>>

-----------------------------------------------------------------------------
(* Queues.                                                                 *)

\* Positions of the messages in t's queue that the call w accepts.
Matches(t, w) ==
  {i \in 1..Len(queue[w.kind][t]) : w.from \in {Any, queue[w.kind][t][i].from}}

\* Takes a message off the tail.
Take_Last(t, w) ==
  \E i \in Matches(t, w) :
    LET q == queue[w.kind][t]
    IN  /\ \A j \in Matches(t, w) : i >= j
        /\ queue' = [queue EXCEPT ![w.kind][t] = SubSeq(q, 1, i - 1) \o SubSeq(q, i + 1, Len(q))]
        /\ last' = [last EXCEPT ![w.kind][q[i].from][t] = q[i].n]

\* try_recv(), try_recv_from() and try_recv_with_handle() find a message: the
\* first one accepted leaves the queue.
Take(t, w) ==
  \E i \in Matches(t, w) :
    LET q == queue[w.kind][t]
    IN  /\ \A j \in Matches(t, w) : i <= j
        /\ queue' = [queue EXCEPT ![w.kind][t] = SubSeq(q, 1, i - 1) \o SubSeq(q, i + 1, Len(q))]
        /\ last' = [last EXCEPT ![w.kind][q[i].from][t] = q[i].n]

\* task_exists() without the test for Finished.
TaskExists_AnyState(t) == TRUE

TaskExists(t) == Alive(t)

TotalSent ==
  Cardinality({x \in Kinds \X Tasks \X Tasks \X (1..MaxSent) : x[4] <= sent[x[1]][x[2]][x[3]]})

\* send() and send_with_handle(), followed by wake_if_waiting().
Send(t, kind, dest) ==
  LET n == sent[kind][t][dest] + 1
  IN  /\ At(t, "idle")
      /\ TaskExists(dest)
      /\ TotalSent < MaxSent
      /\ sent' = [sent EXCEPT ![kind][t][dest] = n]
      /\ queue' = [queue EXCEPT ![kind][dest] = Append(@, [from |-> t, n |-> n])]
      /\ state' = IF dest \in waiters THEN WakeTask(state, dest) ELSE state
      /\ UNCHANGED <<current, timer, pc, want, waiters, cancelled, last, caught>>

\* In a receiving call, the first Task.state met is noted, and Sleeping ever after.
Met(u) ==
  IF pc[u] \in InRecv /\ (caught[u] = "none" \/ state[u] = "Sleeping")
  THEN [caught EXCEPT ![u] = state[u]] ELSE caught

\* cancel_recv() that sets its flag and wakes nobody.
CancelRecv_NoWake(t, u) ==
  /\ At(t, "idle")
  /\ TaskExists(u)
  /\ cancelled' = cancelled \cup {u}
  /\ caught' = Met(u)
  /\ UNCHANGED <<current, state, timer, pc, want, queue, waiters, sent, last>>

\* cancel_recv().
CancelRecv(t, u) ==
  /\ At(t, "idle")
  /\ TaskExists(u)
  /\ cancelled' = cancelled \cup {u}
  /\ state' = WakeTask(state, u)
  /\ caught' = Met(u)
  /\ UNCHANGED <<current, timer, pc, want, queue, waiters, sent, last>>

-----------------------------------------------------------------------------
(* Receiving.                                                              *)

\* recv() and recv_from() with timeout_ms = 0 and try_recv_with_handle(): one
\* look at the queue.
RecvNow(t, w) ==
  /\ At(t, "idle") /\ t \in Receivers
  /\ Take(t, w)
  /\ UNCHANGED <<current, state, timer, pc, want, waiters, cancelled, sent, caught>>

\* recv() and recv_from() take a timeout, recv_with_handle() has none.
RecvStart(t, w, ticks) ==
  /\ At(t, "idle") /\ t \in Receivers
  /\ w.kind = "handle" => ticks = Forever /\ w.from = Any
  /\ w.kind = "plain" => ticks # Forever
  /\ Goto(t, "check")
  /\ want' = [want EXCEPT ![t] = w]
  /\ timer' = [timer EXCEPT ![t] = ticks]
  /\ caught' = [caught EXCEPT ![t] = "none"]
  /\ UNCHANGED <<current, state, queue, waiters, cancelled, sent, last>>

\* The timeout is tested only in front of the loop.
RecvCheck_NoTimeout(t) ==
  /\ At(t, "check")
  /\ \/ Take(t, want[t]) /\ Goto(t, "idle")
     \/ Matches(t, want[t]) = {} /\ Goto(t, "register") /\ UNCHANGED <<queue, last>>
  /\ UNCHANGED <<current, state, timer, want, waiters, cancelled, sent, caught>>

\* The head of the loop: a message, the timeout, or another round.
RecvCheck(t) ==
  /\ At(t, "check")
  /\ \/ Take(t, want[t]) /\ Goto(t, "idle")
     \/ /\ Matches(t, want[t]) = {}
        /\ Goto(t, IF timer[t] = 0 THEN "idle" ELSE "register")
        /\ UNCHANGED <<queue, last>>
  /\ UNCHANGED <<current, state, timer, want, waiters, cancelled, sent, caught>>

Register(t) ==
  /\ At(t, "register")
  /\ waiters' = waiters \cup {t}
  /\ Goto(t, "sleep")
  /\ UNCHANGED <<current, state, timer, want, queue, cancelled, sent, last, caught>>

\* set_current_sleeping(deadline).
Sleep(t) ==
  /\ At(t, "sleep")
  /\ state' = [state EXCEPT ![t] = "Sleeping"]
  /\ Goto(t, "recheck")
  /\ UNCHANGED <<current, timer, want, queue, waiters, cancelled, sent, last, caught>>

\* The double check after set_current_sleeping: a message is taken with the task
\* still marked Sleeping.
DoubleCheck(t) ==
  /\ At(t, "recheck")
  /\ \/ Take(t, want[t]) /\ Goto(t, "claimed")
     \/ Matches(t, want[t]) = {} /\ Goto(t, "yield") /\ UNCHANGED <<queue, last>>
  /\ UNCHANGED <<current, state, timer, want, waiters, cancelled, sent, caught>>

\* The double check returns without leaving IPC_WAITERS.
WakeSelf_StaysWaiter(t) ==
  /\ At(t, "claimed")
  /\ state' = WakeTask(state, t)
  /\ Goto(t, "idle")
  /\ UNCHANGED <<current, timer, want, queue, waiters, cancelled, sent, last, caught>>

\* wake_task(self) ...
WakeSelf(t) ==
  /\ At(t, "claimed")
  /\ state' = WakeTask(state, t)
  /\ Goto(t, "leave")
  /\ UNCHANGED <<current, timer, want, queue, waiters, cancelled, sent, last, caught>>

\* ... and the return with the message, out of IPC_WAITERS.
Leave(t) ==
  /\ At(t, "leave")
  /\ waiters' = waiters \ {t}
  /\ Goto(t, "idle")
  /\ UNCHANGED <<current, state, timer, want, queue, cancelled, sent, last, caught>>

RecvYield(t) ==
  /\ At(t, "yield")
  /\ Yield(state)
  /\ Goto(t, "woken")
  /\ UNCHANGED <<timer, want, queue, waiters, cancelled, sent, last, caught>>

\* Back from yield_now(): leave IPC_WAITERS.
Woken(t) ==
  /\ At(t, "woken")
  /\ waiters' = waiters \ {t}
  /\ Goto(t, "flag")
  /\ UNCHANGED <<current, state, timer, want, queue, cancelled, sent, last, caught>>

\* The look at IPC_CANCELLED: Cancelled, or another round.
CancelCheck(t) ==
  /\ At(t, "flag")
  /\ cancelled' = cancelled \ {t}
  /\ Goto(t, IF t \in cancelled THEN "idle" ELSE "check")
  /\ UNCHANGED <<current, state, timer, want, queue, waiters, sent, last, caught>>

-----------------------------------------------------------------------------
(* The ends of a task.                                                     *)

\* cleanup_task(): queues, IPC_WAITERS and IPC_CANCELLED forget u.
Cleanup(u) ==
  /\ queue' = [k \in Kinds |-> [queue[k] EXCEPT ![u] = << >>]]
  /\ waiters' = waiters \ {u}
  /\ cancelled' = cancelled \ {u}

Die(dead) == [t \in Tasks |-> IF t \in dead THEN "Finished" ELSE state[t]]
DeadAt(dead) == [t \in Tasks |-> IF t \in dead THEN "dead" ELSE pc[t]]

\* SYS_EXIT, SYS_THREAD_EXIT or a fault; the exit of a process ends its threads
\* too, but cleans up only behind itself.
Exit(t, dead) ==
  /\ At(t, "idle")
  /\ dead = {t} \/ (t \notin Threads /\ dead = {t} \cup Threads)
  /\ Cleanup(t)
  /\ pc' = DeadAt(dead)
  /\ Yield(Die(dead))
  /\ UNCHANGED <<timer, want, sent, last, caught>>

\* SYS_KILL.
Kill(t, u) ==
  /\ At(t, "idle")
  /\ u # t /\ Alive(u)
  /\ Cleanup(u)
  /\ pc' = DeadAt({u})
  /\ state' = Die({u})
  /\ UNCHANGED <<current, timer, want, sent, last, caught>>

-----------------------------------------------------------------------------
Init ==
  /\ current = Idle
  /\ state = [t \in Tasks |-> "Ready"]
  /\ timer = [t \in Tasks |-> 0]
  /\ pc = [t \in Tasks |-> "idle"]
  /\ want = [t \in Tasks |-> [kind |-> "plain", from |-> Any]]
  /\ queue = [k \in Kinds |-> [t \in Tasks |-> << >>]]
  /\ waiters = {} /\ cancelled = {}
  /\ sent = [k \in Kinds |-> [s \in Tasks |-> [d \in Tasks |-> 0]]]
  /\ last = sent
  /\ caught = [t \in Tasks |-> "none"]

\* What a program asks for.
Call(t) ==
  \/ \E k \in Kinds, u \in Receivers : Send(t, k, u)
  \/ \E u \in Receivers : CancelRecv(t, u)
  \/ \E w \in Want : RecvNow(t, w) \/ \E d \in 1..Forever : RecvStart(t, w, d)
  \/ \E dead \in {{t}, {t} \cup Threads} : Exit(t, dead)
  \/ \E u \in Tasks : Kill(t, u)

\* A receiving call under way.
RecvStep(t) ==
  \/ RecvCheck(t) \/ Register(t) \/ Sleep(t) \/ DoubleCheck(t) \/ WakeSelf(t) \/ Leave(t)
  \/ RecvYield(t) \/ Woken(t) \/ CancelCheck(t)

Next ==
  \/ \E nxt \in Tasks \cup {Idle} : Tick(nxt)
  \/ \E t \in Tasks : Call(t) \/ RecvStep(t)

Spec == Init /\ [][Next]_vars

\* Every Ready task is dispatched again and again (Scheduler's ReadyRuns) and
\* gets far enough in its slices to move on; the timer keeps ticking.
Fairness ==
  /\ \A nxt \in Tasks \cup {Idle} : WF_vars(Tick(nxt))
  /\ \A t \in Receivers : SF_vars(RecvStep(t))

FairSpec == Spec /\ Fairness

-----------------------------------------------------------------------------
\* The types of the scheduler's view, the queues and the two global sets; no
\* deadline is counted below zero.
TypeOK ==
  /\ current \in Tasks \cup {Idle}
  /\ state \in [Tasks -> {"Ready", "Running", "Sleeping", "Finished"}]
  /\ timer \in [Tasks -> 0..Forever]
  /\ pc \in [Tasks -> Location]
  /\ want \in [Tasks -> Want]
  /\ queue \in [Kinds -> [Tasks -> Seq(Message)]]
  /\ waiters \subseteq Tasks /\ cancelled \subseteq Tasks
  /\ caught \in [Tasks -> {"none", "Ready", "Running", "Sleeping"}]
  /\ sent \in [Kinds -> [Tasks -> [Tasks -> 0..MaxSent]]]
  /\ last \in [Kinds -> [Tasks -> [Tasks -> 0..MaxSent]]]

\* The messages of s in q are those numbered lo+1 to hi, in this order.
Carries(q, s, lo, hi) ==
  LET mine == {i \in 1..Len(q) : q[i].from = s}
  IN  /\ {q[i].n : i \in mine} = lo + 1..hi
      /\ \A i, j \in mine : i < j => q[i].n < q[j].n

\* Between one sender and one receiver nothing is lost, doubled or reordered,
\* however recv, recv_from and non-blocking calls are mixed: what is queued is
\* exactly what was sent after the last message delivered, in order.
InOrder ==
  \A k \in Kinds, s \in Tasks, d \in Tasks :
    Alive(d) => Carries(queue[k][d], s, last[k][s][d], sent[k][s][d])

\* IPC_WAITERS and the sleepers agree through every wake-up, deadline, cancel and end:
\* a receiver marked Sleeping is listed, so that the next send() to it finds it, and a
\* live task that is listed is in the sleeping half of a receiving call, so
\* wake_if_waiting() never disturbs a task that sleeps for another reason.
WaitersSound ==
  /\ \A t \in Tasks : state[t] = "Sleeping" => t \in waiters
  /\ \A t \in waiters : Alive(t) =>
       pc[t] \in {"sleep", "recheck", "claimed", "leave", "yield", "woken"}

\* A task that has cleaned up behind itself stays clean: no later send() or
\* cancel_recv() leaves a queue nobody will read.
DeadIsClean ==
  \A t \in Tasks \ Threads :
    ~Alive(t) => /\ \A k \in Kinds : queue[k][t] = << >>
                 /\ t \notin waiters \cup cancelled

\* recv() and recv_from() with a timeout return, whatever wakes them early.
RecvEnds ==
  \A t \in Receivers : pc[t] \in InRecv /\ timer[t] # Forever ~> pc[t] \notin InRecv

\* cancel_recv() ends the call of a receiver it meets Sleeping, even one with no
\* timeout, and at whichever step of the call the timer has let the canceller in.
CancelEnds == \A t \in Receivers : caught[t] = "Sleeping" ~> pc[t] \notin InRecv

\* What ipc.rs:319-321 says of recv_with_handle(): it waits until cancel_recv()
\* interrupts it, so a call that cancel_recv() has met does not wait on.
CancelInterrupts == \A t \in Receivers : caught[t] # "none" ~> pc[t] \notin InRecv

\* What the double check of ipc.rs:148 is for: a receiver that is off the CPU
\* and Sleeping has nothing to receive, neither queued nor already taken.
NoLostWakeup ==
  \A t \in Receivers :
    state[t] = "Sleeping" /\ t # current =>
      Matches(t, want[t]) = {} /\ pc[t] # "claimed"

=============================================================================
