------------------------------- MODULE Entry -------------------------------
(***************************************************************************)
(* How tasks enter and leave ring 3.  Two words are global to the CPU: the *)
(* stack jump_to_usermode leaves for exit_usermode (SAVED_RSP, here the    *)
(* task whose stack it is) and the stack the CPU takes when ring 3 enters  *)
(* the kernel (TSS rsp0).  The entry wrappers run with interrupts on, so   *)
(* the timer may switch tasks between any two of their steps; a system     *)
(* call runs with interrupts off until it comes back from yield_now.       *)
(* Which ready task comes next is Scheduler's matter: any may, here.       *)
(***************************************************************************)
EXTENDS Naturals

CONSTANTS Leaders,   \* processes: tasks with user_process_info
          Members,   \* threads, all of MembersOf's leader; without it
          MembersOf, \* the process that creates the threads
          Idle,      \* the kernel task, never in ring 3
          NoStack    \* no stack: the initial zero

ASSUME EntryAssumption ==
  /\ MembersOf \in Leaders /\ Leaders \cap Members = {}
  /\ Idle \notin Leaders \cup Members /\ NoStack \notin Leaders \cup Members \cup {Idle}

VARIABLES onCpu,     \* sched.current
          stage,     \* where each task is: unborn, new, rsp0, args, jump, iret,
                     \* user, kernel, rested (in a call that has yielded), over, idle
          savedRsp,  \* SAVED_RSP
          exitSaved, \* exit_saved_rsp of each task
          rsp0,      \* TSS.privilege_stack_table[0]
          entryArgs, \* whose USER_ENTRY_ARGC, ARGV and ENVP
          argsOf     \* whose arguments a task entered ring 3 with

entryVars == <<onCpu, stage, savedRsp, exitSaved, rsp0, entryArgs, argsOf>>

EntryTasks == Leaders \cup Members \cup {Idle}

\* Tasks the scheduler may pick: created, not finished.
Runnable(t) == stage[t] \notin {"unborn", "over"}

EntryInit ==
  /\ onCpu = Idle
  /\ stage = [t \in EntryTasks |-> IF t = Idle THEN "idle" ELSE IF t \in Leaders THEN "new" ELSE "unborn"]
  /\ savedRsp = NoStack /\ exitSaved = [t \in EntryTasks |-> NoStack]
  /\ rsp0 = NoStack /\ entryArgs = NoStack /\ argsOf = [t \in EntryTasks |-> NoStack]

-----------------------------------------------------------------------------
\* The new task's backup of SAVED_RSP is written back when it resumes within
\* yield_now or preempt; a task that never ran starts at its trampoline instead.
Restored_Never(t) == savedRsp
Restored(t) == IF stage[t] = "new" THEN savedRsp ELSE exitSaved[t]

\* rsp0 follows a switch only to a task that has user_process_info.
StackAfterSwitch(t) == IF t \in Leaders THEN t ELSE rsp0

Start(t) == IF stage[t] = "new" THEN "rsp0" ELSE stage[t]

\* The switch of yield_now and preempt: back up SAVED_RSP, set rsp0, change stacks.
SwitchTo(t, then) ==
  /\ Runnable(t) /\ t # onCpu
  /\ onCpu' = t
  /\ exitSaved' = [exitSaved EXCEPT ![onCpu] = savedRsp]
  /\ savedRsp' = Restored(t)
  /\ rsp0' = StackAfterSwitch(t)
  /\ stage' = [stage EXCEPT ![onCpu] = then, ![t] = Start(t)]
  /\ UNCHANGED <<entryArgs, argsOf>>

\* An entry from ring 3 pushes its frame on rsp0.  A behaviour ends where that is
\* another task's stack: what follows depends on the bytes overwritten there.
EntersOnOwnStack == stage[onCpu] = "user" => rsp0 = onCpu

\* preempt: a timer tick while interrupts are on.
Preempt(t) ==
  /\ stage[onCpu] # "kernel" /\ EntersOnOwnStack
  /\ SwitchTo(t, stage[onCpu])

\* int 0x80: interrupts go off.
EnterSyscall ==
  /\ stage[onCpu] = "user" /\ EntersOnOwnStack
  /\ stage' = [stage EXCEPT ![onCpu] = "kernel"]
  /\ UNCHANGED <<onCpu, savedRsp, exitSaved, rsp0, entryArgs, argsOf>>

\* yield_now in a system call that waits; interrupts are on when it returns.
YieldInCall(t) ==
  /\ stage[onCpu] \in {"kernel", "rested"}
  /\ SwitchTo(t, "rested")

LeaveSyscall ==
  /\ stage[onCpu] \in {"kernel", "rested"}
  /\ stage' = [stage EXCEPT ![onCpu] = "user"]
  /\ UNCHANGED <<onCpu, savedRsp, exitSaved, rsp0, entryArgs, argsOf>>

\* SYS_THREAD_CREATE.
CreateThread(m) ==
  /\ stage[onCpu] = "kernel" /\ onCpu = MembersOf
  /\ m \in Members /\ stage[m] = "unborn"
  /\ stage' = [stage EXCEPT ![m] = "new"]
  /\ UNCHANGED <<onCpu, savedRsp, exitSaved, rsp0, entryArgs, argsOf>>

-----------------------------------------------------------------------------
\* user_task_entry_wrapper and thread_entry_wrapper, up to iretq, interrupts on.
SetRsp0 ==
  /\ stage[onCpu] = "rsp0"
  /\ rsp0' = onCpu
  /\ stage' = [stage EXCEPT ![onCpu] = "args"]
  /\ UNCHANGED <<onCpu, savedRsp, exitSaved, entryArgs, argsOf>>

SetEntryArgs ==
  /\ stage[onCpu] = "args"
  /\ entryArgs' = onCpu
  /\ stage' = [stage EXCEPT ![onCpu] = "jump"]
  /\ UNCHANGED <<onCpu, savedRsp, exitSaved, rsp0, argsOf>>

SaveRsp ==
  /\ stage[onCpu] = "jump"
  /\ savedRsp' = onCpu
  /\ stage' = [stage EXCEPT ![onCpu] = "iret"]
  /\ UNCHANGED <<onCpu, exitSaved, rsp0, entryArgs, argsOf>>

Iretq ==
  /\ stage[onCpu] = "iret"
  /\ argsOf' = [argsOf EXCEPT ![onCpu] = entryArgs]
  /\ stage' = [stage EXCEPT ![onCpu] = "user"]
  /\ UNCHANGED <<onCpu, savedRsp, exitSaved, rsp0, entryArgs>>

\* SYS_EXIT and SYS_THREAD_EXIT: exit_usermode returns on SAVED_RSP, into the wrapper
\* and its exit handler, which ends the task there (with the threads of a leader)
\* and yields, all with interrupts off.
ExitTask(t) ==
  /\ stage[onCpu] = "kernel" /\ Runnable(t) /\ t # onCpu
  /\ ~(onCpu = MembersOf /\ t \in Members)
  /\ onCpu' = t
  /\ exitSaved' = [exitSaved EXCEPT ![onCpu] = savedRsp]
  /\ savedRsp' = Restored(t)
  /\ rsp0' = StackAfterSwitch(t)
  /\ stage' = [u \in EntryTasks |->
                 IF u = onCpu \/ (onCpu = MembersOf /\ u \in Members /\ Runnable(u)) THEN "over"
                 ELSE IF u = t THEN Start(t) ELSE stage[u]]
  /\ UNCHANGED <<entryArgs, argsOf>>

\* abort_current_user_task_from_exception: ends this task alone and switches without
\* a backup of SAVED_RSP.
AbortTask(t) ==
  /\ stage[onCpu] = "user" /\ EntersOnOwnStack /\ Runnable(t) /\ t # onCpu
  /\ onCpu' = t
  /\ savedRsp' = Restored(t)
  /\ rsp0' = StackAfterSwitch(t)
  /\ stage' = [stage EXCEPT ![onCpu] = "over", ![t] = Start(t)]
  /\ UNCHANGED <<exitSaved, entryArgs, argsOf>>

EntryStep ==
  \/ EnterSyscall \/ LeaveSyscall
  \/ SetRsp0 \/ SetEntryArgs \/ SaveRsp \/ Iretq
  \/ \E t \in EntryTasks : Preempt(t) \/ YieldInCall(t) \/ ExitTask(t) \/ AbortTask(t)
  \/ \E m \in Members : CreateThread(m)

EntrySpec == EntryInit /\ [][EntryStep]_entryVars

-----------------------------------------------------------------------------
Inside == {"iret", "user", "kernel", "rested"}

\* exit_usermode always finds the stack of the task that exits: SAVED_RSP is the
\* current task's from jump_to_usermode on, whatever other tasks entered ring 3,
\* exited or were aborted while this one was switched out.
ExitsHome ==
  /\ stage[onCpu] \in Inside => savedRsp = onCpu
  /\ \A t \in EntryTasks \ {onCpu} : stage[t] \in Inside => exitSaved[t] = t

\* Each task in ring 3 would enter the kernel on its own kernel stack.
OwnStack == EntersOnOwnStack
=============================================================================
