------------------------------ MODULE Userland ------------------------------
(***************************************************************************)
(* Where user programs meet the kernel, and the programs that serve the    *)
(* others: ring 3 entry, futexes, the console, init, the GUI and a client  *)
(* of it.  Each keeps its own state, so a behaviour follows one of them.   *)
(***************************************************************************)
EXTENDS Entry, Futex, Console, Services, Desk, GuiClient

VARIABLE topic

userVars == <<entryVars, futexVars, consoleVars, svcVars, deskVars, clientVars, topic>>

UserInit ==
  /\ EntryInit /\ FutexInit /\ ConsoleInit /\ ServicesInit /\ DeskInit /\ ClientInit
  /\ topic \in {"entry", "futex", "console", "init", "desk", "client"}

UserNext ==
  /\ UNCHANGED topic
  /\ \/ topic = "entry" /\ EntryStep
        /\ UNCHANGED <<futexVars, consoleVars, svcVars, deskVars, clientVars>>
     \/ topic = "futex" /\ FutexStep
        /\ UNCHANGED <<entryVars, consoleVars, svcVars, deskVars, clientVars>>
     \/ topic = "console" /\ ConsoleStep
        /\ UNCHANGED <<entryVars, futexVars, svcVars, deskVars, clientVars>>
     \/ topic = "init" /\ ServicesStep
        /\ UNCHANGED <<entryVars, futexVars, consoleVars, deskVars, clientVars>>
     \/ topic = "desk" /\ DeskStep
        /\ UNCHANGED <<entryVars, futexVars, consoleVars, svcVars, clientVars>>
     \/ topic = "client" /\ ClientStep
        /\ UNCHANGED <<entryVars, futexVars, consoleVars, svcVars, deskVars>>

-----------------------------------------------------------------------------
\* What the kernel owes its tasks, whatever the order of switches, wake-ups, timeouts
\* and ends: a task leaves ring 3 on the stack it entered from, a sleeper in
\* FUTEX_TABLE can be woken, and init runs each service once, under the id it knows.
TasksSound == ExitsHome /\ SleeperListed /\ OneInstance

\* What the desktop owes its user: the keyboard is left with no task that has ended but
\* a thread that went with its process, keys arrive once and in order, windows stay
\* stacked and in reach, and what was drawn is shown, still marked dirty, or one of the
\* four cases DirtyCovers names.
DeskSound == FocusEnds /\ KeysInOrder /\ WindowsStacked /\ DirtyCovers
=============================================================================
