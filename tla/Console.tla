------------------------------ MODULE Console ------------------------------
(***************************************************************************)
(* The console's input: the buffer the keyboard interrupt fills, the task  *)
(* that has grabbed the keyboard and the tasks that read, processes and    *)
(* their threads.  sys_read runs with interrupts off until its first       *)
(* yield_now; afterwards the timer may switch tasks between its check of   *)
(* the focus and the read it allows.                                       *)
(***************************************************************************)
EXTENDS Naturals, SequencesExt

CONSTANTS Readers,   \* tasks that read the console
          LeaderOf,  \* process_leader_id of a thread; a process is its own
          KeyBuffer, \* INPUT_BUFFER_SIZE
          MaxTyped,  \* bound: keys typed
          MaxGrabs,  \* bound: grabs of the keyboard
          NoFocus

ASSUME ConsoleAssumption ==
  /\ KeyBuffer \in Nat \ {0} /\ MaxTyped \in Nat /\ MaxGrabs \in Nat
  /\ LeaderOf \in [Readers -> Readers] /\ \A t \in Readers : LeaderOf[LeaderOf[t]] = LeaderOf[t]

VARIABLES keys,      \* INPUT_BUFFER: the keys, numbered as typed
          typed,     \* number of keys typed
          focus,     \* KEYBOARD_FOCUS_TASK
          reading,   \* each reader: "no", "loop", "first", "rest", "more" or "ended"
          received,  \* what each reader was given
          stolen,    \* keys a reader took while another had the focus, since the grab
          grabs

consoleVars == <<keys, typed, focus, reading, received, stolen, grabs>>

ConsoleInit ==
  /\ keys = <<>> /\ typed = 0 /\ focus = NoFocus /\ grabs = 0
  /\ reading = [t \in Readers |-> "no"]
  /\ received = [t \in Readers |-> <<>>]
  /\ stolen = [t \in Readers |-> 0]

\* push_input_char: a full buffer loses its oldest key.
KeyTyped ==
  /\ typed < MaxTyped
  /\ typed' = typed + 1
  /\ keys' = Append(IF Len(keys) >= KeyBuffer THEN Tail(keys) ELSE keys, typed')
  /\ UNCHANGED <<focus, reading, received, stolen, grabs>>

MayRead(t) == focus \in {NoFocus, t}

\* Give t the first n keys of the buffer.
Deliver(t, n) ==
  /\ keys' = SubSeq(keys, n + 1, Len(keys))
  /\ received' = [received EXCEPT ![t] = @ \o SubSeq(keys, 1, n)]
  /\ stolen' = [stolen EXCEPT ![t] = IF MayRead(t) THEN @ ELSE @ + n]
  /\ UNCHANGED <<typed, focus, grabs>>

\* sys_key_read, and a sys_read that finds a key at once: interrupts stay off.
ReadAtOnce(t, limit) ==
  /\ reading[t] = "no" /\ MayRead(t) /\ keys # <<>>
  /\ Deliver(t, IF limit < Len(keys) THEN limit ELSE Len(keys))
  /\ UNCHANGED reading

\* A sys_read that finds none, or not the focus, yields.
ReadBlocks(t) ==
  /\ reading[t] = "no" /\ (~MayRead(t) \/ keys = <<>>)
  /\ reading' = [reading EXCEPT ![t] = "loop"]
  /\ UNCHANGED <<keys, typed, focus, received, stolen, grabs>>

\* The loop's check of the focus, interrupts on.
CheckFocus(t) ==
  /\ reading[t] = "loop" /\ MayRead(t)
  /\ reading' = [reading EXCEPT ![t] = "first"]
  /\ UNCHANGED <<keys, typed, focus, received, stolen, grabs>>

\* The read after it: one key, or back to the loop.
TakeFirst(t) ==
  /\ reading[t] = "first"
  /\ \/ keys = <<>> /\ reading' = [reading EXCEPT ![t] = "loop"]
        /\ UNCHANGED <<keys, typed, focus, received, stolen, grabs>>
     \/ keys # <<>> /\ reading' = [reading EXCEPT ![t] = "rest"] /\ Deliver(t, 1)

\* read_input_nonblocking_for_task for the rest of the caller's buffer: the check of
\* the focus, unless the buffer is full ...
CheckRest(t) ==
  /\ reading[t] = "rest"
  /\ \/ reading' = [reading EXCEPT ![t] = "no"]
     \/ MayRead(t) /\ reading' = [reading EXCEPT ![t] = "more"]
  /\ UNCHANGED <<keys, typed, focus, received, stolen, grabs>>

\* ... and the read: one more key, or the call returns.
TakeRest(t) ==
  /\ reading[t] = "more"
  /\ \/ keys = <<>> /\ reading' = [reading EXCEPT ![t] = "no"]
        /\ UNCHANGED <<keys, typed, focus, received, stolen, grabs>>
     \/ keys # <<>> /\ reading' = [reading EXCEPT ![t] = "rest"] /\ Deliver(t, 1)

GrabKeyboard(t) ==
  /\ reading[t] = "no" /\ grabs < MaxGrabs
  /\ focus' = t /\ grabs' = grabs + 1
  /\ stolen' = [u \in Readers |-> 0]
  /\ UNCHANGED <<keys, typed, reading, received>>

ReleasedBy(t) == IF focus = t THEN NoFocus ELSE focus

ReleaseKeyboard(t) ==
  /\ reading[t] = "no" /\ focus = t
  /\ focus' = ReleasedBy(t)
  /\ UNCHANGED <<keys, typed, reading, received, stolen, grabs>>

\* The tasks that end with t: on the exit of a process its threads too.
EndingWith(t, exits) == IF exits /\ LeaderOf[t] = t THEN {u \in Readers : LeaderOf[u] = t} ELSE {t}

\* The exit handlers, kill_task and the end by an exception release the keyboard for
\* the task itself; kill_all_threads_of_leader does not for the threads it ends.
ReaderEnds(t, exits) ==
  /\ reading[t] # "ended" /\ (exits => reading[t] = "no")
  /\ reading' = [u \in Readers |-> IF u \in EndingWith(t, exits) THEN "ended" ELSE reading[u]]
  /\ focus' = ReleasedBy(t)
  /\ UNCHANGED <<keys, typed, received, stolen, grabs>>

ConsoleStep ==
  \/ KeyTyped
  \/ \E t \in Readers :
       \/ \E n \in {1, 2} : ReadAtOnce(t, n)
       \/ ReadBlocks(t) \/ CheckFocus(t) \/ TakeFirst(t) \/ CheckRest(t) \/ TakeRest(t)
       \/ GrabKeyboard(t) \/ ReleaseKeyboard(t)
       \/ \E exits \in BOOLEAN : ReaderEnds(t, exits)

-----------------------------------------------------------------------------
\* The keyboard stays with a task that has ended, and keeps the others waiting, only
\* for a thread that ended with its process.
FocusEnds ==
  focus # NoFocus /\ reading[focus] = "ended" =>
    LeaderOf[focus] # focus /\ reading[LeaderOf[focus]] = "ended"

Rising(s) == \A i, j \in 1..Len(s) : i < j => s[i] < s[j]

\* Each key reaches one reader at most, in the order typed, and a reader without the
\* focus gets at most one key after a grab: the one its earlier check allowed.
KeysInOrder ==
  /\ Rising(keys)
  /\ \A t \in Readers : Rising(received[t] \o keys)
  /\ \A t, u \in Readers : t # u => ToSet(received[t]) \cap ToSet(received[u]) = {}
  /\ \A t \in Readers : stolen[t] <= 1

-----------------------------------------------------------------------------
(* What the documentation says.                                            *)

\* The keyboard is released whenever a task ends: docs/diary/2026-02-06.md:87.
FocusAlive == focus # NoFocus => reading[focus] # "ended"

\* While a task has the focus no other reads a key: console.rs:41.
OnlyFocusReads == \A t \in Readers : stolen[t] = 0
=============================================================================
