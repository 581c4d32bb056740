------------------------------- MODULE Futex -------------------------------
(***************************************************************************)
(* FUTEX_TABLE and the tasks that sleep in it.  sys_futex runs with        *)
(* interrupts off, so a wait up to its yield_now and a whole wake are one  *)
(* step each; a task that has been woken clears its entry when it runs     *)
(* again.  A key is (CR3, address); the tasks of a space share its word.   *)
(***************************************************************************)
EXTENDS Naturals, FiniteSets, SequencesExt, Lists

CONSTANTS Sleepers,  \* tasks that call sys_futex
          SpaceOf,   \* the CR3 of each
          FutexCalls \* bound: waits and stores in a behaviour

ASSUME FutexAssumption == IsFiniteSet(Sleepers) /\ FutexCalls \in Nat

Spaces == {SpaceOf[t] : t \in Sleepers}

VARIABLES word,     \* the AtomicU32 of each space
          waiting,  \* FUTEX_TABLE: the waiters of each key, oldest first
          nap,      \* each task: "awake", "asleep", "woken" or "gone"
          timed,    \* whether a sleeper has a timeout
          futexLeft

futexVars == <<word, waiting, nap, timed, futexLeft>>

FutexInit ==
  /\ word = [s \in Spaces |-> 0]
  /\ waiting = [s \in Spaces |-> <<>>]
  /\ nap = [t \in Sleepers |-> "awake"]
  /\ timed = [t \in Sleepers |-> FALSE]
  /\ futexLeft = FutexCalls

Charge == futexLeft > 0 /\ futexLeft' = futexLeft - 1

\* An atomic store or compare-and-swap of the word by one of its tasks.
StoreWord(t, v) ==
  /\ Charge /\ nap[t] = "awake" /\ word[SpaceOf[t]] # v
  /\ word' = [word EXCEPT ![SpaceOf[t]] = v]
  /\ UNCHANGED <<waiting, nap, timed>>

\* futex_wait up to yield_now; a word that is not the expected one returns at once.
futex_wait(t, expected, timeout) ==
  /\ Charge /\ nap[t] = "awake"
  /\ word[SpaceOf[t]] = expected
  /\ waiting' = [waiting EXCEPT ![SpaceOf[t]] = Append(@, t)]
  /\ nap' = [nap EXCEPT ![t] = "asleep"]
  /\ timed' = [timed EXCEPT ![t] = timeout]
  /\ UNCHANGED word

\* The timer of preempt makes a sleeper ready; its entry stays.
TimeoutWakes(t) ==
  /\ nap[t] = "asleep" /\ timed[t]
  /\ nap' = [nap EXCEPT ![t] = "woken"]
  /\ UNCHANGED <<word, waiting, timed, futexLeft>>

\* What a waiter leaves of its key's list when it runs again: everybody else.
Cleaned(ws, t) == Picked(ws, {i \in DOMAIN ws : ws[i] # t})

\* The end of futex_wait.
ReturnFromWait(t) ==
  /\ nap[t] = "woken"
  /\ waiting' = [waiting EXCEPT ![SpaceOf[t]] = Cleaned(@, t)]
  /\ nap' = [nap EXCEPT ![t] = "awake"]
  /\ timed' = [timed EXCEPT ![t] = FALSE]
  /\ UNCHANGED <<word, futexLeft>>

\* futex_wake: drain the oldest entries and make those that sleep ready (wake_task).
futex_wake(t, count) ==
  LET ws == waiting[SpaceOf[t]]
      n == IF count < Len(ws) THEN count ELSE Len(ws)
      drained == ToSet(SubSeq(ws, 1, n))
  IN /\ nap[t] = "awake" /\ n > 0
     /\ waiting' = [waiting EXCEPT ![SpaceOf[t]] = SubSeq(ws, n + 1, Len(ws))]
     /\ nap' = [u \in Sleepers |-> IF u \in drained /\ nap[u] = "asleep" THEN "woken" ELSE nap[u]]
     /\ UNCHANGED <<word, timed, futexLeft>>

\* A task ends, killed in its sleep or by itself: nothing touches FUTEX_TABLE.
TaskEnds(t) ==
  /\ nap[t] # "gone"
  /\ nap' = [nap EXCEPT ![t] = "gone"]
  /\ UNCHANGED <<word, waiting, timed, futexLeft>>

FutexStep ==
  \E t \in Sleepers :
    \/ \E v \in {0, 1} : StoreWord(t, v) \/ \E b \in BOOLEAN : futex_wait(t, v, b)
    \/ \E n \in {1, 2, Cardinality(Sleepers)} : futex_wake(t, n)
    \/ TimeoutWakes(t) \/ ReturnFromWait(t) \/ TaskEnds(t)

-----------------------------------------------------------------------------
\* Where t stands in FUTEX_TABLE: key and position.
Listed(t) ==
  UNION {{s} \X {i \in DOMAIN waiting[s] : waiting[s][i] = t} : s \in Spaces}

\* A sleeper can always be woken: it stands once in the list of its own key and in no
\* other, whatever waits, wakes, timeouts and ends of tasks came before; a live task
\* that is listed is asleep there or was woken by the timer and has yet to run.
SleeperListed ==
  \A t \in Sleepers :
    /\ nap[t] = "asleep" => \E p \in Listed(t) : Listed(t) = {p}
    /\ nap[t] = "awake" => Listed(t) = {}
    /\ \A p \in Listed(t) : p[1] = SpaceOf[t]
=============================================================================
