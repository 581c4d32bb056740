--------------------------- MODULE MachineProofs ----------------------------
(***************************************************************************)
(* Proofs about Machine.  The user end: ring 3 entry, futexes, init, the   *)
(* console, the GUI service and its client, for any number of tasks,       *)
(* services, keys, windows and calls.  The device end: what the disks, the *)
(* network cards and the 9P client report, the receive rings, the server's *)
(* fids and the buffers of the sound card, for queues and rings of any     *)
(* size, paths, files and tones of any length and any number of calls.     *)
(***************************************************************************)
EXTENDS Machine, FiniteSetTheorems, SequenceTheorems, TLAPS

-----------------------------------------------------------------------------
(* Sequences.                                                              *)

\* A set of natural numbers that is not empty has a least element.
LEMMA LeastOf ==
  ASSUME NEW S \in SUBSET Nat, S # {}
  PROVE  \E x \in S : \A y \in S : x <= y
<1> DEFINE R == {ss \in Nat \X Nat : ss[1] < ss[2]}
<1>1. IsWellFoundedOn(R, Nat)
  BY NatLessThanWellFounded DEF OpToRel
<1> HIDE DEF R
<1>2. PICK x \in S : \A y \in S : ~(<<y, x>> \in R)
  BY <1>1, WFMin
<1>3. ASSUME NEW y \in S PROVE x <= y
  <2>1. <<y, x>> \in R <=> y < x
    BY DEF R
  <2> QED  BY <1>2, <2>1
<1> QED  BY <1>3

\* A set of positions that is not empty has a last one.
LEMMA GreatestOf ==
  ASSUME NEW n \in Nat, NEW S \in SUBSET (1..n), S # {}
  PROVE  \E x \in S : \A y \in S : y <= x
<1> DEFINE T == {n - x : x \in S}
<1>1. T \in SUBSET Nat /\ T # {}
  <2>1. \A x \in S : x \in 1..n /\ n - x \in Nat
    OBVIOUS
  <2> QED  BY <2>1
<1>2. PICK m \in T : \A y \in T : m <= y
  <2> HIDE DEF T
  <2> QED  BY <1>1, LeastOf
<1>3. PICK x \in S : m = n - x
  OBVIOUS
<1>4. ASSUME NEW y \in S PROVE y <= x
  <2>1. n - y \in T
    OBVIOUS
  <2>2. n - x <= n - y
    BY <1>2, <1>3, <2>1
  <2>3. x \in Int /\ y \in Int
    OBVIOUS
  <2> QED  BY <2>2, <2>3
<1> QED  BY <1>4

\* One round of Vec::retain: element i, after the elements before it gave v.
Round(s, K, v, i) ==
  IF i = 0 THEN << >> ELSE IF i \in K THEN Append(v, s[i]) ELSE v

\* What is kept of each beginning of s: the recursive function of Picked.
UpTo(s, K) == CHOOSE u : u = [i \in 0..Len(s) |-> Round(s, K, u[i - 1], i)]

\* The recursion has a solution.
LEMMA UpToExists ==
  ASSUME NEW s, Len(s) \in Nat, NEW K
  PROVE  UpTo(s, K) = [i \in 0..Len(s) |-> Round(s, K, UpTo(s, K)[i - 1], i)]
<1> DEFINE Solved(n) == \E g : g = [i \in 0..n |-> Round(s, K, g[i - 1], i)]
           Bad == {n \in Nat : ~Solved(n)}
<1>1. Solved(0)
  <2> DEFINE g == [i \in 0..0 |-> << >>]
  <2>1. \A i \in 0..0 : Round(s, K, g[i - 1], i) = << >>
    BY DEF Round
  <2>2. g = [i \in 0..0 |-> Round(s, K, g[i - 1], i)]
    BY <2>1
  <2> QED  BY <2>2
<1>2. ASSUME NEW n \in Nat, n # 0, Solved(n - 1) PROVE Solved(n)
  <2>1. PICK g : g = [i \in 0..(n - 1) |-> Round(s, K, g[i - 1], i)]
    BY <1>2
  <2> DEFINE h == [i \in 0..n |-> IF i = n THEN Round(s, K, g[n - 1], n) ELSE g[i]]
  <2>2. ASSUME NEW i \in 0..n PROVE h[i] = Round(s, K, h[i - 1], i)
    <3>1. CASE i = 0
      <4>1. h[i] = g[i] /\ i \in 0..(n - 1)
        BY <1>2, <3>1
      <4>2. g[i] = Round(s, K, g[i - 1], i)
        BY <2>1, <4>1
      <4> QED  BY <3>1, <4>1, <4>2 DEF Round
    <3>2. CASE i # 0 /\ i # n
      <4>1. i - 1 \in 0..n /\ i - 1 # n /\ i \in 0..(n - 1)
        BY <3>2
      <4>2. h[i] = g[i] /\ h[i - 1] = g[i - 1]
        BY <3>2, <4>1
      <4>3. g[i] = Round(s, K, g[i - 1], i)
        BY <2>1, <4>1
      <4> QED  BY <4>2, <4>3
    <3>3. CASE i = n
      <4>1. n - 1 \in 0..n /\ n - 1 # n
        BY <1>2
      <4> QED  BY <3>3, <4>1
    <3> QED  BY <3>1, <3>2, <3>3
  <2>3. h = [i \in 0..n |-> Round(s, K, h[i - 1], i)]
    <3>1. h = [i \in 0..n |-> h[i]]
      OBVIOUS
    <3> HIDE DEF h
    <3> QED  BY <2>2, <3>1
  <2> QED  BY <2>3
<1> HIDE DEF Solved
<1>3. Bad = {}
  <2> SUFFICES ASSUME Bad # {} PROVE FALSE
    OBVIOUS
  <2>1. PICK n \in Bad : \A m \in Bad : n <= m
    BY LeastOf
  <2>2. n # 0 /\ n \in Nat /\ ~Solved(n)
    BY <1>1
  <2>3. n - 1 \in Nat /\ n - 1 \notin Bad
    BY <2>1, <2>2
  <2> QED  BY <1>2, <2>2, <2>3
<1>4. Solved(Len(s))
  BY <1>3
<1> QED  BY <1>4, Zenon DEF Solved, UpTo

\* f tells where the elements of r stood in s: at the positions of D, in order.
Traced(s, r, D, f) ==
  /\ f \in [1..Len(r) -> D]
  /\ \A i, j \in 1..Len(r) : i < j => f[i] < f[j]
  /\ \A k \in D : \E i \in 1..Len(r) : f[i] = k
  /\ \A i \in 1..Len(r) : r[i] = s[f[i]]

\* Vec::retain: the elements at the positions of K and no others, in their order.
LEMMA PickedIs ==
  ASSUME NEW S, NEW s \in Seq(S), NEW K \in SUBSET (1..Len(s))
  PROVE  Picked(s, K) \in Seq(S) /\ \E f : Traced(s, Picked(s, K), K, f)
<1> DEFINE u == UpTo(s, K)
           Right(n) == u[n] \in Seq(S) /\ \E f : Traced(s, u[n], K \cap (1..n), f)
           Bad == {n \in 0..Len(s) : ~Right(n)}
<1>0. Len(s) \in Nat /\ \A i \in 1..Len(s) : s[i] \in S
  OBVIOUS
<1>1. Picked(s, K) = u[Len(s)]
  BY DEF Picked, UpTo, Round
<1>2. \A i \in 0..Len(s) : u[i] = Round(s, K, u[i - 1], i)
  <2>1. u = [i \in 0..Len(s) |-> Round(s, K, u[i - 1], i)]
    BY <1>0, UpToExists
  <2> HIDE DEF u
  <2> QED  BY <2>1
<1> HIDE DEF u
<1>3. Right(0)
  <2>1. u[0] = << >>
    BY <1>0, <1>2 DEF Round
  <2>2. Traced(s, << >>, K \cap (1..0), << >>)
    BY DEF Traced
  <2> QED  BY <2>1, <2>2
<1>4. ASSUME NEW n \in 1..Len(s), Right(n - 1) PROVE Right(n)
  <2> DEFINE r == u[n - 1]
             D == K \cap (1..(n - 1))
  <2>1. r \in Seq(S)
    BY <1>4
  <2>2. PICK f : Traced(s, r, D, f)
    BY <1>4
  <2>3. u[n] = IF n \in K THEN Append(r, s[n]) ELSE r
    BY <1>0, <1>2 DEF Round
  <2>4. CASE n \notin K
    <3>1. K \cap (1..n) = D
      BY <1>0, <2>4
    <3> QED  BY <2>1, <2>2, <2>3, <2>4, <3>1
  <2>5. CASE n \in K
    <3>1. u[n] = Append(r, s[n])
      BY <2>3, <2>5
    <3> DEFINE q == Append(r, s[n])
               g == [i \in 1..Len(q) |-> IF i = Len(q) THEN n ELSE f[i]]
    <3>2. /\ q \in Seq(S) /\ Len(q) = Len(r) + 1 /\ q[Len(q)] = s[n]
          /\ \A i \in 1..Len(r) : q[i] = r[i]
      BY <1>0, <2>1
    <3>3. Len(r) \in Nat
      BY <2>1
    <3> HIDE DEF q, r
    <3>4. \A i \in 1..Len(q) : g[i] = IF i = Len(q) THEN n ELSE f[i]
      OBVIOUS
    <3>5. g \in [1..Len(q) -> K \cap (1..n)]
      <4>1. ASSUME NEW i \in 1..Len(q) PROVE (IF i = Len(q) THEN n ELSE f[i]) \in K \cap (1..n)
        <5>1. CASE i = Len(q)
          BY <1>0, <2>5, <5>1
        <5>2. CASE i # Len(q)
          <6>1. i \in 1..Len(r)
            BY <3>2, <3>3, <5>2
          <6>2. f[i] \in D
            BY <2>2, <6>1 DEF Traced
          <6> QED  BY <5>2, <6>2
        <5> QED  BY <5>1, <5>2
      <4> QED  BY <4>1
    <3> HIDE DEF g
    <3>6. \A i \in 1..Len(q) : i # Len(q) => i \in 1..Len(r) /\ g[i] = f[i] /\ f[i] \in D
      BY <2>2, <3>2, <3>3, <3>4 DEF Traced
    <3>7. g[Len(q)] = n
      BY <3>2, <3>3, <3>4
    <3>8. ASSUME NEW i \in 1..Len(q), NEW j \in 1..Len(q), i < j PROVE g[i] < g[j]
      <4>1. i # Len(q) /\ i \in 1..Len(r) /\ f[i] \in D /\ g[i] = f[i]
        BY <3>2, <3>3, <3>6, <3>8
      <4>2. CASE j = Len(q)
        BY <3>7, <4>1, <4>2
      <4>3. CASE j # Len(q)
        BY <2>2, <3>6, <3>8, <4>1, <4>3 DEF Traced
      <4> QED  BY <4>2, <4>3
    <3>9. ASSUME NEW k \in K \cap (1..n) PROVE \E i \in 1..Len(q) : g[i] = k
      <4>1. CASE k = n
        BY <3>2, <3>3, <3>7, <4>1
      <4>2. CASE k # n
        <5>1. k \in D
          BY <4>2
        <5>2. PICK i \in 1..Len(r) : f[i] = k
          BY <2>2, <5>1 DEF Traced
        <5>3. i \in 1..Len(q) /\ i # Len(q)
          BY <3>2, <3>3
        <5> QED  BY <3>6, <5>2, <5>3
      <4> QED  BY <4>1, <4>2
    <3>10. ASSUME NEW i \in 1..Len(q) PROVE q[i] = s[g[i]]
      BY <2>2, <3>2, <3>6, <3>7 DEF Traced
    <3>11. Traced(s, q, K \cap (1..n), g)
      BY <3>5, <3>8, <3>9, <3>10 DEF Traced
    <3> QED  BY <3>1, <3>2, <3>11 DEF q, r
  <2> QED  BY <2>4, <2>5
<1> HIDE DEF Right
<1>5. Bad = {}
  <2> SUFFICES ASSUME Bad # {} PROVE FALSE
    OBVIOUS
  <2>0. Bad \in SUBSET Nat
    BY <1>0
  <2>1. PICK n \in Bad : \A m \in Bad : n <= m
    <3> HIDE DEF Bad
    <3> QED  BY <2>0, LeastOf
  <2>2. n \in 1..Len(s) /\ ~Right(n)
    BY <1>0, <1>3
  <2>3. n - 1 \in 0..Len(s) /\ ~(n <= n - 1)
    BY <1>0, <2>2
  <2>4. Right(n - 1)
    BY <2>1, <2>3
  <2> QED  BY <1>4, <2>2, <2>4
<1>6. Right(Len(s)) /\ K \cap (1..Len(s)) = K
  <2>1. Len(s) \in 0..Len(s)
    BY <1>0
  <2>2. Right(Len(s))
    BY <1>5, <2>1
  <2> QED  BY <2>2
<1> QED  BY <1>1, <1>6 DEF Right

-----------------------------------------------------------------------------
(* Ring 3 entry.                                                           *)

EntryStages == {"unborn", "new", "rsp0", "args", "jump", "iret", "user", "kernel", "rested",
           "over", "idle"}

EntryInv ==
  /\ onCpu \in EntryTasks /\ stage \in [EntryTasks -> EntryStages]
  /\ exitSaved \in [EntryTasks -> EntryTasks \cup {NoStack}]
  /\ savedRsp \in EntryTasks \cup {NoStack}
  /\ ExitsHome

\* No task has been in ring 3.
LEMMA EntryInitInv == EntryInit => EntryInv
BY DEF EntryInit, EntryInv, EntryTasks, EntryStages, ExitsHome, Inside

\* A switch from onCpu, which goes on as its backup says, to t.  stage' is what a
\* switch, an exit or an abort makes of the stages.
LEMMA SwitchKeeps ==
  ASSUME EntryInv, NEW t \in EntryTasks, t # onCpu, Runnable(t),
         onCpu' = t, savedRsp' = Restored(t), stage' \in [EntryTasks -> EntryStages],
         stage'[t] = Start(t),
         \/ /\ exitSaved' = [exitSaved EXCEPT ![onCpu] = savedRsp]
            /\ stage'[onCpu] \in Inside => stage[onCpu] \in Inside
         \/ UNCHANGED exitSaved /\ stage'[onCpu] \notin Inside,
         \A u \in EntryTasks \ {t, onCpu} : stage'[u] \in Inside => stage[u] \in Inside
  PROVE  EntryInv'
<1>1. /\ onCpu \in EntryTasks /\ stage \in [EntryTasks -> EntryStages]
      /\ exitSaved \in [EntryTasks -> EntryTasks \cup {NoStack}]
      /\ savedRsp \in EntryTasks \cup {NoStack}
      /\ stage[onCpu] \in Inside => savedRsp = onCpu
      /\ \A u \in EntryTasks \ {onCpu} : stage[u] \in Inside => exitSaved[u] = u
  BY DEF EntryInv, ExitsHome
<1>2. exitSaved' \in [EntryTasks -> EntryTasks \cup {NoStack}]
  BY <1>1
<1>3. savedRsp' \in EntryTasks \cup {NoStack}
  BY <1>1 DEF Restored
<1>4. stage'[t] \in Inside => savedRsp' = t
  BY <1>1 DEF Start, Restored, Inside
<1>5. ASSUME NEW u \in EntryTasks, u # t, stage'[u] \in Inside PROVE exitSaved'[u] = u
  BY <1>1, <1>5
<1> QED  BY <1>2, <1>3, <1>4, <1>5 DEF EntryInv, ExitsHome, EntryTasks, EntryStages, Inside

\* A step in which the current task stays on the CPU.
LEMMA StayKeeps ==
  ASSUME EntryInv, UNCHANGED <<onCpu, exitSaved>>, stage' \in [EntryTasks -> EntryStages],
         savedRsp' \in {savedRsp, onCpu},
         stage'[onCpu] \in Inside => stage[onCpu] \in Inside \/ savedRsp' = onCpu,
         \A u \in EntryTasks \ {onCpu} : stage'[u] \in Inside => stage[u] \in Inside
  PROVE  EntryInv'
BY DEF EntryInv, ExitsHome, EntryTasks, EntryStages, Inside

\* Every step of Entry.
LEMMA EntryKeeps == EntryInv /\ (EntryStep \/ UNCHANGED entryVars) => EntryInv'
<1> SUFFICES ASSUME EntryInv, EntryStep \/ UNCHANGED entryVars PROVE EntryInv'
  OBVIOUS
<1>0. onCpu \in EntryTasks /\ stage \in [EntryTasks -> EntryStages]
  BY DEF EntryInv
<1>1. CASE UNCHANGED entryVars
  BY <1>1 DEF EntryInv, ExitsHome, entryVars, EntryTasks, EntryStages, Inside
<1>2. CASE EnterSyscall \/ LeaveSyscall \/ SetRsp0 \/ SetEntryArgs \/ SaveRsp \/ Iretq
  <2>1. /\ UNCHANGED <<onCpu, exitSaved>> /\ savedRsp' \in {savedRsp, onCpu}
        /\ \E x \in EntryStages : stage' = [stage EXCEPT ![onCpu] = x]
        /\ stage'[onCpu] \in Inside => stage[onCpu] \in Inside \/ savedRsp' = onCpu
    BY <1>0, <1>2 DEF EnterSyscall, LeaveSyscall, SetRsp0, SetEntryArgs, SaveRsp, Iretq,
                      EntryStages, Inside
  <2>2. /\ stage' \in [EntryTasks -> EntryStages]
        /\ \A u \in EntryTasks \ {onCpu} : stage'[u] = stage[u]
    BY <1>0, <2>1
  <2> QED  BY <2>1, <2>2, StayKeeps
<1>3. ASSUME NEW t \in EntryTasks, Preempt(t) \/ YieldInCall(t) PROVE EntryInv'
  <2>1. PICK then \in EntryStages :
          SwitchTo(t, then) /\ (then \in Inside => stage[onCpu] \in Inside)
    BY <1>0, <1>3 DEF Preempt, YieldInCall, EntryStages, Inside
  <2>2. Start(t) \in EntryStages
    BY <1>0 DEF Start, EntryStages
  <2>3. /\ stage' \in [EntryTasks -> EntryStages] /\ stage'[t] = Start(t) /\ stage'[onCpu] = then
        /\ \A u \in EntryTasks \ {t, onCpu} : stage'[u] = stage[u]
    BY <1>0, <2>1, <2>2 DEF SwitchTo
  <2> QED  BY <2>1, <2>3, SwitchKeeps DEF SwitchTo
<1>4. ASSUME NEW t \in EntryTasks, AbortTask(t) PROVE EntryInv'
  <2>1. Start(t) \in EntryStages /\ "over" \in EntryStages /\ "over" \notin Inside
    BY <1>0 DEF Start, EntryStages, Inside
  <2>2. /\ stage' \in [EntryTasks -> EntryStages] /\ stage'[t] = Start(t) /\ stage'[onCpu] = "over"
        /\ \A u \in EntryTasks \ {t, onCpu} : stage'[u] = stage[u]
    BY <1>0, <1>4, <2>1 DEF AbortTask
  <2> QED  BY <1>4, <2>1, <2>2, SwitchKeeps DEF AbortTask
<1>5. ASSUME NEW t \in EntryTasks, ExitTask(t) PROVE EntryInv'
  <2>1. Start(t) \in EntryStages /\ "over" \in EntryStages /\ "over" \notin Inside
    BY <1>0 DEF Start, EntryStages, Inside
  <2>2. /\ stage' \in [EntryTasks -> EntryStages] /\ stage'[t] = Start(t) /\ stage'[onCpu] = "over"
        /\ \A u \in EntryTasks \ {t, onCpu} : stage'[u] \in {"over", stage[u]}
    BY <1>0, <1>5, <2>1 DEF ExitTask
  <2> QED  BY <1>5, <2>1, <2>2, SwitchKeeps DEF ExitTask
<1>6. ASSUME NEW m \in Members, CreateThread(m) PROVE EntryInv'
  <2>1. m \in EntryTasks /\ m # onCpu /\ "new" \in EntryStages /\ "new" \notin Inside
    BY <1>6 DEF EntryTasks, CreateThread, EntryStages, Inside
  <2>2. /\ stage' \in [EntryTasks -> EntryStages] /\ stage'[onCpu] = stage[onCpu]
        /\ \A u \in EntryTasks : stage'[u] \in {"new", stage[u]}
    BY <1>0, <1>6, <2>1 DEF CreateThread
  <2> QED  BY <1>6, <2>1, <2>2, StayKeeps DEF CreateThread
<1> QED  BY <1>1, <1>2, <1>3, <1>4, <1>5, <1>6 DEF EntryStep

-----------------------------------------------------------------------------
(* Futexes.                                                                *)

Naps == {"awake", "asleep", "woken", "gone"}

Stands(w, t) == \E i \in 1..Len(w) : w[i] = t

\* A list of waiters of key s: tasks of that key, none of them twice, none awake.
Queue(s, w, n) ==
  /\ w \in Seq(Sleepers)
  /\ \A i \in 1..Len(w) : SpaceOf[w[i]] = s /\ n[w[i]] # "awake"
  /\ \A i, j \in 1..Len(w) : w[i] = w[j] => i = j

FutexInv ==
  /\ nap \in [Sleepers -> Naps]
  /\ DOMAIN waiting = Spaces /\ waiting = [s \in Spaces |-> waiting[s]]
  /\ \A s \in Spaces : Queue(s, waiting[s], nap)
  /\ \A t \in Sleepers : nap[t] = "asleep" => Stands(waiting[SpaceOf[t]], t)

\* Nobody sleeps.
LEMMA FutexInitInv == FutexInit => FutexInv
BY DEF FutexInit, FutexInv, Naps, Queue

\* In these terms a sleeper stands once in FUTEX_TABLE, in the list of its own key.
LEMMA FutexInvIs == FutexInv => SleeperListed
<1> SUFFICES ASSUME FutexInv, NEW t \in Sleepers
             PROVE  /\ nap[t] = "asleep" => \E p \in Listed(t) : Listed(t) = {p}
                    /\ nap[t] = "awake" => Listed(t) = {}
                    /\ \A p \in Listed(t) : p[1] = SpaceOf[t]
  BY DEF SleeperListed
<1>0. \A s \in Spaces : Queue(s, waiting[s], nap)
  BY DEF FutexInv
<1>1. \A s \in Spaces : DOMAIN waiting[s] = 1..Len(waiting[s])
  BY <1>0 DEF Queue
<1>2. ASSUME NEW p \in Listed(t)
      PROVE  \E i \in 1..Len(waiting[SpaceOf[t]]) :
               p = <<SpaceOf[t], i>> /\ waiting[SpaceOf[t]][i] = t /\ nap[t] # "awake"
  <2>1. PICK s \in Spaces : p \in {s} \X {i \in DOMAIN waiting[s] : waiting[s][i] = t}
    BY DEF Listed
  <2>2. PICK i \in 1..Len(waiting[s]) : p = <<s, i>> /\ waiting[s][i] = t
    BY <1>1, <2>1
  <2>3. SpaceOf[t] = s /\ nap[t] # "awake"
    BY <1>0, <2>2 DEF Queue
  <2> QED  BY <2>2, <2>3
<1>3. ASSUME nap[t] = "asleep" PROVE \E p \in Listed(t) : Listed(t) = {p}
  <2>0. SpaceOf[t] \in Spaces
    BY DEF Spaces
  <2>1. PICK i \in 1..Len(waiting[SpaceOf[t]]) : waiting[SpaceOf[t]][i] = t
    BY <1>3 DEF FutexInv, Stands
  <2>2. <<SpaceOf[t], i>> \in Listed(t)
    BY <1>1, <2>0, <2>1 DEF Listed
  <2>3. \A p \in Listed(t) : p = <<SpaceOf[t], i>>
    BY <1>0, <1>2, <2>0, <2>1 DEF Queue
  <2> QED  BY <2>2, <2>3
<1> QED  BY <1>2, <1>3

\* A step that changes one list at most, and the naps of tasks of its key.
LEMMA ListChanged ==
  ASSUME FutexInv, NEW s \in Spaces, NEW w, waiting' = [waiting EXCEPT ![s] = w],
         nap' \in [Sleepers -> Naps], Queue(s, w, nap'),
         \A t \in Sleepers : SpaceOf[t] # s => nap'[t] = nap[t],
         \A t \in Sleepers : SpaceOf[t] = s /\ nap'[t] = "asleep" => Stands(w, t)
  PROVE  FutexInv'
<1>1. /\ DOMAIN waiting' = Spaces /\ waiting' = [x \in Spaces |-> waiting'[x]]
      /\ waiting'[s] = w /\ \A x \in Spaces : x # s => waiting'[x] = waiting[x]
  BY DEF FutexInv
<1>2. ASSUME NEW x \in Spaces PROVE Queue(x, waiting'[x], nap')
  <2>1. CASE x = s
    BY <1>1, <2>1
  <2>2. CASE x # s
    <3>1. waiting'[x] = waiting[x] /\ Queue(x, waiting[x], nap)
      BY <1>1, <2>2 DEF FutexInv
    <3>2. \A i \in 1..Len(waiting[x]) : waiting[x][i] \in Sleepers
      BY <3>1 DEF Queue
    <3> QED  BY <2>2, <3>1, <3>2 DEF Queue
  <2> QED  BY <2>1, <2>2
<1>3. ASSUME NEW t \in Sleepers, nap'[t] = "asleep" PROVE Stands(waiting'[SpaceOf[t]], t)
  <2>0. SpaceOf[t] \in Spaces
    BY DEF Spaces
  <2> QED  BY <1>1, <1>3, <2>0 DEF FutexInv
<1> QED  BY <1>1, <1>2, <1>3 DEF FutexInv, Stands, Queue, Spaces

\* futex_wait: the caller goes to the end of its list.
LEMMA WaitKeeps ==
  ASSUME FutexInv, NEW t \in Sleepers, NEW v, NEW b, futex_wait(t, v, b)
  PROVE  FutexInv'
<1> DEFINE s == SpaceOf[t]
           ws == waiting[s]
           w == Append(ws, t)
<1>0. s \in Spaces /\ Queue(s, ws, nap) /\ nap[t] = "awake" /\ nap \in [Sleepers -> Naps]
  BY DEF FutexInv, Spaces, futex_wait
<1>1. waiting' = [waiting EXCEPT ![s] = w] /\ nap' = [nap EXCEPT ![t] = "asleep"]
  BY DEF futex_wait
<1>2. ws \in Seq(Sleepers) /\ Len(ws) \in Nat /\ \A i \in 1..Len(ws) : ws[i] # t
  BY <1>0 DEF Queue
<1>3. /\ w \in Seq(Sleepers) /\ Len(w) = Len(ws) + 1 /\ w[Len(ws) + 1] = t
      /\ \A i \in 1..Len(ws) : w[i] = ws[i] /\ ws[i] \in Sleepers
  BY <1>2
<1>4. nap' \in [Sleepers -> Naps] /\ nap'[t] = "asleep"
      /\ \A u \in Sleepers : u # t => nap'[u] = nap[u]
  BY <1>0, <1>1 DEF Naps
<1> HIDE DEF w, ws
<1>5. ASSUME NEW i \in 1..Len(w) PROVE i = Len(ws) + 1 \/ i \in 1..Len(ws)
  BY <1>2, <1>3
<1>6. Queue(s, w, nap')
  <2>1. ASSUME NEW i \in 1..Len(w) PROVE SpaceOf[w[i]] = s /\ nap'[w[i]] # "awake"
    <3>1. CASE i = Len(ws) + 1
      BY <1>3, <1>4, <3>1
    <3>2. CASE i \in 1..Len(ws)
      <4>1. SpaceOf[ws[i]] = s /\ nap[ws[i]] # "awake"
        BY <1>0, <3>2 DEF Queue
      <4> QED  BY <1>2, <1>3, <1>4, <3>2, <4>1
    <3> QED  BY <1>5, <3>1, <3>2
  <2>2. ASSUME NEW i \in 1..Len(w), NEW j \in 1..Len(w), w[i] = w[j] PROVE i = j
    <3>1. CASE i \in 1..Len(ws) /\ j \in 1..Len(ws)
      BY <1>0, <1>3, <2>2, <3>1 DEF Queue
    <3>2. CASE i = Len(ws) + 1 \/ j = Len(ws) + 1
      BY <1>2, <1>3, <1>5, <2>2, <3>2
    <3> QED  BY <1>5, <3>1, <3>2
  <2> QED  BY <1>3, <2>1, <2>2 DEF Queue
<1>7. ASSUME NEW u \in Sleepers, SpaceOf[u] = s, nap'[u] = "asleep" PROVE Stands(w, u)
  <2>1. CASE u = t
    <3>1. Len(ws) + 1 \in 1..Len(w)
      BY <1>2, <1>3
    <3> QED  BY <1>3, <2>1, <3>1 DEF Stands
  <2>2. CASE u # t
    <3>1. Stands(ws, u)
      BY <1>4, <1>7, <2>2 DEF FutexInv, ws
    <3>2. PICK i \in 1..Len(ws) : ws[i] = u
      BY <3>1 DEF Stands
    <3>3. i \in 1..Len(w) /\ w[i] = u
      BY <1>2, <1>3, <3>2
    <3> QED  BY <3>3 DEF Stands
  <2> QED  BY <2>1, <2>2
<1>8. \A u \in Sleepers : SpaceOf[u] # s => nap'[u] = nap[u]
  BY <1>4
<1> HIDE DEF s
<1> QED  BY <1>0, <1>1, <1>4, <1>6, <1>7, <1>8, ListChanged

\* The end of futex_wait: the caller, and nobody else, is gone from its list.
LEMMA ReturnKeeps ==
  ASSUME FutexInv, NEW t \in Sleepers, ReturnFromWait(t)
  PROVE  FutexInv'
<1> DEFINE s == SpaceOf[t]
           ws == waiting[s]
           K == {i \in DOMAIN ws : ws[i] # t}
           w == Picked(ws, K)
<1>0. s \in Spaces /\ Queue(s, ws, nap) /\ nap \in [Sleepers -> Naps]
  BY DEF FutexInv, Spaces
<1>1. waiting' = [waiting EXCEPT ![s] = w] /\ nap' = [nap EXCEPT ![t] = "awake"]
  BY DEF ReturnFromWait, Cleaned
<1>2. ws \in Seq(Sleepers) /\ DOMAIN ws = 1..Len(ws) /\ \A i \in 1..Len(ws) : ws[i] \in Sleepers
  BY <1>0 DEF Queue
<1>3. w \in Seq(Sleepers) /\ \E f : Traced(ws, w, K, f)
  <2>1. K \in SUBSET (1..Len(ws))
    BY <1>2
  <2> HIDE DEF K
  <2> QED  BY <1>2, <2>1, PickedIs
<1>4. PICK f : Traced(ws, w, K, f)
  BY <1>3
<1>5. \A i \in 1..Len(ws) : i \in K <=> ws[i] # t
  BY <1>2
<1>5a. K \in SUBSET (1..Len(ws))
  BY <1>2
<1>6. nap' \in [Sleepers -> Naps] /\ \A u \in Sleepers : u # t => nap'[u] = nap[u]
  BY <1>0, <1>1 DEF Naps
<1>6a. nap'[t] = "awake"
  BY <1>0, <1>1
<1> HIDE DEF w, ws, K
<1>7. \A i \in 1..Len(w) : f[i] \in 1..Len(ws) /\ w[i] = ws[f[i]] /\ w[i] # t
  BY <1>4, <1>5, <1>5a DEF Traced
<1>8. Queue(s, w, nap')
  <2>1. ASSUME NEW i \in 1..Len(w) PROVE SpaceOf[w[i]] = s /\ nap'[w[i]] # "awake"
    <3>1. SpaceOf[w[i]] = s /\ nap[w[i]] # "awake" /\ w[i] # t /\ w[i] \in Sleepers
      BY <1>0, <1>2, <1>7 DEF Queue
    <3> QED  BY <1>6, <3>1
  <2>2. ASSUME NEW i \in 1..Len(w), NEW j \in 1..Len(w), w[i] = w[j] PROVE i = j
    <3>1. f[i] = f[j]
      BY <1>0, <1>7, <2>2 DEF Queue
    <3>2. ~(i < j) /\ ~(j < i)
      <4>1. f[i] \in Int /\ f[j] \in Int
        BY <1>7
      <4> QED  BY <1>4, <3>1, <4>1 DEF Traced
    <3> QED  BY <3>2
  <2> QED  BY <1>3, <2>1, <2>2 DEF Queue
<1>9. ASSUME NEW u \in Sleepers, SpaceOf[u] = s, nap'[u] = "asleep" PROVE Stands(w, u)
  <2>1. u # t /\ nap[u] = "asleep"
    BY <1>6, <1>6a, <1>9
  <2>2. PICK k \in 1..Len(ws) : ws[k] = u
    BY <1>9, <2>1 DEF FutexInv, Stands, ws
  <2>3. PICK i \in 1..Len(w) : f[i] = k
    BY <1>4, <1>5, <2>1, <2>2 DEF Traced
  <2> QED  BY <1>7, <2>2, <2>3 DEF Stands
<1>10. \A u \in Sleepers : SpaceOf[u] # s => nap'[u] = nap[u]
  BY <1>6
<1> HIDE DEF s
<1> QED  BY <1>0, <1>1, <1>6, <1>8, <1>9, <1>10, ListChanged

\* What is left of a list after its first n elements.
LEMMA RestIs ==
  ASSUME NEW S, NEW q \in Seq(S), NEW n \in 0..Len(q)
  PROVE  /\ SubSeq(q, n + 1, Len(q)) \in Seq(S)
         /\ Len(SubSeq(q, n + 1, Len(q))) = Len(q) - n
         /\ \A i \in 1..(Len(q) - n) : SubSeq(q, n + 1, Len(q))[i] = q[n + i]
OBVIOUS

\* The first n elements of a list.
LEMMA FrontIs ==
  ASSUME NEW S, NEW q \in Seq(S), NEW n \in 0..Len(q)
  PROVE  /\ SubSeq(q, 1, n) \in Seq(S) /\ Len(SubSeq(q, 1, n)) = n
         /\ \A i \in 1..n : SubSeq(q, 1, n)[i] = q[i]
OBVIOUS

\* futex_wake: the sleepers that leave the list are awake afterwards, the others
\* stay in it.
LEMMA WakeKeeps ==
  ASSUME FutexInv, NEW t \in Sleepers, NEW count \in Nat, futex_wake(t, count)
  PROVE  FutexInv'
<1> DEFINE s == SpaceOf[t]
           ws == waiting[s]
           n == IF count < Len(ws) THEN count ELSE Len(ws)
           front == SubSeq(ws, 1, n)
           drained == ToSet(front)
           w == SubSeq(ws, n + 1, Len(ws))
<1>0. s \in Spaces /\ Queue(s, ws, nap) /\ nap \in [Sleepers -> Naps]
  BY DEF FutexInv, Spaces
<1>1. /\ waiting' = [waiting EXCEPT ![s] = w]
      /\ nap' = [u \in Sleepers |-> IF u \in drained /\ nap[u] = "asleep" THEN "woken" ELSE nap[u]]
  BY DEF futex_wake
<1>2. ws \in Seq(Sleepers) /\ Len(ws) \in Nat /\ \A i \in 1..Len(ws) : ws[i] \in Sleepers
  BY <1>0 DEF Queue
<1>3. n \in 0..Len(ws)
  BY <1>2
<1> HIDE DEF ws, n
<1>4. /\ w \in Seq(Sleepers) /\ Len(w) = Len(ws) - n
      /\ \A i \in 1..(Len(ws) - n) : w[i] = ws[n + i]
  BY <1>2, <1>3, RestIs
<1>5. /\ DOMAIN front = 1..n /\ \A i \in 1..n : front[i] = ws[i]
  BY <1>2, <1>3, FrontIs
<1> HIDE DEF w, front
<1>6. \A u : u \in drained <=> \E i \in 1..n : ws[i] = u
  BY <1>5 DEF ToSet
<1> HIDE DEF drained
<1>7. /\ nap' \in [Sleepers -> Naps]
      /\ \A u \in Sleepers : nap'[u] = nap[u] \/ (u \in drained /\ nap'[u] = "woken")
      /\ \A u \in Sleepers : u \in drained => nap'[u] # "asleep"
  BY <1>0, <1>1 DEF Naps
<1>8. \A i \in 1..Len(w) : n + i \in 1..Len(ws) /\ w[i] = ws[n + i]
  BY <1>2, <1>3, <1>4
<1>9. Queue(s, w, nap')
  <2>1. ASSUME NEW i \in 1..Len(w) PROVE SpaceOf[w[i]] = s /\ nap'[w[i]] # "awake"
    <3>1. SpaceOf[w[i]] = s /\ nap[w[i]] # "awake" /\ w[i] \in Sleepers
      BY <1>0, <1>2, <1>8 DEF Queue
    <3> QED  BY <1>7, <3>1
  <2>2. ASSUME NEW i \in 1..Len(w), NEW j \in 1..Len(w), w[i] = w[j] PROVE i = j
    <3>1. n + i = n + j
      BY <1>0, <1>8, <2>2 DEF Queue
    <3> QED  BY <1>3, <3>1
  <2> QED  BY <1>4, <2>1, <2>2 DEF Queue
<1>10. ASSUME NEW u \in Sleepers, SpaceOf[u] = s, nap'[u] = "asleep" PROVE Stands(w, u)
  <2>1. nap[u] = "asleep" /\ u \notin drained
    BY <1>7, <1>10
  <2>2. PICK k \in 1..Len(ws) : ws[k] = u
    BY <1>10, <2>1 DEF FutexInv, Stands, ws
  <2>3. k \notin 1..n
    BY <1>6, <2>1, <2>2
  <2>4. k - n \in 1..Len(w) /\ n + (k - n) = k
    BY <1>2, <1>3, <1>4, <2>3
  <2> QED  BY <1>8, <2>2, <2>4 DEF Stands
<1>11. ASSUME NEW u \in Sleepers, SpaceOf[u] # s PROVE nap'[u] = nap[u]
  <2>1. u \notin drained
    BY <1>0, <1>2, <1>3, <1>6, <1>11 DEF Queue
  <2> QED  BY <1>7, <2>1
<1> HIDE DEF s
<1>12. nap' \in [Sleepers -> Naps] /\ waiting' = [waiting EXCEPT ![s] = w]
  BY <1>1, <1>7
<1> QED  BY <1>0, <1>9, <1>10, <1>11, <1>12, ListChanged

\* A step that leaves the lists alone and makes nobody awake or asleep.
LEMMA NapKeeps ==
  ASSUME FutexInv, UNCHANGED waiting, nap' \in [Sleepers -> Naps],
         \A t \in Sleepers : nap'[t] \in {nap[t], "woken", "gone"}
  PROVE  FutexInv'
<1>1. ASSUME NEW s \in Spaces PROVE Queue(s, waiting[s], nap')
  <2>1. Queue(s, waiting[s], nap)
    BY DEF FutexInv
  <2>2. \A i \in 1..Len(waiting[s]) : waiting[s][i] \in Sleepers
    BY <2>1 DEF Queue
  <2> QED  BY <2>1, <2>2 DEF Queue
<1>2. \A t \in Sleepers : nap'[t] = "asleep" => Stands(waiting[SpaceOf[t]], t)
  BY DEF FutexInv
<1>3. waiting' = waiting /\ DOMAIN waiting' = Spaces /\ waiting' = [s \in Spaces |-> waiting'[s]]
  BY DEF FutexInv
<1>4. \A s \in Spaces : Queue(s, waiting[s], nap)'
  BY <1>1, <1>3 DEF Queue
<1>5. \A t \in Sleepers : nap'[t] = "asleep" => Stands(waiting[SpaceOf[t]], t)'
  BY <1>2, <1>3 DEF Stands
<1>6. Spaces' = Spaces
  BY DEF Spaces
<1> QED  BY <1>3, <1>4, <1>5, <1>6 DEF FutexInv

\* Every step of Futex.
LEMMA FutexKeeps == FutexInv /\ (FutexStep \/ UNCHANGED futexVars) => FutexInv'
<1> SUFFICES ASSUME FutexInv, FutexStep \/ UNCHANGED futexVars PROVE FutexInv'
  OBVIOUS
<1>0. nap \in [Sleepers -> Naps] /\ Cardinality(Sleepers) \in Nat
  BY FutexAssumption, FS_CardinalityType DEF FutexInv
<1>1. CASE UNCHANGED futexVars
  <2>1. UNCHANGED <<waiting, nap>>
    BY <1>1 DEF futexVars
  <2> QED  BY <1>0, <2>1, NapKeeps
<1>2. ASSUME NEW t \in Sleepers, NEW v, StoreWord(t, v) PROVE FutexInv'
  <2>1. UNCHANGED <<waiting, nap>>
    BY <1>2 DEF StoreWord
  <2> QED  BY <1>0, <2>1, NapKeeps
<1>3. ASSUME NEW t \in Sleepers, TimeoutWakes(t) \/ TaskEnds(t) PROVE FutexInv'
  <2>1. UNCHANGED waiting /\ \E x \in {"woken", "gone"} : nap' = [nap EXCEPT ![t] = x]
    BY <1>3 DEF TimeoutWakes, TaskEnds
  <2>2. nap' \in [Sleepers -> Naps] /\ \A u \in Sleepers : nap'[u] \in {nap[u], "woken", "gone"}
    BY <1>0, <2>1 DEF Naps
  <2> QED  BY <2>1, <2>2, NapKeeps
<1>4. ASSUME NEW t \in Sleepers, NEW c \in {1, 2, Cardinality(Sleepers)}, futex_wake(t, c)
      PROVE  FutexInv'
  <2>1. c \in Nat
    BY <1>0
  <2> QED  BY <1>4, <2>1, WakeKeeps
<1>5. ASSUME NEW t \in Sleepers, ReturnFromWait(t) PROVE FutexInv'
  BY <1>5, ReturnKeeps
<1>6. ASSUME NEW t \in Sleepers, NEW v, NEW b, futex_wait(t, v, b) PROVE FutexInv'
  BY <1>6, WaitKeeps
<1> QED  BY <1>1, <1>2, <1>3, <1>4, <1>5, <1>6 DEF FutexStep

-----------------------------------------------------------------------------
(* init and its services.                                                  *)

Child == [of : ServiceIds, state : {"running", "ended", "reaped"}]

\* init's table and its children agree: the id kept for a service is that of a
\* child started for it, and only services that start_services has reached have
\* children.
ServicesInv ==
  /\ started \in 0..Len(ServiceList) /\ taskOf \in [ServiceIds -> Nat]
  /\ children \in Seq(Child)
  /\ \A s \in ServiceIds : taskOf[s] # 0 =>
       taskOf[s] \in 1..Len(children) /\ children[taskOf[s]].of = s
  /\ \A c \in 1..Len(children) : children[c].of <= started
  /\ OneInstance

\* No service has been started.
LEMMA ServicesInitInv == ServicesInit => ServicesInv
<1> SUFFICES ASSUME ServicesInit PROVE ServicesInv
  OBVIOUS
<1>1. Len(ServiceList) \in Nat
  BY ServicesAssumption
<1> QED  BY <1>1 DEF ServicesInit, ServicesInv, OneInstance

\* spawn(): service s, none of whose children is left, gets a new one or none.
LEMMA SpawnKeeps ==
  ASSUME NEW s \in ServiceIds, NEW kids \in Seq(Child), SpawnService(s, kids),
         taskOf \in [ServiceIds -> Nat], started' \in 0..Len(ServiceList), s <= started',
         \A x \in ServiceIds : taskOf[x] # 0 =>
           taskOf[x] \in 1..Len(kids) /\ kids[taskOf[x]].of = x,
         \A c \in 1..Len(kids) : kids[c].of <= started',
         \A c \in 1..Len(kids) : kids[c].state \in {"running", "ended"} =>
           taskOf[kids[c].of] = c /\ kids[c].of # s
  PROVE  ServicesInv'
<1>0. Len(kids) \in Nat /\ \A c \in 1..Len(kids) : kids[c] \in Child /\ kids[c].of \in ServiceIds
  <2>1. Len(kids) \in Nat /\ \A c \in 1..Len(kids) : kids[c] \in Child
    OBVIOUS
  <2> QED  BY <2>1 DEF Child
<1>1. CASE children' = kids /\ taskOf' = [taskOf EXCEPT ![s] = 0]
  <2>1. taskOf' \in [ServiceIds -> Nat] /\ taskOf'[s] = 0
        /\ \A x \in ServiceIds : x # s => taskOf'[x] = taskOf[x]
    BY <1>1
  <2>2. OneInstance'
    BY <1>0, <1>1, <2>1 DEF OneInstance
  <2> QED  BY <1>1, <2>1, <2>2 DEF ServicesInv, ServiceIds, Child
<1>2. CASE /\ children' = Append(kids, [of |-> s, state |-> "running"])
           /\ taskOf' = [taskOf EXCEPT ![s] = Len(kids) + 1]
  <2> DEFINE new == [of |-> s, state |-> "running"]
  <2>1. new \in Child /\ new.of = s
    BY DEF Child
  <2> HIDE DEF new
  <2>2. /\ children' \in Seq(Child) /\ Len(children') = Len(kids) + 1
        /\ children'[Len(kids) + 1] = new /\ \A c \in 1..Len(kids) : children'[c] = kids[c]
    BY <1>2, <2>1 DEF new
  <2>3. taskOf' \in [ServiceIds -> Nat] /\ taskOf'[s] = Len(kids) + 1
        /\ \A x \in ServiceIds : x # s => taskOf'[x] = taskOf[x]
    BY <1>0, <1>2
  <2>4. ASSUME NEW x \in ServiceIds, taskOf'[x] # 0
        PROVE  taskOf'[x] \in 1..Len(children') /\ children'[taskOf'[x]].of = x
    <3>1. CASE x = s
      BY <1>0, <2>1, <2>2, <2>3, <3>1
    <3>2. CASE x # s
      BY <1>0, <2>2, <2>3, <2>4, <3>2
    <3> QED  BY <3>1, <3>2
  <2>5. ASSUME NEW c \in 1..Len(children')
        PROVE  /\ children'[c].of <= started'
               /\ children'[c].state \in {"running", "ended"} => taskOf'[children'[c].of] = c
    <3>1. CASE c = Len(kids) + 1
      BY <2>1, <2>2, <2>3, <3>1
    <3>2. CASE c \in 1..Len(kids)
      BY <1>0, <2>2, <2>3, <3>2
    <3>3. c = Len(kids) + 1 \/ c \in 1..Len(kids)
      BY <1>0, <2>2
    <3> QED  BY <3>1, <3>2, <3>3
  <2> QED  BY <2>2, <2>3, <2>4, <2>5 DEF ServicesInv, OneInstance, ServiceIds, Child
<1> QED  BY <1>1, <1>2 DEF SpawnService

Kids == Seq(Child)

WithState(kids, c, x) == [kids EXCEPT ![c].state = x]

\* A child of init ends or is waited for.
LEMMA ChildChanged ==
  ASSUME NEW kids \in Kids, NEW c \in 1..Len(kids), NEW x \in {"ended", "reaped"}
  PROVE  /\ WithState(kids, c, x) \in Kids /\ Len(WithState(kids, c, x)) = Len(kids)
         /\ \A d \in 1..Len(kids) : WithState(kids, c, x)[d].of = kids[d].of
         /\ \A d \in 1..Len(kids) : d # c => WithState(kids, c, x)[d] = kids[d]
         /\ WithState(kids, c, x)[c].state = x
<1> DEFINE r == WithState(kids, c, x)
           k == [kids[c] EXCEPT !.state = x]
<1>1. kids[c] \in Child
  BY DEF Kids
<1>2. k \in Child /\ k.of = kids[c].of /\ k.state = x
  BY <1>1 DEF Child
<1>3. r = [kids EXCEPT ![c] = k]
  BY DEF WithState
<1> HIDE DEF k, r
<1>4. /\ r \in Kids /\ Len(r) = Len(kids) /\ r[c] = k
      /\ \A d \in 1..Len(kids) : d # c => r[d] = kids[d]
  BY <1>2, <1>3 DEF Kids
<1>5. \A d \in 1..Len(kids) : r[d].of = kids[d].of
  BY <1>2, <1>4
<1> QED  BY <1>2, <1>4, <1>5 DEF r

\* Every step of init and its services.
LEMMA ServicesKeep == ServicesInv /\ (ServicesStep \/ UNCHANGED svcVars) => ServicesInv'
<1> SUFFICES ASSUME ServicesInv, ServicesStep \/ UNCHANGED svcVars PROVE ServicesInv'
  OBVIOUS
<1>0. /\ Len(ServiceList) \in Nat
      /\ started \in 0..Len(ServiceList) /\ taskOf \in [ServiceIds -> Nat]
      /\ children \in Seq(Child) /\ Len(children) \in Nat
      /\ \A s \in ServiceIds : taskOf[s] # 0 =>
           taskOf[s] \in 1..Len(children) /\ children[taskOf[s]].of = s
      /\ \A c \in 1..Len(children) : children[c].of <= started
      /\ \A c \in 1..Len(children) :
           children[c].state \in {"running", "ended"} => taskOf[children[c].of] = c
  BY ServicesAssumption DEF ServicesInv, OneInstance
<1>0a. \A c \in 1..Len(children) : children[c].of \in ServiceIds
  <2>1. \A c \in 1..Len(children) : children[c] \in Child
    BY <1>0
  <2> QED  BY <2>1 DEF Child
<1>1. CASE UNCHANGED svcVars
  BY <1>1 DEF ServicesInv, OneInstance, svcVars, ServiceIds, Child
<1>2. CASE StartService
  <2>1. /\ started + 1 \in ServiceIds /\ SpawnService(started + 1, children)
        /\ started' = started + 1 /\ started' \in 0..Len(ServiceList)
    BY <1>0, <1>2 DEF StartService, ServiceIds
  <2>2. ASSUME NEW c \in 1..Len(children)
        PROVE  children[c].of <= started' /\ children[c].of # started + 1
    <3>1. children[c].of \in Nat /\ children[c].of <= started
      BY <1>0, <1>0a DEF ServiceIds
    <3> QED  BY <1>0, <2>1, <3>1
  <2>3. started + 1 <= started'
    BY <1>0, <2>1
  <2> QED  BY <1>0, <2>1, <2>2, <2>3, SpawnKeeps
<1>3. ASSUME NEW c \in 1..Len(children), ServiceEnds(c) PROVE ServicesInv'
  <2>1. /\ children' = [children EXCEPT ![c].state = "ended"] /\ UNCHANGED <<started, taskOf>>
        /\ children[c].state = "running"
    BY <1>3 DEF ServiceEnds
  <2>2. /\ children' \in Seq(Child) /\ Len(children') = Len(children)
        /\ \A d \in 1..Len(children) : children'[d].of = children[d].of
        /\ \A d \in 1..Len(children) : d # c => children'[d] = children[d]
    <3>1. children' = WithState(children, c, "ended") /\ children \in Kids
      BY <1>0, <2>1 DEF WithState, Kids
    <3>2. /\ WithState(children, c, "ended") \in Kids
          /\ Len(WithState(children, c, "ended")) = Len(children)
          /\ \A d \in 1..Len(children) :
               WithState(children, c, "ended")[d].of = children[d].of
          /\ \A d \in 1..Len(children) : d # c =>
               WithState(children, c, "ended")[d] = children[d]
      BY <3>1, ChildChanged
    <3> QED  BY <3>1, <3>2 DEF Kids
  <2>3. OneInstance'
    BY <1>0, <2>1, <2>2 DEF OneInstance
  <2> QED  BY <1>0, <2>1, <2>2, <2>3 DEF ServicesInv, ServiceIds, Child
<1>4. ASSUME NEW c \in 1..Len(children), Supervise(c) PROVE ServicesInv'
  <2> DEFINE reaped == WithState(children, c, "reaped")
  <2>1. PICK s \in ServiceIds :
          /\ Matches(s, c)
          /\ IF ServiceList[s].restart THEN SpawnService(s, reaped)
             ELSE children' = reaped /\ taskOf' = [taskOf EXCEPT ![s] = 0]
    BY <1>4 DEF Supervise, WithState
  <2>2. /\ reaped \in Seq(Child) /\ Len(reaped) = Len(children)
        /\ \A d \in 1..Len(children) : reaped[d].of = children[d].of
        /\ \A d \in 1..Len(children) : d # c => reaped[d] = children[d]
        /\ reaped[c].state = "reaped"
    <3>1. children \in Kids
      BY <1>0 DEF Kids
    <3>2. /\ reaped \in Kids /\ Len(reaped) = Len(children)
          /\ \A d \in 1..Len(children) : reaped[d].of = children[d].of
          /\ \A d \in 1..Len(children) : d # c => reaped[d] = children[d]
          /\ reaped[c].state = "reaped"
      BY <3>1, ChildChanged
    <3> HIDE DEF reaped
    <3> QED  BY <3>2 DEF Kids
  <2> HIDE DEF reaped
  <2>3. SpawnService(s, reaped)
    BY <2>1 DEF SpawnService
  <2>4. taskOf[s] = c /\ children[c].of = s /\ started' = started /\ s <= started
    BY <1>0, <1>4, <2>1 DEF Matches, Supervise
  <2>5. ASSUME NEW d \in 1..Len(reaped), reaped[d].state \in {"running", "ended"}
        PROVE  taskOf[reaped[d].of] = d /\ reaped[d].of # s
    <3>1. d # c
      BY <2>2, <2>5
    <3> QED  BY <1>0, <2>2, <2>4, <2>5, <3>1
  <2>6. /\ reaped \in Seq(Child) /\ taskOf \in [ServiceIds -> Nat]
        /\ started' \in 0..Len(ServiceList) /\ s <= started'
    BY <1>0, <2>2, <2>4
  <2>7. \A x \in ServiceIds : taskOf[x] # 0 =>
          taskOf[x] \in 1..Len(reaped) /\ reaped[taskOf[x]].of = x
    BY <1>0, <2>2
  <2>8. \A d \in 1..Len(reaped) : reaped[d].of <= started'
    BY <1>0, <2>2, <2>4
  <2> QED  BY <2>3, <2>5, <2>6, <2>7, <2>8, SpawnKeeps
<1> QED  BY <1>1, <1>2, <1>3, <1>4 DEF ServicesStep

-----------------------------------------------------------------------------
(* The client of the GUI service.                                          *)

Call == [op : Opcodes \cup {"none"}, no : Nat]
Calls == Seq(Call)

\* 1 while a call is under way.
Open == IF calling = NoCall THEN 0 ELSE 1

\* The messages of the service in q are to calls after lo, up to hi, in the order of the
\* calls; those of other tasks have number 0.
Behind(q, lo, hi) ==
  \A i \in 1..Len(q) : q[i].no # 0 =>
    /\ lo < q[i].no /\ q[i].no <= hi
    /\ \A j \in 1..Len(q) : i < j /\ q[j].no # 0 => q[i].no < q[j].no

\* Those in q are to older calls than those in r.
Before(q, r) == \A i \in 1..Len(q), j \in 1..Len(r) : q[i].no # 0 /\ r[j].no # 0 => q[i].no < r[j].no

\* The number of calls that ended with a message of the service.
Concluded == calls - Open - givenUp - misled

\* Each call that ended took a message of the service from the queue, took another task's
\* or was given up, so that the messages left are to calls after as many as were served.
ClientInv ==
  /\ calls \in Nat /\ givenUp \in Nat /\ misled \in Nat /\ calling \in Call
  /\ inbox \in Calls /\ todo \in Calls /\ accepted \in [answer : Call, call : Call]
  /\ calling # NoCall => calling.no = calls
  /\ Behind(inbox, Concluded, calls) /\ Behind(todo, Concluded, calls) /\ Before(inbox, todo)
  /\ OwnReply

\* No call has been made.
LEMMA ClientInitInv == ClientInit => ClientInv
<1> SUFFICES ASSUME ClientInit PROVE ClientInv
  OBVIOUS
<1>1. NoCall \in Call /\ << >> \in Calls /\ Len(<< >>) = 0
  BY DEF NoCall, Call, Calls
<1> QED  BY <1>1 DEF ClientInit, ClientInv, Behind, Before, OwnReply

\* A message is added to a queue.
LEMMA BehindAppend ==
  ASSUME NEW q \in Calls, NEW lo \in Int, NEW hi \in Nat, NEW to \in Nat, Behind(q, lo, hi), hi <= to,
         NEW x \in Call,
         x.no # 0 => lo < x.no /\ x.no <= to /\ \A i \in 1..Len(q) : q[i].no # 0 => q[i].no < x.no
  PROVE  /\ Append(q, x) \in Calls /\ Behind(Append(q, x), lo, to)
         /\ Len(Append(q, x)) = Len(q) + 1 /\ Append(q, x)[Len(q) + 1] = x
         /\ \A i \in 1..Len(q) : Append(q, x)[i] = q[i]
<1> DEFINE r == Append(q, x)
<1>1. /\ r \in Calls /\ Len(r) = Len(q) + 1 /\ r[Len(q) + 1] = x /\ Len(q) \in Nat
      /\ \A i \in 1..Len(q) : r[i] = q[i] /\ q[i] \in Call
  BY DEF Calls
<1> HIDE DEF r
<1>2. \A i \in 1..Len(q) : q[i].no \in Nat
  BY <1>1 DEF Call
<1>3. ASSUME NEW i \in 1..Len(r), r[i].no # 0
      PROVE  /\ lo < r[i].no /\ r[i].no <= to
             /\ \A j \in 1..Len(r) : i < j /\ r[j].no # 0 => r[i].no < r[j].no
  <2>1. CASE i = Len(q) + 1
    BY <1>1, <1>3, <2>1
  <2>2. CASE i \in 1..Len(q)
    <3>1. lo < q[i].no /\ q[i].no <= hi /\ \A j \in 1..Len(q) : i < j /\ q[j].no # 0 => q[i].no < q[j].no
      BY <1>1, <1>3, <2>2 DEF Behind
    <3>2. ASSUME NEW j \in 1..Len(r), i < j, r[j].no # 0 PROVE r[i].no < r[j].no
      <4>1. CASE j = Len(q) + 1
        BY <1>1, <1>3, <2>2, <3>2, <4>1
      <4>2. CASE j \in 1..Len(q)
        BY <1>1, <2>2, <3>1, <3>2, <4>2
      <4> QED  BY <1>1, <4>1, <4>2
    <3> QED  BY <1>1, <1>2, <2>2, <3>1, <3>2
  <2> QED  BY <1>1, <2>1, <2>2
<1> QED  BY <1>1, <1>3 DEF Behind, r

\* The first message is taken from a queue.
LEMMA BehindTail ==
  ASSUME NEW q \in Calls, q # << >>, NEW lo \in Int, NEW hi \in Nat, Behind(q, lo, hi)
  PROVE  /\ Head(q) \in Call /\ Head(q).no \in Nat /\ Tail(q) \in Calls /\ Behind(Tail(q), lo, hi)
         /\ Head(q) = q[1] /\ 1 \in 1..Len(q) /\ Len(q) \in Nat /\ Len(Tail(q)) = Len(q) - 1
         /\ \A i \in 1..Len(Tail(q)) : i + 1 \in 1..Len(q) /\ Tail(q)[i] = q[i + 1]
         /\ Head(q).no # 0 => /\ lo < Head(q).no /\ Head(q).no <= hi
                              /\ Behind(Tail(q), lo + 1, hi)
<1> DEFINE r == Tail(q)
<1>1. /\ r \in Calls /\ Len(r) = Len(q) - 1 /\ Head(q) = q[1] /\ Len(q) \in Nat /\ Len(q) >= 1
      /\ \A i \in 1..Len(r) : r[i] = q[i + 1]
      /\ Head(q) \in Call /\ \A i \in 1..Len(q) : q[i] \in Call
  BY DEF Calls
<1> HIDE DEF r
<1>2. Head(q).no \in Nat /\ (\A i \in 1..Len(q) : q[i].no \in Nat) /\ 1 \in 1..Len(q)
  BY <1>1 DEF Call
<1>3. \A i \in 1..Len(r) : i + 1 \in 1..Len(q)
  BY <1>1
<1>4. Head(q).no # 0 => lo < Head(q).no /\ Head(q).no <= hi
  BY <1>1, <1>2 DEF Behind
<1>5. ASSUME NEW i \in 1..Len(r), r[i].no # 0
      PROVE  /\ lo < r[i].no /\ r[i].no <= hi /\ (Head(q).no # 0 => lo + 1 < r[i].no)
             /\ \A j \in 1..Len(r) : i < j /\ r[j].no # 0 => r[i].no < r[j].no
  <2>1. /\ lo < q[i + 1].no /\ q[i + 1].no <= hi
        /\ \A j \in 1..Len(q) : i + 1 < j /\ q[j].no # 0 => q[i + 1].no < q[j].no
    BY <1>1, <1>3, <1>5 DEF Behind
  <2>2. Head(q).no # 0 => Head(q).no < q[i + 1].no
    BY <1>1, <1>2, <1>3, <1>5 DEF Behind
  <2>3. ASSUME NEW j \in 1..Len(r), i < j, r[j].no # 0 PROVE r[i].no < r[j].no
    <3>1. i + 1 < j + 1
      BY <2>3, <1>1
    <3> QED  BY <1>1, <1>3, <2>1, <2>3, <3>1
  <2> QED  BY <1>1, <1>2, <1>3, <1>4, <2>1, <2>2, <2>3
<1> QED  BY <1>1, <1>2, <1>3, <1>4, <1>5 DEF Behind, r

\* What one step needs of the invariant.
LEMMA ClientFacts ==
  ASSUME ClientInv
  PROVE  /\ Open \in {0, 1} /\ Concluded \in Int /\ Concluded <= calls - Open /\ NoCall \in Call
         /\ \A i \in 1..Len(inbox) : inbox[i] \in Call /\ inbox[i].no \in Nat
         /\ \A i \in 1..Len(todo) : todo[i] \in Call /\ todo[i].no \in Nat
         /\ Len(inbox) \in Nat /\ Len(todo) \in Nat
         /\ accepted.call.no \in Nat /\ accepted.answer.no \in Nat
<1>1. Open \in {0, 1} /\ NoCall \in Call
  BY DEF Open, NoCall, Call
<1>2. Concluded \in Int /\ Concluded <= calls - Open
  BY <1>1 DEF ClientInv, Concluded
<1>3. /\ \A i \in 1..Len(inbox) : inbox[i] \in Call
      /\ \A i \in 1..Len(todo) : todo[i] \in Call
      /\ Len(inbox) \in Nat /\ Len(todo) \in Nat
  BY DEF ClientInv, Calls
<1> QED  BY <1>1, <1>2, <1>3 DEF ClientInv, Call

\* Every step of the client and the services it calls.
LEMMA ClientKeeps == ClientInv /\ (ClientStep \/ UNCHANGED clientVars) => ClientInv'
<1> SUFFICES ASSUME ClientInv, ClientStep \/ UNCHANGED clientVars PROVE ClientInv'
  OBVIOUS
<1> DEFINE lo == Concluded
<1>0. /\ calls \in Nat /\ givenUp \in Nat /\ misled \in Nat /\ calling \in Call
      /\ inbox \in Calls /\ todo \in Calls /\ accepted \in [answer : Call, call : Call]
      /\ calling # NoCall => calling.no = calls
      /\ Behind(inbox, lo, calls) /\ Behind(todo, lo, calls) /\ Before(inbox, todo)
      /\ OwnReply
  BY DEF ClientInv
<1>0a. /\ Open \in {0, 1} /\ lo \in Int /\ lo <= calls - Open /\ NoCall \in Call
       /\ \A i \in 1..Len(inbox) : inbox[i] \in Call /\ inbox[i].no \in Nat
       /\ \A i \in 1..Len(todo) : todo[i] \in Call /\ todo[i].no \in Nat
       /\ Len(inbox) \in Nat /\ Len(todo) \in Nat
       /\ accepted.call.no \in Nat /\ accepted.answer.no \in Nat
  BY ClientFacts
<1>1. CASE UNCHANGED <<todo, inbox, calling, calls, givenUp, misled, accepted>>
  BY <1>1 DEF ClientInv, Open, Concluded, Behind, Before, OwnReply, NoCall, Call, Calls
<1>2. ASSUME NEW op \in Opcodes, SendRequest(op) PROVE ClientInv'
  <2>1. CASE UNCHANGED <<calls, calling, todo>>
    BY <1>1, <1>2, <2>1 DEF SendRequest
  <2>2. CASE /\ calls' = calls + 1 /\ calling' = [op |-> op, no |-> calls']
             /\ todo' = Append(todo, calling')
    <3> DEFINE c == [op |-> op, no |-> calls + 1]
               r == Append(todo, c)
    <3>1. c \in Call /\ c.no = calls + 1 /\ c # NoCall
      BY <1>0 DEF Call, NoCall
    <3>2. /\ calling' = c /\ calls' = calls + 1 /\ todo' = r
          /\ UNCHANGED <<inbox, givenUp, misled, accepted>> /\ calling = NoCall
      BY <1>2, <2>2 DEF SendRequest
    <3> HIDE DEF c
    <3>3. Open = 0 /\ Open' = 1
      BY <3>1, <3>2 DEF Open, NoCall
    <3>4. Concluded' = lo
      BY <1>0, <3>2, <3>3 DEF Concluded
    <3> HIDE DEF lo
    <3>5. \A i \in 1..Len(todo) : todo[i].no # 0 => todo[i].no < c.no
      BY <1>0, <1>0a, <3>1 DEF Behind
    <3>6. \A i \in 1..Len(inbox) : inbox[i].no # 0 => inbox[i].no < c.no /\ inbox[i].no <= calls + 1
      BY <1>0, <1>0a, <3>1 DEF Behind
    <3>7. /\ r \in Calls /\ Behind(r, lo, calls + 1) /\ Len(r) = Len(todo) + 1
          /\ r[Len(todo) + 1] = c /\ \A i \in 1..Len(todo) : r[i] = todo[i]
      <4>1. lo < c.no /\ c.no <= calls + 1 /\ calls <= calls + 1 /\ calls + 1 \in Nat
        BY <1>0, <1>0a, <3>1
      <4> QED  BY <1>0, <1>0a, <3>1, <3>5, <4>1, BehindAppend
    <3> HIDE DEF r
    <3>8. Before(inbox, r)
      <4> SUFFICES ASSUME NEW i \in 1..Len(inbox), NEW j \in 1..Len(r), inbox[i].no # 0, r[j].no # 0
                   PROVE  inbox[i].no < r[j].no
        BY DEF Before
      <4>1. CASE j = Len(todo) + 1
        BY <3>6, <3>7, <4>1
      <4>2. CASE j \in 1..Len(todo)
        BY <1>0, <3>7, <4>2 DEF Before
      <4> QED  BY <1>0a, <3>7, <4>1, <4>2
    <3>9. Behind(inbox, lo, calls + 1)
      BY <1>0, <3>6 DEF Behind
    <3>10. calls' \in Nat /\ calling' # NoCall /\ calling'.no = calls' /\ calling' \in Call
      BY <1>0, <3>1, <3>2
    <3>11. OwnReply'
      BY <1>0, <3>2 DEF OwnReply, NoCall
    <3>12. Behind(inbox', Concluded', calls') /\ Behind(todo', Concluded', calls') /\ Before(inbox', todo')
      BY <3>2, <3>4, <3>7, <3>8, <3>9
    <3> QED  BY <1>0, <3>2, <3>7, <3>10, <3>11, <3>12 DEF ClientInv, NoCall, Call, Calls, Behind, Before
  <2> QED  BY <1>2, <2>1, <2>2 DEF SendRequest
<1>3. CASE ServeRequest
  <2> DEFINE h == Head(todo)
             r == Append(inbox, h)
             u == Tail(todo)
  <2>1. /\ todo # << >> /\ inbox' = r /\ todo' = u
        /\ UNCHANGED <<calling, calls, givenUp, misled, accepted>>
    BY <1>3 DEF ServeRequest
  <2>2. Concluded' = lo
    BY <2>1 DEF Open, Concluded, NoCall
  <2> HIDE DEF lo
  <2>3. /\ h \in Call /\ u \in Calls /\ Behind(u, lo, calls) /\ h = todo[1] /\ 1 \in 1..Len(todo)
        /\ Len(u) = Len(todo) - 1 /\ \A i \in 1..Len(u) : i + 1 \in 1..Len(todo) /\ u[i] = todo[i + 1]
        /\ h.no # 0 => lo < h.no /\ h.no <= calls
    BY <1>0, <1>0a, <2>1, BehindTail
  <2> HIDE DEF h, u
  <2>4. \A i \in 1..Len(inbox) : inbox[i].no # 0 /\ h.no # 0 => inbox[i].no < h.no
    BY <1>0, <2>3 DEF Before
  <2>5. /\ r \in Calls /\ Behind(r, lo, calls) /\ Len(r) = Len(inbox) + 1
        /\ r[Len(inbox) + 1] = h /\ \A i \in 1..Len(inbox) : r[i] = inbox[i]
    BY <1>0, <1>0a, <2>3, <2>4, BehindAppend
  <2> HIDE DEF r
  <2>6. Before(r, u)
    <3> SUFFICES ASSUME NEW i \in 1..Len(r), NEW j \in 1..Len(u), r[i].no # 0, u[j].no # 0
                 PROVE  r[i].no < u[j].no
      BY DEF Before
    <3>1. j + 1 \in 1..Len(todo) /\ u[j] = todo[j + 1] /\ 1 < j + 1
      BY <2>3
    <3>2. CASE i = Len(inbox) + 1
      BY <1>0, <2>3, <2>5, <3>1, <3>2 DEF Behind
    <3>3. CASE i \in 1..Len(inbox)
      BY <1>0, <2>5, <3>1, <3>3 DEF Before
    <3> QED  BY <1>0a, <2>5, <3>2, <3>3
  <2>7. OwnReply'
    BY <1>0, <2>1 DEF OwnReply, NoCall
  <2>8. Behind(inbox', Concluded', calls') /\ Behind(todo', Concluded', calls') /\ Before(inbox', todo')
    BY <2>1, <2>2, <2>3, <2>5, <2>6
  <2> QED  BY <1>0, <2>1, <2>3, <2>5, <2>7, <2>8 DEF ClientInv, NoCall, Call, Calls, Behind, Before
<1>4. CASE ReceiveAnswer
  <2> DEFINE h == Head(inbox)
             r == Tail(inbox)
  <2>1. /\ calling # NoCall /\ inbox # << >> /\ inbox' = r /\ calling' = NoCall
        /\ misled' = (IF h.no = 0 THEN misled + 1 ELSE misled)
        /\ UNCHANGED <<todo, calls, givenUp>>
        /\ \/ Accepts(h, calling) /\ accepted' = [answer |-> h, call |-> calling]
           \/ UNCHANGED accepted
    BY <1>4 DEF ReceiveAnswer
  <2>2. Open = 1 /\ Open' = 0 /\ lo = calls - 1 - givenUp - misled
    BY <1>0, <2>1 DEF Open, NoCall, Concluded
  <2>3. Concluded' = (IF h.no = 0 THEN lo ELSE lo + 1) /\ misled' \in Nat
    BY <1>0, <2>1, <2>2 DEF Concluded
  <2> HIDE DEF lo
  <2>4. /\ h \in Call /\ h.no \in Nat /\ r \in Calls /\ Behind(r, lo, calls)
        /\ h = inbox[1] /\ 1 \in 1..Len(inbox) /\ Len(r) = Len(inbox) - 1
        /\ \A i \in 1..Len(r) : i + 1 \in 1..Len(inbox) /\ r[i] = inbox[i + 1]
        /\ h.no # 0 => lo < h.no /\ h.no <= calls /\ Behind(r, lo + 1, calls)
    BY <1>0, <1>0a, <2>1, BehindTail
  <2> HIDE DEF h, r
  <2>5. Before(r, todo)
    BY <1>0, <2>4 DEF Before
  <2>6. Behind(r, Concluded', calls)
    BY <2>3, <2>4
  <2>7. Behind(todo, Concluded', calls)
    <3>1. CASE h.no = 0
      BY <1>0, <2>3, <3>1
    <3>2. CASE h.no # 0
      <4>1. ASSUME NEW i \in 1..Len(todo), todo[i].no # 0 PROVE lo + 1 < todo[i].no
        <5>1. h.no < todo[i].no
          BY <1>0, <2>4, <3>2, <4>1 DEF Before
        <5> QED  BY <1>0a, <2>4, <3>2, <5>1
      <4> QED  BY <1>0, <2>3, <3>2, <4>1 DEF Behind
    <3> QED  BY <3>1, <3>2
  <2>8. OwnReply' /\ accepted' \in [answer : Call, call : Call]
    <3>1. CASE UNCHANGED accepted
      BY <1>0, <1>0a, <2>1, <3>1 DEF OwnReply, NoCall
    <3>2. CASE Accepts(h, calling) /\ accepted' = [answer |-> h, call |-> calling]
      <4>1. h.op = calling.op /\ calling.no = calls
        BY <1>0, <2>1, <3>2 DEF Accepts
      <4>2. h.no <= calls /\ (h.no # 0 => calls - h.no <= givenUp + misled')
        BY <1>0, <2>1, <2>2, <2>4
      <4> QED  BY <1>0, <2>1, <2>4, <3>2, <4>1, <4>2 DEF OwnReply
    <3> QED  BY <2>1, <3>1, <3>2
  <2>9. calling' \in Call /\ calling' = NoCall
    BY <1>0a, <2>1
  <2>10. Behind(inbox', Concluded', calls') /\ Behind(todo', Concluded', calls') /\ Before(inbox', todo')
    BY <2>1, <2>5, <2>6, <2>7
  <2> QED  BY <1>0, <2>1, <2>3, <2>4, <2>8, <2>9, <2>10 DEF ClientInv, NoCall, Call, Calls, Behind, Before
<1>5. CASE GiveUpCall
  <2>1. /\ calling # NoCall /\ calling' = NoCall /\ givenUp' = givenUp + 1
        /\ UNCHANGED <<todo, inbox, calls, misled, accepted>>
    BY <1>5 DEF GiveUpCall
  <2>2. Open = 1 /\ Open' = 0
    BY <2>1 DEF Open, NoCall
  <2>3. Concluded' = lo /\ givenUp' \in Nat
    BY <1>0, <2>1, <2>2 DEF Concluded
  <2>4. OwnReply'
    BY <1>0, <1>0a, <2>1 DEF OwnReply, NoCall
  <2> HIDE DEF lo
  <2>5. Behind(inbox', Concluded', calls') /\ Behind(todo', Concluded', calls') /\ Before(inbox', todo')
    BY <1>0, <2>1, <2>3
  <2> QED  BY <1>0, <1>0a, <2>1, <2>3, <2>4, <2>5 DEF ClientInv, NoCall, Call, Calls, Behind, Before
<1>6. CASE GuiEnds
  <2>1. todo' = << >> /\ UNCHANGED <<inbox, calling, calls, givenUp, misled, accepted>>
    BY <1>6 DEF GuiEnds
  <2>2. << >> \in Calls /\ Len(<< >>) = 0
    BY DEF Calls
  <2>3. Concluded' = lo
    BY <2>1 DEF Open, Concluded, NoCall
  <2> HIDE DEF lo
  <2>4. Behind(inbox', Concluded', calls') /\ Behind(todo', Concluded', calls') /\ Before(inbox', todo')
    BY <1>0, <2>1, <2>2, <2>3 DEF Behind, Before
  <2>5. OwnReply'
    BY <1>0, <2>1 DEF OwnReply, NoCall
  <2> QED  BY <1>0, <2>1, <2>2, <2>4, <2>5 DEF ClientInv, NoCall, Call, Calls, Behind, Before
<1>7. CASE GuiStarts \/ UNCHANGED clientVars
  BY <1>1, <1>7 DEF GuiStarts, clientVars
<1>8. ASSUME NEW op \in Opcodes \cup {"none"}, OtherSends(op) PROVE ClientInv'
  <2> DEFINE x == [op |-> op, no |-> 0]
             r == Append(inbox, x)
  <2>1. inbox' = r /\ UNCHANGED <<todo, calling, calls, givenUp, misled, accepted>>
    BY <1>8 DEF OtherSends
  <2>2. x \in Call /\ x.no = 0
    BY DEF Call
  <2>3. Concluded' = lo
    BY <2>1 DEF Open, Concluded, NoCall
  <2> HIDE DEF lo, x
  <2>4. /\ r \in Calls /\ Behind(r, lo, calls) /\ Len(r) = Len(inbox) + 1
        /\ r[Len(inbox) + 1] = x /\ \A i \in 1..Len(inbox) : r[i] = inbox[i]
    BY <1>0, <1>0a, <2>2, BehindAppend
  <2> HIDE DEF r
  <2>5. Before(r, todo)
    <3> SUFFICES ASSUME NEW i \in 1..Len(r), NEW j \in 1..Len(todo), r[i].no # 0, todo[j].no # 0
                 PROVE  r[i].no < todo[j].no
      BY DEF Before
    <3>1. i \in 1..Len(inbox)
      BY <1>0a, <2>2, <2>4
    <3> QED  BY <1>0, <2>4, <3>1 DEF Before
  <2>6. OwnReply'
    BY <1>0, <2>1 DEF OwnReply, NoCall
  <2>7. Behind(inbox', Concluded', calls') /\ Behind(todo', Concluded', calls') /\ Before(inbox', todo')
    BY <1>0, <2>1, <2>3, <2>4, <2>5
  <2> QED  BY <1>0, <2>1, <2>4, <2>6, <2>7 DEF ClientInv, NoCall, Call, Calls, Behind, Before
<1> QED  BY <1>2, <1>3, <1>4, <1>5, <1>6, <1>7, <1>8 DEF ClientStep

-----------------------------------------------------------------------------
(* The console.                                                            *)

KeyList == Seq(Nat)

\* The keys k in the buffer and the keys r given to each reader, of n typed: a
\* reader's keys are in order and older than those in the buffer, and no two
\* readers have the same key.
KeysOK(k, r, n) ==
  /\ k \in KeyList /\ Rising(k) /\ \A i \in 1..Len(k) : k[i] <= n
  /\ r \in [Readers -> KeyList]
  /\ \A t \in Readers : /\ Rising(r[t]) /\ \A i \in 1..Len(r[t]) : r[t][i] <= n
                        /\ \A i \in 1..Len(r[t]), j \in 1..Len(k) : r[t][i] < k[j]
  /\ \A t, u \in Readers : t # u =>
       \A i \in 1..Len(r[t]), j \in 1..Len(r[u]) : r[t][i] # r[u][j]

ReadStages == {"no", "loop", "first", "rest", "more", "ended"}

\* A reader in one of these takes a key next, whoever has the focus by then.
Taking == {"first", "more"}

\* A reader that waits to take a key it may no longer have was not given one since.
FocusOK ==
  /\ focus \in Readers \cup {NoFocus}
  /\ reading \in [Readers -> ReadStages]
  /\ stolen \in [Readers -> 0..1]
  /\ FocusEnds
  /\ \A t \in Readers : reading[t] \in Taking /\ ~MayRead(t) => stolen[t] = 0

ConsoleInv == typed \in Nat /\ KeysOK(keys, received, typed) /\ FocusOK

\* Nothing has been typed.
LEMMA ConsoleInitInv == ConsoleInit => ConsoleInv
<1> SUFFICES ASSUME ConsoleInit PROVE ConsoleInv
  OBVIOUS
<1>1. << >> \in KeyList /\ Len(<< >>) = 0
  BY DEF KeyList
<1> QED  BY <1>1 DEF ConsoleInit, ConsoleInv, KeysOK, FocusOK, Rising, FocusEnds, ReadStages, Taking

\* In these terms: what each reader got and what is in the buffer rise together.
LEMMA ConsoleInvIs == ConsoleInv => FocusEnds /\ KeysInOrder
<1> SUFFICES ASSUME ConsoleInv PROVE FocusEnds /\ KeysInOrder
  OBVIOUS
<1>0. KeysOK(keys, received, typed) /\ FocusOK
  BY DEF ConsoleInv
<1>1. ASSUME NEW t \in Readers PROVE Rising(received[t] \o keys)
  <2> DEFINE r == received[t]
             x == r \o keys
  <2>1. r \in Seq(Nat) /\ keys \in Seq(Nat)
    BY <1>0 DEF KeysOK, KeyList
  <2>2. /\ Rising(r) /\ Rising(keys)
        /\ \A i \in 1..Len(r), j \in 1..Len(keys) : r[i] < keys[j]
    BY <1>0 DEF KeysOK
  <2> HIDE DEF r
  <2>3. /\ Len(x) = Len(r) + Len(keys) /\ Len(r) \in Nat /\ Len(keys) \in Nat
        /\ \A i \in 1..(Len(r) + Len(keys)) : x[i] = IF i <= Len(r) THEN r[i] ELSE keys[i - Len(r)]
    BY <2>1, ConcatProperties
  <2> HIDE DEF x
  <2>4. ASSUME NEW i \in 1..Len(x), NEW j \in 1..Len(x), i < j PROVE x[i] < x[j]
    <3>1. CASE j <= Len(r)
      <4>1. i \in 1..Len(r) /\ j \in 1..Len(r) /\ x[i] = r[i] /\ x[j] = r[j]
        BY <2>3, <2>4, <3>1
      <4> QED  BY <2>2, <2>4, <4>1 DEF Rising
    <3>2. CASE ~(j <= Len(r)) /\ i <= Len(r)
      <4>1. i \in 1..Len(r) /\ j - Len(r) \in 1..Len(keys) /\ x[i] = r[i] /\ x[j] = keys[j - Len(r)]
        BY <2>3, <2>4, <3>2
      <4> QED  BY <2>2, <4>1
    <3>3. CASE ~(i <= Len(r))
      <4>1. /\ i - Len(r) \in 1..Len(keys) /\ j - Len(r) \in 1..Len(keys)
            /\ i - Len(r) < j - Len(r)
            /\ x[i] = keys[i - Len(r)] /\ x[j] = keys[j - Len(r)]
        BY <2>3, <2>4, <3>3
      <4> QED  BY <2>2, <4>1 DEF Rising
    <3> QED  BY <3>1, <3>2, <3>3
  <2> QED  BY <2>4 DEF Rising, x, r
<1>2. ASSUME NEW t \in Readers, NEW u \in Readers, t # u
      PROVE  ToSet(received[t]) \cap ToSet(received[u]) = {}
  <2>1. DOMAIN received[t] = 1..Len(received[t]) /\ DOMAIN received[u] = 1..Len(received[u])
    BY <1>0 DEF KeysOK, KeyList
  <2> QED  BY <1>0, <1>2, <2>1 DEF KeysOK, ToSet
<1>3. \A t \in Readers : stolen[t] <= 1
  BY <1>0 DEF FocusOK
<1> QED  BY <1>0, <1>1, <1>2, <1>3 DEF KeysInOrder, KeysOK, FocusOK

\* push_input_char: the new key is the last one, and the oldest may be lost.
LEMMA TypedKeeps ==
  ASSUME typed \in Nat, KeysOK(keys, received, typed), KeyTyped
  PROVE  KeysOK(keys', received', typed') /\ typed' \in Nat
<1> DEFINE k == IF Len(keys) >= KeyBuffer THEN Tail(keys) ELSE keys
           d == IF Len(keys) >= KeyBuffer THEN 1 ELSE 0
           x == Append(k, typed + 1)
<1>0. typed' = typed + 1 /\ keys' = x /\ received' = received
  BY DEF KeyTyped
<1>1. keys \in Seq(Nat) /\ Len(keys) \in Nat /\ \A i \in 1..Len(keys) : keys[i] \in Nat
  BY DEF KeysOK, KeyList
<1>2. /\ k \in Seq(Nat) /\ Len(k) = Len(keys) - d /\ d \in {0, 1} /\ Len(k) \in Nat
      /\ \A i \in 1..Len(k) : i + d \in 1..Len(keys) /\ k[i] = keys[i + d]
  <2>1. CASE Len(keys) >= KeyBuffer
    <3>1. Len(keys) >= 1 /\ keys # << >>
      BY <1>1, <2>1, ConsoleAssumption
    <3>2. Tail(keys) \in Seq(Nat) /\ Len(Tail(keys)) = Len(keys) - 1
          /\ \A i \in 1..(Len(keys) - 1) : Tail(keys)[i] = keys[i + 1]
      BY <1>1, <3>1
    <3> QED  BY <1>1, <2>1, <3>1, <3>2
  <2>2. CASE ~(Len(keys) >= KeyBuffer)
    BY <1>1, <2>2
  <2> QED  BY <2>1, <2>2
<1> HIDE DEF k, d
<1>3. /\ x \in Seq(Nat) /\ Len(x) = Len(k) + 1 /\ x[Len(k) + 1] = typed + 1
      /\ \A i \in 1..Len(k) : x[i] = k[i]
  BY <1>2
<1> HIDE DEF x
<1>4. \A i \in 1..Len(x) : \/ i = Len(k) + 1 /\ x[i] = typed + 1
                           \/ i \in 1..Len(k) /\ i + d \in 1..Len(keys) /\ x[i] = keys[i + d]
  <2> SUFFICES ASSUME NEW i \in 1..Len(x)
               PROVE  \/ i = Len(k) + 1 /\ x[i] = typed + 1
                      \/ i \in 1..Len(k) /\ i + d \in 1..Len(keys) /\ x[i] = keys[i + d]
    OBVIOUS
  <2>1. CASE i = Len(k) + 1
    BY <1>3, <2>1
  <2>2. CASE i \in 1..Len(k)
    <3>1. x[i] = k[i] /\ i + d \in 1..Len(keys) /\ k[i] = keys[i + d]
      BY <1>2, <1>3, <2>2
    <3> QED  BY <2>2, <3>1
  <2>3. i = Len(k) + 1 \/ i \in 1..Len(k)
    BY <1>2, <1>3
  <2> QED  BY <2>1, <2>2, <2>3
<1>5. ASSUME NEW i \in 1..Len(x), NEW j \in 1..Len(x), i < j PROVE x[i] < x[j]
  <2>1. i \in 1..Len(k) /\ i + d \in 1..Len(keys) /\ x[i] = keys[i + d]
    <3>1. i # Len(k) + 1
      BY <1>2, <1>3, <1>5
    <3> QED  BY <1>4, <3>1
  <2>2. CASE j = Len(k) + 1 /\ x[j] = typed + 1
    <3>1. keys[i + d] <= typed /\ keys[i + d] \in Nat
      BY <1>1, <2>1 DEF KeysOK
    <3> QED  BY <2>1, <2>2, <3>1
  <2>3. CASE j \in 1..Len(k) /\ j + d \in 1..Len(keys) /\ x[j] = keys[j + d]
    <3>1. i + d < j + d
      BY <1>2, <1>5
    <3> QED  BY <2>1, <2>3, <3>1 DEF KeysOK, Rising
  <2> QED  BY <1>4, <2>2, <2>3
<1>6. ASSUME NEW i \in 1..Len(x) PROVE x[i] <= typed + 1
  <2>1. \A j \in 1..Len(keys) : keys[j] \in Nat /\ keys[j] <= typed
    BY <1>1 DEF KeysOK
  <2>2. \A j \in 1..Len(keys) : keys[j] <= typed + 1
    BY <2>1
  <2> QED  BY <1>4, <2>2
<1>7. ASSUME NEW t \in Readers, NEW i \in 1..Len(received[t])
      PROVE  /\ received[t][i] <= typed + 1
             /\ \A j \in 1..Len(x) : received[t][i] < x[j]
  <2>1. received[t][i] \in Nat /\ received[t][i] <= typed
    <3>1. received[t] \in Seq(Nat)
      BY DEF KeysOK, KeyList
    <3> QED  BY <3>1 DEF KeysOK
  <2>2. ASSUME NEW j \in 1..Len(x) PROVE received[t][i] < x[j]
    <3>1. \A m \in 1..Len(keys) : received[t][i] < keys[m]
      BY DEF KeysOK
    <3>2. received[t][i] < typed + 1
      BY <2>1
    <3> QED  BY <1>4, <3>1, <3>2
  <2> QED  BY <2>1, <2>2
<1>8. typed + 1 \in Nat
  OBVIOUS
<1> QED  BY <1>0, <1>3, <1>5, <1>6, <1>7, <1>8 DEF KeysOK, KeyList, Rising

\* The first n keys of the buffer go to t.
LEMMA DeliverKeeps ==
  ASSUME typed \in Nat, KeysOK(keys, received, typed), NEW t \in Readers, NEW n \in 0..Len(keys),
         Deliver(t, n)
  PROVE  KeysOK(keys', received', typed') /\ typed' \in Nat
<1> DEFINE k == SubSeq(keys, n + 1, Len(keys))
           f == SubSeq(keys, 1, n)
           r == received[t]
           x == r \o f
<1>0. keys' = k /\ received' = [received EXCEPT ![t] = x] /\ typed' = typed
  BY DEF Deliver
<1>1. keys \in Seq(Nat) /\ Len(keys) \in Nat /\ r \in Seq(Nat) /\ Len(r) \in Nat
      /\ \A i \in 1..Len(keys) : keys[i] \in Nat
  BY DEF KeysOK, KeyList
<1>2. /\ k \in Seq(Nat) /\ Len(k) = Len(keys) - n
      /\ \A i \in 1..(Len(keys) - n) : k[i] = keys[n + i]
  BY <1>1, RestIs
<1>3. /\ f \in Seq(Nat) /\ Len(f) = n /\ \A i \in 1..n : f[i] = keys[i]
  BY <1>1, FrontIs
<1>4. /\ Rising(r) /\ \A i \in 1..Len(r) : r[i] <= typed
      /\ \A i \in 1..Len(r), j \in 1..Len(keys) : r[i] < keys[j]
      /\ Rising(keys) /\ \A i \in 1..Len(keys) : keys[i] <= typed
  BY DEF KeysOK
<1> HIDE DEF k, f, r
<1>5. /\ x \in Seq(Nat) /\ Len(x) = Len(r) + n
      /\ \A i \in 1..(Len(r) + n) : x[i] = IF i <= Len(r) THEN r[i] ELSE f[i - Len(r)]
  BY <1>1, <1>3, ConcatProperties
<1> HIDE DEF x
<1>6. \A i \in 1..Len(x) : \/ i \in 1..Len(r) /\ x[i] = r[i]
                           \/ ~(i <= Len(r)) /\ i - Len(r) \in 1..n /\ i - Len(r) \in 1..Len(keys)
                              /\ x[i] = keys[i - Len(r)]
  <2> SUFFICES ASSUME NEW i \in 1..Len(x)
               PROVE  \/ i \in 1..Len(r) /\ x[i] = r[i]
                      \/ ~(i <= Len(r)) /\ i - Len(r) \in 1..n /\ i - Len(r) \in 1..Len(keys)
                         /\ x[i] = keys[i - Len(r)]
    OBVIOUS
  <2>0. i \in 1..(Len(r) + n) /\ n \in Nat /\ n <= Len(keys)
    BY <1>1, <1>5
  <2>1. CASE i <= Len(r)
    BY <1>1, <1>5, <2>0, <2>1
  <2>2. CASE ~(i <= Len(r))
    <3>1. i - Len(r) \in 1..n /\ i - Len(r) \in 1..Len(keys)
      BY <1>1, <2>0, <2>2
    <3>2. x[i] = f[i - Len(r)]
      BY <1>5, <2>0, <2>2
    <3>3. f[i - Len(r)] = keys[i - Len(r)]
      BY <1>3, <3>1
    <3> QED  BY <2>2, <3>1, <3>2, <3>3
  <2> QED  BY <2>1, <2>2
<1>7. \A i \in 1..Len(k) : n + i \in 1..Len(keys) /\ k[i] = keys[n + i]
  BY <1>1, <1>2
<1>8. received' \in [Readers -> KeyList] /\ received'[t] = x
      /\ \A u \in Readers : u # t => received'[u] = received[u]
  BY <1>0, <1>5 DEF KeysOK, KeyList
<1>9. Rising(k) /\ \A i \in 1..Len(k) : k[i] <= typed
  <2>1. ASSUME NEW i \in 1..Len(k), NEW j \in 1..Len(k), i < j PROVE k[i] < k[j]
    <3>1. n + i < n + j
      BY <1>1, <1>2, <2>1
    <3> QED  BY <1>4, <1>7, <3>1 DEF Rising
  <2> QED  BY <1>4, <1>7, <2>1 DEF Rising
<1>10. ASSUME NEW i \in 1..Len(x), NEW j \in 1..Len(x), i < j PROVE x[i] < x[j]
  <2>1. CASE j \in 1..Len(r)
    <3>1. i \in 1..Len(r) /\ x[i] = r[i] /\ x[j] = r[j]
      BY <1>1, <1>5, <1>6, <1>10, <2>1
    <3> QED  BY <1>4, <1>10, <2>1, <3>1 DEF Rising
  <2>2. CASE j \notin 1..Len(r)
    <3>0. j - Len(r) \in 1..n /\ j - Len(r) \in 1..Len(keys) /\ x[j] = keys[j - Len(r)]
      BY <1>6, <2>2
    <3>1. CASE i \in 1..Len(r)
      <4>1. x[i] = r[i]
        BY <1>1, <1>5, <3>1
      <4> QED  BY <1>4, <3>0, <3>1, <4>1
    <3>2. CASE i \notin 1..Len(r)
      <4>1. i - Len(r) \in 1..Len(keys) /\ x[i] = keys[i - Len(r)]
        BY <1>6, <3>2
      <4>2. i - Len(r) < j - Len(r)
        BY <1>1, <1>10
      <4> QED  BY <1>4, <3>0, <4>1, <4>2 DEF Rising
    <3> QED  BY <3>1, <3>2
  <2> QED  BY <2>1, <2>2
<1>11. ASSUME NEW i \in 1..Len(x)
       PROVE  x[i] <= typed /\ \A j \in 1..Len(k) : x[i] < k[j]
  <2>1. CASE i \in 1..Len(r) /\ x[i] = r[i]
    BY <1>4, <1>7, <2>1
  <2>2. CASE i - Len(r) \in 1..n /\ i - Len(r) \in 1..Len(keys) /\ x[i] = keys[i - Len(r)]
    <3>1. ASSUME NEW j \in 1..Len(k) PROVE x[i] < k[j]
      <4>1. i - Len(r) < n + j /\ n + j \in 1..Len(keys)
        BY <1>1, <1>2, <1>7, <2>2
      <4> QED  BY <1>4, <1>7, <2>2, <4>1 DEF Rising
    <3> QED  BY <1>4, <2>2, <3>1
  <2> QED  BY <1>6, <2>1, <2>2
<1>12. ASSUME NEW u \in Readers, u # t, NEW i \in 1..Len(x), NEW j \in 1..Len(received[u])
       PROVE  x[i] # received[u][j]
  <2>1. CASE i \in 1..Len(r) /\ x[i] = r[i]
    BY <1>12, <2>1 DEF KeysOK, r
  <2>2. CASE i - Len(r) \in 1..Len(keys) /\ x[i] = keys[i - Len(r)]
    <3>1. received[u][j] < keys[i - Len(r)] /\ keys[i - Len(r)] \in Nat
      BY <1>1, <2>2 DEF KeysOK
    <3>2. received[u][j] \in Nat
      <4>1. received[u] \in Seq(Nat)
        BY DEF KeysOK, KeyList
      <4> QED  BY <4>1
    <3> QED  BY <2>2, <3>1, <3>2
  <2> QED  BY <1>6, <2>1, <2>2
<1>13. ASSUME NEW u \in Readers
       PROVE  /\ Rising(received'[u]) /\ \A i \in 1..Len(received'[u]) : received'[u][i] <= typed
              /\ \A i \in 1..Len(received'[u]), j \in 1..Len(k) : received'[u][i] < k[j]
  <2>1. CASE u = t
    BY <1>8, <1>10, <1>11, <2>1 DEF Rising
  <2>2. CASE u # t
    BY <1>7, <1>8, <2>2 DEF KeysOK
  <2> QED  BY <2>1, <2>2
<1>14. ASSUME NEW u \in Readers, NEW v \in Readers, u # v,
              NEW i \in 1..Len(received'[u]), NEW j \in 1..Len(received'[v])
       PROVE  received'[u][i] # received'[v][j]
  <2>1. CASE u = t
    BY <1>8, <1>12, <1>14, <2>1
  <2>2. CASE v = t
    BY <1>8, <1>12, <1>14, <2>2
  <2>3. CASE u # t /\ v # t
    BY <1>8, <1>14, <2>3 DEF KeysOK
  <2> QED  BY <2>1, <2>2, <2>3
<1>15. k \in KeyList
  BY <1>2 DEF KeyList
<1> QED  BY <1>0, <1>8, <1>9, <1>13, <1>14, <1>15 DEF KeysOK, KeyList, Rising

\* A reader that is alive goes to another stage.
LEMMA FocusGoesOn ==
  ASSUME FocusEnds, focus \in Readers \cup {NoFocus}, focus' = focus, NEW t \in Readers,
         reading[t] # "ended", reading'[t] # "ended", \A u \in Readers : u # t => reading'[u] = reading[u]
  PROVE  FocusEnds'
<1>1. focus \in Readers => LeaderOf[focus] \in Readers
  BY ConsoleAssumption
<1> QED  BY <1>1 DEF FocusEnds

\* t is given n keys, and goes from reading stage before to stage after: more than
\* nothing only where the focus allows it or with the first key.
LEMMA DeliverFocus ==
  ASSUME FocusOK, NEW t \in Readers, NEW n \in Nat, Deliver(t, n),
         NEW after \in {"no", "rest"}, reading' = [reading EXCEPT ![t] = after],
         reading[t] # "ended", MayRead(t) \/ (n = 1 /\ reading[t] \in Taking)
  PROVE  FocusOK'
<1>0. /\ focus' = focus /\ reading \in [Readers -> ReadStages]
      /\ stolen \in [Readers -> 0..1] /\ focus \in Readers \cup {NoFocus} /\ FocusEnds
      /\ \A u \in Readers : reading[u] \in Taking /\ ~MayRead(u) => stolen[u] = 0
      /\ stolen' = [stolen EXCEPT ![t] = IF MayRead(t) THEN @ ELSE @ + n]
  BY DEF FocusOK, Deliver
<1>1. stolen' = [stolen EXCEPT ![t] = stolen[t]] \/ (stolen[t] = 0 /\ stolen' = [stolen EXCEPT ![t] = 1])
  <2>1. CASE MayRead(t)
    BY <1>0, <2>1
  <2>2. CASE ~MayRead(t)
    <3>1. n = 1 /\ stolen[t] = 0
      BY <1>0, <2>2
    <3> QED  BY <1>0, <2>2, <3>1
  <2> QED  BY <2>1, <2>2
<1>2. stolen' \in [Readers -> 0..1] /\ \A u \in Readers : u # t => stolen'[u] = stolen[u]
  BY <1>0, <1>1
<1>3. /\ reading' \in [Readers -> ReadStages] /\ reading'[t] = after
      /\ \A u \in Readers : u # t => reading'[u] = reading[u]
  BY <1>0 DEF ReadStages
<1>4. FocusEnds'
  BY <1>0, <1>3, FocusGoesOn
<1>5. \A u \in Readers : reading'[u] \in Taking /\ ~MayRead(u)' => stolen'[u] = 0
  BY <1>0, <1>2, <1>3 DEF MayRead, Taking
<1> QED  BY <1>0, <1>2, <1>3, <1>4, <1>5 DEF FocusOK

\* A step in which no key moves.
LEMMA FocusMoves ==
  ASSUME FocusOK, reading' \in [Readers -> ReadStages],
         focus' \in Readers \cup {NoFocus}, FocusEnds',
         \/ /\ stolen' = stolen /\ focus' \in {focus, NoFocus}
            /\ \A u \in Readers : reading'[u] \in Taking => reading[u] \in Taking \/ MayRead(u)
         \/ stolen' = [u \in Readers |-> 0]
  PROVE  FocusOK'
<1>1. stolen' \in [Readers -> 0..1]
  BY DEF FocusOK
<1>2. ASSUME NEW u \in Readers, reading'[u] \in Taking, ~MayRead(u)' PROVE stolen'[u] = 0
  BY <1>2 DEF FocusOK, MayRead
<1> QED  BY <1>1, <1>2 DEF FocusOK

\* Every step of the console.
LEMMA ConsoleKeeps == ConsoleInv /\ (ConsoleStep \/ UNCHANGED consoleVars) => ConsoleInv'
<1> SUFFICES ASSUME ConsoleInv, ConsoleStep \/ UNCHANGED consoleVars PROVE ConsoleInv'
  OBVIOUS
<1> DEFINE Where == ReadStages
<1>0. /\ typed \in Nat /\ KeysOK(keys, received, typed) /\ FocusOK
      /\ focus \in Readers \cup {NoFocus} /\ reading \in [Readers -> Where] /\ FocusEnds
      /\ Len(keys) \in Nat /\ (keys # << >> => Len(keys) >= 1)
  <2>1. keys \in Seq(Nat)
    BY DEF ConsoleInv, KeysOK, KeyList
  <2> QED  BY <2>1 DEF ConsoleInv, FocusOK
<1>1. ASSUME UNCHANGED <<keys, typed, received>>, FocusOK' PROVE ConsoleInv'
  BY <1>0, <1>1 DEF ConsoleInv, KeysOK, KeyList, Rising
<1>2. CASE UNCHANGED consoleVars
  <2>1. FocusOK'
    BY <1>0, <1>2 DEF consoleVars, FocusOK, FocusEnds, MayRead
  <2> QED  BY <1>1, <1>2, <2>1 DEF consoleVars
<1>3. CASE KeyTyped
  <2>1. FocusOK'
    BY <1>0, <1>3 DEF KeyTyped, FocusOK, FocusEnds, MayRead
  <2> QED  BY <1>0, <1>3, <2>1, TypedKeeps DEF ConsoleInv
<1>4. ASSUME NEW t \in Readers, NEW limit \in {1, 2}, ReadAtOnce(t, limit) PROVE ConsoleInv'
  <2> DEFINE n == IF limit < Len(keys) THEN limit ELSE Len(keys)
  <2>1. /\ reading[t] = "no" /\ MayRead(t) /\ Deliver(t, n) /\ reading' = reading
    BY <1>4 DEF ReadAtOnce
  <2>2. n \in 0..Len(keys) /\ n \in Nat
    BY <1>0
  <2> HIDE DEF n
  <2>3. reading' = [reading EXCEPT ![t] = "no"] /\ "no" \in {"no", "rest"}
    BY <1>0, <2>1
  <2>4. FocusOK'
    BY <1>0, <2>1, <2>2, <2>3, DeliverFocus
  <2> QED  BY <1>0, <2>1, <2>2, <2>4, DeliverKeeps DEF ConsoleInv
<1>5. ASSUME NEW t \in Readers, reading[t] \in Taking, Deliver(t, 1), keys # << >>,
             reading' = [reading EXCEPT ![t] = "rest"]
      PROVE  ConsoleInv'
  <2>1. 1 \in 0..Len(keys) /\ 1 \in Nat /\ "rest" \in {"no", "rest"} /\ reading[t] # "ended"
    BY <1>0, <1>5 DEF Taking
  <2>2. FocusOK'
    BY <1>0, <1>5, <2>1, DeliverFocus
  <2> QED  BY <1>0, <1>5, <2>1, <2>2, DeliverKeeps DEF ConsoleInv
<1>6. ASSUME NEW t \in Readers, NEW w \in Where \ {"ended"}, reading[t] # "ended",
             reading' = [reading EXCEPT ![t] = w], w \in Taking => MayRead(t),
             UNCHANGED <<keys, typed, focus, received, stolen>>
      PROVE  ConsoleInv'
  <2>1. /\ reading' \in [Readers -> Where] /\ reading'[t] = w
        /\ \A u \in Readers : u # t => reading'[u] = reading[u]
    BY <1>0, <1>6
  <2>2. FocusEnds'
    BY <1>0, <1>6, <2>1, FocusGoesOn
  <2>3. \A u \in Readers : reading'[u] \in Taking => reading[u] \in Taking \/ MayRead(u)
    BY <1>6, <2>1
  <2>4. FocusOK'
    BY <1>0, <1>6, <2>1, <2>2, <2>3, FocusMoves
  <2> QED  BY <1>1, <1>6, <2>4
<1>7. ASSUME NEW t \in Readers, ReadBlocks(t) \/ CheckFocus(t) \/ CheckRest(t) PROVE ConsoleInv'
  <2>1. \E w \in Where \ {"ended"} :
          reading' = [reading EXCEPT ![t] = w] /\ (w \in Taking => MayRead(t))
    BY <1>7 DEF ReadBlocks, CheckFocus, CheckRest, ReadStages, Taking
  <2>2. reading[t] # "ended" /\ UNCHANGED <<keys, typed, focus, received, stolen>>
    BY <1>7 DEF ReadBlocks, CheckFocus, CheckRest
  <2> HIDE DEF Where
  <2> QED  BY <1>6, <2>1, <2>2
<1>8. ASSUME NEW t \in Readers, TakeFirst(t) PROVE ConsoleInv'
  <2>1. CASE /\ reading' = [reading EXCEPT ![t] = "loop"]
             /\ UNCHANGED <<keys, typed, focus, received, stolen, grabs>>
    BY <1>6, <1>8, <2>1 DEF TakeFirst, ReadStages, Taking
  <2>2. CASE keys # << >> /\ reading' = [reading EXCEPT ![t] = "rest"] /\ Deliver(t, 1)
    BY <1>5, <1>8, <2>2 DEF TakeFirst, Taking
  <2> QED  BY <1>8, <2>1, <2>2 DEF TakeFirst
<1>9. ASSUME NEW t \in Readers, TakeRest(t) PROVE ConsoleInv'
  <2>1. CASE /\ reading' = [reading EXCEPT ![t] = "no"]
             /\ UNCHANGED <<keys, typed, focus, received, stolen, grabs>>
    BY <1>6, <1>9, <2>1 DEF TakeRest, ReadStages, Taking
  <2>2. CASE keys # << >> /\ reading' = [reading EXCEPT ![t] = "rest"] /\ Deliver(t, 1)
    BY <1>5, <1>9, <2>2 DEF TakeRest, Taking
  <2> QED  BY <1>9, <2>1, <2>2 DEF TakeRest
<1>10. ASSUME NEW t \in Readers, GrabKeyboard(t) PROVE ConsoleInv'
  <2>1. /\ UNCHANGED <<keys, typed, reading, received>> /\ focus' = t
        /\ stolen' = [u \in Readers |-> 0] /\ reading[t] = "no"
    BY <1>10 DEF GrabKeyboard
  <2>2. FocusEnds'
    BY <2>1 DEF FocusEnds
  <2>3. FocusOK'
    BY <1>0, <2>1, <2>2, FocusMoves
  <2> QED  BY <1>1, <2>1, <2>3
<1>11. ASSUME NEW t \in Readers, ReleaseKeyboard(t) PROVE ConsoleInv'
  <2>1. /\ UNCHANGED <<keys, typed, reading, received, stolen>> /\ focus' \in {focus, NoFocus}
    BY <1>11 DEF ReleaseKeyboard, ReleasedBy
  <2>2. FocusEnds'
    BY <1>0, <2>1 DEF FocusEnds
  <2>3. FocusOK'
    BY <1>0, <2>1, <2>2, FocusMoves
  <2> QED  BY <1>1, <2>1, <2>3
<1>12. ASSUME NEW t \in Readers, NEW exits \in BOOLEAN, ReaderEnds(t, exits) PROVE ConsoleInv'
  <2> DEFINE ends == EndingWith(t, exits)
  <2>1. /\ UNCHANGED <<keys, typed, received, stolen>> /\ focus' \in {focus, NoFocus}
        /\ reading' = [u \in Readers |-> IF u \in ends THEN "ended" ELSE reading[u]]
        /\ (focus' = NoFocus \/ focus' # t)
    BY <1>12 DEF ReaderEnds, ReleasedBy
  <2>2. t \in ends /\ \A u \in ends : u # t => LeaderOf[u] = t
    BY DEF EndingWith
  <2> HIDE DEF ends
  <2>3. /\ reading' \in [Readers -> Where]
        /\ \A u \in Readers : reading'[u] = (IF u \in ends THEN "ended" ELSE reading[u])
    BY <1>0, <2>1 DEF ReadStages
  <2>4. FocusEnds'
    <3> SUFFICES ASSUME focus' # NoFocus, reading'[focus'] = "ended"
                 PROVE  LeaderOf[focus] # focus /\ reading'[LeaderOf[focus]] = "ended"
      BY <2>1 DEF FocusEnds
    <3>1. focus' = focus /\ focus # t /\ focus \in Readers /\ LeaderOf[focus] \in Readers
      BY <1>0, <2>1, ConsoleAssumption
    <3>2. CASE focus \in ends
      BY <2>2, <2>3, <3>1, <3>2
    <3>3. CASE focus \notin ends
      BY <1>0, <2>3, <3>1, <3>3 DEF FocusEnds
    <3> QED  BY <3>2, <3>3
  <2>5. \A u \in Readers : reading'[u] \in Taking => reading[u] \in Taking \/ MayRead(u)
    BY <2>3 DEF Taking
  <2>6. FocusOK'
    BY <1>0, <2>1, <2>3, <2>4, <2>5, FocusMoves
  <2> QED  BY <1>1, <2>1, <2>6
<1> HIDE DEF Where
<1> QED  BY <1>2, <1>3, <1>4, <1>7, <1>8, <1>9, <1>10, <1>11, <1>12 DEF ConsoleStep

-----------------------------------------------------------------------------
(* The window manager.                                                     *)

\* A window: one that runs off the bottom is where create_window put it.
WinRecord == [id : 1..MaxWindows, x : 0..(Cells - WinW), low : BOOLEAN, ink : Inks \cup {"window"}]
Win == {w \in WinRecord : w.low => w.x = Centre}
WinList == Seq(Win)

\* Windows with distinct ids, all of them given out before id n.
Stack(ws, n) ==
  /\ ws \in WinList
  /\ \A i, j \in 1..Len(ws) : ws[i].id = ws[j].id => i = j
  /\ \A i \in 1..Len(ws) : ws[i].id < n

\* The id of the window on top.
TopId(ws) == IF ws = << >> THEN NoId ELSE Last(ws).id

Ids == 1..MaxWindows \cup {NoId}

StackInv ==
  /\ nextWin \in 1..(MaxWindows + 1) /\ Stack(wins, nextWin)
  /\ active = TopId(wins)
  /\ drag \in [id : Ids, off : Int] /\ leftDown \in BOOLEAN
  /\ drag.id # NoId => leftDown

\* The elements of a list of windows.
LEMMA WinListIs ==
  ASSUME NEW ws \in WinList
  PROVE  /\ Len(ws) \in Nat /\ DOMAIN ws = 1..Len(ws) /\ ws \in Seq(Win)
         /\ ws = << >> <=> Len(ws) = 0
         /\ \A i \in 1..Len(ws) : /\ ws[i] \in Win /\ ws[i].id \in 1..MaxWindows
                                  /\ ws[i].x \in 0..(Cells - WinW)
                                  /\ ws[i].ink \in Inks \cup {"window"}
                                  /\ (ws[i].low => ws[i].x = Centre)
<1>1. /\ Len(ws) \in Nat /\ DOMAIN ws = 1..Len(ws) /\ ws \in Seq(Win)
      /\ ws = << >> <=> Len(ws) = 0
      /\ \A i \in 1..Len(ws) : ws[i] \in Win
  BY DEF WinList
<1>2. \A i \in 1..Len(ws) : /\ ws[i].id \in 1..MaxWindows /\ ws[i].x \in 0..(Cells - WinW)
                           /\ ws[i].ink \in Inks \cup {"window"}
                           /\ (ws[i].low => ws[i].x = Centre)
  <2>1. \A w \in Win : /\ w.id \in 1..MaxWindows /\ w.x \in 0..(Cells - WinW)
                      /\ w.ink \in Inks \cup {"window"} /\ (w.low => w.x = Centre)
    BY DEF Win, WinRecord
  <2> QED  BY <1>1, <2>1, Zenon
<1>3. \A i \in 1..Len(ws) : /\ ws[i] \in Win /\ ws[i].id \in 1..MaxWindows
                           /\ ws[i].x \in 0..(Cells - WinW)
                           /\ ws[i].ink \in Inks \cup {"window"}
                           /\ (ws[i].low => ws[i].x = Centre)
  BY <1>1, <1>2, Zenon
<1> QED  BY <1>1, <1>3, Zenon

\* The invariant that the run checks, in these terms.
LEMMA StackInvIs == StackInv => WindowsStacked
<1> SUFFICES ASSUME StackInv PROVE WindowsStacked
  OBVIOUS
<1>0. wins \in WinList /\ Stack(wins, nextWin)
  BY DEF StackInv, Stack
<1>1. /\ DOMAIN wins = 1..Len(wins)
      /\ \A i \in 1..Len(wins) : wins[i].x \in 0..(Cells - WinW) /\ (wins[i].low => wins[i].x = Centre)
  BY <1>0, WinListIs
<1>2. \A i \in 1..Len(wins) : wins[i].x + WinW <= Cells
  BY <1>1, DeskAssumption DEF WinW
<1> QED  BY <1>0, <1>1, <1>2 DEF WindowsStacked, StackInv, Stack, TopId

\* close_window: the others stay in their order, and the top one stays on top
\* unless it is the one that went.
LEMMA WithoutIs ==
  ASSUME NEW ws, NEW n, Stack(ws, n), NEW id
  PROVE  /\ Stack(Without(ws, id), n)
         /\ \A i \in 1..Len(Without(ws, id)) : Without(ws, id)[i].id # id
         /\ TopId(ws) # id => TopId(Without(ws, id)) = TopId(ws)
<1> DEFINE K == {i \in DOMAIN ws : ws[i].id # id}
           r == Without(ws, id)
<1>0. ws \in WinList /\ r = Picked(ws, K)
  BY DEF Stack, Without
<1>1. /\ Len(ws) \in Nat /\ DOMAIN ws = 1..Len(ws) /\ ws \in Seq(Win)
      /\ ws = << >> <=> Len(ws) = 0
  BY <1>0, WinListIs
<1>2. K \in SUBSET (1..Len(ws)) /\ \A i \in 1..Len(ws) : i \in K <=> ws[i].id # id
  BY <1>1
<1> HIDE DEF K, r
<1>3. r \in Seq(Win) /\ \E f : Traced(ws, r, K, f)
  BY <1>0, <1>1, <1>2, PickedIs
<1>4. PICK f : Traced(ws, r, K, f)
  BY <1>3
<1>5. r \in WinList /\ Len(r) \in Nat /\ (r = << >> <=> Len(r) = 0)
  BY <1>3 DEF WinList
<1>6. \A i \in 1..Len(r) : f[i] \in K /\ f[i] \in 1..Len(ws) /\ r[i] = ws[f[i]]
  BY <1>2, <1>4 DEF Traced
<1>7. ASSUME NEW i \in 1..Len(r), NEW j \in 1..Len(r), r[i].id = r[j].id PROVE i = j
  <2>1. f[i] = f[j]
    BY <1>6, <1>7 DEF Stack
  <2>2. f[i] \in Int /\ f[j] \in Int
    BY <1>6
  <2>3. ~(i < j) /\ ~(j < i)
    BY <1>4, <2>1, <2>2 DEF Traced
  <2> QED  BY <2>3
<1>8. Stack(r, n)
  BY <1>5, <1>6, <1>7 DEF Stack
<1>9. ASSUME TopId(ws) # id PROVE TopId(r) = TopId(ws)
  <2>1. CASE ws = << >>
    <3>1. K = {}
      BY <1>1, <1>2, <2>1
    <3>2. Len(r) = 0
      BY <1>5, <1>6, <3>1
    <3> QED  BY <1>5, <2>1, <3>2 DEF TopId
  <2>2. CASE ws # << >>
    <3>1. Len(ws) \in 1..Len(ws) /\ Last(ws) = ws[Len(ws)] /\ TopId(ws) = ws[Len(ws)].id
      BY <1>1, <2>2 DEF Last, TopId
    <3>2. Len(ws) \in K
      BY <1>2, <1>9, <3>1
    <3>3. PICK i \in 1..Len(r) : f[i] = Len(ws)
      BY <1>4, <3>2 DEF Traced
    <3>4. i = Len(r)
      <4>1. Len(r) \in 1..Len(r)
        BY <1>5, <3>3
      <4>2. ~(i < Len(r))
        BY <1>1, <1>4, <1>6, <3>3, <4>1 DEF Traced
      <4> QED  BY <1>5, <4>2
    <3>5. r # << >> /\ r[Len(r)] = ws[Len(ws)]
      BY <1>5, <1>6, <3>3, <3>4
    <3> QED  BY <3>1, <3>5 DEF TopId, Last
  <2> QED  BY <2>1, <2>2
<1>10. \A i \in 1..Len(r) : r[i].id # id
  BY <1>2, <1>6
<1> QED  BY <1>8, <1>9, <1>10 DEF r

\* ActiveAfterClose is the window on top of those that are left.
LEMMA ActiveIs ==
  ASSUME NEW ws, NEW n, Stack(ws, n), NEW id
  PROVE  ActiveAfterClose(ws, TopId(ws), id) = TopId(Without(ws, id))
         /\ ActiveAfterClose(ws, id, id) = TopId(Without(ws, id))
BY WithoutIs DEF ActiveAfterClose, TopId

\* A window changes in place: where it is, or what is drawn in it.
LEMMA ChangedIs ==
  ASSUME NEW ws, NEW n, Stack(ws, n), NEW r,
         DOMAIN r = DOMAIN ws, r \in WinList,
         \A i \in 1..Len(ws) : r[i].id = ws[i].id
  PROVE  Stack(r, n) /\ TopId(r) = TopId(ws)
<1>0. ws \in WinList
  BY DEF Stack
<1>1. /\ Len(ws) \in Nat /\ DOMAIN ws = 1..Len(ws) /\ (ws = << >> <=> Len(ws) = 0)
      /\ Len(r) \in Nat /\ DOMAIN r = 1..Len(r) /\ (r = << >> <=> Len(r) = 0)
  BY <1>0, WinListIs
<1>2. Len(r) = Len(ws)
  BY <1>1
<1>3. TopId(r) = TopId(ws)
  <2>1. CASE ws = << >>
    BY <1>1, <1>2, <2>1
  <2>2. CASE ws # << >>
    <3>1. r # << >> /\ Len(ws) \in 1..Len(ws)
      BY <1>1, <1>2, <2>2
    <3> QED  BY <1>2, <2>2, <3>1 DEF TopId, Last
  <2> QED  BY <2>1, <2>2
<1> QED  BY <1>2, <1>3 DEF Stack

\* move_window.
LEMMA MovedIs ==
  ASSUME NEW ws, NEW n, Stack(ws, n), NEW id, NEW x \in 0..(Cells - WinW)
  PROVE  Stack(Moved(ws, id, x), n) /\ TopId(Moved(ws, id, x)) = TopId(ws)
<1>0. ws \in WinList
  BY DEF Stack
<1>1. /\ Len(ws) \in Nat /\ DOMAIN ws = 1..Len(ws)
      /\ \A i \in 1..Len(ws) : ws[i] \in Win
  BY <1>0, WinListIs
<1>2. ASSUME NEW i \in 1..Len(ws)
      PROVE  [ws[i] EXCEPT !.x = x, !.low = FALSE] \in Win /\ [ws[i] EXCEPT !.x = x, !.low = FALSE].id = ws[i].id
  BY <1>1 DEF Win, WinRecord
<1>3. /\ DOMAIN Moved(ws, id, x) = DOMAIN ws /\ Moved(ws, id, x) \in WinList
      /\ \A i \in 1..Len(ws) : Moved(ws, id, x)[i].id = ws[i].id
  <2>1. ASSUME NEW i \in 1..Len(ws)
        PROVE  Moved(ws, id, x)[i] \in Win /\ Moved(ws, id, x)[i].id = ws[i].id
    <3>1. Moved(ws, id, x)[i] = IF ws[i].id = id THEN [ws[i] EXCEPT !.x = x, !.low = FALSE] ELSE ws[i]
      BY <1>1 DEF Moved
    <3> QED  BY <1>1, <1>2, <3>1
  <2>2. DOMAIN Moved(ws, id, x) = 1..Len(ws) /\ Moved(ws, id, x) \in [1..Len(ws) -> Win]
    <3>1. Moved(ws, id, x) = [i \in 1..Len(ws) |-> Moved(ws, id, x)[i]]
      BY <1>1 DEF Moved
    <3> QED  BY <2>1, <3>1
  <2> QED  BY <1>1, <2>1, <2>2 DEF WinList
<1> QED  BY <1>3, ChangedIs

\* fill_buf, draw_rect_buf and draw_text_buf.
LEMMA PaintedIs ==
  ASSUME NEW ws, NEW n, Stack(ws, n), NEW id, NEW ink \in Inks
  PROVE  Stack(Painted(ws, id, ink), n) /\ TopId(Painted(ws, id, ink)) = TopId(ws)
<1>0. ws \in WinList
  BY DEF Stack
<1>1. /\ Len(ws) \in Nat /\ DOMAIN ws = 1..Len(ws)
      /\ \A i \in 1..Len(ws) : ws[i] \in Win
  BY <1>0, WinListIs
<1>2. ASSUME NEW i \in 1..Len(ws)
      PROVE  [ws[i] EXCEPT !.ink = ink] \in Win /\ [ws[i] EXCEPT !.ink = ink].id = ws[i].id
  BY <1>1 DEF Win, WinRecord
<1>3. /\ DOMAIN Painted(ws, id, ink) = DOMAIN ws /\ Painted(ws, id, ink) \in WinList
      /\ \A i \in 1..Len(ws) : Painted(ws, id, ink)[i].id = ws[i].id
  <2>1. ASSUME NEW i \in 1..Len(ws)
        PROVE  Painted(ws, id, ink)[i] \in Win /\ Painted(ws, id, ink)[i].id = ws[i].id
    <3>1. Painted(ws, id, ink)[i] = IF ws[i].id = id THEN [ws[i] EXCEPT !.ink = ink] ELSE ws[i]
      BY <1>1 DEF Painted
    <3> QED  BY <1>1, <1>2, <3>1
  <2>2. DOMAIN Painted(ws, id, ink) = 1..Len(ws) /\ Painted(ws, id, ink) \in [1..Len(ws) -> Win]
    <3>1. Painted(ws, id, ink) = [i \in 1..Len(ws) |-> Painted(ws, id, ink)[i]]
      BY <1>1 DEF Painted
    <3> QED  BY <2>1, <3>1
  <2> QED  BY <1>1, <2>1, <2>2 DEF WinList
<1> QED  BY <1>3, ChangedIs

\* A window is put on top.
LEMMA OnTop ==
  ASSUME NEW ws, NEW n \in Nat, Stack(ws, n), NEW w \in Win, NEW m \in Nat, n <= m, w.id < m,
         \A i \in 1..Len(ws) : ws[i].id # w.id
  PROVE  Stack(Append(ws, w), m) /\ TopId(Append(ws, w)) = w.id
<1> DEFINE r == Append(ws, w)
<1>0. ws \in WinList
  BY DEF Stack
<1>1. Len(ws) \in Nat /\ ws \in Seq(Win) /\ \A i \in 1..Len(ws) : ws[i].id \in 1..MaxWindows
  BY <1>0, WinListIs
<1>2. /\ r \in WinList /\ Len(r) = Len(ws) + 1 /\ r[Len(ws) + 1] = w /\ r # << >>
      /\ \A i \in 1..Len(ws) : r[i] = ws[i]
  <2>1. /\ r \in WinList /\ Len(r) = Len(ws) + 1 /\ r[Len(ws) + 1] = w
        /\ \A i \in 1..Len(ws) : r[i] = ws[i]
    BY <1>1 DEF WinList
  <2> HIDE DEF r
  <2>2. r # << >>
    BY <1>1, <2>1
  <2> QED  BY <2>1, <2>2
<1> HIDE DEF r
<1>3. \A i \in 1..Len(r) : i = Len(ws) + 1 \/ i \in 1..Len(ws)
  BY <1>1, <1>2
<1>4. ASSUME NEW i \in 1..Len(r), NEW j \in 1..Len(r), r[i].id = r[j].id PROVE i = j
  <2>1. CASE i \in 1..Len(ws) /\ j \in 1..Len(ws)
    BY <1>2, <1>4, <2>1 DEF Stack
  <2>2. CASE i = Len(ws) + 1 /\ j \in 1..Len(ws)
    BY <1>2, <1>4, <2>2
  <2>3. CASE j = Len(ws) + 1 /\ i \in 1..Len(ws)
    BY <1>2, <1>4, <2>3
  <2> QED  BY <1>3, <2>1, <2>2, <2>3
<1>5. ASSUME NEW i \in 1..Len(r) PROVE r[i].id < m
  <2>1. CASE i = Len(ws) + 1
    BY <1>2, <2>1
  <2>2. CASE i \in 1..Len(ws)
    <3>1. ws[i].id < n /\ ws[i].id \in Nat
      BY <1>1, <2>2 DEF Stack
    <3> QED  BY <1>2, <2>2, <3>1
  <2> QED  BY <1>3, <2>1, <2>2
<1> QED  BY <1>2, <1>4, <1>5 DEF Stack, TopId, Last, r

\* bring_to_top and find_window, of a window that is there.
LEMMA RaisedIs ==
  ASSUME NEW ws, NEW n \in Nat, Stack(ws, n), NEW id, HasId(ws, id)
  PROVE  /\ Stack(Raised(ws, id), n) /\ TopId(Raised(ws, id)) = id
         /\ XOf(ws, id) \in Int /\ id \in 1..MaxWindows /\ HasId(Raised(ws, id), id)
<1> DEFINE w == CHOOSE v \in ToSet(ws) : v.id = id
           b == Without(ws, id)
<1>0. ws \in WinList
  BY DEF Stack
<1>1. /\ DOMAIN ws = 1..Len(ws)
      /\ \A i \in 1..Len(ws) : ws[i] \in Win /\ ws[i].id \in 1..MaxWindows
                             /\ ws[i].x \in 0..(Cells - WinW)
  BY <1>0, WinListIs
<1>2. \E v \in ToSet(ws) : v.id = id
  BY DEF HasId, ToSet
<1>3. w \in ToSet(ws) /\ w.id = id
  BY <1>2
<1> HIDE DEF w
<1>4. PICK k \in 1..Len(ws) : w = ws[k]
  BY <1>1, <1>3 DEF ToSet
<1>5. w \in Win /\ id \in 1..MaxWindows /\ w.x \in Int /\ w.id < n
  BY <1>1, <1>3, <1>4, DeskAssumption DEF Stack, WinW
<1>6. Stack(b, n) /\ \A i \in 1..Len(b) : b[i].id # id
  BY WithoutIs
<1> HIDE DEF b
<1>7. Stack(Append(b, w), n) /\ TopId(Append(b, w)) = w.id
  <2>1. n <= n /\ \A i \in 1..Len(b) : b[i].id # w.id
    BY <1>3, <1>6
  <2> QED  BY <1>5, <1>6, <2>1, OnTop
<1>8. Raised(ws, id) = Append(b, w) /\ XOf(ws, id) = w.x
  BY DEF Raised, XOf, WithId, b, w
<1>9. HasId(Append(b, w), id)
  <2>1. Append(b, w) \in WinList /\ Len(b) \in Nat /\ b \in Seq(Win)
    BY <1>6, <1>7, WinListIs DEF Stack
  <2>2. Len(b) + 1 \in DOMAIN Append(b, w) /\ Append(b, w)[Len(b) + 1] = w
    BY <1>5, <2>1
  <2> QED  BY <1>3, <2>2 DEF HasId
<1> QED  BY <1>3, <1>5, <1>7, <1>8, <1>9

\* find_window_at finds a window that is there.
LEMMA UnderMouseIs ==
  ASSUME NEW ws, NEW n, Stack(ws, n), NEW x, UnderMouse(ws, x) # NoId
  PROVE  HasId(ws, UnderMouse(ws, x))
<1> DEFINE C == Covering(ws, x)
<1>0. ws \in WinList
  BY DEF Stack
<1>1. Len(ws) \in Nat /\ DOMAIN ws = 1..Len(ws)
  BY <1>0, WinListIs
<1>2. C \in SUBSET (1..Len(ws)) /\ C # {}
  BY <1>1 DEF Covering, UnderMouse
<1> HIDE DEF C
<1>3. \E i \in C : \A j \in C : j <= i
  BY <1>1, <1>2, GreatestOf
<1> DEFINE k == CHOOSE i \in C : \A j \in C : j <= i
<1>4. k \in C
  BY <1>3
<1>5. UnderMouse(ws, x) = ws[k].id
  BY <1>2 DEF UnderMouse, TopAt, C
<1> HIDE DEF k
<1> QED  BY <1>1, <1>2, <1>4, <1>5 DEF HasId

\* A window is kept on the screen.
LEMMA ClampedIs ==
  ASSUME NEW x \in Int
  PROVE  Clamped(x) \in 0..(Cells - WinW)
BY DeskAssumption DEF Clamped, Higher, Lower, WinW

\* The window manager starts without windows.
LEMMA StackInitInv == DeskInit => StackInv
<1> SUFFICES ASSUME DeskInit PROVE StackInv
  OBVIOUS
<1>1. << >> \in WinList /\ Len(<< >>) = 0 /\ 1 \in 1..(MaxWindows + 1)
  BY DeskAssumption DEF WinList
<1>2. Stack(<< >>, 1) /\ TopId(<< >>) = NoId
  BY <1>1 DEF Stack, TopId
<1>3. NoId \in Ids /\ 0 \in Int
  BY DEF Ids
<1> QED  BY <1>1, <1>2, <1>3 DEF DeskInit, StackInv

\* A mouse report: the window under a press comes to the top, may be closed or
\* begin to be dragged, and a dragged window stays on the screen.
LEMMA MouseStack ==
  ASSUME StackInv, NEW x \in Row, NEW down \in BOOLEAN, NEW slid \in BOOLEAN, MouseReport(x, down, slid)
  PROVE  StackInv'
<1> DEFINE press == down /\ ~leftDown
           hit == IF press THEN UnderMouse(wins, x) ELSE NoId
           raised == IF hit \notin {NoId, active} THEN Raised(wins, hit) ELSE wins
           close == hit # NoId /\ HitClose(raised, hit, x)
           grabbed == IF hit # NoId /\ HitTitle(raised, hit, x)
                      THEN [id |-> hit, off |-> x - XOf(raised, hit)] ELSE drag
           closed == IF close THEN Without(raised, hit) ELSE raised
           held == IF ~down /\ leftDown THEN [id |-> NoId, off |-> 0] ELSE grabbed
           newX == Clamped(x - held.off)
<1>0. /\ nextWin \in Nat /\ nextWin \in 1..(MaxWindows + 1) /\ Stack(wins, nextWin)
      /\ active = TopId(wins) /\ drag \in [id : Ids, off : Int] /\ leftDown \in BOOLEAN
      /\ (drag.id # NoId => leftDown) /\ x \in Int
  BY DEF StackInv, Row
<1>1. /\ wins' = closed \/ wins' = Moved(closed, held.id, newX)
      /\ active' = IF close THEN ActiveAfterClose(raised, hit, hit)
                   ELSE IF hit # NoId THEN hit ELSE active
      /\ drag' = IF close THEN [id |-> NoId, off |-> 0] ELSE held
      /\ leftDown' = down /\ nextWin' = nextWin
  BY DEF MouseReport
<1>2. hit # NoId => HasId(wins, hit) /\ press
  BY <1>0, UnderMouseIs
<1> HIDE DEF hit
<1>3. /\ Stack(raised, nextWin) /\ TopId(raised) = (IF hit # NoId THEN hit ELSE active)
      /\ hit # NoId => HasId(raised, hit)
  <2>1. CASE hit \notin {NoId, active}
    BY <1>0, <1>2, <2>1, RaisedIs
  <2>2. CASE hit \in {NoId, active}
    BY <1>0, <1>2, <2>2
  <2> QED  BY <2>1, <2>2
<1> HIDE DEF raised
<1>4. hit # NoId => hit \in Ids /\ XOf(raised, hit) \in Int
  BY <1>0, <1>3, RaisedIs DEF Ids
<1>5. grabbed \in [id : Ids, off : Int] /\ (grabbed.id # NoId => down \/ leftDown)
  <2>1. CASE hit # NoId /\ HitTitle(raised, hit, x)
    BY <1>0, <1>2, <1>4, <2>1
  <2>2. CASE ~(hit # NoId /\ HitTitle(raised, hit, x))
    BY <1>0, <2>2
  <2> QED  BY <2>1, <2>2
<1> HIDE DEF grabbed
<1>6. held \in [id : Ids, off : Int] /\ (held.id # NoId => down)
  <2>1. NoId \in Ids /\ 0 \in Int
    BY DEF Ids
  <2> QED  BY <1>0, <1>5, <2>1
<1>7. Stack(closed, nextWin) /\ TopId(closed) = active'
  BY <1>0, <1>1, <1>3, WithoutIs, ActiveIs
<1> HIDE DEF closed, held, close
<1>8. newX \in 0..(Cells - WinW)
  <2>1. x - held.off \in Int
    BY <1>0, <1>6
  <2> QED  BY <2>1, ClampedIs
<1> HIDE DEF newX
<1>9. Stack(wins', nextWin) /\ TopId(wins') = active'
  <2>1. CASE wins' = closed
    BY <1>7, <2>1
  <2>2. CASE wins' = Moved(closed, held.id, newX)
    <3>1. /\ Stack(Moved(closed, held.id, newX), nextWin)
          /\ TopId(Moved(closed, held.id, newX)) = TopId(closed)
      BY <1>7, <1>8, MovedIs
    <3> QED  BY <1>7, <2>2, <3>1
  <2> QED  BY <1>1, <2>1, <2>2
<1>10. drag' \in [id : Ids, off : Int] /\ (drag'.id # NoId => leftDown')
  BY <1>1, <1>6 DEF Ids
<1> QED  BY <1>0, <1>1, <1>9, <1>10 DEF StackInv, Stack, WinList, Win, Ids, TopId, Last

\* OPCODE_WINDOW_CREATE: the new window is on the screen and gets a fresh id.
LEMMA CreateStack ==
  ASSUME StackInv, NEW wide \in BOOLEAN, NEW high \in BOOLEAN, WindowCreate(wide, high)
  PROVE  StackInv'
<1>0. /\ nextWin \in 1..(MaxWindows + 1) /\ Stack(wins, nextWin) /\ active = TopId(wins)
      /\ drag \in [id : Ids, off : Int] /\ leftDown \in BOOLEAN /\ (drag.id # NoId => leftDown)
  BY DEF StackInv
<1>1. /\ drag' = drag /\ leftDown' = leftDown /\ nextWin <= MaxWindows
  BY DEF WindowCreate
<1>2. CASE wide
  <2>1. wins' = wins /\ nextWin' = nextWin /\ active' = active
    BY <1>2 DEF WindowCreate
  <2> QED  BY <1>0, <1>1, <2>1 DEF StackInv
<1>3. CASE ~wide
  <2> DEFINE w == NewWindow(nextWin, high)
  <2>1. wins' = Append(wins, w) /\ nextWin' = nextWin + 1 /\ active' = nextWin
    BY <1>3 DEF WindowCreate
  <2>2. nextWin \in 1..MaxWindows /\ nextWin \in Nat /\ nextWin + 1 \in 1..(MaxWindows + 1)
        /\ nextWin + 1 \in Nat /\ nextWin < nextWin + 1 /\ nextWin <= nextWin + 1
    BY <1>0, <1>1, DeskAssumption
  <2>3. w \in Win /\ w.id = nextWin
    <3>1. Centre \in 0..(Cells - WinW)
      BY DeskAssumption DEF WinW, Centre
    <3> QED  BY <2>2, <3>1 DEF NewWindow, Win, WinRecord
  <2>4. \A i \in 1..Len(wins) : wins[i].id # w.id
    <3>1. wins \in WinList
      BY <1>0 DEF Stack
    <3>2. \A i \in 1..Len(wins) : wins[i].id \in 1..MaxWindows
      BY <3>1, WinListIs
    <3> QED  BY <1>0, <2>2, <2>3, <3>2 DEF Stack
  <2> HIDE DEF w
  <2>5. Stack(Append(wins, w), nextWin + 1) /\ TopId(Append(wins, w)) = w.id
    BY <1>0, <2>2, <2>3, <2>4, OnTop
  <2> QED  BY <1>0, <1>1, <2>1, <2>2, <2>3, <2>5 DEF StackInv
<1> QED  BY <1>2, <1>3

\* Every request and every mouse report keeps the windows stacked.
LEMMA StackKeeps ==
  ASSUME StackInv, DeskStep \/ UNCHANGED deskVars
  PROVE  StackInv'
<1>0. /\ nextWin \in 1..(MaxWindows + 1) /\ Stack(wins, nextWin) /\ active = TopId(wins)
      /\ drag \in [id : Ids, off : Int] /\ leftDown \in BOOLEAN /\ (drag.id # NoId => leftDown)
  BY DEF StackInv
<1>a. ASSUME NEW ws, wins' = ws, Stack(ws, nextWin), active' = TopId(ws),
             nextWin' = nextWin, drag' = drag, leftDown' = leftDown
      PROVE  StackInv'
  BY <1>0, <1>a DEF StackInv
<1>1. CASE UNCHANGED deskVars
  BY <1>0, <1>1, <1>a DEF deskVars
<1>2. CASE TaskbarKey
  BY <1>0, <1>2, <1>a DEF TaskbarKey, NoWindowChange
<1>3. CASE TaskbarExit
  BY <1>0, <1>3, <1>a DEF TaskbarExit
<1>4. CASE PresentRequest
  BY <1>0, <1>4, <1>a DEF PresentRequest, NoWindowChange
<1>5. CASE HudTick
  BY <1>0, <1>5, <1>a DEF HudTick, NoWindowChange
<1>6. CASE WindowPresent
  BY <1>0, <1>6, <1>a DEF WindowPresent, NoWindowChange
<1>7. ASSUME NEW on \in BOOLEAN, HudRequest(on) PROVE StackInv'
  BY <1>0, <1>7, <1>a DEF HudRequest
<1>8. ASSUME NEW wide \in BOOLEAN, NEW high \in BOOLEAN, WindowCreate(wide, high) PROVE StackInv'
  BY <1>8, CreateStack
<1>9. ASSUME NEW e \in Extents, NEW ink \in Inks,
             \/ DrawRequest(e[1], e[2], ink)
             \/ \E off \in BOOLEAN, last \in {e[1], e[2]} : TextRequest(e[1], e[2], last, off, ink)
      PROVE  StackInv'
  BY <1>0, <1>9, <1>a DEF DrawRequest, TextRequest, NoWindowChange
<1>10. ASSUME NEW id \in 1..MaxWindows, WindowClose(id) PROVE StackInv'
  <2>1. Stack(Without(wins, id), nextWin) /\ ActiveAfterClose(wins, active, id) = TopId(Without(wins, id))
    BY <1>0, <1>10, WithoutIs, ActiveIs DEF WindowClose
  <2> QED  BY <1>10, <2>1, <1>a DEF WindowClose
<1>11. ASSUME NEW id \in 1..MaxWindows, NEW x \in Row, WindowMove(id, x) PROVE StackInv'
  <2>1. x \in Int
    BY DEF Row
  <2>2. Clamped(x) \in 0..(Cells - WinW)
    BY <2>1, ClampedIs
  <2>3. Stack(Moved(wins, id, Clamped(x)), nextWin) /\ TopId(Moved(wins, id, Clamped(x))) = TopId(wins)
    BY <1>0, <2>2, MovedIs
  <2> QED  BY <1>0, <1>11, <2>3, <1>a DEF WindowMove
<1>12. ASSUME NEW id \in 1..MaxWindows, NEW ink \in Inks, WindowDraw(id, ink) PROVE StackInv'
  <2>1. Stack(Painted(wins, id, ink), nextWin) /\ TopId(Painted(wins, id, ink)) = TopId(wins)
    BY <1>0, PaintedIs
  <2> QED  BY <1>0, <1>12, <2>1, <1>a DEF WindowDraw
<1>13. ASSUME NEW x \in Row, NEW down \in BOOLEAN, NEW slid \in BOOLEAN, MouseReport(x, down, slid) PROVE StackInv'
  BY <1>13, MouseStack
<1> QED
  BY <1>1, <1>2, <1>3, <1>4, <1>5, <1>6, <1>7, <1>8, <1>9, <1>10, <1>11, <1>12, <1>13 DEF DeskStep

-----------------------------------------------------------------------------
(* The GUI service: what is drawn. *)

Marks == [on : BOOLEAN, lo : Nat, hi : Nat]

\* Where the cells of the screen s and the back buffer b may differ.
Covers(s, b, L, seen, x) == \A c \in Row : s[c] # b[c] => c \in L \/ (seen /\ c = x)

\* What restore_cursor will put back is what belongs there, or known to be out of date.
UnderCursor(b, L, saved, x) == saved = b[x] \/ x \in L

DrawInv ==
  /\ DOMAIN back = Row /\ DOMAIN screen = Row /\ dirty \in Marks
  /\ cursor = [visible |-> cursor.visible, x |-> cursor.x, saved |-> cursor.saved]
  /\ cursor.x \in Row /\ cursor.visible \in BOOLEAN /\ stale \in BOOLEAN
  /\ Covers(screen, back, Span(dirty) \cup loose, cursor.visible, cursor.x)
  /\ cursor.visible /\ ~stale => UnderCursor(back, Span(dirty) \cup loose, cursor.saved, cursor.x)

\* DirtyRect::mark keeps what was marked and adds the new interval.
LEMMA MarkIs ==
  ASSUME NEW d \in Marks, NEW lo \in Nat, NEW hi \in Nat
  PROVE  /\ Mark(d, lo, hi) \in Marks /\ Span(d) \subseteq Span(Mark(d, lo, hi))
         /\ \A c \in Row : lo <= c /\ c < hi => c \in Span(Mark(d, lo, hi))
<1>0. d.on \in BOOLEAN /\ d.lo \in Nat /\ d.hi \in Nat
  BY DEF Marks
<1>r. \A c \in Row : c \in Int
  BY DEF Row
<1>1. CASE lo = hi
  BY <1>0, <1>1, <1>r DEF Mark
<1>2. CASE lo # hi /\ ~d.on
  <2> DEFINE m == [on |-> TRUE, lo |-> lo, hi |-> hi]
  <2>1. Mark(d, lo, hi) = m /\ m \in Marks /\ m.on /\ m.lo = lo /\ m.hi = hi
    BY <1>2 DEF Mark, Marks
  <2> HIDE DEF m
  <2> QED  BY <1>2, <2>1 DEF Span
<1>3. CASE lo # hi /\ d.on
  <2> DEFINE m == [on |-> TRUE, lo |-> Lower(d.lo, lo), hi |-> Higher(d.hi, hi)]
  <2>0. /\ Lower(d.lo, lo) \in Nat /\ Lower(d.lo, lo) <= d.lo /\ Lower(d.lo, lo) <= lo
        /\ Higher(d.hi, hi) \in Nat /\ d.hi <= Higher(d.hi, hi) /\ hi <= Higher(d.hi, hi)
    BY <1>0 DEF Lower, Higher
  <2>1. Mark(d, lo, hi) = m /\ m \in Marks /\ m.on /\ m.lo = Lower(d.lo, lo) /\ m.hi = Higher(d.hi, hi)
    BY <1>3, <2>0 DEF Mark, Marks
  <2> HIDE DEF m
  <2>2. \A c \in Row : (d.lo <= c /\ c < d.hi) \/ (lo <= c /\ c < hi) => m.lo <= c /\ c < m.hi
    BY <1>0, <1>r, <2>0, <2>1
  <2> QED  BY <1>3, <2>1, <2>2 DEF Span
<1> QED  BY <1>0, <1>1, <1>2, <1>3

\* The black screen at the start.
LEMMA DrawInitInv == DeskInit => DrawInv
<1> SUFFICES ASSUME DeskInit PROVE DrawInv
  OBVIOUS
<1>1. 0 \in Row /\ Clean \in Marks
  BY DeskAssumption DEF Row, Clean, Marks
<1> QED  BY <1>1 DEF DeskInit, DrawInv, Covers

\* A redraw of everything: present_all, and the cursor again.
LEMMA RedrawKeeps ==
  ASSUME DrawInv, DOMAIN back' = Row, Redrawn(back', back'), dirty' = Clean, loose' = {}
  PROVE  DrawInv'
<1>0. /\ cursor = [visible |-> cursor.visible, x |-> cursor.x, saved |-> cursor.saved]
      /\ cursor.x \in Row /\ cursor.visible \in BOOLEAN /\ stale \in BOOLEAN
  BY DEF DrawInv
<1>1. dirty' \in Marks
  BY DEF Clean, Marks
<1>2. CASE cursor.visible
  <2>1. screen' = CursorOn(back', cursor.x) /\ cursor' = [cursor EXCEPT !.saved = back'[cursor.x]] /\ stale' = FALSE
    BY <1>2 DEF Redrawn
  <2>2. cursor' = [visible |-> cursor.visible, x |-> cursor.x, saved |-> back'[cursor.x]]
    BY <1>0, <2>1
  <2>3. cursor'.visible = cursor.visible /\ cursor'.x = cursor.x /\ cursor'.saved = back'[cursor.x]
    BY <2>2
  <2>4. DOMAIN screen' = Row /\ \A c \in Row : screen'[c] # back'[c] => c = cursor.x
    BY <2>1 DEF CursorOn
  <2> QED  BY <1>0, <1>1, <1>2, <2>1, <2>2, <2>3, <2>4 DEF DrawInv, Covers, UnderCursor
<1>3. CASE ~cursor.visible
  <2>1. screen' = back' /\ cursor' = cursor /\ stale' = stale
    BY <1>3 DEF Redrawn
  <2> QED  BY <1>0, <1>1, <1>3, <2>1 DEF DrawInv, Covers
<1> QED  BY <1>0, <1>2, <1>3

\* Something is drawn into the back buffer, and every cell of it is accounted for.
LEMMA DeskFillKeeps ==
  ASSUME DrawInv, NEW lo \in Nat, NEW hi \in Nat, NEW ink, back' = Fill(back, lo, hi, ink),
         dirty' \in Marks, screen' = screen, cursor' = cursor, stale' = stale,
         Span(dirty) \cup loose \subseteq Span(dirty') \cup loose',
         \A c \in Row : lo <= c /\ c < hi => c \in Span(dirty') \cup loose'
  PROVE  DrawInv'
<1> DEFINE L == Span(dirty) \cup loose
           M == Span(dirty') \cup loose'
<1>0. /\ cursor = [visible |-> cursor.visible, x |-> cursor.x, saved |-> cursor.saved]
      /\ cursor.x \in Row /\ cursor.visible \in BOOLEAN /\ stale \in BOOLEAN
      /\ DOMAIN screen = Row /\ Covers(screen, back, L, cursor.visible, cursor.x)
      /\ cursor.visible /\ ~stale => UnderCursor(back, L, cursor.saved, cursor.x)
  BY DEF DrawInv
<1>1. DOMAIN back' = Row /\ \A c \in Row : back'[c] = back[c] \/ c \in M
  BY DEF Fill
<1>2. L \subseteq M
  OBVIOUS
<1>3. DrawInv' =
        (/\ DOMAIN back' = Row /\ DOMAIN screen' = Row /\ dirty' \in Marks
         /\ cursor' = [visible |-> cursor'.visible, x |-> cursor'.x, saved |-> cursor'.saved]
         /\ cursor'.x \in Row /\ cursor'.visible \in BOOLEAN /\ stale' \in BOOLEAN
         /\ Covers(screen', back', M, cursor'.visible, cursor'.x)
         /\ cursor'.visible /\ ~stale' => UnderCursor(back', M, cursor'.saved, cursor'.x))
  BY DEF DrawInv
<1> HIDE DEF L, M
<1>4. Covers(screen, back', M, cursor.visible, cursor.x)
  BY <1>0, <1>1, <1>2 DEF Covers
<1>5. cursor.visible /\ ~stale => UnderCursor(back', M, cursor.saved, cursor.x)
  BY <1>0, <1>1, <1>2 DEF UnderCursor
<1> QED  BY <1>0, <1>1, <1>3, <1>4, <1>5

\* OPCODE_CLEAR, _RECT, _LINE and _CIRCLE.
LEMMA DrawKeeps ==
  ASSUME DrawInv, NEW lo \in Nat, NEW hi \in Nat, NEW ink, DrawRequest(lo, hi, ink)
  PROVE  DrawInv'
<1>0. dirty \in Marks
  BY DEF DrawInv
<1>1. screen' = screen /\ cursor' = cursor /\ stale' = stale /\ loose' = loose
  BY DEF DrawRequest
<1>2. CASE lo < hi /\ hi <= Cells
  <2>1. back' = Fill(back, lo, hi, ink) /\ dirty' = Mark(dirty, lo, hi)
    BY <1>2 DEF DrawRequest
  <2>2. /\ dirty' \in Marks /\ Span(dirty) \subseteq Span(dirty')
        /\ \A c \in Row : lo <= c /\ c < hi => c \in Span(dirty')
    BY <1>0, <2>1, MarkIs
  <2> QED  BY <1>1, <2>1, <2>2, DeskFillKeeps
<1>3. CASE ~(lo < hi /\ hi <= Cells)
  <2>1. back' = back /\ dirty' = dirty
    BY <1>3 DEF DrawRequest
  <2> QED  BY <1>1, <2>1 DEF DrawInv, Covers, UnderCursor, Span
<1> QED  BY <1>2, <1>3

\* OPCODE_TEXT: what draw_text does not mark is behind DirtyRect's back.
LEMMA TextKeeps ==
  ASSUME DrawInv, NEW lo \in Nat, NEW hi \in Nat, NEW last \in Nat, NEW off \in BOOLEAN, NEW ink,
         TextRequest(lo, hi, last, off, ink)
  PROVE  DrawInv'
<1>0. dirty \in Marks /\ TextEnd(last) \in Nat /\ \A c \in Row : c \in Nat
  BY DeskAssumption DEF DrawInv, TextEnd, Lower, Row
<1>1. screen' = screen /\ cursor' = cursor /\ stale' = stale /\ back' = Fill(back, lo, hi, ink)
  BY DEF TextRequest
<1>2. CASE ~off
  <2>1. /\ dirty' = Mark(dirty, lo, TextEnd(last))
        /\ loose' = loose \cup {c \in Row : TextEnd(last) <= c /\ c < hi}
    BY <1>2 DEF TextRequest
  <2>2. /\ dirty' \in Marks /\ Span(dirty) \subseteq Span(dirty')
        /\ \A c \in Row : lo <= c /\ c < TextEnd(last) => c \in Span(dirty')
    BY <1>0, <2>1, MarkIs
  <2>3. \A c \in Row : lo <= c /\ c < hi => c \in Span(dirty') \cup loose'
    BY <1>0, <2>1, <2>2
  <2>4. Span(dirty) \cup loose \subseteq Span(dirty') \cup loose'
    BY <2>1, <2>2
  <2> QED  BY <1>1, <2>2, <2>3, <2>4, DeskFillKeeps
<1>3. CASE off
  <2>1. loose' = loose \cup {c \in Row : lo <= c} /\ dirty' = dirty
    BY <1>3 DEF TextRequest
  <2>2. \A c \in Row : lo <= c /\ c < hi => c \in Span(dirty') \cup loose'
    BY <2>1
  <2>3. Span(dirty) \cup loose \subseteq Span(dirty') \cup loose'
    BY <2>1
  <2> QED  BY <1>0, <1>1, <2>1, <2>2, <2>3, DeskFillKeeps
<1> QED  BY <1>2, <1>3

\* OPCODE_PRESENT: the dirty interval goes to the screen.
LEMMA PresentKeeps ==
  ASSUME DrawInv, PresentRequest
  PROVE  DrawInv'
<1> DEFINE D == Span(dirty)
           s == Blitted(back, dirty)
<1>0. /\ cursor = [visible |-> cursor.visible, x |-> cursor.x, saved |-> cursor.saved]
      /\ cursor.x \in Row /\ cursor.visible \in BOOLEAN /\ stale \in BOOLEAN
      /\ DOMAIN back = Row /\ Covers(screen, back, D \cup loose, cursor.visible, cursor.x)
  BY DEF DrawInv
<1>1. back' = back /\ loose' = loose \ D /\ dirty' = Clean /\ Redrawn(s, back)
  BY DEF PresentRequest
<1>2. dirty' \in Marks /\ Span(dirty') = {}
  BY <1>1 DEF Clean, Marks, Span
<1>3. DOMAIN s = Row /\ Covers(s, back, loose \ D, cursor.visible, cursor.x)
  BY <1>0 DEF Blitted, Covers
<1> HIDE DEF s, D
<1>4. CASE cursor.visible
  <2>1. screen' = CursorOn(s, cursor.x) /\ cursor' = [cursor EXCEPT !.saved = back[cursor.x]] /\ stale' = FALSE
    BY <1>1, <1>4 DEF Redrawn
  <2>2. cursor' = [visible |-> cursor.visible, x |-> cursor.x, saved |-> back[cursor.x]]
    BY <1>0, <2>1
  <2>3. cursor'.visible = cursor.visible /\ cursor'.x = cursor.x /\ cursor'.saved = back[cursor.x]
    BY <2>2
  <2>4. DOMAIN screen' = Row /\ Covers(screen', back, loose \ D, cursor.visible, cursor.x)
    BY <1>3, <1>4, <2>1 DEF CursorOn, Covers
  <2> QED  BY <1>0, <1>1, <1>2, <1>4, <2>1, <2>2, <2>3, <2>4 DEF DrawInv, Covers, UnderCursor
<1>5. CASE ~cursor.visible
  <2>1. screen' = s /\ cursor' = cursor /\ stale' = stale
    BY <1>1, <1>5 DEF Redrawn
  <2> QED  BY <1>0, <1>1, <1>2, <1>3, <1>5, <2>1 DEF DrawInv, Covers
<1> QED  BY <1>0, <1>4, <1>5

\* update_mouse and update_cursor: everything again, or what was under the cursor.
LEMMA MouseKeeps ==
  ASSUME DrawInv, NEW x \in Row, NEW down \in BOOLEAN, NEW slid \in BOOLEAN, MouseReport(x, down, slid)
  PROVE  DrawInv'
<1> DEFINE L == Span(dirty) \cup loose
<1>0. /\ cursor.x \in Row /\ cursor.visible \in BOOLEAN /\ stale \in BOOLEAN /\ dirty \in Marks
      /\ DOMAIN screen = Row /\ DOMAIN back = Row
      /\ Covers(screen, back, L, cursor.visible, cursor.x)
      /\ cursor.visible /\ ~stale => UnderCursor(back, L, cursor.saved, cursor.x)
  BY DEF DrawInv
<1>1. cursor' = [visible |-> TRUE, x |-> x, saved |-> back'[x]] /\ stale' = FALSE
  BY DEF MouseReport
<1>2. PICK redraw \in BOOLEAN :
        /\ back' = IF redraw THEN Composed(wins', bar) ELSE back
        /\ dirty' = IF redraw THEN Clean ELSE dirty
        /\ loose' = IF redraw THEN {} ELSE IF cursor.visible /\ stale THEN loose \cup {cursor.x} ELSE loose
        /\ screen' = CursorOn(IF redraw THEN Composed(wins', bar)
                              ELSE IF cursor.visible THEN Uncovered(screen) ELSE screen, x)
  BY <1>0 DEF MouseReport
<1>3. cursor'.visible /\ cursor'.x = x /\ cursor'.saved = back'[x]
  BY <1>1
<1>4. CASE redraw
  <2>1. /\ back' = Composed(wins', bar) /\ dirty' = Clean /\ loose' = {}
        /\ screen' = CursorOn(back', x)
    BY <1>2, <1>4
  <2>2. DOMAIN back' = Row /\ dirty' \in Marks
    BY <2>1 DEF Composed, Clean, Marks
  <2>3. DOMAIN screen' = Row /\ \A c \in Row : screen'[c] # back'[c] => c = x
    BY <2>1, <2>2 DEF CursorOn
  <2> QED  BY <1>1, <1>3, <2>2, <2>3 DEF DrawInv, Covers, UnderCursor
<1>5. CASE ~redraw
  <2> DEFINE r == IF cursor.visible THEN Uncovered(screen) ELSE screen
             M == Span(dirty') \cup loose'
  <2>1. /\ back' = back /\ dirty' = dirty /\ screen' = CursorOn(r, x)
        /\ loose' = IF cursor.visible /\ stale THEN loose \cup {cursor.x} ELSE loose
    BY <1>2, <1>5
  <2>2. L \subseteq M /\ (cursor.visible /\ stale => cursor.x \in M)
    BY <2>1 DEF Span
  <2>3. DOMAIN r = Row /\ \A c \in Row : r[c] # back[c] => c \in M
    <3> HIDE DEF L, M
    <3>1. CASE cursor.visible
      <4>1. /\ r = Uncovered(screen) /\ DOMAIN r = Row /\ r[cursor.x] = cursor.saved
            /\ \A c \in Row : c # cursor.x => r[c] = screen[c]
        BY <1>0, <3>1 DEF Uncovered
      <4>2. r[cursor.x] = back[cursor.x] \/ cursor.x \in M
        BY <1>0, <2>2, <3>1, <4>1 DEF UnderCursor
      <4> QED  BY <1>0, <2>2, <4>1, <4>2 DEF Covers
    <3>2. CASE ~cursor.visible
      BY <1>0, <2>2, <3>2 DEF Covers
    <3> QED  BY <1>0, <3>1, <3>2
  <2> HIDE DEF r, L, M
  <2>4. DOMAIN screen' = Row /\ \A c \in Row : screen'[c] # back'[c] => c \in M \/ c = x
    BY <2>1, <2>3 DEF CursorOn
  <2> QED  BY <1>0, <1>1, <1>3, <2>1, <2>4 DEF DrawInv, Covers, UnderCursor, M
<1> QED  BY <1>2, <1>4, <1>5

\* Every handler of gui_loop keeps the account of what was drawn.
LEMMA DrawInvKeeps ==
  ASSUME DrawInv, DeskStep \/ UNCHANGED deskVars
  PROVE  DrawInv'
<1>a. ASSUME NothingDrawn PROVE DrawInv'
  BY <1>a DEF NothingDrawn, DrawInv, Covers, UnderCursor, Span
<1>c. \A ws, shown : DOMAIN Composed(ws, shown) = Row /\ DOMAIN WithHud(Composed(ws, shown)) = Row
  BY DEF Composed, WithHud
<1>1. CASE UNCHANGED deskVars
  BY <1>1, <1>a DEF deskVars, NothingDrawn
<1>2. CASE TaskbarKey
  BY <1>2, <1>c, RedrawKeeps DEF TaskbarKey
<1>3. CASE TaskbarExit
  <2>1. /\ screen' = [c \in Row |-> "console"] /\ loose' = Row /\ stale' = TRUE
        /\ back' = back /\ dirty' = dirty /\ cursor' = cursor
    BY <1>3 DEF TaskbarExit
  <2> QED  BY <2>1 DEF DrawInv, Covers
<1>4. CASE PresentRequest
  BY <1>4, PresentKeeps
<1>s. ASSUME ShowHud PROVE DrawInv'
  BY <1>s, <1>c, RedrawKeeps DEF ShowHud
<1>5. CASE HudTick
  BY <1>5, <1>s DEF HudTick
<1>6. CASE WindowPresent
  <2>1. /\ screen' = back' /\ dirty' = Clean /\ stale' = cursor.visible
        /\ DOMAIN back' = Row /\ cursor' = cursor
    BY <1>6, <1>c DEF WindowPresent
  <2>2. Clean \in Marks
    BY DEF Clean, Marks
  <2> QED  BY <2>1, <2>2 DEF DrawInv, Covers
<1>7. ASSUME NEW on \in BOOLEAN, HudRequest(on) PROVE DrawInv'
  BY <1>7, <1>a, <1>s DEF HudRequest
<1>8. ASSUME NEW wide \in BOOLEAN, NEW high \in BOOLEAN, WindowCreate(wide, high) PROVE DrawInv'
  BY <1>8, <1>a DEF WindowCreate
<1>9. ASSUME NEW e \in Extents, NEW ink \in Inks,
             \/ DrawRequest(e[1], e[2], ink)
             \/ \E off \in BOOLEAN, last \in {e[1], e[2]} : TextRequest(e[1], e[2], last, off, ink)
      PROVE  DrawInv'
  BY <1>9, DeskAssumption, DrawKeeps, TextKeeps
<1>10. ASSUME NEW id \in 1..MaxWindows,
              \/ WindowClose(id)
              \/ \E x \in Row : WindowMove(id, x)
              \/ \E ink \in Inks : WindowDraw(id, ink)
       PROVE  DrawInv'
  BY <1>10, <1>a DEF WindowClose, WindowMove, WindowDraw
<1>13. ASSUME NEW x \in Row, NEW down \in BOOLEAN, NEW slid \in BOOLEAN, MouseReport(x, down, slid) PROVE DrawInv'
  BY <1>13, MouseKeeps
<1> QED
  BY <1>1, <1>2, <1>3, <1>4, <1>5, <1>6, <1>7, <1>8, <1>9, <1>10, <1>13 DEF DeskStep

-----------------------------------------------------------------------------
(* The programs together.  A step is one program's, and leaves the others'  *)
(* variables alone, so the parts of UserInv are inductive one by one.       *)

UserInv ==
  /\ EntryInv /\ FutexInv /\ ServicesInv /\ ClientInv /\ ConsoleInv
  /\ StackInv /\ DrawInv

\* At boot.
LEMMA UserInitInv == Init => UserInv
BY EntryInitInv, FutexInitInv, ServicesInitInv, ClientInitInv, ConsoleInitInv, StackInitInv, DrawInitInv
   DEF Init, UserInit, UserInv

\* A step of Machine is, for each program, a step of that program or none.
LEMMA OneAtATime ==
  ASSUME [Next]_vars
  PROVE  /\ EntryStep \/ UNCHANGED entryVars
         /\ FutexStep \/ UNCHANGED futexVars
         /\ ServicesStep \/ UNCHANGED svcVars
         /\ ClientStep \/ UNCHANGED clientVars
         /\ ConsoleStep \/ UNCHANGED consoleVars
         /\ DeskStep \/ UNCHANGED deskVars
<1>1. UserNext \/ UNCHANGED userVars
  BY DEF Next, Boot, vars
<1>2. CASE UNCHANGED userVars
  BY <1>2 DEF userVars
<1>3. CASE UserNext
  BY <1>3 DEF UserNext
<1> QED  BY <1>1, <1>2, <1>3

\* Every step of every program and of every device keeps all parts.
LEMMA UserKeeps == UserInv /\ [Next]_vars => UserInv'
<1> SUFFICES ASSUME UserInv, [Next]_vars PROVE UserInv'
  OBVIOUS
<1>0. EntryInv /\ FutexInv /\ ServicesInv /\ ClientInv /\ ConsoleInv /\ StackInv /\ DrawInv
  BY DEF UserInv
<1>1. EntryInv'
  BY <1>0, OneAtATime, EntryKeeps
<1>2. FutexInv'
  BY <1>0, OneAtATime, FutexKeeps
<1>3. ServicesInv'
  BY <1>0, OneAtATime, ServicesKeep
<1>4. ClientInv'
  BY <1>0, OneAtATime, ClientKeeps
<1>5. ConsoleInv'
  BY <1>0, OneAtATime, ConsoleKeeps
<1>6. StackInv'
  BY <1>0, OneAtATime, StackKeeps
<1>7. DrawInv'
  BY <1>0, OneAtATime, DrawInvKeeps
<1> QED  BY <1>1, <1>2, <1>3, <1>4, <1>5, <1>6, <1>7 DEF UserInv

\* The inductive invariant holds in every reachable state.
THEOREM UserInvariant == Spec => []UserInv
BY UserInitInv, UserKeeps, PTL DEF Spec

\* For any number of tasks, addresses and services: a task leaves ring 3 on the stack
\* it entered from (jump_to_usermode, exit_usermode and the backups a switch makes),
\* every sleeper is in FUTEX_TABLE once and under its own key, and init never runs two
\* instances of a service or loses the id of the one it runs.
THEOREM TasksAreSound == Spec => []TasksSound
<1>1. UserInv => TasksSound
  BY FutexInvIs DEF UserInv, TasksSound, EntryInv, ServicesInv
<1> QED  BY <1>1, UserInvariant, PTL

\* A message that GuiClient accepts has the opcode it sent, whoever sent it; one of the
\* GUI service is behind the call by no more calls than ended before at their timeout or
\* with a message of another task (call() does not look at the sender).
THEOREM RepliesAreOwn == Spec => []OwnReply
<1>1. UserInv => OwnReply
  BY DEF UserInv, ClientInv
<1> QED  BY <1>1, UserInvariant, PTL

\* For any screen, any number of readers, threads, keys and windows: the keyboard is left
\* with no ended task but a thread that went with its process, keys arrive once and in
\* the order typed, one at most to a reader that lost the focus between check and read,
\* the windows are stacked with the active one on top, and what differs from the back
\* buffer on the screen is in the dirty rectangle, under the cursor, or one of the four
\* things gui.rs changes behind DirtyRect.
THEOREM DeskIsSound == Spec => []DeskSound
<1>1. DrawInv => DirtyCovers
  BY DEF DrawInv, Covers, DirtyCovers
<1>2. UserInv => DeskSound
  BY <1>1, ConsoleInvIs, StackInvIs DEF UserInv, DeskSound
<1> QED  BY <1>2, UserInvariant, PTL

-----------------------------------------------------------------------------
(* Numbers.                                                                *)

\* The smaller of two numbers.
Smaller(a, b) == IF a <= b THEN a ELSE b

\* cmp::min()
LEMMA MinOfTwo ==
  ASSUME NEW a \in Int, NEW b \in Int
  PROVE  Min({a, b}) = Smaller(a, b)
<1> DEFINE T == {a, b}
           m == Min(T)
<1>1. \E x \in T : \A y \in T : x <= y
  BY DEF Smaller
<1>2. m \in T /\ \A y \in T : m <= y
  <2> HIDE DEF T
  <2> QED  BY <1>1 DEF Min
<1> HIDE DEF m
<1> QED  BY <1>2 DEF Smaller, m

\* An index into a ring of n entries that has come round at most once.
Wrapped(x, n) == IF x < n THEN x ELSE x - n

LEMMA WrapOnce ==
  ASSUME NEW n \in Nat \ {0}, NEW x \in 0 .. 2 * n - 1
  PROVE  x % n = Wrapped(x, n) /\ Wrapped(x, n) \in 0 .. n - 1
<1>1. CASE x < n
  BY <1>1 DEF Wrapped
<1>2. CASE x >= n
  BY <1>2 DEF Wrapped
<1> QED  BY <1>1, <1>2

\* One place further on, from either of two ends.
LEMMA WrapNext ==
  ASSUME NEW n \in Nat \ {0}, NEW c \in 0 .. n - 1, NEW i \in 0 .. n - 1, NEW j \in 0 .. n - 1, j = i + 1
  PROVE  /\ Wrapped(Wrapped(c + i, n) + 1, n) = Wrapped(c + j, n)
         /\ Wrapped(Wrapped(c + 1, n) + i, n) = Wrapped(c + j, n)
BY DEF Wrapped

\* Two places of a ring are the same place.
LEMMA WrapIsOne ==
  ASSUME NEW n \in Nat \ {0}, NEW c \in 0 .. n - 1, NEW i \in 0 .. n - 1, NEW j \in 0 .. n - 1,
         Wrapped(c + i, n) = Wrapped(c + j, n)
  PROVE  i = j
BY DEF Wrapped

\* More of a positive number is more.
LEMMA TimesGrows ==
  ASSUME NEW p \in Nat, NEW a \in Nat, NEW b \in Nat, a <= b
  PROVE  a * p <= b * p /\ a * p \in Nat /\ b * p \in Nat /\ (a + 1) * p = a * p + p
OBVIOUS

-----------------------------------------------------------------------------
(* The sound card.                                                         *)

\* Samples of a tone of t in its buffer i.
Portion(t, i) == Smaller(PerBuffer, t - i * PerBuffer)

\* play_tone() needs one buffer at least, fills none without need, and leaves samples
\* out only when it uses the whole ring.
LEMMA BuffersNeeded ==
  ASSUME NEW t \in Nat \ {0}
  PROVE  LET q == Min({(t + PerBuffer - 1) \div PerBuffer, Entries})
         IN  /\ q \in 1 .. Entries
             /\ \A i \in Nat : i < q => i * PerBuffer < t
             /\ q < Entries => t <= q * PerBuffer
<1> DEFINE d == (t + PerBuffer - 1) \div PerBuffer
           q == Min({d, Entries})
<1>0. PerBuffer \in Nat \ {0} /\ Entries \in Nat \ {0}
  BY SoundAssumption
<1>1. d \in Nat /\ d * PerBuffer <= t + PerBuffer - 1 /\ t + PerBuffer - 1 < d * PerBuffer + PerBuffer
  BY <1>0
<1> HIDE DEF d
<1>2. q = Smaller(d, Entries)
  BY <1>0, <1>1, MinOfTwo
<1>3. d >= 1
  BY <1>0, <1>1
<1> HIDE DEF q
<1>4. q \in 1 .. Entries
  BY <1>0, <1>1, <1>2, <1>3 DEF Smaller
<1>5. ASSUME NEW i \in Nat, i < q PROVE i * PerBuffer < t
  <2>1. i + 1 <= d /\ i + 1 \in Nat
    BY <1>0, <1>1, <1>2, <1>5 DEF Smaller
  <2>2. (i + 1) * PerBuffer <= d * PerBuffer /\ i * PerBuffer \in Nat /\ d * PerBuffer \in Nat
    BY <1>0, <1>1, <2>1, TimesGrows
  <2>3. (i + 1) * PerBuffer = i * PerBuffer + PerBuffer
    BY <1>0, TimesGrows
  <2> QED  BY <1>0, <1>1, <2>2, <2>3
<1>6. q < Entries => t <= q * PerBuffer
  <2> SUFFICES ASSUME q < Entries PROVE t <= d * PerBuffer
    BY <1>0, <1>1, <1>2 DEF Smaller
  <2>1. d * PerBuffer \in Nat
    BY <1>0, <1>1, TimesGrows
  <2> QED  BY <1>0, <1>1, <2>1
<1> QED  BY <1>4, <1>5, <1>6 DEF q, d

Tones == [n : Nat, total : Nat, left : Int, at : Nat, st : {"idle", "fill", "wait"}]
Engines == [run : BOOLEAN, lvi : Int, civ : Int, done : BOOLEAN]

SndTypeOK ==
  /\ bdl \in [0 .. Entries - 1 -> [samples : Int, tone : Nat]]
  /\ tone \in Tones
  /\ engine \in Engines

\* The first n buffers hold the beginning of the tone.
Filled(n) ==
  \A i \in 0 .. n - 1 :
    bdl[i].tone = tone.n /\ bdl[i].samples = Portion(tone.total, i)

\* The loop over the buffers has filled those before `at' and knows what is left; the
\* engine runs over filled buffers, and over nothing once the call has returned.
SndInv ==
  /\ SndTypeOK
  /\ tone.st # "idle" => tone.total > 0
  /\ tone.st = "fill" =>
       /\ tone.at <= NumBuffers
       /\ tone.at < NumBuffers => tone.left = tone.total - tone.at * PerBuffer
       /\ Filled(tone.at)
  /\ engine.run => tone.st = "wait" /\ engine.lvi = NumBuffers - 1 /\ Filled(NumBuffers)

\* At boot.
LEMMA SndInitInv == SndInit => SndInv
<1> SUFFICES ASSUME SndInit PROVE SndInv
  OBVIOUS
<1>1. Entries \in Nat \ {0}
  BY SoundAssumption
<1> QED  BY <1>1 DEF SndInit, SndInv, SndTypeOK, Tones, Engines

\* The next buffer: it takes what its place in the tone asks for.
LEMMA SoundFillKeeps ==
  ASSUME SndInv, FillBuffer
  PROVE  SndInv'
<1> DEFINE at == tone.at
           n == Min({tone.left, PerBuffer})
<1>0. PerBuffer \in Nat \ {0} /\ Entries \in Nat \ {0}
  BY SoundAssumption
<1>1. /\ tone.st = "fill" /\ at < NumBuffers /\ UNCHANGED engine
      /\ bdl' = [bdl EXCEPT ![at] = [samples |-> n, tone |-> tone.n]]
      /\ tone' = [tone EXCEPT !.left = @ - n, !.at = @ + 1]
  BY DEF FillBuffer
<1>2. SndTypeOK /\ tone.total > 0 /\ Filled(tone.at) /\ ~engine.run
      /\ tone.left = tone.total - at * PerBuffer
  BY <1>1 DEF SndInv
<1>3. tone.total \in Nat \ {0} /\ at \in Nat /\ tone.left \in Int /\ tone.n \in Nat
  BY <1>2 DEF SndTypeOK, Tones, Engines
<1>4. n = Smaller(tone.left, PerBuffer) /\ n \in Int
  BY <1>0, <1>3, MinOfTwo DEF Smaller
<1> HIDE DEF n
<1>5. /\ NumBuffers \in 1 .. Entries
      /\ \A i \in Nat : i < NumBuffers => i * PerBuffer < tone.total
  BY <1>3, BuffersNeeded DEF NumBuffers
<1>6. at * PerBuffer \in Nat /\ (at + 1) * PerBuffer = at * PerBuffer + PerBuffer
  BY <1>0, <1>3, TimesGrows
<1>7. /\ tone'.n = tone.n /\ tone'.total = tone.total /\ tone'.st = "fill"
      /\ tone'.at = at + 1 /\ tone'.left = tone.left - n
      /\ tone' \in Tones
  <2>1. tone \in Tones
    BY <1>2 DEF SndTypeOK
  <2>2. tone' = [tone EXCEPT !.left = tone.left - n, !.at = at + 1]
    BY <1>1
  <2>3. tone.left - n \in Int /\ at + 1 \in Nat
    BY <1>3, <1>4
  <2> QED  BY <1>1, <2>1, <2>2, <2>3 DEF Tones
<1>8. NumBuffers' = NumBuffers
  BY <1>7 DEF NumBuffers
<1>9. at \in 0 .. Entries - 1
  BY <1>0, <1>1, <1>3, <1>5
<1>10. bdl' \in [0 .. Entries - 1 -> [samples : Int, tone : Nat]]
  BY <1>1, <1>2, <1>3, <1>4, <1>9 DEF SndTypeOK, Tones, Engines
<1>11. Filled(tone.at)'
  <2> SUFFICES ASSUME NEW i \in 0 .. at
               PROVE  bdl'[i].tone = tone.n /\ bdl'[i].samples = Portion(tone.total, i)
    <3>1. tone'.at - 1 = at
      BY <1>3, <1>7
    <3> QED  BY <1>7, <3>1 DEF Filled
  <2>1. CASE i = at
    <3>1. bdl'[i] = [samples |-> n, tone |-> tone.n]
      BY <1>1, <1>2, <1>9, <2>1 DEF SndTypeOK, Tones, Engines
    <3>2. n = Portion(tone.total, i)
      BY <1>0, <1>2, <1>3, <1>4, <1>6, <2>1 DEF Portion, Smaller
    <3> QED  BY <3>1, <3>2
  <2>2. CASE i # at
    <3>1. i \in 0 .. at - 1 /\ i \in 0 .. Entries - 1
      <4> HIDE DEF at
      <4> QED  BY <1>0, <1>3, <1>9, <2>2
    <3>2. bdl'[i] = bdl[i]
      BY <1>1, <1>2, <2>2, <3>1 DEF SndTypeOK, Tones, Engines
    <3> QED  BY <1>2, <3>1, <3>2 DEF Filled
  <2> QED  BY <2>1, <2>2
<1>12. at + 1 < NumBuffers => tone'.left = tone.total - (at + 1) * PerBuffer
  <2> SUFFICES ASSUME at + 1 < NumBuffers PROVE tone.left - n = tone.total - (at + 1) * PerBuffer
    BY <1>7
  <2>1. (at + 1) * PerBuffer < tone.total
    BY <1>3, <1>5
  <2> QED  BY <1>0, <1>2, <1>3, <1>4, <1>6, <2>1 DEF Smaller
<1>13. at + 1 <= NumBuffers
  BY <1>1, <1>3, <1>5
<1>14. SndTypeOK'
  BY <1>1, <1>2, <1>7, <1>10 DEF SndTypeOK
<1> HIDE DEF at
<1>15. tone.at = at
  BY DEF at
<1> QED  BY <1>1, <1>2, <1>7, <1>8, <1>11, <1>12, <1>13, <1>14, <1>15 DEF SndInv

\* Every step of the driver and of the engine.
LEMMA SndKeeps ==
  ASSUME SndInv, SndStep \/ UNCHANGED sndVars
  PROVE  SndInv'
<1>0. SndTypeOK
  BY DEF SndInv
<1>1. CASE UNCHANGED sndVars
  BY <1>1 DEF sndVars, SndInv, SndTypeOK, Filled, NumBuffers
<1>2. ASSUME NEW total \in ToneLengths, PlayTone(total) PROVE SndInv'
  <2>1. total \in Nat \ {0} /\ ~engine.run /\ UNCHANGED <<bdl, engine>>
        /\ tone' = [n |-> tone.n + 1, total |-> total, left |-> total, at |-> 0, st |-> "fill"]
    BY <1>2, SoundAssumption DEF PlayTone, SndInv
  <2>2. SndTypeOK'
    BY <1>0, <2>1 DEF SndTypeOK, Tones, Engines
  <2>3. NumBuffers' \in 1 .. Entries
    <3>1. NumBuffers' = Min({(total + PerBuffer - 1) \div PerBuffer, Entries})
      BY <2>1 DEF NumBuffers
    <3> QED  BY <2>1, <3>1, BuffersNeeded
  <2>4. Filled(0)'
    BY DEF Filled
  <2>5. 0 * PerBuffer = 0
    BY SoundAssumption
  <2>6. 0 <= NumBuffers' /\ total = total - 0 * PerBuffer
    BY <2>1, <2>3, <2>5, SoundAssumption
  <2> QED  BY <2>1, <2>2, <2>4, <2>6 DEF SndInv
<1>3. CASE FillBuffer
  BY <1>3, SoundFillKeeps
<1>4. CASE StartEngine
  <2>1. /\ tone.st = "fill" /\ tone.at = NumBuffers /\ tone.total > 0 /\ Filled(NumBuffers)
        /\ UNCHANGED bdl /\ tone' = [tone EXCEPT !.st = "wait"]
        /\ engine' = [run |-> TRUE, lvi |-> NumBuffers - 1, civ |-> 0, done |-> FALSE]
    BY <1>4 DEF StartEngine, SndInv
  <2>2. NumBuffers \in Nat
    BY <1>0, <2>1 DEF SndTypeOK, Tones, Engines
  <2>3. SndTypeOK' /\ tone'.n = tone.n /\ tone'.total = tone.total /\ tone'.st = "wait"
    BY <1>0, <2>1, <2>2 DEF SndTypeOK, Tones, Engines
  <2>4. NumBuffers' = NumBuffers
    BY <2>3 DEF NumBuffers
  <2>5. Filled(NumBuffers)'
    BY <2>1, <2>3, <2>4 DEF Filled
  <2> QED  BY <2>1, <2>3, <2>4, <2>5 DEF SndInv
<1>5. CASE Played
  <2>1. /\ UNCHANGED <<bdl, tone>> /\ engine.run /\ tone.st = "wait"
        /\ engine'.run = engine.run /\ engine'.lvi = engine.lvi
        /\ engine' \in Engines
    <3>1. UNCHANGED <<bdl, tone>> /\ engine.run /\ tone.st = "wait" /\ engine \in Engines
      BY <1>0, <1>5 DEF Played, SndInv, SndTypeOK
    <3>2. engine' = [engine EXCEPT !.done = TRUE] \/ engine' = [engine EXCEPT !.civ = engine.civ + 1]
      BY <1>5 DEF Played
    <3>3. CASE engine' = [engine EXCEPT !.done = TRUE]
      BY <3>1, <3>3 DEF Engines
    <3>4. CASE engine' = [engine EXCEPT !.civ = engine.civ + 1]
      <4>1. engine.civ + 1 \in Int
        BY <3>1 DEF Engines
      <4> QED  BY <3>1, <3>4, <4>1 DEF Engines
    <3> QED  BY <3>1, <3>2, <3>3, <3>4
  <2>2. NumBuffers' = NumBuffers
    BY <2>1 DEF NumBuffers
  <2> QED  BY <2>1, <2>2 DEF SndInv, SndTypeOK, Filled
<1>6. CASE StopEngine
  <2>1. /\ UNCHANGED bdl /\ tone'.st = "idle" /\ ~engine'.run
        /\ tone' \in Tones
        /\ engine' \in Engines
    <3>1. UNCHANGED bdl /\ tone' = [tone EXCEPT !.st = "idle"]
          /\ engine' = [engine EXCEPT !.run = FALSE, !.done = FALSE]
      BY <1>6 DEF StopEngine
    <3>2. tone \in Tones /\ engine \in Engines
      BY <1>0 DEF SndTypeOK
    <3>3. tone'.st = "idle" /\ tone' \in Tones
      BY <3>1, <3>2 DEF Tones
    <3>4. ~engine'.run /\ engine' \in Engines
      BY <3>1, <3>2 DEF Engines
    <3> QED  BY <3>1, <3>3, <3>4
  <2> QED  BY <1>0, <2>1 DEF SndInv, SndTypeOK
<1> QED  BY <1>1, <1>2, <1>3, <1>4, <1>5, <1>6 DEF SndStep

\* What the engine reads is the tone, or as much of it as the ring can hold.
LEMMA SndInvIs == SndInv => BuffersOwned
<1> SUFFICES ASSUME SndInv, engine.run PROVE BuffersOwned
  BY DEF BuffersOwned
<1>0. PerBuffer \in Nat \ {0} /\ Entries \in Nat \ {0}
  BY SoundAssumption
<1>1. tone.st = "wait" /\ engine.lvi = NumBuffers - 1 /\ Filled(NumBuffers) /\ tone.total \in Nat \ {0}
  BY DEF SndInv, SndTypeOK, Tones
<1>2. /\ NumBuffers \in 1 .. Entries
      /\ \A i \in Nat : i < NumBuffers => i * PerBuffer < tone.total
      /\ NumBuffers < Entries => tone.total <= NumBuffers * PerBuffer
  BY <1>1, BuffersNeeded DEF NumBuffers
<1>3. ASSUME NEW i \in 0 .. engine.lvi
      PROVE  /\ bdl[i].tone = tone.n
             /\ bdl[i].samples = Min({PerBuffer, tone.total - i * PerBuffer})
             /\ bdl[i].samples > 0
  <2>1. i \in Nat /\ i < NumBuffers /\ i \in 0 .. NumBuffers - 1
    BY <1>1, <1>2
  <2>2. i * PerBuffer \in Nat /\ i * PerBuffer < tone.total
    BY <1>0, <1>2, <2>1, TimesGrows
  <2>3. Min({PerBuffer, tone.total - i * PerBuffer}) = Portion(tone.total, i)
    BY <1>0, <1>1, <2>2, MinOfTwo DEF Portion
  <2>4. Portion(tone.total, i) > 0
    BY <1>0, <1>1, <2>2 DEF Portion, Smaller
  <2> QED  BY <1>1, <2>1, <2>3, <2>4 DEF Filled
<1>4. engine.lvi < Entries - 1 => tone.total <= (engine.lvi + 1) * PerBuffer
  <2>1. engine.lvi + 1 = NumBuffers
    BY <1>1, <1>2
  <2> QED  BY <1>0, <1>1, <1>2, <2>1
<1> QED  BY <1>1, <1>3, <1>4 DEF BuffersOwned

-----------------------------------------------------------------------------
(* The receive rings of the network cards.                                 *)

Descriptors == 0 .. RxRing - 1
Frames == [n : Nat, good : BOOLEAN]
Rings == [avail : Seq(Descriptors), used : Seq(Descriptors), buf : [Descriptors -> Frames],
          dd : [Descriptors -> BOOLEAN], head : Descriptors, tail : Descriptors, cur : Descriptors]

RxTypeOK ==
  /\ card \in {"virtio", "e1000e"}
  /\ rx \in Rings
  /\ taken \in [at : {-1} \union Descriptors, frame : Frames]
  /\ arrived \in Seq(Frames)
  /\ delivered \in Seq(Frames)

\* Frames carry the number of their arrival.
Numbered == \A n \in 1 .. Len(arrived) : arrived[n].n = n

\* Of the first k frames that arrived the good ones are delivered, in order, and no other.
Through(k) ==
  /\ \A i \in 1 .. Len(delivered) :
       delivered[i].good /\ delivered[i].n \in 1 .. k /\ delivered[i] = arrived[delivered[i].n]
  /\ \A i, j \in 1 .. Len(delivered) : i < j => delivered[i].n < delivered[j].n
  /\ \A n \in 1 .. k : arrived[n].good => \E i \in 1 .. Len(delivered) : delivered[i].n = n

\* The frame receive_packet() has copied is the next one.
Copied(k) == taken.at # -1 => k < Len(arrived) /\ taken.frame = arrived[k + 1]

\* Frames that are copied and whose buffer has not gone back: none or one.
InHand == IF taken.at = -1 THEN 0 ELSE 1

\* Every buffer is in one place: with the card, on the used ring or with the driver.
OncePlaced ==
  /\ \A i, j \in 1 .. Len(rx.used) : i # j => rx.used[i] # rx.used[j]
  /\ \A i, j \in 1 .. Len(rx.avail) : i # j => rx.avail[i] # rx.avail[j]
  /\ \A i \in 1 .. Len(rx.used), j \in 1 .. Len(rx.avail) : rx.used[i] # rx.avail[j]
  /\ \A i \in 1 .. Len(rx.used) : rx.used[i] # taken.at
  /\ \A i \in 1 .. Len(rx.avail) : rx.avail[i] # taken.at

\* virtio: the used ring holds the frames that are neither through nor copied.
OnUsedRing(k) ==
  /\ \A i \in Descriptors : ~rx.dd[i]
  /\ Len(arrived) = k + InHand + Len(rx.used)
  /\ \A i \in 1 .. Len(rx.used) : rx.buf[rx.used[i]] = arrived[k + InHand + i]
  /\ OncePlaced

\* The descriptor i places after the driver's.
After(i) == Wrapped(rx.cur + i, RxRing)

\* e1000e: the descriptors from the driver's to the card's hold the frames that are not
\* through, and RDT is the one before the driver's, so that the card cannot catch up.
OnDescriptors(k) ==
  /\ rx.used = <<>>
  /\ Len(arrived) - k \in Descriptors
  /\ rx.head = After(Len(arrived) - k)
  /\ rx.tail = After(RxRing - 1)
  /\ \A i \in Descriptors : rx.dd[After(i)] <=> i < Len(arrived) - k
  /\ \A i \in Descriptors : i < Len(arrived) - k => rx.buf[After(i)] = arrived[k + 1 + i]
  /\ taken.at # -1 => taken.at = rx.cur

\* The driver is through with the first k frames.
NetAt(k) ==
  /\ Through(k)
  /\ Copied(k)
  /\ card = "virtio" => OnUsedRing(k)
  /\ card = "e1000e" => OnDescriptors(k)

NetInv ==
  /\ RxTypeOK
  /\ Numbered
  /\ \E k \in 0 .. Len(arrived) : NetAt(k)

Ring(a, u, b, d, h, t, c) ==
  [avail |-> a, used |-> u, buf |-> b, dd |-> d, head |-> h, tail |-> t, cur |-> c]

\* A ring has its parts, and is one when they are.
LEMMA RingIs ==
  /\ \A a \in Seq(Descriptors), u \in Seq(Descriptors), b \in [Descriptors -> Frames],
        d \in [Descriptors -> BOOLEAN], h \in Descriptors, t \in Descriptors, c \in Descriptors :
       Ring(a, u, b, d, h, t, c) \in Rings
  /\ \A r \in Rings :
       /\ r = Ring(r.avail, r.used, r.buf, r.dd, r.head, r.tail, r.cur)
       /\ r.avail \in Seq(Descriptors) /\ r.used \in Seq(Descriptors)
       /\ r.buf \in [Descriptors -> Frames] /\ r.dd \in [Descriptors -> BOOLEAN]
       /\ r.head \in Descriptors /\ r.tail \in Descriptors /\ r.cur \in Descriptors
<1> DEFINE A == Seq(Descriptors)
           B == [Descriptors -> Frames]
           D == [Descriptors -> BOOLEAN]
<1>1. Rings = [avail : A, used : A, buf : B, dd : D, head : Descriptors, tail : Descriptors, cur : Descriptors]
  BY DEF Rings
<1> HIDE DEF A, B, D
<1>2. \A a \in A, u \in A, b \in B, d \in D, h \in Descriptors, t \in Descriptors, c \in Descriptors :
        Ring(a, u, b, d, h, t, c) \in Rings
  BY <1>1 DEF Ring
<1>3. ASSUME NEW r \in Rings
      PROVE  /\ r = Ring(r.avail, r.used, r.buf, r.dd, r.head, r.tail, r.cur)
             /\ r.avail \in A /\ r.used \in A /\ r.buf \in B /\ r.dd \in D
             /\ r.head \in Descriptors /\ r.tail \in Descriptors /\ r.cur \in Descriptors
  BY <1>1 DEF Ring
<1> QED  BY <1>2, <1>3 DEF A, B, D

\* The parts of a ring that a step changes.
LEMMA RingSet ==
  ASSUME NEW a, NEW u, NEW b, NEW d, NEW h, NEW t, NEW c, NEW x
  PROVE  LET r == Ring(a, u, b, d, h, t, c)
         IN  /\ r.avail = a /\ r.used = u /\ r.buf = b /\ r.dd = d
             /\ r.head = h /\ r.tail = t /\ r.cur = c
             /\ [r EXCEPT !.avail = x] = Ring(x, u, b, d, h, t, c)
             /\ [r EXCEPT !.used = x] = Ring(a, x, b, d, h, t, c)
             /\ [r EXCEPT !.buf = x] = Ring(a, u, x, d, h, t, c)
             /\ [r EXCEPT !.dd = x] = Ring(a, u, b, x, h, t, c)
             /\ [r EXCEPT !.head = x] = Ring(a, u, b, d, x, t, c)
             /\ [r EXCEPT !.tail = x] = Ring(a, u, b, d, h, x, c)
             /\ [r EXCEPT !.cur = x] = Ring(a, u, b, d, h, t, x)
<1> DEFINE r == Ring(a, u, b, d, h, t, c)
<1>1. /\ r.avail = a /\ r.used = u /\ r.buf = b /\ r.dd = d
      /\ r.head = h /\ r.tail = t /\ r.cur = c
  BY DEF Ring
<1>2. [r EXCEPT !.avail = x] = Ring(x, u, b, d, h, t, c)
  BY DEF Ring
<1>3. [r EXCEPT !.used = x] = Ring(a, x, b, d, h, t, c)
  BY DEF Ring
<1>4. [r EXCEPT !.buf = x] = Ring(a, u, x, d, h, t, c)
  BY DEF Ring
<1>5. [r EXCEPT !.dd = x] = Ring(a, u, b, x, h, t, c)
  BY DEF Ring
<1>6. [r EXCEPT !.head = x] = Ring(a, u, b, d, x, t, c)
  BY DEF Ring
<1>7. [r EXCEPT !.tail = x] = Ring(a, u, b, d, h, x, c)
  BY DEF Ring
<1>8. [r EXCEPT !.cur = x] = Ring(a, u, b, d, h, t, x)
  BY DEF Ring
<1> HIDE DEF r
<1> QED  BY <1>1, <1>2, <1>3, <1>4, <1>5, <1>6, <1>7, <1>8 DEF r

\* The parts that one step sets together.
SetByCard(r, x, y, z) == [r EXCEPT !.avail = x, !.used = y, !.buf = z]
SetAtHead(r, x, y, z) == [r EXCEPT !.buf = x, !.dd = y, !.head = z]
SetAtCur(r, x, y, z) == [r EXCEPT !.dd = x, !.cur = y, !.tail = z]
SetUsed(r, x) == [r EXCEPT !.used = x]
SetAvail(r, x) == [r EXCEPT !.avail = x]

\* They are set one after the other.
LEMMA RingSteps ==
  ASSUME NEW r \in Rings, NEW x, NEW y, NEW z
  PROVE  /\ SetByCard(r, x, y, z) = Ring(x, y, z, r.dd, r.head, r.tail, r.cur)
         /\ SetAtHead(r, x, y, z) = Ring(r.avail, r.used, x, y, z, r.tail, r.cur)
         /\ SetAtCur(r, x, y, z) = Ring(r.avail, r.used, r.buf, x, r.head, z, y)
         /\ SetUsed(r, x) = Ring(r.avail, x, r.buf, r.dd, r.head, r.tail, r.cur)
         /\ SetAvail(r, x) = Ring(x, r.used, r.buf, r.dd, r.head, r.tail, r.cur)
<1>1. PICK a, u, b, d, h, t, c : r = Ring(a, u, b, d, h, t, c)
  BY RingIs
<1>2. /\ r.avail = a /\ r.used = u /\ r.buf = b /\ r.dd = d
      /\ r.head = h /\ r.tail = t /\ r.cur = c
  BY <1>1, RingSet
<1>3. SetByCard(r, x, y, z) = Ring(x, y, z, d, h, t, c)
  <2>1. SetByCard(r, x, y, z)
          = [[[r EXCEPT !.avail = x] EXCEPT !.used = y] EXCEPT !.buf = z]
    BY DEF SetByCard
  <2>2. [r EXCEPT !.avail = x] = Ring(x, u, b, d, h, t, c)
    BY <1>1, RingSet
  <2>3. [Ring(x, u, b, d, h, t, c) EXCEPT !.used = y] = Ring(x, y, b, d, h, t, c)
    BY RingSet
  <2>4. [Ring(x, y, b, d, h, t, c) EXCEPT !.buf = z] = Ring(x, y, z, d, h, t, c)
    BY RingSet
  <2> QED  BY <2>1, <2>2, <2>3, <2>4
<1>4. SetAtHead(r, x, y, z) = Ring(a, u, x, y, z, t, c)
  <2>1. SetAtHead(r, x, y, z)
          = [[[r EXCEPT !.buf = x] EXCEPT !.dd = y] EXCEPT !.head = z]
    BY DEF SetAtHead
  <2>2. [r EXCEPT !.buf = x] = Ring(a, u, x, d, h, t, c)
    BY <1>1, RingSet
  <2>3. [Ring(a, u, x, d, h, t, c) EXCEPT !.dd = y] = Ring(a, u, x, y, h, t, c)
    BY RingSet
  <2>4. [Ring(a, u, x, y, h, t, c) EXCEPT !.head = z] = Ring(a, u, x, y, z, t, c)
    BY RingSet
  <2> QED  BY <2>1, <2>2, <2>3, <2>4
<1>5. SetAtCur(r, x, y, z) = Ring(a, u, b, x, h, z, y)
  <2>1. SetAtCur(r, x, y, z)
          = [[[r EXCEPT !.dd = x] EXCEPT !.cur = y] EXCEPT !.tail = z]
    BY DEF SetAtCur
  <2>2. [r EXCEPT !.dd = x] = Ring(a, u, b, x, h, t, c)
    BY <1>1, RingSet
  <2>3. [Ring(a, u, b, x, h, t, c) EXCEPT !.cur = y] = Ring(a, u, b, x, h, t, y)
    BY RingSet
  <2>4. [Ring(a, u, b, x, h, t, y) EXCEPT !.tail = z] = Ring(a, u, b, x, h, z, y)
    BY RingSet
  <2> QED  BY <2>1, <2>2, <2>3, <2>4
<1>6. SetUsed(r, x) = Ring(a, x, b, d, h, t, c)
  BY <1>1, RingSet DEF SetUsed
<1>7. SetAvail(r, x) = Ring(x, u, b, d, h, t, c)
  BY <1>1, RingSet DEF SetAvail
<1> QED  BY <1>2, <1>3, <1>4, <1>5, <1>6, <1>7

\* At boot: nothing has arrived, and every buffer is with the card.
LEMMA NetInitInv == NetInit => NetInv
<1> SUFFICES ASSUME NetInit PROVE NetInv
  OBVIOUS
<1>0. RxRing \in Nat \ {0} /\ 0 \in Descriptors /\ RxRing - 1 \in Descriptors
  BY NetCardsAssumption DEF Descriptors
<1>1. /\ card \in {"virtio", "e1000e"} /\ rx = FilledRx /\ arrived = <<>> /\ delivered = <<>>
      /\ taken = [at |-> -1, frame |-> Nothing]
  BY DEF NetInit
<1>2. Nothing \in Frames
  BY DEF Nothing, Frames
<1> DEFINE a == [i \in 1 .. RxRing |-> i - 1]
<1>3. a \in Seq(Descriptors) /\ Len(a) = RxRing /\ \A i \in 1 .. RxRing : a[i] = i - 1 /\ a[i] \in Descriptors
  BY <1>0 DEF Descriptors
<1>4. /\ rx.avail = a /\ rx.used = <<>> /\ rx.head = 0 /\ rx.tail = RxRing - 1 /\ rx.cur = 0
      /\ rx.dd = [i \in Descriptors |-> FALSE] /\ rx.buf = [i \in Descriptors |-> Nothing]
  BY <1>1 DEF FilledRx, Descriptors
<1> HIDE DEF a
<1>5. rx \in Rings
  <2>1. rx = Ring(a, <<>>, rx.buf, rx.dd, 0, RxRing - 1, 0)
    BY <1>1, <1>4 DEF FilledRx, Ring
  <2>2. rx.buf \in [Descriptors -> Frames] /\ rx.dd \in [Descriptors -> BOOLEAN]
    BY <1>2, <1>4
  <2>3. <<>> \in Seq(Descriptors)
    OBVIOUS
  <2>4. Ring(a, <<>>, rx.buf, rx.dd, 0, RxRing - 1, 0) \in Rings
    BY <1>0, <1>3, <2>2, <2>3, RingIs, Zenon
  <2> QED  BY <2>1, <2>4
<1>6. RxTypeOK
  <2>1. taken \in [at : {-1} \union Descriptors, frame : Frames]
    BY <1>1, <1>2
  <2> QED  BY <1>1, <1>5, <2>1 DEF RxTypeOK
<1>7. Len(arrived) = 0 /\ Len(delivered) = 0 /\ Len(rx.used) = 0 /\ InHand = 0 /\ taken.at = -1
  BY <1>1, <1>4 DEF InHand
<1>8. Through(0) /\ Copied(0) /\ Numbered
  BY <1>7 DEF Through, Copied, Numbered
<1>9. OnUsedRing(0)
  <2>1. OncePlaced
    <3>1. \A i \in 1 .. RxRing : rx.avail[i] # -1
      BY <1>0, <1>3, <1>4 DEF Descriptors
    <3> QED  BY <1>0, <1>3, <1>4, <1>7, <3>1 DEF OncePlaced
  <2> QED  BY <1>4, <1>7, <2>1 DEF OnUsedRing
<1>10. OnDescriptors(0)
  <2>1. \A i \in Descriptors : After(i) = i
    BY <1>0, <1>4 DEF After, Wrapped, Descriptors
  <2>2. \A i \in Descriptors : ~(i < 0)
    BY <1>0 DEF Descriptors
  <2> QED  BY <1>0, <1>4, <1>7, <2>1, <2>2 DEF OnDescriptors
<1>11. NetAt(0) /\ 0 \in 0 .. Len(arrived)
  BY <1>7, <1>8, <1>9, <1>10 DEF NetAt
<1> QED  BY <1>6, <1>8, <1>11 DEF NetInv

\* What Append and Tail do to the places of a sequence.
LEMMA AppendIs ==
  ASSUME NEW S, NEW s \in Seq(S), NEW e \in S
  PROVE  /\ Append(s, e) \in Seq(S) /\ Len(s) \in Nat /\ Len(Append(s, e)) = Len(s) + 1
         /\ \A i \in 1 .. Len(s) : Append(s, e)[i] = s[i]
         /\ Append(s, e)[Len(s) + 1] = e
OBVIOUS

LEMMA TailIs ==
  ASSUME NEW S, NEW s \in Seq(S), s # <<>>
  PROVE  /\ Tail(s) \in Seq(S) /\ Head(s) = s[1] /\ s[1] \in S
         /\ Len(s) \in Nat /\ Len(s) >= 1 /\ Len(Tail(s)) = Len(s) - 1
         /\ \A i \in 1 .. Len(s) - 1 : Tail(s)[i] = s[i + 1]
OBVIOUS

\* A frame more has arrived; what there was is as it was.
LEMMA ArrivedGrows ==
  ASSUME RxTypeOK, Numbered, NEW k \in 0 .. Len(arrived), Through(k), Copied(k),
         NEW f \in Frames, f.n = Len(arrived) + 1, arrived' = Append(arrived, f),
         UNCHANGED <<taken, delivered>>
  PROVE  /\ arrived' \in Seq(Frames) /\ Len(arrived) \in Nat /\ Len(arrived') = Len(arrived) + 1
         /\ \A i \in 1 .. Len(arrived) : arrived'[i] = arrived[i]
         /\ arrived'[Len(arrived) + 1] = f
         /\ Numbered' /\ Through(k)' /\ Copied(k)' /\ InHand' = InHand
<1>1. /\ arrived' \in Seq(Frames) /\ Len(arrived) \in Nat /\ Len(arrived') = Len(arrived) + 1
      /\ \A i \in 1 .. Len(arrived) : arrived'[i] = arrived[i]
      /\ arrived'[Len(arrived) + 1] = f
  BY AppendIs DEF RxTypeOK
<1>2. Numbered'
  <2> SUFFICES ASSUME NEW n \in 1 .. Len(arrived) + 1 PROVE arrived'[n].n = n
    BY <1>1 DEF Numbered
  <2>1. CASE n = Len(arrived) + 1
    BY <1>1, <2>1
  <2>2. CASE n # Len(arrived) + 1
    <3>1. n \in 1 .. Len(arrived)
      BY <1>1, <2>2
    <3> QED  BY <1>1, <3>1 DEF Numbered
  <2> QED  BY <2>1, <2>2
<1>3. \A n \in 1 .. k : n \in 1 .. Len(arrived) /\ arrived'[n] = arrived[n]
  BY <1>1
<1>4. Through(k)'
  BY <1>3 DEF Through
<1>5. Copied(k)'
  BY <1>1 DEF Copied
<1>6. InHand' = InHand
  BY DEF InHand
<1> QED  BY <1>1, <1>2, <1>4, <1>5, <1>6

\* A frame for the virtio card: its buffer moves to the end of the used ring.
LEMMA ArriveVirtio ==
  ASSUME NetInv, NEW good \in BOOLEAN, Arrive(good), card = "virtio"
  PROVE  NetInv'
<1> DEFINE f == [n |-> Len(arrived) + 1, good |-> good]
           a == rx.avail[1]
<1>1. PICK k \in 0 .. Len(arrived) : NetAt(k)
  BY DEF NetInv
<1>2. RxTypeOK /\ Numbered /\ Through(k) /\ Copied(k) /\ OnUsedRing(k)
  BY <1>1 DEF NetInv, NetAt
<1>3. /\ rx.avail \in Seq(Descriptors) /\ rx.used \in Seq(Descriptors) /\ rx \in Rings
      /\ rx.buf \in [Descriptors -> Frames] /\ rx.dd \in [Descriptors -> BOOLEAN]
      /\ rx.head \in Descriptors /\ rx.tail \in Descriptors /\ rx.cur \in Descriptors
  BY <1>2, RingIs DEF RxTypeOK
<1>4. /\ rx.avail # <<>> /\ arrived' = Append(arrived, f) /\ UNCHANGED <<card, taken, delivered>>
      /\ rx' = [rx EXCEPT !.avail = Tail(@), !.used = Append(@, Head(rx.avail)), !.buf[Head(rx.avail)] = f]
  BY DEF Arrive, RxRoom
<1>5. f \in Frames /\ f.n = Len(arrived) + 1
  BY <1>2 DEF Frames, RxTypeOK
<1> HIDE DEF f
<1>6. /\ Tail(rx.avail) \in Seq(Descriptors) /\ Head(rx.avail) = a /\ a \in Descriptors
      /\ Len(rx.avail) \in Nat /\ Len(rx.avail) >= 1 /\ Len(Tail(rx.avail)) = Len(rx.avail) - 1
      /\ \A i \in 1 .. Len(rx.avail) - 1 : Tail(rx.avail)[i] = rx.avail[i + 1]
  BY <1>3, <1>4, TailIs
<1>7. /\ Append(rx.used, a) \in Seq(Descriptors) /\ Len(rx.used) \in Nat
      /\ Len(Append(rx.used, a)) = Len(rx.used) + 1
      /\ \A i \in 1 .. Len(rx.used) : Append(rx.used, a)[i] = rx.used[i]
      /\ Append(rx.used, a)[Len(rx.used) + 1] = a
  BY <1>3, <1>6, AppendIs
<1>8. /\ rx' = Ring(Tail(rx.avail), Append(rx.used, a), [rx.buf EXCEPT ![a] = f], rx.dd,
                    rx.head, rx.tail, rx.cur)
      /\ rx'.avail = Tail(rx.avail) /\ rx'.used = Append(rx.used, a)
      /\ rx'.buf = [rx.buf EXCEPT ![a] = f] /\ rx'.dd = rx.dd
  <2> DEFINE b == [rx.buf EXCEPT ![a] = f]
             x == Tail(rx.avail)
             y == Append(rx.used, a)
  <2>1. rx' = SetByCard(rx, x, y, b)
    BY <1>4, <1>6 DEF SetByCard
  <2> HIDE DEF b, x, y
  <2>2. rx' = Ring(x, y, b, rx.dd, rx.head, rx.tail, rx.cur)
    BY <1>3, <2>1, RingSteps
  <2>3. rx'.avail = x /\ rx'.used = y /\ rx'.buf = b /\ rx'.dd = rx.dd
    BY <2>2, RingSet
  <2> QED  BY <2>2, <2>3 DEF b, x, y
<1> HIDE DEF a
<1>9. rx' \in Rings
  <2>1. [rx.buf EXCEPT ![a] = f] \in [Descriptors -> Frames]
    BY <1>3, <1>5, <1>6
  <2> QED  BY <1>3, <1>6, <1>7, <1>8, <2>1, RingIs, Zenon
<1>10. /\ arrived' \in Seq(Frames) /\ Len(arrived) \in Nat /\ Len(arrived') = Len(arrived) + 1
       /\ \A i \in 1 .. Len(arrived) : arrived'[i] = arrived[i]
       /\ arrived'[Len(arrived) + 1] = f
       /\ Numbered' /\ Through(k)' /\ Copied(k)' /\ InHand' = InHand
  BY <1>2, <1>4, <1>5, ArrivedGrows
<1>11. /\ \A i \in Descriptors : ~rx.dd[i]
       /\ Len(arrived) = k + InHand + Len(rx.used)
       /\ \A i \in 1 .. Len(rx.used) : rx.buf[rx.used[i]] = arrived[k + InHand + i]
       /\ OncePlaced
  BY <1>2 DEF OnUsedRing
<1>12. InHand \in Nat /\ k \in Nat /\ Len(rx.used) \in Nat /\ Len(arrived) = k + InHand + Len(rx.used)
  <2>1. InHand \in Nat
    BY DEF InHand
  <2> QED  BY <1>7, <1>10, <1>11, <2>1
<1>13. ASSUME NEW i \in 1 .. Len(rx.used) PROVE rx'.used[i] = rx.used[i] /\ rx.used[i] # a /\ rx.used[i] \in Descriptors
  <2>1. rx.used[i] # a
    BY <1>6, <1>11 DEF OncePlaced, a
  <2>2. rx'.used[i] = rx.used[i]
    BY <1>7, <1>8
  <2>3. rx.used[i] \in Descriptors
    BY <1>3
  <2> QED  BY <2>1, <2>2, <2>3
<1>14. ASSUME NEW i \in 1 .. Len(rx.used) + 1 PROVE rx'.buf[rx'.used[i]] = arrived'[k + InHand + i]
  <2>1. CASE i = Len(rx.used) + 1
    <3>1. rx'.used[i] = a /\ rx'.buf[a] = f
      BY <1>3, <1>6, <1>7, <1>8, <2>1
    <3>2. k + InHand + i = Len(arrived) + 1
      <4> DEFINE m == Len(rx.used)
                 l == Len(arrived)
                 h == InHand
      <4>1. m \in Nat /\ h \in Nat /\ k \in Nat /\ l = k + h + m /\ i = m + 1
        BY <1>12, <2>1
      <4> HIDE DEF m, l, h
      <4>2. k + h + i = l + 1
        BY <4>1
      <4> QED  BY <4>2 DEF l, h
    <3> QED  BY <1>10, <3>1, <3>2
  <2>2. CASE i # Len(rx.used) + 1
    <3>1. i \in 1 .. Len(rx.used) /\ k + InHand + i \in 1 .. Len(arrived)
      <4> DEFINE m == Len(rx.used)
                 l == Len(arrived)
                 h == InHand
      <4>1. m \in Nat /\ h \in Nat /\ k \in Nat /\ l = k + h + m /\ i # m + 1 /\ i \in 1 .. m + 1
        BY <1>12, <2>2
      <4> HIDE DEF m, l, h
      <4>2. i \in 1 .. m /\ k + h + i \in 1 .. l
        BY <4>1
      <4> QED  BY <4>2 DEF m, l, h
    <3>2. rx'.buf[rx'.used[i]] = rx.buf[rx.used[i]]
      <4>1. rx'.used[i] = rx.used[i] /\ rx.used[i] # a /\ rx.used[i] \in Descriptors
        BY <1>13, <3>1
      <4>2. rx'.buf[rx.used[i]] = rx.buf[rx.used[i]]
        BY <1>3, <1>8, <4>1
      <4> QED  BY <4>1, <4>2
    <3> QED  BY <1>10, <1>11, <3>1, <3>2
  <2> QED  BY <2>1, <2>2
<1>15. OncePlaced'
  <2>0. Len(rx'.used) = Len(rx.used) + 1 /\ Len(rx'.avail) = Len(rx.avail) - 1 /\ taken' = taken
    BY <1>4, <1>6, <1>7, <1>8
  <2>1. ASSUME NEW j \in 1 .. Len(rx'.avail)
        PROVE  j + 1 \in 1 .. Len(rx.avail) /\ rx'.avail[j] = rx.avail[j + 1] /\ rx'.avail[j] # a
    <3>1. j \in 1 .. Len(rx.avail) - 1 /\ j + 1 \in 1 .. Len(rx.avail) /\ 1 \in 1 .. Len(rx.avail) /\ j + 1 # 1
      BY <1>6, <2>0
    <3>2. rx'.avail[j] = rx.avail[j + 1]
      BY <1>6, <1>8, <3>1
    <3>3. rx.avail[j + 1] # rx.avail[1]
      BY <1>11, <3>1 DEF OncePlaced
    <3> QED  BY <3>1, <3>2, <3>3 DEF a
  <2>2. \A i \in 1 .. Len(rx'.used) : i \in 1 .. Len(rx.used) \/ i = Len(rx.used) + 1
    BY <1>7, <2>0
  <2>3. rx'.used[Len(rx.used) + 1] = a /\ a # taken.at
    BY <1>6, <1>7, <1>8, <1>11 DEF OncePlaced, a
  <2>4. ASSUME NEW i \in 1 .. Len(rx'.used), NEW j \in 1 .. Len(rx'.used), i # j
        PROVE  rx'.used[i] # rx'.used[j]
    <3>1. CASE i \in 1 .. Len(rx.used) /\ j \in 1 .. Len(rx.used)
      <4>1. rx.used[i] # rx.used[j]
        BY <1>11, <2>4, <3>1 DEF OncePlaced
      <4> QED  BY <1>13, <3>1, <4>1
    <3>2. CASE i \in 1 .. Len(rx.used) /\ j = Len(rx.used) + 1
      BY <1>13, <2>3, <3>2
    <3>3. CASE i = Len(rx.used) + 1 /\ j \in 1 .. Len(rx.used)
      BY <1>13, <2>3, <3>3
    <3> QED  BY <2>2, <2>4, <3>1, <3>2, <3>3
  <2>5. ASSUME NEW i \in 1 .. Len(rx'.avail), NEW j \in 1 .. Len(rx'.avail), i # j
        PROVE  rx'.avail[i] # rx'.avail[j]
    <3>1. /\ i + 1 \in 1 .. Len(rx.avail) /\ rx'.avail[i] = rx.avail[i + 1]
          /\ j + 1 \in 1 .. Len(rx.avail) /\ rx'.avail[j] = rx.avail[j + 1]
      BY <2>1
    <3>2. i + 1 # j + 1
      BY <2>5
    <3>3. rx.avail[i + 1] # rx.avail[j + 1]
      BY <1>11, <3>1, <3>2 DEF OncePlaced
    <3> QED  BY <3>1, <3>3
  <2>6. ASSUME NEW i \in 1 .. Len(rx'.used), NEW j \in 1 .. Len(rx'.avail)
        PROVE  rx'.used[i] # rx'.avail[j]
    <3>1. j + 1 \in 1 .. Len(rx.avail) /\ rx'.avail[j] = rx.avail[j + 1] /\ rx'.avail[j] # a
      BY <2>1
    <3>2. CASE i = Len(rx.used) + 1
      BY <2>3, <3>1, <3>2
    <3>3. CASE i \in 1 .. Len(rx.used)
      <4>1. rx'.used[i] = rx.used[i]
        BY <1>13, <3>3
      <4>2. rx.used[i] # rx.avail[j + 1]
        BY <1>11, <3>1, <3>3 DEF OncePlaced
      <4> QED  BY <3>1, <4>1, <4>2
    <3> QED  BY <2>2, <3>2, <3>3
  <2>7. \A i \in 1 .. Len(rx'.used) : rx'.used[i] # taken.at
    BY <1>11, <1>13, <2>2, <2>3 DEF OncePlaced
  <2>8. \A i \in 1 .. Len(rx'.avail) : rx'.avail[i] # taken.at
    BY <1>11, <2>1 DEF OncePlaced
  <2> QED  BY <2>0, <2>4, <2>5, <2>6, <2>7, <2>8 DEF OncePlaced
<1>16. OnUsedRing(k)'
  <2>1. Len(rx'.used) = Len(rx.used) + 1
    BY <1>7, <1>8
  <2>2. Len(arrived') = k + InHand' + Len(rx'.used)
    <3> DEFINE m == Len(rx.used)
               l == Len(arrived)
               h == InHand
    <3>1. /\ m \in Nat /\ h \in Nat /\ k \in Nat /\ l = k + h + m
          /\ Len(rx'.used) = m + 1 /\ Len(arrived') = l + 1 /\ InHand' = h
      BY <1>10, <1>12, <2>1
    <3> HIDE DEF m, l, h
    <3> QED  BY <3>1
  <2>3. \A i \in Descriptors : ~rx'.dd[i]
    BY <1>8, <1>11
  <2> QED  BY <1>10, <1>14, <1>15, <2>1, <2>2, <2>3 DEF OnUsedRing
<1>17. NetAt(k)' /\ k \in 0 .. Len(arrived')
  BY <1>4, <1>10, <1>16 DEF NetAt
<1>18. RxTypeOK'
  BY <1>2, <1>4, <1>9, <1>10 DEF RxTypeOK
<1> QED  BY <1>10, <1>17, <1>18 DEF NetInv

\* A frame for the e1000e: the next descriptor of the card's.
LEMMA ArriveE1000e ==
  ASSUME NetInv, NEW good \in BOOLEAN, Arrive(good), card = "e1000e"
  PROVE  NetInv'
<1> DEFINE f == [n |-> Len(arrived) + 1, good |-> good]
<1>0. RxRing \in Nat \ {0}
  BY NetCardsAssumption
<1>1. PICK k \in 0 .. Len(arrived) : NetAt(k)
  BY DEF NetInv
<1>2. RxTypeOK /\ Numbered /\ Through(k) /\ Copied(k) /\ OnDescriptors(k)
  BY <1>1 DEF NetInv, NetAt
<1>3. /\ rx.avail \in Seq(Descriptors) /\ rx.used \in Seq(Descriptors) /\ rx \in Rings
      /\ rx.buf \in [Descriptors -> Frames] /\ rx.dd \in [Descriptors -> BOOLEAN]
      /\ rx.head \in Descriptors /\ rx.tail \in Descriptors /\ rx.cur \in Descriptors
  BY <1>2, RingIs DEF RxTypeOK
<1>4. /\ rx.head # rx.tail /\ arrived' = Append(arrived, f) /\ UNCHANGED <<card, taken, delivered>>
      /\ rx' = [rx EXCEPT !.buf[rx.head] = f, !.dd[rx.head] = TRUE, !.head = (@ + 1) % RxRing]
  BY DEF Arrive, RxRoom
<1>5. f \in Frames /\ f.n = Len(arrived) + 1
  BY <1>2 DEF Frames, RxTypeOK
<1> HIDE DEF f
<1>6. (rx.head + 1) % RxRing = Wrapped(rx.head + 1, RxRing) /\ Wrapped(rx.head + 1, RxRing) \in Descriptors
  <2>1. rx.head + 1 \in 0 .. 2 * RxRing - 1
    BY <1>0, <1>3 DEF Descriptors
  <2> QED  BY <1>0, <2>1, WrapOnce DEF Descriptors
<1>7. /\ rx' = Ring(rx.avail, rx.used, [rx.buf EXCEPT ![rx.head] = f], [rx.dd EXCEPT ![rx.head] = TRUE],
                    Wrapped(rx.head + 1, RxRing), rx.tail, rx.cur)
      /\ rx'.used = rx.used /\ rx'.buf = [rx.buf EXCEPT ![rx.head] = f]
      /\ rx'.dd = [rx.dd EXCEPT ![rx.head] = TRUE] /\ rx'.head = Wrapped(rx.head + 1, RxRing)
      /\ rx'.tail = rx.tail /\ rx'.cur = rx.cur
  <2> DEFINE b == [rx.buf EXCEPT ![rx.head] = f]
             d == [rx.dd EXCEPT ![rx.head] = TRUE]
             h == Wrapped(rx.head + 1, RxRing)
  <2>1. rx' = SetAtHead(rx, b, d, h)
    BY <1>4, <1>6 DEF SetAtHead
  <2> HIDE DEF b, d, h
  <2>2. rx' = Ring(rx.avail, rx.used, b, d, h, rx.tail, rx.cur)
    BY <1>3, <2>1, RingSteps
  <2>3. /\ rx'.used = rx.used /\ rx'.buf = b /\ rx'.dd = d /\ rx'.head = h
        /\ rx'.tail = rx.tail /\ rx'.cur = rx.cur
    BY <2>2, RingSet
  <2> QED  BY <2>2, <2>3 DEF b, d, h
<1>8. rx' \in Rings
  <2>1. [rx.buf EXCEPT ![rx.head] = f] \in [Descriptors -> Frames]
    BY <1>3, <1>5
  <2>2. [rx.dd EXCEPT ![rx.head] = TRUE] \in [Descriptors -> BOOLEAN]
    BY <1>3
  <2> QED  BY <1>3, <1>6, <1>7, <2>1, <2>2, RingIs, Zenon
<1>9. /\ arrived' \in Seq(Frames) /\ Len(arrived) \in Nat /\ Len(arrived') = Len(arrived) + 1
      /\ \A i \in 1 .. Len(arrived) : arrived'[i] = arrived[i]
      /\ arrived'[Len(arrived) + 1] = f
      /\ Numbered' /\ Through(k)' /\ Copied(k)' /\ InHand' = InHand
  BY <1>2, <1>4, <1>5, ArrivedGrows
<1> DEFINE p == Len(arrived) - k
<1>10. p \in Descriptors /\ rx.head = After(p) /\ rx.tail = After(RxRing - 1) /\ p # RxRing - 1
  BY <1>2, <1>4 DEF OnDescriptors
<1>11. p + 1 \in Descriptors /\ p \in Nat /\ Len(arrived') - k = p + 1 /\ k \in Nat
  BY <1>0, <1>9, <1>10 DEF Descriptors
<1> HIDE DEF p
<1>12. ASSUME NEW i \in Descriptors PROVE After(i)' = After(i) /\ After(i) \in Descriptors
  <2>1. After(i)' = After(i)
    BY <1>7 DEF After
  <2> QED  BY <1>0, <1>3, <2>1 DEF After, Wrapped, Descriptors
<1>13. ASSUME NEW i \in Descriptors, After(i) = rx.head PROVE i = p
  <2>1. /\ rx.cur \in 0 .. RxRing - 1 /\ p \in 0 .. RxRing - 1 /\ i \in 0 .. RxRing - 1
        /\ Wrapped(rx.cur + i, RxRing) = Wrapped(rx.cur + p, RxRing)
    BY <1>3, <1>10, <1>13 DEF After, Descriptors
  <2> QED  BY <1>0, <2>1, WrapIsOne
<1>14. rx'.head = After(p + 1)
  <2>1. rx.cur \in 0 .. RxRing - 1 /\ p \in 0 .. RxRing - 1 /\ p + 1 \in 0 .. RxRing - 1
    BY <1>0, <1>3, <1>10, <1>11 DEF Descriptors
  <2>2. Wrapped(Wrapped(rx.cur + p, RxRing) + 1, RxRing) = Wrapped(rx.cur + (p + 1), RxRing)
    BY <1>0, <2>1, WrapNext
  <2> QED  BY <1>7, <1>10, <2>2 DEF After
<1> HIDE DEF p
<1>15. ASSUME NEW i \in Descriptors
       PROVE  /\ rx'.dd[After(i)] <=> i < p + 1
              /\ i < p + 1 => rx'.buf[After(i)] = arrived'[k + 1 + i]
  <2>1. i \in Nat /\ p \in Nat /\ k \in Nat /\ Len(arrived) = k + p
    BY <1>0, <1>9, <1>11 DEF Descriptors, p
  <2>2. CASE i = p
    <3>1. rx'.dd[After(i)] = TRUE /\ rx'.buf[After(i)] = f
      BY <1>3, <1>7, <1>10, <2>2
    <3>2. k + 1 + i = Len(arrived) + 1
      BY <2>1, <2>2
    <3> QED  BY <1>9, <2>1, <2>2, <3>1, <3>2
  <2>3. CASE i # p
    <3>1. After(i) # rx.head /\ After(i) \in Descriptors
      BY <1>12, <1>13, <2>3
    <3>2. rx'.dd[After(i)] = rx.dd[After(i)] /\ rx'.buf[After(i)] = rx.buf[After(i)]
      BY <1>3, <1>7, <3>1
    <3>3. /\ rx.dd[After(i)] <=> i < p
          /\ i < p => rx.buf[After(i)] = arrived[k + 1 + i]
      BY <1>2 DEF OnDescriptors, p
    <3>4. i < p => k + 1 + i \in 1 .. Len(arrived)
      BY <2>1
    <3>5. i < p + 1 <=> i < p
      BY <2>1, <2>3
    <3> QED  BY <1>9, <3>2, <3>3, <3>4, <3>5
  <2> QED  BY <2>2, <2>3
<1>16. OnDescriptors(k)'
  <2>1. rx'.used = <<>> /\ (taken'.at # -1 => taken'.at = rx'.cur)
    BY <1>2, <1>4, <1>7 DEF OnDescriptors
  <2>2. After(Len(arrived) - k)' = After(p + 1) /\ After(RxRing - 1)' = After(RxRing - 1)
    <3>1. RxRing - 1 \in Descriptors
      BY <1>0 DEF Descriptors
    <3>2. After(Len(arrived) - k)' = Wrapped(rx.cur + (p + 1), RxRing)
      BY <1>7, <1>11 DEF After
    <3> QED  BY <1>12, <3>1, <3>2 DEF After
  <2>3. rx'.head = After(Len(arrived) - k)' /\ rx'.tail = After(RxRing - 1)'
    BY <1>7, <1>10, <1>14, <2>2
  <2>4. \A i \in Descriptors :
          /\ rx'.dd[After(i)'] <=> i < Len(arrived') - k
          /\ i < Len(arrived') - k => rx'.buf[After(i)'] = arrived'[k + 1 + i]
    BY <1>11, <1>12, <1>15
  <2> QED  BY <1>11, <2>1, <2>3, <2>4 DEF OnDescriptors
<1>17. NetAt(k)' /\ k \in 0 .. Len(arrived')
  BY <1>4, <1>9, <1>16 DEF NetAt
<1>18. RxTypeOK'
  BY <1>2, <1>4, <1>8, <1>9 DEF RxTypeOK
<1> QED  BY <1>9, <1>17, <1>18 DEF NetInv

\* receive_packet() of the virtio driver takes the first entry of the used ring.
LEMMA TakeVirtioKeeps ==
  ASSUME NetInv, RxTakeVirtio
  PROVE  NetInv'
<1> DEFINE a == rx.used[1]
<1>1. PICK k \in 0 .. Len(arrived) : NetAt(k)
  BY DEF NetInv
<1>2. card = "virtio" /\ rx.used # <<>> /\ taken.at = -1 /\ UNCHANGED <<card, arrived, delivered>>
  BY DEF RxTakeVirtio
<1>3. RxTypeOK /\ Numbered /\ Through(k) /\ OnUsedRing(k)
  BY <1>1, <1>2 DEF NetInv, NetAt
<1>4. /\ rx.avail \in Seq(Descriptors) /\ rx.used \in Seq(Descriptors) /\ rx \in Rings
      /\ rx.buf \in [Descriptors -> Frames] /\ rx.dd \in [Descriptors -> BOOLEAN]
      /\ rx.head \in Descriptors /\ rx.tail \in Descriptors /\ rx.cur \in Descriptors
  BY <1>3, RingIs DEF RxTypeOK
<1>5. /\ Tail(rx.used) \in Seq(Descriptors) /\ Head(rx.used) = a /\ a \in Descriptors
      /\ Len(rx.used) \in Nat /\ Len(rx.used) >= 1 /\ Len(Tail(rx.used)) = Len(rx.used) - 1
      /\ \A i \in 1 .. Len(rx.used) - 1 : Tail(rx.used)[i] = rx.used[i + 1]
  BY <1>2, <1>4, TailIs
<1>6. /\ taken' = [at |-> a, frame |-> rx.buf[a]] /\ taken'.at = a /\ taken'.frame = rx.buf[a]
      /\ a # -1
  <2>1. taken' = [at |-> a, frame |-> rx.buf[a]]
    BY <1>5 DEF RxTakeVirtio
  <2>2. a # -1
    BY <1>5, NetCardsAssumption DEF Descriptors
  <2> HIDE DEF a
  <2> QED  BY <2>1, <2>2
<1>7. /\ rx' = Ring(rx.avail, Tail(rx.used), rx.buf, rx.dd, rx.head, rx.tail, rx.cur)
      /\ rx'.avail = rx.avail /\ rx'.used = Tail(rx.used) /\ rx'.buf = rx.buf /\ rx'.dd = rx.dd
  <2> DEFINE x == Tail(rx.used)
  <2>1. rx' = SetUsed(rx, x)
    BY DEF RxTakeVirtio, SetUsed
  <2> HIDE DEF x
  <2>2. rx' = Ring(rx.avail, x, rx.buf, rx.dd, rx.head, rx.tail, rx.cur)
    BY <1>4, <2>1, RingSteps
  <2>3. rx'.avail = rx.avail /\ rx'.used = x /\ rx'.buf = rx.buf /\ rx'.dd = rx.dd
    BY <2>2, RingSet
  <2> QED  BY <2>2, <2>3 DEF x
<1>8. rx' \in Rings
  BY <1>4, <1>5, <1>7, RingIs, Zenon
<1>9. InHand = 0 /\ InHand' = 1
  BY <1>2, <1>6 DEF InHand
<1>10. /\ \A i \in Descriptors : ~rx.dd[i]
       /\ Len(arrived) = k + InHand + Len(rx.used)
       /\ \A i \in 1 .. Len(rx.used) : rx.buf[rx.used[i]] = arrived[k + InHand + i]
       /\ OncePlaced
  BY <1>3 DEF OnUsedRing
<1>11. k \in Nat /\ Len(arrived) \in Nat /\ Len(arrived) = k + Len(rx.used)
  BY <1>3, <1>5, <1>9, <1>10 DEF RxTypeOK
<1>12. ASSUME NEW i \in 1 .. Len(rx.used) PROVE rx.buf[rx.used[i]] = arrived[k + i]
  <2>1. k + InHand + i = k + i
    BY <1>9, <1>11
  <2> QED  BY <1>10, <2>1
<1>13. Through(k)'
  BY <1>2, <1>3 DEF Through
<1>14. Copied(k)'
  <2>1. k < Len(arrived) /\ 1 \in 1 .. Len(rx.used)
    BY <1>5, <1>11
  <2> QED  BY <1>2, <1>6, <1>12, <2>1 DEF Copied
<1>15. ASSUME NEW i \in 1 .. Len(rx'.used)
       PROVE  /\ i \in 1 .. Len(rx.used) - 1 /\ i + 1 \in 1 .. Len(rx.used) /\ i + 1 # 1
              /\ 1 \in 1 .. Len(rx.used) /\ rx'.used[i] = rx.used[i + 1] /\ rx'.used[i] # a
  <2>1. i \in 1 .. Len(rx.used) - 1 /\ i + 1 \in 1 .. Len(rx.used) /\ i + 1 # 1 /\ 1 \in 1 .. Len(rx.used)
    <3> DEFINE m == Len(rx.used)
    <3>1. m \in Nat /\ m >= 1 /\ i \in 1 .. m - 1
      BY <1>5, <1>7
    <3> HIDE DEF m
    <3>2. i \in 1 .. m - 1 /\ i + 1 \in 1 .. m /\ i + 1 # 1 /\ 1 \in 1 .. m
      BY <3>1
    <3> QED  BY <3>2 DEF m
  <2>2. rx'.used[i] = rx.used[i + 1]
    BY <1>5, <1>7, <2>1
  <2>3. rx.used[i + 1] # a
    BY <1>10, <2>1 DEF OncePlaced
  <2> QED  BY <2>1, <2>2, <2>3
<1>16. ASSUME NEW i \in 1 .. Len(rx'.used) PROVE rx'.buf[rx'.used[i]] = arrived'[k + InHand' + i]
  <2>1. rx.buf[rx.used[i + 1]] = arrived[k + (i + 1)]
    BY <1>12, <1>15
  <2>2. k + InHand' + i = k + (i + 1)
    BY <1>9, <1>11
  <2> QED  BY <1>2, <1>7, <1>15, <2>1, <2>2
<1>17. OncePlaced'
  <2>1. ASSUME NEW i \in 1 .. Len(rx'.used), NEW j \in 1 .. Len(rx'.used), i # j
        PROVE  rx'.used[i] # rx'.used[j]
    <3>1. i + 1 # j + 1
      BY <2>1
    <3> QED  BY <1>10, <1>15, <3>1 DEF OncePlaced
  <2>2. \A i, j \in 1 .. Len(rx'.avail) : i # j => rx'.avail[i] # rx'.avail[j]
    BY <1>7, <1>10 DEF OncePlaced
  <2>3. ASSUME NEW i \in 1 .. Len(rx'.used), NEW j \in 1 .. Len(rx'.avail)
        PROVE  rx'.used[i] # rx'.avail[j]
    BY <1>7, <1>10, <1>15 DEF OncePlaced
  <2>4. \A i \in 1 .. Len(rx'.used) : rx'.used[i] # taken'.at
    BY <1>6, <1>15
  <2>5. \A i \in 1 .. Len(rx'.avail) : rx'.avail[i] # taken'.at
    <3>1. 1 \in 1 .. Len(rx.used)
      BY <1>5
    <3> QED  BY <1>6, <1>7, <1>10, <3>1 DEF OncePlaced
  <2> QED  BY <2>1, <2>2, <2>3, <2>4, <2>5 DEF OncePlaced
<1>18. OnUsedRing(k)'
  <2>1. Len(arrived') = k + InHand' + Len(rx'.used)
    <3> DEFINE m == Len(rx.used)
    <3>1. m \in Nat /\ k \in Nat /\ Len(arrived') = k + m /\ Len(rx'.used) = m - 1 /\ InHand' = 1
      BY <1>2, <1>5, <1>7, <1>9, <1>11
    <3> HIDE DEF m
    <3> QED  BY <3>1
  <2>2. \A i \in Descriptors : ~rx'.dd[i]
    BY <1>7, <1>10
  <2> QED  BY <1>16, <1>17, <2>1, <2>2 DEF OnUsedRing
<1>19. NetAt(k)' /\ k \in 0 .. Len(arrived')
  BY <1>2, <1>13, <1>14, <1>18 DEF NetAt
<1>20. taken' \in [at : {-1} \union Descriptors, frame : Frames]
  <2>1. rx.buf[a] \in Frames /\ a \in Descriptors
    BY <1>4, <1>5
  <2> HIDE DEF a
  <2> QED  BY <1>6, <2>1
<1>21. RxTypeOK' /\ Numbered'
  BY <1>2, <1>3, <1>8, <1>20 DEF RxTypeOK, Numbered
<1> QED  BY <1>19, <1>21 DEF NetInv

\* That of the e1000e driver copies the frame of its descriptor.
LEMMA TakeE1000eKeeps ==
  ASSUME NetInv, RxTakeE1000e
  PROVE  NetInv'
<1>0. RxRing \in Nat \ {0} /\ 0 \in Descriptors
  BY NetCardsAssumption DEF Descriptors
<1>1. PICK k \in 0 .. Len(arrived) : NetAt(k)
  BY DEF NetInv
<1>2. /\ card = "e1000e" /\ taken.at = -1 /\ rx.dd[rx.cur] /\ UNCHANGED <<card, rx, arrived, delivered>>
      /\ taken' = [at |-> rx.cur, frame |-> rx.buf[rx.cur]]
  BY DEF RxTakeE1000e
<1>3. RxTypeOK /\ Numbered /\ Through(k) /\ OnDescriptors(k)
  BY <1>1, <1>2 DEF NetInv, NetAt
<1>4. rx.buf \in [Descriptors -> Frames] /\ rx.cur \in Descriptors
  BY <1>3, RingIs DEF RxTypeOK
<1>5. After(0) = rx.cur
  BY <1>0, <1>4 DEF After, Wrapped, Descriptors
<1>6. 0 < Len(arrived) - k /\ rx.buf[rx.cur] = arrived[k + 1 + 0]
  BY <1>0, <1>2, <1>3, <1>5 DEF OnDescriptors
<1>7. k < Len(arrived) /\ rx.buf[rx.cur] = arrived[k + 1]
  <2>1. k \in Nat /\ Len(arrived) \in Nat
    BY <1>3 DEF RxTypeOK
  <2> QED  BY <1>6, <2>1
<1>8. taken'.at = rx.cur /\ taken'.frame = rx.buf[rx.cur]
  BY <1>2
<1>9. Through(k)' /\ Copied(k)' /\ OnDescriptors(k)'
  <2>1. Through(k)'
    BY <1>2, <1>3 DEF Through
  <2>2. Copied(k)'
    BY <1>2, <1>7, <1>8 DEF Copied
  <2>3. OnDescriptors(k)'
    BY <1>2, <1>3, <1>8 DEF OnDescriptors, After
  <2> QED  BY <2>1, <2>2, <2>3
<1>10. NetAt(k)' /\ k \in 0 .. Len(arrived')
  BY <1>2, <1>9 DEF NetAt
<1>11. taken' \in [at : {-1} \union Descriptors, frame : Frames]
  BY <1>2, <1>4
<1>12. RxTypeOK' /\ Numbered'
  BY <1>2, <1>3, <1>11 DEF RxTypeOK, Numbered
<1> QED  BY <1>10, <1>12 DEF NetInv

\* The next frame is returned, or dropped when it is bad.
LEMMA ThroughNext ==
  ASSUME RxTypeOK, Numbered, NEW k \in Nat, k < Len(arrived), Through(k), UNCHANGED arrived,
         delivered' = IF arrived[k + 1].good THEN Append(delivered, arrived[k + 1]) ELSE delivered
  PROVE  Through(k + 1)' /\ delivered' \in Seq(Frames)
<1> DEFINE f == arrived[k + 1]
<1>1. delivered \in Seq(Frames) /\ Len(delivered) \in Nat /\ arrived \in Seq(Frames) /\ Len(arrived) \in Nat
  BY DEF RxTypeOK
<1>2. k + 1 \in 1 .. Len(arrived) /\ k + 1 \in Nat
  BY <1>1
<1>3. f \in Frames /\ f.n = k + 1
  BY <1>1, <1>2 DEF Numbered
<1>4. \A n \in 1 .. k + 1 : n \in 1 .. k \/ n = k + 1
  OBVIOUS
<1>5. \A n \in 1 .. k : n \in 1 .. k + 1 /\ n < k + 1
  OBVIOUS
<1>6. CASE ~f.good
  <2>1. delivered' = delivered
    BY <1>6
  <2> QED  BY <1>1, <1>4, <1>5, <1>6, <2>1 DEF Through
<1>7. CASE f.good
  <2> DEFINE m == Len(delivered)
  <2>1. delivered' = Append(delivered, f)
    BY <1>7
  <2> HIDE DEF f
  <2>2. /\ delivered' \in Seq(Frames) /\ m \in Nat /\ Len(delivered') = m + 1
        /\ \A i \in 1 .. m : delivered'[i] = delivered[i]
        /\ delivered'[m + 1] = f
    BY <1>1, <1>3, <2>1, AppendIs
  <2>3. \A i \in 1 .. m : delivered[i].good /\ delivered[i].n \in 1 .. k /\ delivered[i] = arrived[delivered[i].n]
    BY DEF Through
  <2>4. \A i, j \in 1 .. m : i < j => delivered[i].n < delivered[j].n
    BY DEF Through
  <2>5. \A n \in 1 .. k : arrived[n].good => \E i \in 1 .. m : delivered[i].n = n
    BY DEF Through
  <2> HIDE DEF m
  <2>6. \A i \in 1 .. m + 1 : i \in 1 .. m \/ i = m + 1
    BY <2>2
  <2>7. ASSUME NEW i \in 1 .. m + 1
        PROVE  /\ delivered'[i].good /\ delivered'[i].n \in 1 .. k + 1
               /\ delivered'[i] = arrived'[delivered'[i].n]
    <3>1. CASE i \in 1 .. m
      BY <1>5, <2>2, <2>3, <3>1
    <3>2. CASE i = m + 1
      <4>1. k + 1 \in 1 .. k + 1
        BY <1>2
      <4> QED  BY <1>3, <1>7, <2>2, <3>2, <4>1 DEF f
    <3> QED  BY <2>6, <3>1, <3>2
  <2>8. ASSUME NEW i \in 1 .. m + 1, NEW j \in 1 .. m + 1, i < j
        PROVE  delivered'[i].n < delivered'[j].n
    <3>1. i \in 1 .. m
      BY <2>2, <2>8
    <3>2. CASE j \in 1 .. m
      BY <2>2, <2>4, <2>8, <3>1, <3>2
    <3>3. CASE j = m + 1
      <4>1. delivered'[j].n = k + 1
        BY <1>3, <2>2, <3>3
      <4>2. delivered'[i].n \in 1 .. k
        BY <2>2, <2>3, <3>1
      <4> QED  BY <1>5, <4>1, <4>2
    <3> QED  BY <2>6, <3>2, <3>3
  <2>9. ASSUME NEW n \in 1 .. k + 1, arrived'[n].good PROVE \E i \in 1 .. m + 1 : delivered'[i].n = n
    <3>1. CASE n \in 1 .. k
      <4>1. PICK i \in 1 .. m : delivered[i].n = n
        BY <2>5, <2>9, <3>1
      <4>2. i \in 1 .. m + 1
        BY <2>2
      <4> QED  BY <2>2, <4>1, <4>2
    <3>2. CASE n = k + 1
      <4>1. m + 1 \in 1 .. m + 1
        BY <2>2
      <4> QED  BY <1>3, <2>2, <3>2, <4>1
    <3> QED  BY <1>4, <3>1, <3>2
  <2>10. Through(k + 1)'
    BY <2>2, <2>7, <2>8, <2>9 DEF Through
  <2> QED  BY <2>2, <2>10
<1> QED  BY <1>6, <1>7

\* Both drivers give the buffer back, after which the driver is through with one more.
LEMMA GivesNext ==
  ASSUME NetInv, RxGive, NEW k \in 0 .. Len(arrived), NetAt(k)
  PROVE  /\ k \in Nat /\ k + 1 \in 0 .. Len(arrived') /\ Through(k + 1)' /\ Copied(k + 1)' /\ Numbered'
         /\ InHand = 1 /\ InHand' = 0 /\ taken'.at = -1 /\ UNCHANGED <<card, arrived>>
         /\ delivered' \in Seq(Frames) /\ taken' \in [at : {-1} \union Descriptors, frame : Frames]
         /\ taken.at \in Descriptors
<1>1. /\ RxTypeOK /\ Numbered /\ Through(k) /\ Copied(k) /\ taken.at # -1
      /\ UNCHANGED <<card, arrived>> /\ taken' = [at |-> -1, frame |-> Nothing]
      /\ delivered' = IF taken.frame.good THEN Append(delivered, taken.frame) ELSE delivered
  BY DEF RxGive, NetInv, NetAt
<1>2. k \in Nat /\ Len(arrived) \in Nat /\ k < Len(arrived) /\ taken.frame = arrived[k + 1]
  BY <1>1 DEF Copied, RxTypeOK
<1>3. Through(k + 1)' /\ delivered' \in Seq(Frames)
  BY <1>1, <1>2, ThroughNext
<1>4. taken'.at = -1 /\ InHand = 1 /\ InHand' = 0
  BY <1>1 DEF InHand
<1>5. taken' \in [at : {-1} \union Descriptors, frame : Frames]
  BY <1>1 DEF Nothing, Frames
<1>6. taken.at \in Descriptors
  BY <1>1 DEF RxTypeOK
<1>7. Copied(k + 1)' /\ Numbered'
  BY <1>1, <1>4 DEF Copied, Numbered
<1> QED  BY <1>1, <1>2, <1>3, <1>4, <1>5, <1>6, <1>7

\* The virtio driver puts the buffer on the available ring.
LEMMA GiveVirtio ==
  ASSUME NetInv, RxGive, card = "virtio"
  PROVE  NetInv'
<1> DEFINE a == taken.at
<1>1. PICK k \in 0 .. Len(arrived) : NetAt(k)
  BY DEF NetInv
<1>2. /\ k \in Nat /\ k + 1 \in 0 .. Len(arrived') /\ Through(k + 1)' /\ Copied(k + 1)' /\ Numbered'
      /\ InHand = 1 /\ InHand' = 0 /\ taken'.at = -1 /\ UNCHANGED <<card, arrived>>
      /\ delivered' \in Seq(Frames) /\ taken' \in [at : {-1} \union Descriptors, frame : Frames]
      /\ a \in Descriptors
  BY <1>1, GivesNext
<1>3. RxTypeOK /\ OnUsedRing(k)
  BY <1>1 DEF NetInv, NetAt
<1>4. /\ rx.avail \in Seq(Descriptors) /\ rx.used \in Seq(Descriptors) /\ rx \in Rings
      /\ rx.buf \in [Descriptors -> Frames] /\ rx.dd \in [Descriptors -> BOOLEAN]
      /\ rx.head \in Descriptors /\ rx.tail \in Descriptors /\ rx.cur \in Descriptors
  BY <1>3, RingIs DEF RxTypeOK
<1>5. /\ Append(rx.avail, a) \in Seq(Descriptors) /\ Len(rx.avail) \in Nat
      /\ Len(Append(rx.avail, a)) = Len(rx.avail) + 1
      /\ \A i \in 1 .. Len(rx.avail) : Append(rx.avail, a)[i] = rx.avail[i]
      /\ Append(rx.avail, a)[Len(rx.avail) + 1] = a
  BY <1>2, <1>4, AppendIs
<1>6. /\ rx' = Ring(Append(rx.avail, a), rx.used, rx.buf, rx.dd, rx.head, rx.tail, rx.cur)
      /\ rx'.avail = Append(rx.avail, a) /\ rx'.used = rx.used /\ rx'.buf = rx.buf /\ rx'.dd = rx.dd
  <2> DEFINE x == Append(rx.avail, a)
  <2>1. rx' = SetAvail(rx, x)
    BY DEF RxGive, Returned, SetAvail
  <2> HIDE DEF x
  <2>2. rx' = Ring(x, rx.used, rx.buf, rx.dd, rx.head, rx.tail, rx.cur)
    BY <1>4, <2>1, RingSteps
  <2>3. rx'.avail = x /\ rx'.used = rx.used /\ rx'.buf = rx.buf /\ rx'.dd = rx.dd
    BY <2>2, RingSet
  <2> QED  BY <2>2, <2>3 DEF x
<1>7. rx' \in Rings
  BY <1>4, <1>5, <1>6, RingIs, Zenon
<1>8. /\ \A i \in Descriptors : ~rx.dd[i]
      /\ Len(arrived) = k + InHand + Len(rx.used)
      /\ \A i \in 1 .. Len(rx.used) : rx.buf[rx.used[i]] = arrived[k + InHand + i]
      /\ OncePlaced
  BY <1>3 DEF OnUsedRing
<1>9. Len(rx.used) \in Nat /\ Len(arrived) = k + 1 + Len(rx.used)
  <2>1. Len(rx.used) \in Nat
    BY <1>4
  <2> QED  BY <1>2, <1>8, <2>1
<1>10. ASSUME NEW i \in 1 .. Len(rx'.used) PROVE rx'.buf[rx'.used[i]] = arrived'[k + 1 + InHand' + i]
  <2>1. k + InHand + i = k + 1 + InHand' + i
    BY <1>2
  <2> QED  BY <1>2, <1>6, <1>8, <2>1
<1>11. OncePlaced'
  <2>0. Len(rx'.avail) = Len(rx.avail) + 1 /\ rx'.avail[Len(rx.avail) + 1] = a
    BY <1>5, <1>6
  <2>1. ASSUME NEW j \in 1 .. Len(rx'.avail)
        PROVE  \/ j \in 1 .. Len(rx.avail) /\ rx'.avail[j] = rx.avail[j] /\ rx'.avail[j] # a
               \/ j = Len(rx.avail) + 1 /\ rx'.avail[j] = a
    <3>1. CASE j = Len(rx.avail) + 1
      BY <2>0, <3>1
    <3>2. CASE j # Len(rx.avail) + 1
      <4>1. j \in 1 .. Len(rx.avail)
        BY <1>5, <2>0, <3>2
      <4> QED  BY <1>5, <1>6, <1>8, <4>1 DEF OncePlaced
    <3> QED  BY <3>1, <3>2
  <2>2. ASSUME NEW i \in 1 .. Len(rx'.avail), NEW j \in 1 .. Len(rx'.avail), i # j
        PROVE  rx'.avail[i] # rx'.avail[j]
    <3>1. CASE i \in 1 .. Len(rx.avail) /\ j \in 1 .. Len(rx.avail)
      BY <1>5, <1>6, <1>8, <2>2, <3>1 DEF OncePlaced
    <3>2. CASE i = Len(rx.avail) + 1 \/ j = Len(rx.avail) + 1
      BY <1>5, <2>0, <2>1, <2>2, <3>2
    <3> QED  BY <2>1, <3>1, <3>2
  <2>3. ASSUME NEW i \in 1 .. Len(rx'.used), NEW j \in 1 .. Len(rx'.avail)
        PROVE  rx'.used[i] # rx'.avail[j]
    BY <1>6, <1>8, <2>1 DEF OncePlaced
  <2>4. \A i \in 1 .. Len(rx'.used) : rx'.used[i] # taken'.at
    <3>1. -1 \notin Descriptors
      BY NetCardsAssumption DEF Descriptors
    <3>2. \A i \in 1 .. Len(rx.used) : rx.used[i] \in Descriptors
      BY <1>4
    <3> QED  BY <1>2, <1>6, <3>1, <3>2
  <2>5. \A i \in 1 .. Len(rx'.avail) : rx'.avail[i] # taken'.at
    <3>1. -1 \notin Descriptors
      BY NetCardsAssumption DEF Descriptors
    <3>2. \A i \in 1 .. Len(rx'.avail) : rx'.avail[i] \in Descriptors
      BY <1>5, <1>6
    <3> QED  BY <1>2, <3>1, <3>2
  <2>6. \A i, j \in 1 .. Len(rx'.used) : i # j => rx'.used[i] # rx'.used[j]
    BY <1>6, <1>8 DEF OncePlaced
  <2> QED  BY <2>2, <2>3, <2>4, <2>5, <2>6 DEF OncePlaced
<1>12. OnUsedRing(k + 1)'
  <2>1. Len(arrived') = k + 1 + InHand' + Len(rx'.used)
    <3> DEFINE m == Len(rx.used)
    <3>1. m \in Nat /\ k \in Nat /\ Len(arrived') = k + 1 + m /\ Len(rx'.used) = m /\ InHand' = 0
      BY <1>2, <1>6, <1>9
    <3> HIDE DEF m
    <3> QED  BY <3>1
  <2>2. \A i \in Descriptors : ~rx'.dd[i]
    BY <1>6, <1>8
  <2> QED  BY <1>10, <1>11, <2>1, <2>2 DEF OnUsedRing
<1>13. NetAt(k + 1)'
  BY <1>2, <1>12 DEF NetAt
<1>14. RxTypeOK'
  BY <1>2, <1>3, <1>7 DEF RxTypeOK
<1> QED  BY <1>2, <1>13, <1>14 DEF NetInv

\* The e1000e driver clears the descriptor and moves RDT onto it, whether the frame was
\* good (RDT = the descriptor) or bad (RDT + 1).
LEMMA GiveE1000e ==
  ASSUME NetInv, RxGive, card = "e1000e"
  PROVE  NetInv'
<1>0. RxRing \in Nat \ {0}
  BY NetCardsAssumption
<1>1. PICK k \in 0 .. Len(arrived) : NetAt(k)
  BY DEF NetInv
<1>2. /\ k \in Nat /\ k + 1 \in 0 .. Len(arrived') /\ Through(k + 1)' /\ Copied(k + 1)' /\ Numbered'
      /\ taken'.at = -1 /\ UNCHANGED <<card, arrived>>
      /\ delivered' \in Seq(Frames) /\ taken' \in [at : {-1} \union Descriptors, frame : Frames]
      /\ taken.at \in Descriptors
  BY <1>1, GivesNext
<1>3. RxTypeOK /\ OnDescriptors(k) /\ Copied(k)
  BY <1>1 DEF NetInv, NetAt
<1>4. /\ rx.avail \in Seq(Descriptors) /\ rx.used \in Seq(Descriptors) /\ rx \in Rings
      /\ rx.buf \in [Descriptors -> Frames] /\ rx.dd \in [Descriptors -> BOOLEAN]
      /\ rx.head \in Descriptors /\ rx.tail \in Descriptors /\ rx.cur \in Descriptors
  BY <1>3, RingIs DEF RxTypeOK
<1>5. taken.at # -1 /\ taken.at = rx.cur /\ k < Len(arrived) /\ Len(arrived) \in Nat
  BY <1>3 DEF RxGive, OnDescriptors, Copied, RxTypeOK
<1> DEFINE c == Wrapped(rx.cur + 1, RxRing)
           p == Len(arrived) - k
<1>6. c \in Descriptors /\ (rx.cur + 1) % RxRing = c
  <2>1. rx.cur + 1 \in 0 .. 2 * RxRing - 1
    BY <1>0, <1>4 DEF Descriptors
  <2> QED  BY <1>0, <2>1, WrapOnce DEF Descriptors
<1>7. rx.tail \in Descriptors /\ (rx.tail + 1) % RxRing = rx.cur
  <2>1. rx.tail = After(RxRing - 1)
    BY <1>3 DEF OnDescriptors
  <2>2. rx.tail = Wrapped(rx.cur + (RxRing - 1), RxRing)
    BY <2>1 DEF After
  <2>3. Wrapped(rx.tail + 1, RxRing) = rx.cur
    BY <1>0, <1>4, <2>2 DEF Wrapped, Descriptors
  <2>4. rx.tail + 1 \in 0 .. 2 * RxRing - 1
    BY <1>0, <1>4 DEF Descriptors
  <2> QED  BY <1>0, <1>4, <2>3, <2>4, WrapOnce
<1>8. /\ rx' = Ring(rx.avail, rx.used, rx.buf, [rx.dd EXCEPT ![rx.cur] = FALSE], rx.head, rx.cur, c)
      /\ rx'.used = rx.used /\ rx'.buf = rx.buf /\ rx'.dd = [rx.dd EXCEPT ![rx.cur] = FALSE]
      /\ rx'.head = rx.head /\ rx'.tail = rx.cur /\ rx'.cur = c
  <2> DEFINE d == [rx.dd EXCEPT ![rx.cur] = FALSE]
  <2>1. rx' = SetAtCur(rx, d, (rx.cur + 1) % RxRing,
                       IF taken.frame.good THEN taken.at ELSE (rx.tail + 1) % RxRing)
    BY <1>5 DEF RxGive, Returned, SetAtCur
  <2>2. rx' = SetAtCur(rx, d, c, rx.cur)
    BY <1>5, <1>6, <1>7, <2>1
  <2> HIDE DEF d, c
  <2>3. rx' = Ring(rx.avail, rx.used, rx.buf, d, rx.head, rx.cur, c)
    BY <1>4, <2>2, RingSteps
  <2>4. /\ rx'.used = rx.used /\ rx'.buf = rx.buf /\ rx'.dd = d /\ rx'.head = rx.head
        /\ rx'.tail = rx.cur /\ rx'.cur = c
    BY <2>3, RingSet
  <2> QED  BY <2>3, <2>4 DEF d
<1>9. rx' \in Rings
  <2>1. [rx.dd EXCEPT ![rx.cur] = FALSE] \in [Descriptors -> BOOLEAN]
    BY <1>4
  <2> HIDE DEF c
  <2> QED  BY <1>4, <1>6, <1>8, <2>1, RingIs, Zenon
<1>10. p \in Descriptors /\ p >= 1 /\ p - 1 \in Descriptors /\ Len(arrived') - (k + 1) = p - 1 /\ p \in Nat
  <2>1. p \in Descriptors
    BY <1>3 DEF OnDescriptors
  <2> QED  BY <1>0, <1>2, <1>5, <2>1 DEF Descriptors
<1>11. ASSUME NEW i \in Descriptors
       PROVE  /\ After(i)' = Wrapped(c + i, RxRing)
              /\ i + 1 \in Descriptors => After(i)' = After(i + 1) /\ After(i + 1) # rx.cur /\ After(i + 1) \in Descriptors
              /\ i + 1 \notin Descriptors => After(i)' = rx.cur /\ i = RxRing - 1
  <2>1. After(i)' = Wrapped(c + i, RxRing)
    BY <1>8 DEF After
  <2>2. rx.cur \in 0 .. RxRing - 1 /\ i \in 0 .. RxRing - 1
    BY <1>4 DEF Descriptors
  <2>3. ASSUME i + 1 \in 0 .. RxRing - 1
        PROVE  Wrapped(c + i, RxRing) = Wrapped(rx.cur + (i + 1), RxRing)
    BY <1>0, <2>2, <2>3, WrapNext
  <2>4. ASSUME i + 1 \in 0 .. RxRing - 1
        PROVE  /\ Wrapped(rx.cur + (i + 1), RxRing) # rx.cur
               /\ Wrapped(rx.cur + (i + 1), RxRing) \in 0 .. RxRing - 1
    BY <1>0, <2>2, <2>4 DEF Wrapped
  <2>5. ASSUME i + 1 \notin 0 .. RxRing - 1
        PROVE  Wrapped(c + i, RxRing) = rx.cur /\ i = RxRing - 1
    BY <1>0, <2>2, <2>5 DEF Wrapped
  <2> QED  BY <2>1, <2>3, <2>4, <2>5 DEF After, Descriptors
<1> HIDE DEF c, p
<1>12. ASSUME NEW i \in Descriptors
       PROVE  /\ rx'.dd[After(i)'] <=> i < p - 1
              /\ i < p - 1 => rx'.buf[After(i)'] = arrived'[k + 1 + 1 + i]
  <2>1. i \in Nat
    BY <1>0 DEF Descriptors
  <2>2. CASE i + 1 \in Descriptors
    <3>1. After(i)' = After(i + 1) /\ After(i + 1) # rx.cur /\ After(i + 1) \in Descriptors
      BY <1>11, <2>2
    <3>2. /\ rx.dd[After(i + 1)] <=> i + 1 < p
          /\ i + 1 < p => rx.buf[After(i + 1)] = arrived[k + 1 + (i + 1)]
      BY <1>3, <2>2 DEF OnDescriptors, p
    <3>3. rx'.dd[After(i)'] = rx.dd[After(i + 1)] /\ rx'.buf[After(i)'] = rx.buf[After(i + 1)]
      BY <1>4, <1>8, <3>1
    <3>4. (i + 1 < p <=> i < p - 1) /\ k + 1 + (i + 1) = k + 1 + 1 + i
      BY <1>2, <1>10, <2>1
    <3> QED  BY <1>2, <3>2, <3>3, <3>4
  <2>3. CASE i + 1 \notin Descriptors
    <3>1. After(i)' = rx.cur /\ i = RxRing - 1
      BY <1>11, <2>3
    <3>2. rx'.dd[rx.cur] = FALSE
      BY <1>4, <1>8
    <3>3. ~(i < p - 1)
      BY <1>0, <1>10, <3>1 DEF Descriptors
    <3> QED  BY <3>1, <3>2, <3>3
  <2> QED  BY <2>2, <2>3
<1>13. rx'.head = After(Len(arrived) - (k + 1))'
  <2>1. rx.head = After(p)
    BY <1>3 DEF OnDescriptors, p
  <2>3. After(Len(arrived) - (k + 1))' = Wrapped(c + (p - 1), RxRing)
    BY <1>8, <1>10 DEF After
  <2>4. After(p) = Wrapped(c + (p - 1), RxRing)
    <3> DEFINE q == p - 1
    <3>2. q \in Descriptors /\ q + 1 \in Descriptors /\ q + 1 = p
      BY <1>10
    <3> HIDE DEF q
    <3>3. Wrapped(c + q, RxRing) = After(p)
      BY <1>11, <3>2
    <3> QED  BY <3>3 DEF q
  <2> QED  BY <1>8, <2>1, <2>3, <2>4
<1>14. rx'.tail = After(RxRing - 1)'
  <2>1. RxRing - 1 \in Descriptors /\ (RxRing - 1) + 1 \notin Descriptors
    BY <1>0 DEF Descriptors
  <2> QED  BY <1>8, <1>11, <2>1
<1>15. OnDescriptors(k + 1)'
  <2>1. rx'.used = <<>>
    BY <1>3, <1>8 DEF OnDescriptors
  <2>2. \A i \in Descriptors :
          /\ rx'.dd[After(i)'] <=> i < Len(arrived') - (k + 1)
          /\ i < Len(arrived') - (k + 1) => rx'.buf[After(i)'] = arrived'[k + 1 + 1 + i]
    BY <1>10, <1>12
  <2> QED  BY <1>2, <1>10, <1>13, <1>14, <2>1, <2>2 DEF OnDescriptors
<1>16. NetAt(k + 1)'
  BY <1>2, <1>15 DEF NetAt
<1>17. RxTypeOK'
  BY <1>2, <1>3, <1>9 DEF RxTypeOK
<1> QED  BY <1>2, <1>16, <1>17 DEF NetInv

\* Every step of the cards and their drivers.
LEMMA NetKeeps ==
  ASSUME NetInv, NetStep \/ UNCHANGED netVars
  PROVE  NetInv'
<1>1. ASSUME UNCHANGED <<card, rx, taken, arrived, delivered>> PROVE NetInv'
  <2>1. PICK k \in 0 .. Len(arrived) : NetAt(k)
    BY DEF NetInv
  <2>2. NetAt(k)'
    <3>1. Through(k) /\ Copied(k) => Through(k)' /\ Copied(k)'
      BY <1>1 DEF Through, Copied
    <3>2. OnUsedRing(k) => OnUsedRing(k)'
      <4>1. InHand' = InHand /\ (OncePlaced => OncePlaced')
        BY <1>1 DEF InHand, OncePlaced
      <4> QED  BY <1>1, <4>1 DEF OnUsedRing
    <3>3. OnDescriptors(k) => OnDescriptors(k)'
      BY <1>1 DEF OnDescriptors, After
    <3> QED  BY <1>1, <2>1, <3>1, <3>2, <3>3 DEF NetAt
  <2>3. RxTypeOK' /\ Numbered' /\ k \in 0 .. Len(arrived')
    BY <1>1 DEF NetInv, RxTypeOK, Numbered
  <2> QED  BY <2>2, <2>3 DEF NetInv
<1>2. CASE SendVirtio \/ SendE1000e
  BY <1>1, <1>2 DEF SendVirtio, SendE1000e, NewSend
<1>3. CASE Transmit \/ Sent \/ SendTimeout \/ LinkChange \/ UNCHANGED netVars
  BY <1>1, <1>3 DEF Transmit, Sent, SendTimeout, LinkChange, netVars
<1>4. card \in {"virtio", "e1000e"}
  BY DEF NetInv, RxTypeOK
<1>5. ASSUME NEW good \in BOOLEAN, Arrive(good) PROVE NetInv'
  BY <1>4, <1>5, ArriveVirtio, ArriveE1000e
<1>6. CASE RxTakeVirtio \/ RxTakeE1000e
  BY <1>6, TakeVirtioKeeps, TakeE1000eKeeps
<1>7. CASE RxGive
  BY <1>4, <1>7, GiveVirtio, GiveE1000e
<1> QED  BY <1>2, <1>3, <1>5, <1>6, <1>7 DEF NetStep

\* What is not delivered is still in the ring, and later than all that is.
LEMMA NetInvIs == NetInv => ReceivedInOrder
<1> SUFFICES ASSUME NetInv PROVE ReceivedInOrder
  OBVIOUS
<1>0. RxRing \in Nat \ {0} /\ 0 \in Descriptors
  BY NetCardsAssumption DEF Descriptors
<1>1. PICK k \in 0 .. Len(arrived) : NetAt(k)
  BY DEF NetInv
<1>2. /\ RxTypeOK /\ Numbered /\ Through(k) /\ Copied(k) /\ card \in {"virtio", "e1000e"}
      /\ card = "virtio" => OnUsedRing(k)
      /\ card = "e1000e" => OnDescriptors(k)
  BY <1>1 DEF NetInv, NetAt, RxTypeOK
<1>3. /\ DOMAIN delivered = 1 .. Len(delivered) /\ DOMAIN arrived = 1 .. Len(arrived)
      /\ Len(arrived) \in Nat /\ k \in Nat
      /\ rx.dd \in [Descriptors -> BOOLEAN] /\ rx.used \in Seq(Descriptors) /\ rx.cur \in Descriptors
  BY <1>2, RingIs DEF RxTypeOK
<1>4. \A n \in 1 .. k : n \in 1 .. Len(arrived)
  BY <1>3
<1>5. ASSUME NEW n \in 1 .. Len(arrived), arrived[n].good,
             \A i \in 1 .. Len(delivered) : delivered[i].n # n
      PROVE  ~RxEmpty /\ \A i \in 1 .. Len(delivered) : delivered[i].n < n
  <2>1. n \notin 1 .. k
    BY <1>2, <1>5 DEF Through
  <2>2. k < n /\ k < Len(arrived) /\ n \in Nat
    BY <1>3, <2>1
  <2>3. \A i \in 1 .. Len(delivered) : delivered[i].n < n
    <3>1. \A i \in 1 .. Len(delivered) : delivered[i].n \in 1 .. k
      BY <1>2 DEF Through
    <3> QED  BY <1>3, <2>2, <3>1
  <2>4. ASSUME RxEmpty PROVE FALSE
    <3>1. taken.at = -1 /\ rx.used = <<>> /\ \A i \in Descriptors : ~rx.dd[i]
      BY <1>3, <2>4 DEF RxEmpty
    <3>2. CASE card = "virtio"
      <4>1. Len(arrived) = k + InHand + Len(rx.used) /\ InHand = 0 /\ Len(rx.used) = 0
        BY <1>2, <3>1, <3>2 DEF OnUsedRing, InHand
      <4> QED  BY <1>3, <2>2, <4>1
    <3>3. CASE card = "e1000e"
      <4>1. After(0) = rx.cur
        BY <1>0, <1>3 DEF After, Wrapped, Descriptors
      <4>2. ~(0 < Len(arrived) - k)
        BY <1>0, <1>2, <1>3, <3>1, <3>3, <4>1 DEF OnDescriptors
      <4> QED  BY <1>3, <2>2, <4>2
    <3> QED  BY <1>2, <3>2, <3>3
  <2> QED  BY <2>3, <2>4
<1> QED  BY <1>2, <1>3, <1>4, <1>5 DEF ReceivedInOrder, Through

-----------------------------------------------------------------------------
(* The fids of the 9P server.                                              *)

Fields == {"st", "what", "path", "done", "cur", "new", "target", "at", "data", "waiting", "clean"}
Busy == {"walk", "midclunk", "getattr", "lopen", "read", "readdir", "clunkok", "clunkerr"}

\* A path takes more than one Twalk as soon as the walk has come to a fid of its own;
\* the last Twalk makes the fid the call was given.
VisitOK(v) ==
  /\ DOMAIN v = Fields
  /\ v.st \in Busy \union {"idle", "ok", "err"}
  /\ v.path \in Seq(STRING) /\ v.done \in Nat /\ v.waiting \in BOOLEAN
  /\ v.cur # Root \/ v.st = "midclunk" => Len(v.path) > WalkMax
  /\ v.st = "walk" /\ v.waiting /\ LastChunk(v) => v.target = v.new

\* The message of the transaction a call is at.
RequestOf(v) ==
  CASE v.st = "walk" -> Message("walk", v.cur, v.target, Chunk(v))
    [] v.st = "midclunk" -> Message("clunk", v.cur, 0, <<>>)
    [] v.st \in {"clunkok", "clunkerr"} -> Message("clunk", v.new, 0, <<>>)
    [] OTHER -> Message(v.st, v.new, v.at, <<>>)

\* The fids a call may have at the server, when the server has not answered its message
\* (or there is none) and when it has answered r.
Unanswered(v) ==
  CASE v.st \in {"walk", "idle", "ok", "err"} -> {v.cur}
    [] v.st = "midclunk" -> {v.cur, v.target}
    [] OTHER -> {v.cur, v.new}

AnsweredBy(v, r) ==
  CASE v.st = "walk" /\ r.type = "walk" /\ r.n = Len(Chunk(v)) -> {v.cur, v.target}
    [] v.st = "midclunk" -> {v.target}
    [] v.st \in {"clunkok", "clunkerr"} -> {v.cur}
    [] OTHER -> Unanswered(v)

\* What earlier calls have left is one fid for each of their long paths.
LongPaths(v) == IF Len(v.path) > WalkMax THEN 1 ELSE 0

Bounded(F, v, have, l) ==
  \E B : /\ IsFiniteSet(B) /\ Cardinality(B) + LongPaths(v) <= l
         /\ F \ {Root} \subseteq B \union have

\* No transaction has been given up: a message is with the server or has been answered,
\* and the answer the driver looks at is that of its own message.
InStep ==
  /\ VisitOK(visit)
  /\ long \in Nat
  /\ ~(Visiting /\ visit.waiting) => sent = <<>> /\ ahead = 0
  /\ Visiting /\ visit.waiting => \/ sent = <<RequestOf(visit)>> /\ ahead = 0
                                  \/ sent = <<>> /\ ahead = 1
  /\ ~(visit.waiting /\ sent = <<>>) => Bounded(fids, visit, Unanswered(visit), long)
  /\ visit.waiting /\ sent = <<>> => Bounded(fids, visit, AnsweredBy(visit, rxBuf), long)

P9Inv ==
  /\ fuel \in [calls : Int, timeouts : Int, errors : Int]
  /\ fuel.timeouts <= P9Budget.timeouts
  /\ fuel.timeouts = P9Budget.timeouts => InStep

\* Only a path with more than WalkMax names has another Twalk to come.
LEMMA NotLastIsLong ==
  ASSUME NEW v, VisitOK(v)
  PROVE  /\ Chunk(v) \in Seq(STRING) /\ Len(Chunk(v)) \in Nat
         /\ ~LastChunk(v) => Len(v.path) > WalkMax
<1> DEFINE d == v.done
           l == Len(v.path)
           m == Min({d + WalkMax, l})
<1>0. v.path \in Seq(STRING) /\ d \in Nat /\ l \in Nat /\ WalkMax \in Nat \ {0}
  BY NinePAssumption DEF VisitOK
<1>1. m = Smaller(d + WalkMax, l) /\ m \in Int
  <2>1. d + WalkMax \in Int /\ l \in Int
    BY <1>0
  <2> HIDE DEF d, l
  <2> QED  BY <2>1, MinOfTwo DEF Smaller
<1>2. Chunk(v) = SubSeq(v.path, d + 1, m)
  BY DEF Chunk
<1> HIDE DEF m
<1>3. /\ Chunk(v) \in Seq(STRING)
      /\ Len(Chunk(v)) = IF d + 1 <= m THEN m - (d + 1) + 1 ELSE 0
  <2>1. \A i \in d + 1 .. m : v.path[i] \in STRING
    <3>1. \A i \in d + 1 .. m : i \in 1 .. l
      <4> HIDE DEF d, l
      <4> QED  BY <1>0, <1>1 DEF Smaller
    <3> QED  BY <1>0, <3>1
  <2>2. d + 1 \in Int
    BY <1>0
  <2> QED  BY <1>1, <1>2, <2>1, <2>2, SubSeqProperties
<1>4. LastChunk(v) <=> d + Len(Chunk(v)) >= l
  BY DEF LastChunk
<1> DEFINE c == Len(Chunk(v))
<1> SUFFICES c \in Nat /\ (~(d + c >= l) => l > WalkMax)
  BY <1>3, <1>4
<1>5. c = IF d + 1 <= m THEN m - (d + 1) + 1 ELSE 0
  BY <1>3
<1> HIDE DEF c, d, l
<1> QED  BY <1>0, <1>1, <1>5 DEF Smaller

\* What w keeps of v from one transaction of a call to the next, and what it is then at.
Onward(v, w, st, cur) ==
  /\ DOMAIN w = Fields /\ w.path = v.path /\ w.new = v.new /\ w.target = v.target
  /\ w.what = v.what /\ w.clean = v.clean
  /\ w.done \in Nat /\ w.waiting = FALSE
  /\ w.st = st /\ w.cur = cur

Done(v) == [v EXCEPT !.waiting = FALSE]

\* What the call has read stays as it is.
SameData(v, w) == w.at = v.at /\ w.data = v.data

LEMMA OnwardOK ==
  ASSUME NEW v, NEW w, NEW st \in Busy \union {"ok", "err"}, NEW cur, VisitOK(v), Onward(v, w, st, cur),
         cur # Root \/ st = "midclunk" => Len(v.path) > WalkMax
  PROVE  VisitOK(w)
BY DEF Onward, VisitOK

\* The next transaction after a failure.
LEMMA FailureOnward ==
  ASSUME NEW v, VisitOK(v), v.st \in Busy
  PROVE  /\ v.st \in {"walk", "clunkerr"} => Onward(v, Done(AfterFailure(v)), "err", v.cur)
         /\ v.st = "midclunk" => Onward(v, Done(AfterFailure(v)), "walk", v.target)
         /\ v.st = "clunkok" => Onward(v, Done(AfterFailure(v)), "ok", v.cur)
         /\ v.st \in {"getattr", "lopen", "read", "readdir"} =>
              Onward(v, Done(AfterFailure(v)), "clunkerr", v.cur)
         /\ SameData(v, Done(AfterFailure(v)))
<1> USE DEF VisitOK, Onward, Done, AfterFailure, Fields
<1>1. v.st \in {"walk", "clunkerr"} => Onward(v, Done(AfterFailure(v)), "err", v.cur)
  OBVIOUS
<1>2. v.st = "midclunk" => Onward(v, Done(AfterFailure(v)), "walk", v.target)
  OBVIOUS
<1>3. v.st = "clunkok" => Onward(v, Done(AfterFailure(v)), "ok", v.cur)
  OBVIOUS
<1>4. v.st \in {"getattr", "lopen", "read", "readdir"} =>
              Onward(v, Done(AfterFailure(v)), "clunkerr", v.cur)
  OBVIOUS
<1>5. SameData(v, Done(AfterFailure(v)))
  <2>1. CASE v.st = "walk"
    BY <2>1 DEF SameData
  <2>2. CASE v.st = "midclunk"
    BY <2>2 DEF SameData
  <2>3. CASE v.st \in {"clunkerr", "clunkok"}
    BY <2>3 DEF SameData
  <2>4. CASE v.st \in {"getattr", "lopen", "read", "readdir"}
    BY <2>4 DEF SameData
  <2> QED  BY <2>1, <2>2, <2>3, <2>4 DEF Busy
<1> QED  BY <1>1, <1>2, <1>3, <1>4, <1>5

\* The next transaction after the answer to a Twalk.
LEMMA WalkOnward ==
  ASSUME NEW v, NEW r, VisitOK(v), v.st = "walk"
  PROVE  /\ r.n # Len(Chunk(v)) => Onward(v, Done(AfterWalk(v, r)), "err", v.cur)
         /\ r.n = Len(Chunk(v)) /\ LastChunk(v) =>
              \E st \in {"getattr", "lopen"} : Onward(v, Done(AfterWalk(v, r)), st, v.cur)
         /\ r.n = Len(Chunk(v)) /\ ~LastChunk(v) /\ v.cur # Root =>
              Onward(v, Done(AfterWalk(v, r)), "midclunk", v.cur)
         /\ r.n = Len(Chunk(v)) /\ ~LastChunk(v) /\ v.cur = Root =>
              Onward(v, Done(AfterWalk(v, r)), "walk", v.target)
         /\ SameData(v, Done(AfterWalk(v, r)))
<1> DEFINE n == v.done + Len(Chunk(v))
<1>1. n \in Nat
  BY NotLastIsLong DEF VisitOK
<1>2. AfterWalk(v, r) =
        IF r.n # Len(Chunk(v)) THEN [v EXCEPT !.st = "err"]
        ELSE IF LastChunk(v) THEN [[v EXCEPT !.done = n] EXCEPT !.st = IF v.what = "file" THEN "getattr" ELSE "lopen"]
        ELSE IF v.cur # Root THEN [[v EXCEPT !.done = n] EXCEPT !.st = "midclunk"]
        ELSE [[v EXCEPT !.done = n] EXCEPT !.cur = v.target]
  BY DEF AfterWalk
<1> HIDE DEF n
<1> USE DEF VisitOK, Onward, Done, Fields, SameData
<1>3. CASE r.n # Len(Chunk(v))
  BY <1>2, <1>3
<1>4. CASE r.n = Len(Chunk(v)) /\ LastChunk(v)
  <2> DEFINE st == IF v.what = "file" THEN "getattr" ELSE "lopen"
  <2>1. Onward(v, Done(AfterWalk(v, r)), st, v.cur) /\ SameData(v, Done(AfterWalk(v, r)))
    BY <1>1, <1>2, <1>4
  <2>2. st \in {"getattr", "lopen"}
    OBVIOUS
  <2> HIDE DEF st, Onward, SameData
  <2> QED  BY <1>4, <2>1, <2>2
<1>5. CASE r.n = Len(Chunk(v)) /\ ~LastChunk(v) /\ v.cur # Root
  BY <1>1, <1>2, <1>5
<1>6. CASE r.n = Len(Chunk(v)) /\ ~LastChunk(v) /\ v.cur = Root
  BY <1>1, <1>2, <1>6
<1> QED  BY <1>3, <1>4, <1>5, <1>6

\* The next transaction after an answer to any other message.
LEMMA OtherOnward ==
  ASSUME NEW v, NEW r, VisitOK(v), v.st \in {"getattr", "lopen", "read", "readdir"}
  PROVE  \E st \in {"lopen", "read", "readdir", "clunkok", "clunkerr"} :
           Onward(v, Done(AfterAnswer(v, r)), st, v.cur)
<1>1. CASE r.type # v.st
  <2>1. AfterAnswer(v, r) = AfterFailure(v)
    BY <1>1 DEF AfterAnswer
  <2>2. v.st \in Busy
    BY DEF Busy
  <2> QED  BY <2>1, <2>2, FailureOnward
<1>2. CASE r.type = v.st /\ v.st = "getattr"
  <2>1. AfterAnswer(v, r) = AfterGetattr(v)
    BY <1>2 DEF AfterAnswer
  <2>2. Onward(v, Done(AfterGetattr(v)), "lopen", v.cur)
    BY DEF AfterGetattr, VisitOK, Onward, Done, Fields
  <2> QED  BY <2>1, <2>2
<1>3. CASE r.type = v.st /\ v.st = "lopen"
  <2> DEFINE st == IF v.what = "file" THEN "read" ELSE "readdir"
  <2>1. AfterAnswer(v, r) = AfterLopen(v)
    BY <1>3 DEF AfterAnswer
  <2>2. Onward(v, Done(AfterLopen(v)), st, v.cur)
    BY DEF AfterLopen, VisitOK, Onward, Done, Fields
  <2>3. st \in {"lopen", "read", "readdir", "clunkok", "clunkerr"}
    OBVIOUS
  <2> HIDE DEF st
  <2> QED  BY <2>1, <2>2, <2>3
<1>4. ASSUME NEW data, v.st \in {"read", "readdir"}
      PROVE  \E st \in {"lopen", "read", "readdir", "clunkok", "clunkerr"} :
               Onward(v, Done(AfterRead(v, data)), st, v.cur)
  <2>1. CASE data = <<>>
    <3>1. Onward(v, Done(AfterRead(v, data)), "clunkok", v.cur)
      BY <2>1 DEF AfterRead, VisitOK, Onward, Done, Fields
    <3> QED  BY <3>1
  <2>2. CASE data # <<>>
    <3> DEFINE a == v.at + 1
               d == Append(v.data, data)
    <3>1. AfterRead(v, data) = [[v EXCEPT !.at = a] EXCEPT !.data = d]
      BY <2>2 DEF AfterRead
    <3> HIDE DEF a, d
    <3>2. Onward(v, Done(AfterRead(v, data)), v.st, v.cur)
      BY <3>1 DEF VisitOK, Onward, Done, Fields
    <3> QED  BY <1>4, <3>2
  <2> QED  BY <2>1, <2>2
<1>5. CASE r.type = v.st /\ v.st = "read"
  <2>1. AfterAnswer(v, r) = AfterRead(v, r.data)
    BY <1>5 DEF AfterAnswer
  <2> QED  BY <1>4, <1>5, <2>1
<1>6. CASE r.type = v.st /\ v.st = "readdir"
  <2>1. AfterAnswer(v, r) = AfterRead(v, Entered(r.data))
    BY <1>6 DEF AfterAnswer, AfterReaddir
  <2> QED  BY <1>4, <1>6, <2>1
<1> QED  BY <1>1, <1>2, <1>3, <1>5, <1>6

\* An answered transaction hands the fids it leaves at the server on to the next one.
LEMMA AnswerOnward ==
  ASSUME NEW v, NEW r, VisitOK(v), v.st \in Busy, v.waiting
  PROVE  LET w == Done(AfterAnswer(v, r))
         IN  /\ VisitOK(w) /\ w.waiting = FALSE /\ w.path = v.path
             /\ AnsweredBy(v, r) \ {Root} \subseteq Unanswered(w)
<1> DEFINE w == Done(AfterAnswer(v, r))
<1> SUFFICES /\ VisitOK(w) /\ w.waiting = FALSE /\ w.path = v.path
             /\ AnsweredBy(v, r) \ {Root} \subseteq Unanswered(w)
  OBVIOUS
<1>1. ASSUME NEW st \in Busy \union {"ok", "err"}, NEW cur, Onward(v, w, st, cur),
             cur # Root \/ st = "midclunk" => Len(v.path) > WalkMax
      PROVE  /\ VisitOK(w) /\ w.waiting = FALSE /\ w.path = v.path
             /\ w.st = st /\ w.cur = cur /\ w.new = v.new /\ w.target = v.target
  <2> HIDE DEF w
  <2> QED  BY <1>1 DEF Onward, VisitOK
<1>2. v.cur # Root \/ v.st = "midclunk" => Len(v.path) > WalkMax
  BY DEF VisitOK
<1>3. v.st = "walk" /\ LastChunk(v) => v.target = v.new
  BY DEF VisitOK
<1>4. CASE v.st = "walk" /\ r.type # "walk"
  <2>1. AfterAnswer(v, r) = AfterFailure(v)
    BY <1>4 DEF AfterAnswer
  <2>2. Onward(v, w, "err", v.cur)
    BY <1>4, <2>1, FailureOnward
  <2> HIDE DEF w
  <2>3. AnsweredBy(v, r) = {v.cur}
    BY <1>4 DEF AnsweredBy, Unanswered
  <2>4. w.st = "err" /\ w.cur = v.cur /\ VisitOK(w) /\ w.waiting = FALSE /\ w.path = v.path
    BY <1>1, <1>2, <2>2
  <2> QED  BY <2>3, <2>4 DEF Unanswered
<1>5. CASE v.st = "walk" /\ r.type = "walk"
  <2>1. AfterAnswer(v, r) = AfterWalk(v, r)
    BY <1>5 DEF AfterAnswer
  <2>2. CASE r.n # Len(Chunk(v))
    <3>1. Onward(v, w, "err", v.cur)
      BY <1>5, <2>1, <2>2, WalkOnward
    <3> HIDE DEF w
    <3>2. AnsweredBy(v, r) = {v.cur}
      BY <1>5, <2>2 DEF AnsweredBy, Unanswered
    <3>3. w.st = "err" /\ w.cur = v.cur /\ VisitOK(w) /\ w.waiting = FALSE /\ w.path = v.path
      BY <1>1, <1>2, <3>1
    <3> QED  BY <3>2, <3>3 DEF Unanswered
  <2>3. CASE r.n = Len(Chunk(v))
    <3>1. AnsweredBy(v, r) = {v.cur, v.target}
      BY <1>5, <2>3 DEF AnsweredBy
    <3>2. CASE LastChunk(v)
      <4>1. PICK st \in {"getattr", "lopen"} : Onward(v, w, st, v.cur)
        BY <1>5, <2>1, <2>3, <3>2, WalkOnward
      <4> HIDE DEF w
      <4>2. st \in Busy /\ st # "midclunk"
        BY DEF Busy
      <4>3. w.st = st /\ w.cur = v.cur /\ w.new = v.new /\ VisitOK(w) /\ w.waiting = FALSE /\ w.path = v.path
        BY <1>1, <1>2, <4>1, <4>2
      <4>4. Unanswered(w) = {v.cur, v.new}
        BY <4>1, <4>3 DEF Unanswered
      <4> QED  BY <1>3, <1>5, <3>1, <3>2, <4>3, <4>4
    <3>3. CASE ~LastChunk(v) /\ v.cur # Root
      <4>1. Onward(v, w, "midclunk", v.cur) /\ "midclunk" \in Busy
        BY <1>5, <2>1, <2>3, <3>3, WalkOnward DEF Busy
      <4> HIDE DEF w
      <4>2. w.st = "midclunk" /\ w.cur = v.cur /\ w.target = v.target /\ VisitOK(w) /\ w.waiting = FALSE /\ w.path = v.path
        BY <1>1, <1>2, <3>3, <4>1
      <4> QED  BY <3>1, <4>2 DEF Unanswered
    <3>4. CASE ~LastChunk(v) /\ v.cur = Root
      <4>1. Onward(v, w, "walk", v.target) /\ "walk" \in Busy
        BY <1>5, <2>1, <2>3, <3>4, WalkOnward DEF Busy
      <4> HIDE DEF w
      <4>2. Len(v.path) > WalkMax
        BY <3>4, NotLastIsLong
      <4>3. w.st = "walk" /\ w.cur = v.target /\ VisitOK(w) /\ w.waiting = FALSE /\ w.path = v.path
        BY <1>1, <4>1, <4>2
      <4>4. Unanswered(w) = {v.target}
        BY <4>3 DEF Unanswered
      <4> QED  BY <3>1, <3>4, <4>3, <4>4
    <3> QED  BY <3>2, <3>3, <3>4
  <2> QED  BY <2>2, <2>3
<1>6. CASE v.st = "midclunk"
  <2>1. AfterAnswer(v, r) = AfterFailure(v)
    BY <1>6 DEF AfterAnswer
  <2>2. Onward(v, w, "walk", v.target) /\ "walk" \in Busy
    BY <1>6, <2>1, FailureOnward DEF Busy
  <2> HIDE DEF w
  <2>3. AnsweredBy(v, r) = {v.target}
    BY <1>6 DEF AnsweredBy
  <2>4. w.st = "walk" /\ w.cur = v.target /\ VisitOK(w) /\ w.waiting = FALSE /\ w.path = v.path
    BY <1>1, <1>2, <1>6, <2>2
  <2> QED  BY <2>3, <2>4 DEF Unanswered
<1>7. CASE v.st \in {"clunkok", "clunkerr"}
  <2>1. AfterAnswer(v, r) = AfterFailure(v)
    BY <1>7 DEF AfterAnswer
  <2>2. PICK st \in {"ok", "err"} : Onward(v, w, st, v.cur)
    BY <1>7, <2>1, FailureOnward
  <2> HIDE DEF w
  <2>3. AnsweredBy(v, r) = {v.cur}
    BY <1>7 DEF AnsweredBy
  <2>4. w.st = st /\ w.cur = v.cur /\ VisitOK(w) /\ w.waiting = FALSE /\ w.path = v.path
    BY <1>1, <1>2, <2>2
  <2> QED  BY <2>2, <2>3, <2>4 DEF Unanswered
<1>8. CASE v.st \in {"getattr", "lopen", "read", "readdir"}
  <2>1. PICK st \in {"lopen", "read", "readdir", "clunkok", "clunkerr"} : Onward(v, w, st, v.cur)
    BY <1>8, OtherOnward
  <2> HIDE DEF w
  <2>2. st \in Busy /\ st # "midclunk"
    BY <2>1 DEF Busy
  <2>3. AnsweredBy(v, r) = {v.cur, v.new}
    BY <1>8 DEF AnsweredBy, Unanswered
  <2>4. w.st = st /\ w.cur = v.cur /\ w.new = v.new /\ VisitOK(w) /\ w.waiting = FALSE /\ w.path = v.path
    BY <1>1, <1>2, <2>1, <2>2
  <2>5. Unanswered(w) = {v.cur, v.new}
    BY <2>1, <2>4 DEF Unanswered
  <2> QED  BY <2>3, <2>4, <2>5
<1> QED  BY <1>4, <1>5, <1>6, <1>7, <1>8 DEF Busy

\* The fids of a call change: what comes is in the new set, what leaves it is gone.
LEMMA BoundMoves ==
  ASSUME NEW F, NEW G, NEW v, NEW w, NEW have, NEW then, NEW l,
         Bounded(F, v, have, l), w.path = v.path,
         G \ {Root} \subseteq F \union then, G \intersect (have \ {Root}) \subseteq then
  PROVE  Bounded(G, w, then, l)
<1>1. PICK B : /\ IsFiniteSet(B) /\ Cardinality(B) + LongPaths(v) <= l
               /\ F \ {Root} \subseteq B \union have
  BY DEF Bounded
<1>2. LongPaths(w) = LongPaths(v)
  BY DEF LongPaths
<1>3. G \ {Root} \subseteq B \union then
  BY <1>1
<1> QED  BY <1>1, <1>2, <1>3 DEF Bounded

\* At boot the server has the root and no call has been made.
LEMMA P9InitInv == P9Init => P9Inv
<1> SUFFICES ASSUME P9Init PROVE P9Inv
  OBVIOUS
<1>1. fuel \in [calls : Int, timeouts : Int, errors : Int] /\ fuel.timeouts <= P9Budget.timeouts
  BY NinePAssumption DEF P9Init
<1>2. VisitOK(visit) /\ ~visit.waiting /\ ~Visiting /\ visit.path = <<>>
  BY DEF P9Init, VisitOK, Fields, Visiting
<1>3. sent = <<>> /\ ahead = 0 /\ long = 0 /\ fids = {Root}
  BY DEF P9Init
<1>4. Bounded(fids, visit, Unanswered(visit), long)
  <2>1. LongPaths(visit) = 0
    BY <1>2, NinePAssumption DEF LongPaths
  <2>2. IsFiniteSet({}) /\ Cardinality({}) + LongPaths(visit) <= long
    BY <1>3, <2>1, FS_EmptySet
  <2>3. fids \ {Root} \subseteq {} \union Unanswered(visit)
    BY <1>3
  <2> QED  BY <2>2, <2>3 DEF Bounded
<1> QED  BY <1>1, <1>2, <1>3, <1>4 DEF P9Inv, InStep

LEMMA VisitStarts ==
  ASSUME NEW what \in {"file", "dir"}, NEW path \in Asked, Visit(what, path)
  PROVE  /\ visit'.st = "walk" /\ visit'.path = path /\ visit'.cur = Root /\ visit'.waiting = FALSE
         /\ visit'.what = what /\ visit'.at = 0 /\ visit'.data = <<>>
         /\ visit'.clean = (ahead = 0 /\ sent = <<>>)
         /\ VisitOK(visit')
<1>1. /\ visit'.st = "walk" /\ visit'.path = path /\ visit'.cur = Root /\ visit'.waiting = FALSE
      /\ visit'.what = what /\ visit'.at = 0 /\ visit'.data = <<>>
      /\ visit'.clean = (ahead = 0 /\ sent = <<>>)
      /\ DOMAIN visit' = Fields /\ visit'.done = 0
  BY DEF Visit, Fields
<1>2. path \in Seq(STRING)
  BY NinePAssumption
<1>3. visit'.st \in Busy /\ visit'.path \in Seq(STRING) /\ visit'.done \in Nat
  BY <1>1, <1>2 DEF Busy
<1> QED  BY <1>1, <1>3 DEF VisitOK

\* A call starts: what the last one has left counts for the last one's path.
LEMMA VisitKeeps ==
  ASSUME P9Inv, NEW what \in {"file", "dir"}, NEW path \in Asked, Visit(what, path)
  PROVE  P9Inv'
<1>1. /\ fuel' \in [calls : Int, timeouts : Int, errors : Int]
      /\ fuel'.timeouts = fuel.timeouts /\ fuel.timeouts <= P9Budget.timeouts
  BY DEF P9Inv, Visit
<1> SUFFICES ASSUME InStep PROVE InStep'
  BY <1>1 DEF P9Inv
<1>2. /\ visit'.st = "walk" /\ visit'.path = path /\ visit'.cur = Root /\ visit'.waiting = FALSE
      /\ VisitOK(visit')
  BY VisitStarts
<1>3. VisitOK(visit)'
  BY <1>2
<1>4. sent = <<>> /\ ahead = 0 /\ UNCHANGED <<fids, sent, ahead>> /\ long \in Nat /\ VisitOK(visit)
  BY DEF InStep, Visit
<1>5. Bounded(fids, visit, {visit.cur}, long)
  <2>1. visit.st \in {"idle", "ok", "err"}
    BY DEF Visit, Visiting
  <2>2. Unanswered(visit) = {visit.cur} /\ AnsweredBy(visit, rxBuf) = {visit.cur}
    BY <2>1 DEF Unanswered, AnsweredBy
  <2> QED  BY <2>2 DEF InStep
<1>6. PICK B : /\ IsFiniteSet(B) /\ Cardinality(B) + LongPaths(visit) <= long
               /\ fids \ {Root} \subseteq B \union {visit.cur}
  BY <1>5 DEF Bounded
<1>7. Cardinality(B) \in Nat
  BY <1>6, FS_CardinalityType
<1>8. \E C : IsFiniteSet(C) /\ Cardinality(C) <= long /\ fids \ {Root} \subseteq C
  <2>1. CASE visit.cur = Root
    <3>1. Cardinality(B) <= long
      BY <1>4, <1>6, <1>7 DEF LongPaths
    <3> QED  BY <1>6, <2>1, <3>1
  <2>2. CASE visit.cur # Root
    <3>1. LongPaths(visit) = 1
      BY <1>4, <2>2 DEF VisitOK, LongPaths
    <3>2. IsFiniteSet(B \union {visit.cur}) /\ Cardinality(B \union {visit.cur}) <= Cardinality(B) + 1
      BY <1>6, <1>7, FS_AddElement
    <3>3. Cardinality(B \union {visit.cur}) \in Nat
      BY <3>2, FS_CardinalityType
    <3>4. Cardinality(B \union {visit.cur}) <= long
      BY <1>4, <1>6, <1>7, <3>1, <3>2, <3>3
    <3> QED  BY <1>6, <3>2, <3>4
  <2> QED  BY <2>1, <2>2
<1>9. long' = long + LongPaths(visit') /\ LongPaths(visit') \in {0, 1} /\ LongPaths(visit)' = LongPaths(visit')
  BY <1>2, <1>4 DEF Visit, LongPaths
<1>10. Bounded(fids, visit, Unanswered(visit), long)'
  <2>1. PICK C : IsFiniteSet(C) /\ Cardinality(C) <= long /\ fids \ {Root} \subseteq C
    BY <1>8
  <2>2. Cardinality(C) \in Nat
    BY <2>1, FS_CardinalityType
  <2>3. Cardinality(C) + LongPaths(visit') <= long'
    BY <1>4, <1>9, <2>1, <2>2
  <2>4. fids' \ {Root} \subseteq C \union Unanswered(visit)'
    BY <1>4, <2>1
  <2> QED  BY <1>9, <2>1, <2>3, <2>4 DEF Bounded
<1> QED  BY <1>2, <1>3, <1>4, <1>9, <1>10 DEF InStep

\* The driver has a message sent, its own.
LEMMA TransactSends ==
  ASSUME VisitOK(visit), Transact
  PROVE  /\ visit'.waiting = TRUE /\ visit'.st = visit.st /\ visit'.path = visit.path
         /\ visit'.what = visit.what /\ visit'.clean = visit.clean /\ SameData(visit, visit')
         /\ VisitOK(visit')
         /\ Unanswered(visit') = Unanswered(visit)
         /\ sent' = Append(sent, RequestOf(visit'))
<1> DEFINE target == IF LastChunk(visit) THEN visit.new ELSE nextFid
           aim == IF visit.st = "walk" THEN target ELSE visit.target
<1>1. visit' = [[visit EXCEPT !.waiting = TRUE] EXCEPT !.target = aim]
  BY DEF Transact
<1> HIDE DEF aim
<1>2. /\ DOMAIN visit' = Fields /\ visit'.waiting = TRUE /\ visit'.target = aim
      /\ visit'.st = visit.st /\ visit'.path = visit.path /\ visit'.done = visit.done
      /\ visit'.cur = visit.cur /\ visit'.new = visit.new /\ visit'.at = visit.at
      /\ visit'.what = visit.what /\ visit'.clean = visit.clean /\ visit'.data = visit.data
  BY <1>1 DEF VisitOK, Fields
<1>3. Chunk(visit') = Chunk(visit) /\ (LastChunk(visit') <=> LastChunk(visit))
  BY <1>2 DEF Chunk, LastChunk
<1>4. VisitOK(visit')
  BY <1>2, <1>3 DEF VisitOK, aim
<1>5. visit.st \in Busy
  BY DEF Transact, Visiting, VisitOK
<1>6. Unanswered(visit') = Unanswered(visit)
  BY <1>2, <1>5 DEF Unanswered, aim
<1>7. sent' = Append(sent, RequestOf(visit'))
  <2> DEFINE message ==
         CASE visit.st = "walk" -> Message("walk", visit.cur, target, Chunk(visit))
           [] visit.st = "midclunk" -> Message("clunk", visit.cur, 0, <<>>)
           [] visit.st \in {"clunkok", "clunkerr"} -> Message("clunk", visit.new, 0, <<>>)
           [] OTHER -> Message(visit.st, visit.new, visit.at, <<>>)
  <2>1. sent' = Append(sent, message)
    BY DEF Transact
  <2>2. message = RequestOf(visit')
    BY <1>2, <1>3 DEF RequestOf, aim
  <2> HIDE DEF message
  <2> QED  BY <2>1, <2>2
<1> QED  BY <1>2, <1>4, <1>6, <1>7 DEF SameData

LEMMA OneInQueue ==
  ASSUME NEW m, NEW n
  PROVE  /\ Append(<<>>, m) = <<m>> /\ Head(<<m>>) = m /\ Tail(<<m>>) = <<>> /\ <<m>> # <<>>
         /\ Append(<<m>>, n) = <<m, n>> /\ Head(<<m, n>>) = m /\ Tail(<<m, n>>) = <<n>> /\ <<m, n>> # <<>>
<1>1. Append(<<>>, m) = <<m>> /\ Head(<<m>>) = m /\ Tail(<<m>>) = <<>> /\ <<m>> # <<>>
  OBVIOUS
<1>2. Append(<<m>>, n) = <<m, n>>
  <2> DEFINE a == <<m>>
             b == <<m, n>>
             c == Append(a, n)
  <2>1. a \in Seq({m, n}) /\ Len(a) = 1 /\ a[1] = m
    OBVIOUS
  <2>2. b \in Seq({m, n}) /\ Len(b) = 2 /\ b[1] = m /\ b[2] = n
    OBVIOUS
  <2> HIDE DEF a, b
  <2>3. c \in Seq({m, n}) /\ Len(c) = 2 /\ c[1] = m /\ c[2] = n
    <3> DEFINE S == {m, n}
    <3>1. n \in S /\ a \in Seq(S)
      BY <2>1
    <3> HIDE DEF S
    <3>2. /\ c \in Seq(S) /\ Len(c) = Len(a) + 1 /\ c[Len(a) + 1] = n
          /\ \A i \in 1 .. Len(a) : c[i] = a[i]
      BY <3>1, AppendIs
    <3>3. Len(a) + 1 = 2 /\ 1 \in 1 .. Len(a)
      BY <2>1
    <3> HIDE DEF c
    <3>4. Len(c) = 2 /\ c[1] = m /\ c[2] = n
      BY <2>1, <3>2, <3>3
    <3> QED  BY <3>2, <3>4 DEF S
  <2> HIDE DEF c
  <2>4. \A i \in 1 .. 2 : c[i] = b[i]
    BY <2>2, <2>3
  <2>5. c = b
    BY <2>2, <2>3, <2>4, SeqEqual
  <2> QED  BY <2>5 DEF a, b, c
<1>3. Head(<<m, n>>) = m
  OBVIOUS
<1>4. Tail(<<m, n>>) = <<n>>
  OBVIOUS
<1>5. <<m, n>> # <<>>
  OBVIOUS
<1> QED  BY <1>1, <1>2, <1>3, <1>4, <1>5

\* A call that waits has one message with the server, or its answer.
LEMMA TransactKeeps ==
  ASSUME P9Inv, Transact
  PROVE  P9Inv'
<1>1. UNCHANGED <<fids, rxBuf, ahead, long, fuel>>
  BY DEF Transact
<1> SUFFICES ASSUME InStep PROVE InStep'
  BY <1>1 DEF P9Inv
<1>2. /\ Visiting /\ ~visit.waiting /\ VisitOK(visit)
      /\ sent = <<>> /\ ahead = 0 /\ long \in Nat /\ Bounded(fids, visit, Unanswered(visit), long)
  BY DEF InStep, Transact
<1>3. /\ visit'.waiting = TRUE /\ visit'.st = visit.st /\ visit'.path = visit.path /\ VisitOK(visit')
      /\ Unanswered(visit') = Unanswered(visit) /\ sent' = Append(sent, RequestOf(visit'))
  BY <1>2, TransactSends
<1>4. Bounded(fids, visit, Unanswered(visit), long)'
  <2>1. LongPaths(visit)' = LongPaths(visit)
    BY <1>3 DEF LongPaths
  <2> QED  BY <1>1, <1>2, <1>3, <2>1 DEF Bounded
<1>5. sent' = <<RequestOf(visit)'>> /\ sent' # <<>>
  <2> DEFINE m == RequestOf(visit')
  <2>1. sent' = Append(<<>>, m)
    BY <1>2, <1>3
  <2> HIDE DEF m
  <2>2. sent' = <<m>> /\ <<m>> # <<>>
    BY <2>1, OneInQueue
  <2> QED  BY <2>2 DEF m
<1>6. Visiting' /\ VisitOK(visit)'
  BY <1>2, <1>3 DEF Visiting
<1> QED  BY <1>1, <1>2, <1>3, <1>4, <1>5, <1>6 DEF InStep

\* The driver looks into the receive buffer.
LEMMA AnswerKeeps ==
  ASSUME P9Inv, Answer
  PROVE  P9Inv'
<1>1. ahead' = 0 /\ UNCHANGED <<fids, sent, rxBuf, long, fuel>>
  BY DEF Answer
<1> SUFFICES ASSUME InStep PROVE InStep'
  BY <1>1 DEF P9Inv
<1>2. /\ visit.st \in Busy /\ visit.waiting /\ VisitOK(visit) /\ sent = <<>> /\ long \in Nat
      /\ Bounded(fids, visit, AnsweredBy(visit, rxBuf), long)
  BY DEF InStep, Answer, Visiting, VisitOK
<1> DEFINE w == Done(AfterAnswer(visit, rxBuf))
<1>3. visit' = w
  BY DEF Answer, Done
<1>4. /\ VisitOK(w) /\ w.waiting = FALSE /\ w.path = visit.path
      /\ AnsweredBy(visit, rxBuf) \ {Root} \subseteq Unanswered(w)
  BY <1>2, AnswerOnward
<1> HIDE DEF w
<1>5. Bounded(fids, w, Unanswered(w), long)
  BY <1>2, <1>4, BoundMoves
<1>6. VisitOK(visit)' /\ Bounded(fids, visit, Unanswered(visit), long)'
  BY <1>1, <1>3, <1>4, <1>5
<1> QED  BY <1>1, <1>2, <1>3, <1>4, <1>6 DEF InStep

\* After a transaction that was given up nothing more is claimed.
LEMMA NoAnswerKeeps ==
  ASSUME P9Inv, NoAnswer
  PROVE  P9Inv'
<1>1. P9Budget.timeouts \in Int
  BY NinePAssumption
<1>2. fuel \in [calls : Int, timeouts : Int, errors : Int] /\ fuel.timeouts <= P9Budget.timeouts
  BY DEF P9Inv
<1>3. fuel' \in [calls : Int, timeouts : Int, errors : Int] /\ fuel'.timeouts = fuel.timeouts - 1
  BY <1>2 DEF NoAnswer
<1> QED  BY <1>1, <1>2, <1>3 DEF P9Inv

\* The message the server has is the driver's, and its answer will be the one looked at.
LEMMA OneMessage ==
  ASSUME InStep, sent # <<>>
  PROVE  /\ visit.st \in Busy /\ Visiting /\ visit.waiting /\ VisitOK(visit) /\ long \in Nat
         /\ sent = <<RequestOf(visit)>> /\ ahead = 0
         /\ Head(sent) = RequestOf(visit) /\ Tail(sent) = <<>>
         /\ Bounded(fids, visit, Unanswered(visit), long)
<1>1. Visiting /\ visit.waiting /\ sent = <<RequestOf(visit)>> /\ ahead = 0
  BY DEF InStep
<1>2. visit.st \in Busy
  BY <1>1 DEF InStep, VisitOK, Visiting
<1>3. Head(sent) = RequestOf(visit) /\ Tail(sent) = <<>>
  <2> DEFINE m == RequestOf(visit)
  <2>1. Head(<<m>>) = m /\ Tail(<<m>>) = <<>>
    <3> HIDE DEF m
    <3> QED  OBVIOUS
  <2> QED  BY <1>1, <2>1
<1> QED  BY <1>1, <1>2, <1>3 DEF InStep

\* The server's answer makes the new fid or ends the old one.
LEMMA ServeKeeps ==
  ASSUME P9Inv, Serve
  PROVE  P9Inv'
<1>1. UNCHANGED <<visit, long, fuel>> /\ sent # <<>> /\ sent' = Tail(sent) /\ ahead' = ahead + 1
  BY DEF Serve
<1> SUFFICES ASSUME InStep PROVE InStep'
  BY <1>1 DEF P9Inv
<1> DEFINE m == Head(sent)
<1>2. /\ visit.st \in Busy /\ Visiting /\ visit.waiting /\ VisitOK(visit) /\ long \in Nat
      /\ m = RequestOf(visit) /\ sent' = <<>> /\ ahead' = 1
      /\ Bounded(fids, visit, Unanswered(visit), long)
  BY <1>1, OneMessage
<1>3. /\ fids' = CASE m.type = "walk" /\ Found(m.names) = Len(m.names) -> fids \union {m.new}
                   [] m.type = "clunk" -> fids \ {m.fid}
                   [] OTHER -> fids
      /\ rxBuf' = Served(m)
  BY DEF Serve
<1> HIDE DEF m
<1>4. Bounded(fids', visit, AnsweredBy(visit, rxBuf'), long)
  <2>1. CASE visit.st = "walk"
    <3>1. m.type = "walk" /\ m.new = visit.target /\ m.names = Chunk(visit)
      BY <1>2, <2>1 DEF RequestOf, Message
    <3>2. Unanswered(visit) = {visit.cur}
      BY <2>1 DEF Unanswered
    <3>3. CASE Found(m.names) = Len(m.names)
      <4>1. fids' = fids \union {visit.target}
        BY <1>3, <3>1, <3>3
      <4>2. ~(m.names # <<>> /\ Found(m.names) = 0)
        BY <1>2, <3>1, <3>3, NotLastIsLong
      <4>3. rxBuf' = Reply("walk", Found(m.names), <<>>)
        BY <1>3, <3>1, <4>2 DEF Served
      <4>4. rxBuf'.type = "walk" /\ rxBuf'.n = Len(Chunk(visit))
        BY <3>1, <3>3, <4>3 DEF Reply
      <4>5. AnsweredBy(visit, rxBuf') = {visit.cur, visit.target}
        BY <2>1, <4>4 DEF AnsweredBy
      <4> QED  BY <1>2, <3>2, <4>1, <4>5, BoundMoves
    <3>4. CASE Found(m.names) # Len(m.names)
      <4>1. fids' = fids
        BY <1>3, <3>1, <3>4
      <4>2. rxBuf' = Rlerror \/ rxBuf' = Reply("walk", Found(m.names), <<>>)
        BY <1>3, <3>1 DEF Served
      <4>3. ~(rxBuf'.type = "walk" /\ rxBuf'.n = Len(Chunk(visit)))
        BY <3>1, <3>4, <4>2 DEF Reply, Rlerror
      <4>4. AnsweredBy(visit, rxBuf') = Unanswered(visit)
        BY <2>1, <4>3 DEF AnsweredBy
      <4> QED  BY <1>2, <4>1, <4>4
    <3> QED  BY <3>3, <3>4
  <2>2. CASE visit.st = "midclunk"
    <3>1. m.type = "clunk" /\ m.fid = visit.cur
      BY <1>2, <2>2 DEF RequestOf, Message
    <3>2. fids' = fids \ {visit.cur}
      BY <1>3, <3>1
    <3>3. Unanswered(visit) = {visit.cur, visit.target} /\ AnsweredBy(visit, rxBuf') = {visit.target}
      BY <2>2 DEF Unanswered, AnsweredBy
    <3> QED  BY <1>2, <3>2, <3>3, BoundMoves
  <2>3. CASE visit.st \in {"clunkok", "clunkerr"}
    <3>1. m.type = "clunk" /\ m.fid = visit.new
      BY <1>2, <2>3 DEF RequestOf, Message
    <3>2. fids' = fids \ {visit.new}
      BY <1>3, <3>1
    <3>3. Unanswered(visit) = {visit.cur, visit.new} /\ AnsweredBy(visit, rxBuf') = {visit.cur}
      BY <2>3 DEF Unanswered, AnsweredBy
    <3> QED  BY <1>2, <3>2, <3>3, BoundMoves
  <2>4. CASE visit.st \in {"getattr", "lopen", "read", "readdir"}
    <3>1. m.type = visit.st
      BY <1>2, <2>4 DEF RequestOf, Message
    <3>2. fids' = fids
      BY <1>3, <2>4, <3>1
    <3>3. AnsweredBy(visit, rxBuf') = Unanswered(visit)
      BY <2>4 DEF AnsweredBy
    <3> QED  BY <1>2, <3>2, <3>3
  <2> QED  BY <1>2, <2>1, <2>2, <2>3, <2>4 DEF Busy
<1>5. VisitOK(visit)' /\ Visiting' /\ Bounded(fids, visit, AnsweredBy(visit, rxBuf), long)'
  BY <1>1, <1>2, <1>4 DEF Visiting
<1> QED  BY <1>1, <1>2, <1>5 DEF InStep

\* A refusal changes no fid; a Tclunk is not refused.
LEMMA RefuseKeeps ==
  ASSUME P9Inv, Refuse
  PROVE  P9Inv'
<1>1. /\ UNCHANGED <<fids, visit, long>> /\ sent # <<>> /\ sent' = Tail(sent) /\ ahead' = ahead + 1
      /\ rxBuf' = Rlerror /\ Head(sent).type # "clunk"
  BY DEF Refuse
<1>2. /\ fuel' \in [calls : Int, timeouts : Int, errors : Int]
      /\ fuel'.timeouts = fuel.timeouts /\ fuel.timeouts <= P9Budget.timeouts
  BY DEF P9Inv, Refuse
<1> SUFFICES ASSUME InStep PROVE InStep'
  BY <1>2 DEF P9Inv
<1>3. /\ visit.st \in Busy /\ Visiting /\ visit.waiting /\ VisitOK(visit) /\ long \in Nat
      /\ Head(sent) = RequestOf(visit) /\ sent' = <<>> /\ ahead' = 1
      /\ Bounded(fids, visit, Unanswered(visit), long)
  BY <1>1, OneMessage
<1>4. visit.st \notin {"midclunk", "clunkok", "clunkerr"}
  BY <1>1, <1>3 DEF RequestOf, Message
<1>5. AnsweredBy(visit, rxBuf') = Unanswered(visit)
  <2>1. rxBuf'.type # "walk"
    BY <1>1 DEF Rlerror, Reply
  <2> QED  BY <1>4, <2>1 DEF AnsweredBy
<1>6. VisitOK(visit)' /\ Visiting' /\ Bounded(fids, visit, AnsweredBy(visit, rxBuf), long)'
  BY <1>1, <1>3, <1>5 DEF Visiting
<1> QED  BY <1>1, <1>3, <1>6 DEF InStep

\* Every step of the client and the server.
LEMMA P9Keeps ==
  ASSUME P9Inv, P9Step \/ UNCHANGED p9Vars
  PROVE  P9Inv'
<1>1. CASE UNCHANGED p9Vars
  <2>1. UNCHANGED <<fids, sent, rxBuf, ahead, visit, long, fuel>>
    BY <1>1 DEF p9Vars
  <2>2. InStep => InStep'
    <3>1. Bounded(fids, visit, Unanswered(visit), long) => Bounded(fids, visit, Unanswered(visit), long)'
      BY <2>1
    <3>2. Bounded(fids, visit, AnsweredBy(visit, rxBuf), long) => Bounded(fids, visit, AnsweredBy(visit, rxBuf), long)'
      BY <2>1
    <3>3. VisitOK(visit) => VisitOK(visit)'
      BY <2>1
    <3>4. RequestOf(visit)' = RequestOf(visit)
      BY <2>1
    <3> QED  BY <2>1, <3>1, <3>2, <3>3, <3>4 DEF InStep, Visiting
  <2> QED  BY <2>1, <2>2 DEF P9Inv
<1> QED  BY <1>1, VisitKeeps, TransactKeeps, AnswerKeeps, NoAnswerKeeps, ServeKeeps, RefuseKeeps DEF P9Step

\* Between two calls the server has what earlier calls left, and the fid this one left.
LEMMA P9InvIs == P9Inv => FidsReturned
<1> SUFFICES ASSUME P9Inv, ~Visiting, fuel.timeouts = P9Budget.timeouts
             PROVE  Cardinality(fids \ {Root}) <= long
  BY DEF FidsReturned
<1>1. InStep
  BY DEF P9Inv
<1>2. visit.st \in {"idle", "ok", "err"}
  BY DEF Visiting
<1>3. Bounded(fids, visit, {visit.cur}, long)
  <2>1. Unanswered(visit) = {visit.cur} /\ AnsweredBy(visit, rxBuf) = {visit.cur}
    BY <1>2 DEF Unanswered, AnsweredBy
  <2> QED  BY <1>1, <2>1 DEF InStep
<1>4. PICK B : /\ IsFiniteSet(B) /\ Cardinality(B) + LongPaths(visit) <= long
               /\ fids \ {Root} \subseteq B \union {visit.cur}
  BY <1>3 DEF Bounded
<1>5. Cardinality(B) \in Nat /\ long \in Nat /\ VisitOK(visit)
  BY <1>1, <1>4, FS_CardinalityType DEF InStep
<1>6. CASE visit.cur = Root
  <2>1. fids \ {Root} \in SUBSET B /\ Cardinality(B) <= long
    BY <1>4, <1>5, <1>6 DEF LongPaths
  <2>2. IsFiniteSet(fids \ {Root}) /\ Cardinality(fids \ {Root}) <= Cardinality(B)
    BY <1>4, <2>1, FS_Subset
  <2>3. Cardinality(fids \ {Root}) \in Nat
    BY <2>2, FS_CardinalityType
  <2> QED  BY <1>5, <2>1, <2>2, <2>3
<1>7. CASE visit.cur # Root
  <2> DEFINE C == B \union {visit.cur}
  <2>1. LongPaths(visit) = 1
    BY <1>5, <1>7 DEF VisitOK, LongPaths
  <2>2. IsFiniteSet(C) /\ Cardinality(C) <= Cardinality(B) + 1
    BY <1>4, <1>5, FS_AddElement
  <2>3. fids \ {Root} \in SUBSET C
    BY <1>4
  <2> HIDE DEF C
  <2>4. IsFiniteSet(fids \ {Root}) /\ Cardinality(fids \ {Root}) <= Cardinality(C)
    BY <2>2, <2>3, FS_Subset
  <2>5. Cardinality(fids \ {Root}) \in Nat /\ Cardinality(C) \in Nat
    BY <2>2, <2>4, FS_CardinalityType
  <2> QED  BY <1>4, <1>5, <2>1, <2>2, <2>4, <2>5
<1> QED  BY <1>6, <1>7

-----------------------------------------------------------------------------
(* The disks.                                                              *)

\* x is a multiple of m: an index that wraps at m has gone round.
Multiple(x, m) == \E k \in Int : x = m * k

CallFields == {"n", "op", "sector", "val", "attempt", "buf", "status", "clean", "st"}
DeviceFields == {"used", "cq", "tail", "phase", "fis", "prdt", "ci", "go", "busy", "err", "cur", "buffer"}
DriverFields == {"last", "head", "phase", "owed"}
Requests == [op : {"read", "write"}, sector : 0 .. Capacity, val : Values \union {Junk}, call : Nat]
Places == 0 .. Depth - 1

CallOK(c) ==
  /\ DOMAIN c = CallFields
  /\ c.n \in Nat /\ c.sector \in 0 .. Capacity /\ c.val \in Values \union {Junk}
  /\ c.st \in Stages \union {"idle", "ok", "err"}
  /\ c.st \in Stages => c.op \in {"read", "write"}

BlkTypeOK ==
  /\ kind \in {"virtio", "ahci", "nvme"}
  /\ CallOK(call)
  /\ pending \in Seq(Requests)
  /\ DOMAIN disk = Sectors
  /\ DOMAIN drv = DriverFields /\ drv.owed \in Int
  /\ DOMAIN dev = DeviceFields

\* What call c asks for has been done to disk d and to its own buffer.
Kept(c, d) ==
  /\ c.sector \in Sectors
  /\ IF c.op = "read" THEN c.buf = d[c.sector] ELSE d[c.sector] = c.val

RequestBy(c) == [op |-> c.op, sector |-> c.sector, val |-> c.val, call |-> c.n]

\* The answers that the device has shown and the driver has not taken.
Shown == drv.owed - Len(pending)

VirtioOK ==
  /\ drv.last \in 0 .. IndexMod - 1 /\ dev.used \in 0 .. IndexMod - 1
  /\ Multiple((drv.last + Shown) - dev.used, IndexMod)

\* A place of the completion queue and a phase, as one number.
Turn(at, phase) == IF phase THEN at ELSE at + Depth

\* How many entries ago an entry was written.
Age(tail, i) == IF i < tail THEN tail - i ELSE tail - i + Depth

\* The entries before the tail have the device's phase, the others the opposite one.
NvmeOK ==
  /\ DOMAIN dev.cq = Places
  /\ dev.tail \in Places /\ drv.head \in Places /\ dev.phase \in BOOLEAN /\ drv.phase \in BOOLEAN
  /\ \A i \in Places : dev.cq[i].phase = IF i < dev.tail THEN dev.phase ELSE ~dev.phase
  /\ Multiple((Turn(drv.head, drv.phase) + Shown) - Turn(dev.tail, dev.phase), 2 * Depth)

\* A clean call has no requests but its own with the device, and an answer that says
\* good, seen or still to be seen, says so of it.
OwnAnswers ==
  InProgress /\ call.clean =>
    /\ \A i \in 1 .. Len(pending) : pending[i] = RequestBy(call)
    /\ kind = "virtio" /\ call.status = "ok" => Kept(call, disk)
    /\ kind = "nvme" => \A i \in Places : Age(dev.tail, i) <= Shown /\ dev.cq[i].good => Kept(call, disk)

QueueInv ==
  /\ ~dev.go /\ ~dev.busy
  /\ Shown >= 0
  /\ kind = "virtio" => VirtioOK
  /\ kind = "nvme" => NvmeOK
  /\ OwnAnswers

\* AHCI: once the port is idle it works on nothing but the command in memory, and it
\* has nothing to do any more once CI is clear.
PortInv ==
  /\ pending = <<>>
  /\ InProgress => call.sector \in Sectors
  /\ dev.go \in BOOLEAN /\ dev.busy \in BOOLEAN /\ ~(dev.go /\ dev.busy)
  /\ call.st \in {"prdt", "busy", "ci", "poll"} => dev.fis = [op |-> call.op, sector |-> call.sector]
  /\ call.st \in {"busy", "ci", "poll"} => dev.prdt = call.n
  /\ call.st \in {"ci", "poll"} /\ dev.busy => dev.cur = dev.fis /\ dev.buffer = call.n
  /\ call.st = "poll" /\ (dev.go \/ dev.busy) => dev.ci
  /\ call.st = "poll" /\ ~dev.ci /\ ~dev.err => Kept(call, disk)

BlkInv ==
  /\ BlkTypeOK
  /\ kind # "ahci" => QueueInv
  /\ kind = "ahci" => PortInv

LEMMA MultipleMoves ==
  ASSUME NEW m \in Nat \ {0}, NEW x \in Int, Multiple(x, m)
  PROVE  /\ Multiple(x + m, m) /\ Multiple(x - m, m)
         /\ x > -m => x >= 0
         /\ x < m => x <= 0
<1>1. PICK k \in Int : x = m * k
  BY DEF Multiple
<1>2. x + m = m * (k + 1) /\ x - m = m * (k - 1) /\ k + 1 \in Int /\ k - 1 \in Int
  BY <1>1
<1>3. Multiple(x + m, m) /\ Multiple(x - m, m)
  BY <1>2 DEF Multiple
<1>4. ASSUME x > -m PROVE x >= 0
  <2>1. ASSUME k < 0 PROVE FALSE
    <3>1. m * (-k - 1) \in Nat
      BY <2>1
    <3>2. m * (-k - 1) = -x - m
      BY <1>1
    <3> QED  BY <1>4, <3>1, <3>2
  <2> QED  BY <1>1, <2>1
<1>5. ASSUME x < m PROVE x <= 0
  <2>1. ASSUME k > 0 PROVE FALSE
    <3>1. m * (k - 1) \in Nat
      BY <2>1
    <3>2. m * (k - 1) = x - m
      BY <1>1
    <3> QED  BY <1>5, <3>1, <3>2
  <2>2. m * (-k) = -x
    BY <1>1
  <2>3. -k \in Nat
    BY <2>1
  <2>4. m * (-k) \in Nat
    BY <2>3
  <2> QED  BY <2>2, <2>4
<1> QED  BY <1>3, <1>4, <1>5

\* A ring index one further on.
LEMMA NextIndex ==
  ASSUME NEW n \in Nat \ {0}, NEW t \in 0 .. n - 1
  PROVE  (t + 1) % n = (IF t = n - 1 THEN 0 ELSE t + 1) /\ (t + 1) % n \in 0 .. n - 1
<1>1. t + 1 \in 0 .. 2 * n - 1
  OBVIOUS
<1>2. (t + 1) % n = Wrapped(t + 1, n)
  BY <1>1, WrapOnce
<1> QED  BY <1>2 DEF Wrapped

\* Whoever sees the index one further on has something to take.
LEMMA SeenAhead ==
  ASSUME NEW m \in Nat \ {0, 1}, NEW l \in 0 .. m - 1, NEW u \in Nat,
         Multiple((l + u) - ((l + 1) % m), m)
  PROVE  u >= 1
<1> DEFINE d == (l + 1) % m
<1>1. m \in Nat \ {0}
  OBVIOUS
<1>2. d = IF l = m - 1 THEN 0 ELSE l + 1
  BY <1>1, NextIndex
<1>3. Multiple((l + u) - d, m)
  OBVIOUS
<1> HIDE DEF d
<1>4. ASSUME u = 0 PROVE FALSE
  <2>1. (l + u) - d = l - d /\ l - d \in Int /\ l - d > -m /\ l - d < m
    BY <1>2, <1>4
  <2>2. Multiple(l - d, m)
    BY <1>3, <2>1
  <2>3. l - d >= 0 /\ l - d <= 0
    BY <1>1, <2>1, <2>2, MultipleMoves
  <2> QED  BY <1>2, <2>3
<1> QED  BY <1>4

\* What is taken leaves the index in step with what is still to be taken.
LEMMA TakenKeepsStep ==
  ASSUME NEW m \in Nat \ {0}, NEW l \in 0 .. m - 1, NEW u \in Int, NEW d \in Int,
         Multiple((l + u) - d, m)
  PROVE  Multiple((((l + 1) % m) + (u - 1)) - d, m)
<1> DEFINE n == (l + 1) % m
<1>1. n = IF l = m - 1 THEN 0 ELSE l + 1
  BY NextIndex
<1> HIDE DEF n
<1>2. (n + (u - 1)) - d = (l + u) - d \/ (n + (u - 1)) - d = ((l + u) - d) - m
  BY <1>1
<1>3. (l + u) - d \in Int
  OBVIOUS
<1>4. Multiple(((l + u) - d) - m, m)
  BY <1>3, MultipleMoves
<1>5. Multiple((n + (u - 1)) - d, m)
  BY <1>2, <1>4
<1> QED  BY <1>5 DEF n

\* The queue's consumer and its producer: a place and a phase one further on.
PhaseAfter(at, phase) == IF at = Depth - 1 THEN ~phase ELSE phase

LEMMA TurnNext ==
  ASSUME NEW t \in Places, NEW f \in BOOLEAN
  PROVE  /\ (t + 1) % Depth \in Places /\ PhaseAfter(t, f) \in BOOLEAN /\ Turn(t, f) \in 0 .. 2 * Depth - 1
         /\ \/ Turn((t + 1) % Depth, PhaseAfter(t, f)) = Turn(t, f) + 1
            \/ Turn((t + 1) % Depth, PhaseAfter(t, f)) = Turn(t, f) + 1 - 2 * Depth
<1>0. Depth \in Nat \ {0}
  BY BlkAssumption
<1>1. (t + 1) % Depth = (IF t = Depth - 1 THEN 0 ELSE t + 1) /\ (t + 1) % Depth \in Places
  BY <1>0, NextIndex DEF Places
<1>2. PhaseAfter(t, f) \in BOOLEAN
  BY DEF PhaseAfter
<1> DEFINE s == (t + 1) % Depth
<1> HIDE DEF s
<1>3. Turn(t, f) \in 0 .. 2 * Depth - 1
  BY <1>0 DEF Turn, Places
<1>4. \/ Turn(s, PhaseAfter(t, f)) = Turn(t, f) + 1
      \/ Turn(s, PhaseAfter(t, f)) = Turn(t, f) + 1 - 2 * Depth
  <2>1. s = IF t = Depth - 1 THEN 0 ELSE t + 1
    BY <1>1 DEF s
  <2>2. CASE f = TRUE
    BY <1>0, <2>1, <2>2 DEF Turn, PhaseAfter, Places
  <2>3. CASE f = FALSE
    BY <1>0, <2>1, <2>3 DEF Turn, PhaseAfter, Places
  <2> QED  BY <2>2, <2>3
<1> QED  BY <1>1, <1>2, <1>3, <1>4 DEF s

\* What a call is about stays what it is.
SameCall(c, d) ==
  DOMAIN d = CallFields /\ d.n = c.n /\ d.op = c.op /\ d.sector = c.sector /\ d.val = c.val /\ d.clean = c.clean

\* A call that comes to stage st.
CallTo(c, d, st) == SameCall(c, d) /\ d.buf = c.buf /\ d.status = c.status /\ d.st = st

LEMMA CallToOK ==
  ASSUME NEW c, NEW d, NEW st, CallOK(c), SameCall(c, d), d.st = st, c.st \in Stages,
         st \in Stages \union {"ok", "err"}
  PROVE  CallOK(d)
BY DEF CallOK, SameCall

\* The end of an attempt.
LEMMA FinishedIs ==
  ASSUME NEW c, NEW good \in BOOLEAN, CallOK(c)
  PROVE  /\ \E st \in {"issue", "err"} : CallTo(c, Failed(c), st)
         /\ good => CallTo(c, Finished(c, good), "ok")
         /\ ~good => \E st \in {"issue", "err"} : CallTo(c, Finished(c, good), st)
<1>1. \E st \in {"issue", "err"} : CallTo(c, Failed(c), st)
  <2>1. CASE c.attempt < Retries
    <3> DEFINE a == c.attempt + 1
    <3>1. Failed(c) = [[c EXCEPT !.attempt = a] EXCEPT !.st = "issue"]
      BY <2>1 DEF Failed
    <3> HIDE DEF a
    <3>2. CallTo(c, Failed(c), "issue")
      BY <3>1 DEF CallOK, CallTo, SameCall, CallFields
    <3> QED  BY <3>2
  <2>2. CASE ~(c.attempt < Retries)
    <3>1. CallTo(c, Failed(c), "err")
      BY <2>2 DEF Failed, CallOK, CallTo, SameCall, CallFields
    <3> QED  BY <3>1
  <2> QED  BY <2>1, <2>2
<1>2. ASSUME good PROVE CallTo(c, Finished(c, good), "ok")
  BY <1>2 DEF Finished, CallOK, CallTo, SameCall, CallFields
<1>3. ASSUME ~good PROVE Finished(c, good) = Failed(c)
  BY <1>3 DEF Finished
<1> QED  BY <1>1, <1>2, <1>3

\* What has been done for a call has been done for it at its next stage.
LEMMA KeptOn ==
  ASSUME NEW c, NEW d, NEW disc, SameCall(c, d), d.buf = c.buf
  PROVE  Kept(d, disc) <=> Kept(c, disc)
BY DEF Kept, SameCall

\* The disk answers nothing that the driver did not ask for.
LEMMA AnsweredShown ==
  ASSUME BlkInv, Answered, kind \in {"virtio", "nvme"}
  PROVE  Shown >= 1 /\ (kind = "nvme" => Age(dev.tail, drv.head) <= Shown)
<1>0. QueueInv /\ Shown \in Int /\ Shown >= 0
  BY DEF BlkInv, QueueInv, Shown, BlkTypeOK
<1>1. CASE kind = "virtio"
  <2> DEFINE l == drv.last
             d == dev.used
             u == Shown
  <2>1. /\ l \in 0 .. IndexMod - 1 /\ d \in 0 .. IndexMod - 1 /\ Multiple((l + u) - d, IndexMod)
        /\ d = (l + 1) % IndexMod /\ IndexMod \in Nat \ {0, 1}
    BY <1>0, <1>1, BlkAssumption DEF QueueInv, VirtioOK, Answered
  <2>2. u \in Nat
    BY <1>0
  <2> HIDE DEF l, d, u
  <2>3. u >= 1
    BY <2>1, <2>2, SeenAhead
  <2> QED  BY <1>1, <2>3 DEF u
<1>2. CASE kind = "nvme"
  <2> DEFINE h == drv.head
             t == dev.tail
             u == Shown
             x == Turn(drv.head, drv.phase)
             y == Turn(dev.tail, dev.phase)
  <2>1. /\ h \in 0 .. Depth - 1 /\ t \in 0 .. Depth - 1 /\ Multiple((x + u) - y, 2 * Depth)
        /\ Depth \in Nat \ {0} /\ drv.phase \in BOOLEAN /\ dev.phase \in BOOLEAN
    BY <1>0, <1>2, BlkAssumption DEF QueueInv, NvmeOK, Places
  <2>2. drv.phase = IF h < t THEN dev.phase ELSE ~dev.phase
    BY <1>0, <1>2 DEF Answered, QueueInv, NvmeOK
  <2>3. \/ h < t /\ x - y = h - t
        \/ h >= t /\ x - y = h - t + Depth
        \/ h >= t /\ x - y = h - t - Depth
    <3>1. CASE dev.phase = TRUE
      BY <2>1, <2>2, <3>1 DEF Turn
    <3>2. CASE dev.phase = FALSE
      BY <2>1, <2>2, <3>2 DEF Turn
    <3> QED  BY <2>1, <3>1, <3>2
  <2>4. x \in Int /\ y \in Int /\ u \in Int /\ u >= 0 /\ 2 * Depth \in Nat \ {0}
    BY <1>0, <2>1 DEF Turn
  <2> DEFINE a == IF h < t THEN t - h ELSE t - h + Depth
  <2>5. Age(dev.tail, drv.head) = a
    BY DEF Age
  <2> HIDE DEF h, t, u, x, y
  <2>6. Multiple(u - a, 2 * Depth)
    <3>1. \/ u - a = (x + u) - y
          \/ u - a = ((x + u) - y) - 2 * Depth
      BY <2>1, <2>3, <2>4
    <3>2. Multiple(((x + u) - y) - 2 * Depth, 2 * Depth)
      BY <2>1, <2>4, MultipleMoves
    <3> QED  BY <2>1, <3>1, <3>2
  <2>7. a \in 1 .. Depth
    BY <2>1
  <2> HIDE DEF a
  <2>8. u - a \in Int /\ u - a > -(2 * Depth)
    BY <2>1, <2>4, <2>7
  <2>9. u - a >= 0
    BY <2>4, <2>6, <2>8, MultipleMoves
  <2>10. u >= 1 /\ a <= u
    BY <2>4, <2>7, <2>9
  <2> QED  BY <2>5, <2>10 DEF u
<1> QED  BY <1>1, <1>2

\* What an element is taken out of keeps the others.
OneLess(S, q, p) ==
  /\ p \in Seq(S) /\ Len(p) = Len(q) - 1
  /\ \A j \in 1 .. Len(q) - 1 : \E k \in 1 .. Len(q) : p[j] = q[k]

LEMMA RemovedIs ==
  ASSUME NEW S, NEW q \in Seq(S), NEW i \in 1 .. Len(q)
  PROVE  OneLess(S, q, RemoveAt(q, i))
<1> DEFINE a == SubSeq(q, 1, i - 1)
           b == SubSeq(q, i + 1, Len(q))
<1>0. Len(q) \in Nat /\ i \in Nat
  OBVIOUS
<1>1. a \in Seq(S) /\ Len(a) = i - 1 /\ \A j \in 1 .. i - 1 : a[j] = q[j]
  OBVIOUS
<1>2. b \in Seq(S) /\ Len(b) = Len(q) - i /\ \A j \in 1 .. Len(q) - i : b[j] = q[i + j]
  OBVIOUS
<1>3. RemoveAt(q, i) = a \o b
  BY DEF RemoveAt
<1> HIDE DEF a, b
<1>4. /\ a \o b \in Seq(S) /\ Len(a \o b) = Len(a) + Len(b)
      /\ \A j \in 1 .. Len(a) + Len(b) : (a \o b)[j] = IF j <= Len(a) THEN a[j] ELSE b[j - Len(a)]
  BY <1>1, <1>2, ConcatProperties
<1>5. ASSUME NEW j \in 1 .. Len(q) - 1 PROVE \E k \in 1 .. Len(q) : (a \o b)[j] = q[k]
  <2>1. CASE j <= i - 1
    <3>1. (a \o b)[j] = q[j] /\ j \in 1 .. Len(q)
      BY <1>0, <1>1, <1>2, <1>4, <2>1
    <3> QED  BY <3>1
  <2>2. CASE ~(j <= i - 1)
    <3> DEFINE m == j - (i - 1)
    <3>1. m \in 1 .. Len(q) - i /\ i + m \in 1 .. Len(q) /\ j \in 1 .. Len(a) + Len(b) /\ ~(j <= Len(a))
      BY <1>0, <1>1, <1>2, <2>2
    <3>2. (a \o b)[j] = b[m]
      BY <1>1, <1>4, <3>1
    <3> HIDE DEF m
    <3>3. b[m] = q[i + m]
      BY <1>2, <3>1
    <3> QED  BY <3>1, <3>2, <3>3
  <2> QED  BY <1>0, <2>1, <2>2
<1>6. Len(a \o b) = Len(q) - 1
  BY <1>0, <1>1, <1>2, <1>4
<1> QED  BY <1>3, <1>4, <1>5, <1>6 DEF OneLess

\* At boot the disk has been asked for nothing.
LEMMA BlkInitInv == BlkInit => BlkInv
<1> SUFFICES ASSUME BlkInit PROVE BlkInv
  OBVIOUS
<1>0. Capacity \in Nat /\ IndexMod \in Nat \ {0, 1} /\ Depth \in Nat \ {0}
  BY BlkAssumption
<1>1. CallOK(call) /\ ~InProgress /\ call.st = "idle"
  BY <1>0 DEF BlkInit, CallOK, CallFields, InProgress, Stages
<1>2. pending = <<>> /\ Len(pending) = 0 /\ pending \in Seq(Requests) /\ DOMAIN disk = Sectors
  BY DEF BlkInit
<1>3. DOMAIN drv = DriverFields /\ drv.owed = 0 /\ drv.last = 0 /\ drv.head = 0 /\ drv.phase = TRUE
  BY DEF BlkInit, FreshDriver, DriverFields
<1>4. /\ DOMAIN dev = DeviceFields /\ dev.used = 0 /\ dev.tail = 0 /\ dev.phase = TRUE
      /\ dev.go = FALSE /\ dev.busy = FALSE
      /\ dev.cq = [i \in 0 .. Depth - 1 |-> [phase |-> FALSE, good |-> FALSE]]
  BY DEF BlkInit, FreshDevice, DeviceFields
<1>5. BlkTypeOK
  BY <1>1, <1>2, <1>3, <1>4 DEF BlkTypeOK, BlkInit
<1>6. Shown = 0
  <2>1. Len(pending) = 0 /\ drv.owed = 0
    BY <1>2, <1>3
  <2>2. Shown = 0 - 0
    BY <2>1 DEF Shown
  <2> QED  BY <2>2
<1>7. \A m \in Nat : Multiple(0, m)
  BY DEF Multiple
<1>8. VirtioOK
  BY <1>0, <1>3, <1>4, <1>6, <1>7 DEF VirtioOK
<1>9. NvmeOK
  <2>1. DOMAIN dev.cq = Places /\ \A i \in Places : dev.cq[i].phase = FALSE
    BY <1>4 DEF Places
  <2>2. 0 \in Places /\ \A i \in Places : ~(i < 0)
    BY <1>0 DEF Places
  <2>3. (Turn(drv.head, drv.phase) + Shown) - Turn(dev.tail, dev.phase) = 0
    BY <1>3, <1>4, <1>6 DEF Turn
  <2>4. Multiple(0, 2 * Depth)
    BY <1>0, <1>7
  <2> QED  BY <1>3, <1>4, <2>1, <2>2, <2>3, <2>4 DEF NvmeOK
<1>10. QueueInv
  BY <1>1, <1>4, <1>6, <1>8, <1>9 DEF QueueInv, OwnAnswers
<1>11. PortInv
  BY <1>1, <1>2, <1>4 DEF PortInv
<1> QED  BY <1>5, <1>10, <1>11 DEF BlkInv

\* A call begins; it is clean when nothing is owed to the driver.
LEMMA BeginKeeps ==
  ASSUME BlkInv, NEW op \in {"read", "write"}, NEW sector \in 0 .. Capacity,
         NEW val \in Values \union {Junk}, Begin(op, sector, val)
  PROVE  BlkInv'
<1>0. Capacity \in Nat /\ Depth \in Nat \ {0} /\ BlkTypeOK
  BY BlkAssumption DEF BlkInv
<1>1. UNCHANGED <<kind, disk, pending, dev, drv>>
  BY DEF Begin
<1>2. /\ DOMAIN call' = CallFields /\ call'.n = call.n + 1 /\ call'.op = op /\ call'.sector = sector
      /\ call'.val = val /\ call'.status = "unset" /\ call'.clean = (drv.owed = 0)
      /\ call'.st = IF kind # "nvme" /\ sector >= Capacity THEN "err" ELSE "issue"
  BY DEF Begin, CallFields
<1>3. CallOK(call)'
  <2>1. call'.n \in Nat
    BY <1>0, <1>2 DEF BlkTypeOK, CallOK
  <2>2. call'.st \in {"err", "issue"}
    BY <1>2
  <2> QED  BY <1>2, <2>1, <2>2 DEF CallOK, Stages
<1>4. BlkTypeOK'
  BY <1>0, <1>1, <1>3 DEF BlkTypeOK
<1>5. Shown' = Shown /\ (VirtioOK => VirtioOK') /\ (NvmeOK => NvmeOK')
  BY <1>1 DEF Shown, VirtioOK, NvmeOK
<1>6. CASE kind # "ahci"
  <2>1. QueueInv /\ Len(pending) \in Nat /\ drv.owed \in Int
    BY <1>0, <1>6 DEF BlkInv, BlkTypeOK
  <2>2. OwnAnswers'
    <3>1. ASSUME drv.owed = 0 PROVE Len(pending) = 0 /\ Shown = 0
      BY <2>1, <3>1 DEF QueueInv, Shown
    <3>2. ASSUME drv.owed = 0, kind = "nvme", NEW i \in Places PROVE ~(Age(dev.tail, i) <= Shown)
      <4>1. Age(dev.tail, i) >= 1 /\ Age(dev.tail, i) \in Int
        BY <1>0, <2>1, <3>2 DEF Age, NvmeOK, Places, QueueInv
      <4> QED  BY <3>1, <3>2, <4>1
    <3>3. drv.owed = 0 => \A i \in 1 .. Len(pending) : FALSE
      BY <3>1
    <3> QED  BY <1>1, <1>2, <1>5, <3>2, <3>3 DEF OwnAnswers
  <2> QED  BY <1>1, <1>4, <1>5, <1>6, <2>1, <2>2 DEF BlkInv, QueueInv
<1>7. CASE kind = "ahci"
  <2>1. InProgress' => call'.sector \in Sectors
    BY <1>0, <1>2, <1>7 DEF InProgress, Stages, Sectors
  <2>2. call'.st \notin {"prdt", "busy", "ci", "poll"}
    BY <1>2
  <2> QED  BY <1>1, <1>4, <1>7, <2>1, <2>2 DEF BlkInv, PortInv
<1> QED  BY <1>6, <1>7

\* A request goes to the device: nothing more is shown than before.
LEMMA SubmitKeeps ==
  ASSUME BlkInv, kind # "ahci", call.st = "issue", NEW status, kind = "nvme" \/ status = "unset",
         Submitted(status)
  PROVE  BlkInv'
<1>0. BlkTypeOK /\ CallOK(call) /\ QueueInv /\ InProgress /\ Len(pending) \in Nat
  BY DEF BlkInv, BlkTypeOK, InProgress, Stages
<1> DEFINE r == RequestBy(call)
<1>1. /\ pending' = Append(pending, r) /\ UNCHANGED <<kind, disk, dev>>
      /\ drv' = [drv EXCEPT !.owed = drv.owed + 1]
      /\ call' = [[call EXCEPT !.st = "poll"] EXCEPT !.status = status]
  BY DEF Submitted, RequestBy
<1>2. r \in Requests
  BY <1>0 DEF RequestBy, Requests, CallOK, InProgress
<1> HIDE DEF r
<1>3. /\ pending' \in Seq(Requests) /\ Len(pending') = Len(pending) + 1
      /\ \A i \in 1 .. Len(pending) : pending'[i] = pending[i]
      /\ pending'[Len(pending) + 1] = r
  BY <1>0, <1>1, <1>2, AppendIs DEF BlkTypeOK
<1>4. /\ DOMAIN drv' = DriverFields /\ drv'.owed = drv.owed + 1 /\ drv'.last = drv.last
      /\ drv'.head = drv.head /\ drv'.phase = drv.phase
  BY <1>0, <1>1 DEF BlkTypeOK, DriverFields
<1>5. SameCall(call, call') /\ call'.buf = call.buf /\ call'.status = status /\ call'.st = "poll"
  BY <1>0, <1>1 DEF CallOK, SameCall, CallFields
<1>6. CallOK(call)'
  <2>1. CallOK(call')
    BY <1>0, <1>5, CallToOK DEF InProgress, Stages
  <2> QED  BY <2>1
<1>7. BlkTypeOK'
  BY <1>0, <1>1, <1>3, <1>4, <1>6 DEF BlkTypeOK
<1>8. Shown' = Shown
  BY <1>0, <1>3, <1>4 DEF Shown, BlkTypeOK
<1>9. (VirtioOK => VirtioOK') /\ (NvmeOK => NvmeOK')
  BY <1>1, <1>4, <1>8 DEF VirtioOK, NvmeOK
<1>10. OwnAnswers'
  <2> SUFFICES ASSUME call.clean PROVE
        /\ \A i \in 1 .. Len(pending') : pending'[i] = RequestBy(call)'
        /\ kind = "nvme" => \A i \in Places : Age(dev.tail, i) <= Shown /\ dev.cq[i].good => Kept(call, disk)'
    BY <1>1, <1>5, <1>8 DEF OwnAnswers, SameCall
  <2>1. RequestBy(call)' = r
    BY <1>5 DEF RequestBy, SameCall, r
  <2>2. \A i \in 1 .. Len(pending') : pending'[i] = r
    <3>1. \A i \in 1 .. Len(pending) : pending[i] = r
      BY <1>0 DEF QueueInv, OwnAnswers, r
    <3>2. \A i \in 1 .. Len(pending') : i \in 1 .. Len(pending) \/ i = Len(pending) + 1
      BY <1>0, <1>3
    <3> QED  BY <1>3, <3>1, <3>2
  <2>3. Kept(call, disk) => Kept(call, disk)'
    BY <1>1, <1>5, KeptOn
  <2> QED  BY <1>0, <2>1, <2>2, <2>3 DEF QueueInv, OwnAnswers
<1> QED  BY <1>0, <1>1, <1>7, <1>8, <1>9, <1>10 DEF BlkInv, QueueInv

\* An index that wraps keeps step with what has been counted.
LEMMA WrapKeepsStep ==
  ASSUME NEW m \in Nat \ {0}, NEW x \in Int, NEW a \in 0 .. m - 1, Multiple(x - a, m)
  PROVE  Multiple((x + 1) - ((a + 1) % m), m)
<1> DEFINE b == (a + 1) % m
<1>1. b = (IF a = m - 1 THEN 0 ELSE a + 1)
  BY NextIndex
<1> HIDE DEF b
<1>2. (x + 1) - b = x - a \/ (x + 1) - b = (x - a) + m
  BY <1>1
<1>3. Multiple((x - a) + m, m)
  <2> DEFINE y == x - a
  <2>1. y \in Int /\ Multiple(y, m)
    OBVIOUS
  <2> HIDE DEF y
  <2>2. Multiple(y + m, m)
    BY <2>1, MultipleMoves
  <2> QED  BY <2>2 DEF y
<1> QED  BY <1>2, <1>3 DEF b

LEMMA TurnKeepsStep ==
  ASSUME NEW t \in Places, NEW f \in BOOLEAN, NEW x \in Int
  PROVE  /\ Multiple(x - Turn(t, f), 2 * Depth) =>
              Multiple((x + 1) - Turn((t + 1) % Depth, PhaseAfter(t, f)), 2 * Depth)
         /\ Multiple(Turn(t, f) + x, 2 * Depth) =>
              Multiple(Turn((t + 1) % Depth, PhaseAfter(t, f)) + x - 1, 2 * Depth)
<1> DEFINE a == Turn(t, f)
           b == Turn((t + 1) % Depth, PhaseAfter(t, f))
           m == 2 * Depth
<1>1. a \in Int /\ m \in Nat \ {0} /\ (b = a + 1 \/ b = a + 1 - m)
  BY TurnNext, BlkAssumption
<1> HIDE DEF a, b, m
<1>2. ASSUME Multiple(x - a, m) PROVE Multiple((x + 1) - b, m)
  <2>1. (x + 1) - b = x - a \/ (x + 1) - b = (x - a) + m
    BY <1>1
  <2>2. x - a \in Int
    BY <1>1
  <2>3. Multiple((x - a) + m, m)
    BY <1>1, <1>2, <2>2, MultipleMoves
  <2> QED  BY <1>2, <2>1, <2>3
<1>3. ASSUME Multiple(a + x, m) PROVE Multiple(b + x - 1, m)
  <2>1. b + x - 1 = a + x \/ b + x - 1 = (a + x) - m
    BY <1>1
  <2>2. a + x \in Int
    BY <1>1
  <2>3. Multiple((a + x) - m, m)
    BY <1>1, <1>3, <2>2, MultipleMoves
  <2> QED  BY <1>3, <2>1, <2>3
<1> QED  BY <1>2, <1>3 DEF a, b, m

\* The device shows one more completion.
LEMMA AnnouncedKeeps ==
  ASSUME BlkInv, kind \in {"virtio", "nvme"}, NEW good \in BOOLEAN, dev' = Announced(good),
         UNCHANGED <<kind, drv>>, Shown' = Shown + 1
  PROVE  /\ DOMAIN dev' = DeviceFields /\ dev'.go = dev.go /\ dev'.busy = dev.busy
         /\ kind = "virtio" => VirtioOK'
         /\ kind = "nvme" =>
              /\ NvmeOK'
              /\ \A i \in Places : \/ i = dev.tail /\ dev'.cq[i].good = good
                                   \/ dev'.cq[i] = dev.cq[i] /\ Age(dev'.tail, i) = Age(dev.tail, i) + 1
<1>0. BlkTypeOK /\ QueueInv /\ Shown \in Int
  BY DEF BlkInv, BlkTypeOK, Shown
<1>1. CASE kind = "virtio"
  <2>1. VirtioOK /\ IndexMod \in Nat \ {0}
    BY <1>0, <1>1, BlkAssumption DEF QueueInv
  <2> DEFINE n == (dev.used + 1) % IndexMod
  <2>2. dev' = [dev EXCEPT !.used = n]
    BY <1>1 DEF Announced
  <2>3. n \in 0 .. IndexMod - 1
    BY <2>1, NextIndex DEF VirtioOK
  <2>4. Multiple((drv.last + (Shown + 1)) - n, IndexMod)
    <3> DEFINE x == drv.last + Shown
               a == dev.used
    <3>0. drv.last \in Int /\ Shown \in Int
      BY <1>0, <2>1 DEF VirtioOK
    <3>1. x \in Int /\ a \in 0 .. IndexMod - 1 /\ Multiple(x - a, IndexMod)
      BY <2>1, <3>0 DEF VirtioOK
    <3>2. x + 1 = drv.last + (Shown + 1)
      BY <3>0
    <3> HIDE DEF x, a
    <3>3. Multiple((x + 1) - ((a + 1) % IndexMod), IndexMod)
      BY <2>1, <3>1, WrapKeepsStep
    <3>4. n = (a + 1) % IndexMod
      BY DEF a
    <3> HIDE DEF n
    <3> QED  BY <3>2, <3>3, <3>4, Zenon
  <2> HIDE DEF n
  <2>5. DOMAIN dev' = DeviceFields /\ dev'.go = dev.go /\ dev'.busy = dev.busy /\ dev'.used = n
    BY <1>0, <2>2 DEF BlkTypeOK, DeviceFields
  <2>6. VirtioOK'
    BY <2>1, <2>3, <2>4, <2>5 DEF VirtioOK
  <2> QED  BY <1>1, <2>5, <2>6
<1>2. CASE kind = "nvme"
  <2>1. NvmeOK /\ Depth \in Nat \ {0}
    BY <1>0, <1>2, BlkAssumption DEF QueueInv
  <2> DEFINE t == dev.tail
             e == [phase |-> dev.phase, good |-> good]
             q == [dev.cq EXCEPT ![t] = e]
             n == (t + 1) % Depth
             p == PhaseAfter(t, dev.phase)
  <2>2. dev' = [[[dev EXCEPT !.cq = q] EXCEPT !.tail = n] EXCEPT !.phase = p]
    BY <1>2 DEF Announced, PhaseAfter
  <2>3. n = (IF t = Depth - 1 THEN 0 ELSE t + 1) /\ n \in Places /\ p \in BOOLEAN /\ t \in Places
    BY <2>1, NextIndex, TurnNext DEF NvmeOK, Places
  <2>4. e.phase = dev.phase /\ e.good = good
    OBVIOUS
  <2> HIDE DEF e
  <2>5. DOMAIN q = Places /\ q[t] = e /\ \A i \in Places : i # t => q[i] = dev.cq[i]
    BY <2>1, <2>3 DEF NvmeOK
  <2>6. Multiple((Turn(drv.head, drv.phase) + (Shown + 1)) - Turn(n, p), 2 * Depth)
    <3> DEFINE z == Turn(drv.head, drv.phase)
               x == z + Shown
    <3>0. z \in Int
      <4>1. drv.head \in Places /\ drv.phase \in BOOLEAN
        BY <2>1 DEF NvmeOK
      <4>2. z \in 0 .. 2 * Depth - 1
        BY <4>1, TurnNext
      <4> HIDE DEF z
      <4> QED  BY <2>1, <4>2
    <3>1. Multiple(x - Turn(t, dev.phase), 2 * Depth) /\ dev.phase \in BOOLEAN
      BY <2>1 DEF NvmeOK
    <3>2. x \in Int /\ x + 1 = z + (Shown + 1)
      <4> HIDE DEF z
      <4> QED  BY <1>0, <3>0
    <3> HIDE DEF x, t
    <3>3. Multiple((x + 1) - Turn((t + 1) % Depth, PhaseAfter(t, dev.phase)), 2 * Depth)
      BY <2>3, <3>1, <3>2, TurnKeepsStep
    <3>4. Multiple((x + 1) - Turn(n, p), 2 * Depth)
      BY <3>3
    <3> HIDE DEF n, p, z
    <3>5. Multiple((z + (Shown + 1)) - Turn(n, p), 2 * Depth)
      BY <3>2, <3>4, Zenon
    <3> QED  BY <3>5 DEF z
  <2> HIDE DEF q, n
  <2>7. /\ DOMAIN dev' = DeviceFields /\ dev'.go = dev.go /\ dev'.busy = dev.busy
        /\ dev'.cq = q /\ dev'.tail = n /\ dev'.phase = p
    <3> HIDE DEF p
    <3> QED  BY <1>0, <2>2 DEF BlkTypeOK, DeviceFields
  <2>8. ASSUME NEW i \in Places PROVE q[i].phase = IF i < n THEN p ELSE ~p
    <3>1. i # t => dev.cq[i].phase = IF i < t THEN dev.phase ELSE ~dev.phase
      BY <2>1 DEF NvmeOK
    <3>2. i \in 0 .. Depth - 1 /\ t \in 0 .. Depth - 1
      BY <2>3 DEF Places
    <3>3. CASE t = Depth - 1
      <4>1. ~(i < n) /\ p = ~dev.phase /\ (i # t => i < t)
        BY <2>1, <2>3, <3>2, <3>3 DEF PhaseAfter
      <4> QED  BY <2>1, <2>4, <2>5, <3>1, <4>1 DEF NvmeOK
    <3>4. CASE t # Depth - 1
      <4>1. (i < n <=> i < t \/ i = t) /\ p = dev.phase /\ ~(t < t)
        BY <2>1, <2>3, <3>2, <3>4 DEF PhaseAfter
      <4> QED  BY <2>4, <2>5, <3>1, <4>1
    <3> QED  BY <3>3, <3>4
  <2>9. NvmeOK'
    BY <2>1, <2>3, <2>5, <2>6, <2>7, <2>8 DEF NvmeOK
  <2>10. ASSUME NEW i \in Places, i # t PROVE Age(n, i) = Age(t, i) + 1
    BY <2>1, <2>3, <2>10 DEF Age, Places
  <2>11. \A i \in Places : \/ i = dev.tail /\ dev'.cq[i].good = good
                           \/ dev'.cq[i] = dev.cq[i] /\ Age(dev'.tail, i) = Age(dev.tail, i) + 1
    BY <2>4, <2>5, <2>7, <2>10
  <2> QED  BY <1>2, <2>7, <2>9, <2>11
<1> QED  BY <1>1, <1>2

\* The device carries out a request.  In a clean call it is the call's own.
LEMMA CarryKeeps ==
  ASSUME BlkInv, NEW i \in DOMAIN pending, NEW good \in BOOLEAN, Carry(i, good)
  PROVE  BlkInv'
<1> DEFINE r == pending[i]
<1>0. /\ BlkTypeOK /\ CallOK(call) /\ Len(pending) \in Nat /\ Shown \in Int
      /\ i \in 1 .. Len(pending) /\ r \in Requests /\ pending # <<>>
  <2>1. BlkTypeOK /\ CallOK(call) /\ pending \in Seq(Requests) /\ drv.owed \in Int
    BY DEF BlkInv, BlkTypeOK
  <2>2. i \in 1 .. Len(pending) /\ Len(pending) \in Nat
    BY <2>1
  <2>3. Shown \in Int
    BY <2>1, <2>2 DEF Shown
  <2>4. r \in Requests
    BY <2>1, <2>2
  <2>5. pending # <<>>
    OBVIOUS
  <2> QED  BY <2>1, <2>2, <2>3, <2>4, <2>5
<1>1. kind \in {"virtio", "nvme"} /\ QueueInv
  BY <1>0 DEF BlkInv, PortInv, BlkTypeOK
<1>2. /\ pending' = RemoveAt(pending, i) /\ dev' = Announced(good) /\ UNCHANGED <<kind, drv>>
      /\ good => r.sector \in Sectors
  BY DEF Carry
<1>3. /\ pending' \in Seq(Requests) /\ Len(pending') = Len(pending) - 1
      /\ \A j \in 1 .. Len(pending') : \E k \in 1 .. Len(pending) : pending'[j] = pending[k]
  <2>1. pending \in Seq(Requests)
    BY <1>0 DEF BlkTypeOK
  <2> DEFINE q == RemoveAt(pending, i)
  <2>2. /\ q \in Seq(Requests) /\ Len(q) = Len(pending) - 1
        /\ \A j \in 1 .. Len(pending) - 1 : \E k \in 1 .. Len(pending) : q[j] = pending[k]
    <3>1. i \in 1 .. Len(pending)
      BY <1>0
    <3>2. OneLess(Requests, pending, q)
      BY <2>1, <3>1, RemovedIs
    <3> HIDE DEF q
    <3> QED  BY <3>2 DEF OneLess
  <2>3. pending' = q
    BY <1>2
  <2> HIDE DEF q
  <2> QED  BY <2>2, <2>3
<1>4. Shown' = Shown + 1
  BY <1>0, <1>2, <1>3 DEF Shown, BlkTypeOK
<1>5. PICK v \in Sources(r.call, r.val) :
        disk' = IF good /\ r.op = "write" THEN [disk EXCEPT ![r.sector] = v] ELSE disk
  BY DEF Carry
<1> DEFINE mine == InProgress /\ r.call = call.n
           buf == IF good /\ mine /\ r.op = "read" THEN disk[r.sector] ELSE call.buf
<1>6. PICK same \in Slots(r) :
        call' = [[call EXCEPT !.buf = buf] EXCEPT
                  !.status = IF same /\ call.st = "poll" THEN (IF good THEN "ok" ELSE "bad") ELSE call.status]
  BY DEF Carry
<1>7. SameCall(call, call') /\ call'.buf = buf /\ call'.st = call.st /\ (call'.status = "ok" => good \/ call.status = "ok")
  <2> HIDE DEF buf
  <2> DEFINE st == IF same /\ call.st = "poll" THEN (IF good THEN "ok" ELSE "bad") ELSE call.status
  <2>1. st = "ok" => good \/ call.status = "ok"
    OBVIOUS
  <2> HIDE DEF st
  <2>2. call' = [[call EXCEPT !.buf = buf] EXCEPT !.status = st]
    BY <1>6 DEF st
  <2> QED  BY <1>0, <2>1, <2>2 DEF CallOK, SameCall, CallFields
<1>8. BlkTypeOK'
  <2>1. CallOK(call)'
    BY <1>0, <1>7 DEF CallOK, SameCall
  <2>2. DOMAIN disk' = Sectors
    BY <1>0, <1>5 DEF BlkTypeOK
  <2>3. DOMAIN dev' = DeviceFields
    BY <1>1, <1>2, <1>4, AnnouncedKeeps
  <2> QED  BY <1>0, <1>2, <1>3, <2>1, <2>2, <2>3 DEF BlkTypeOK
<1>9. ASSUME InProgress, call.clean
      PROVE  /\ r = RequestBy(call)
             /\ good => Kept(call', disk')
             /\ Kept(call, disk) => Kept(call', disk')
  <2>1. r = RequestBy(call)
    BY <1>0, <1>1, <1>9 DEF QueueInv, OwnAnswers
  <2>2. r.op = call.op /\ r.sector = call.sector /\ r.val = call.val /\ r.call = call.n
    BY <2>1 DEF RequestBy
  <2>3. v = call.val
    BY <1>5, <1>9, <2>2 DEF Sources
  <2>4. ASSUME good PROVE Kept(call', disk')
    <3>1. call.sector \in Sectors
      BY <1>2, <2>2, <2>4
    <3>2. CASE call.op = "read"
      <4>1. buf = disk[call.sector] /\ disk' = disk
        BY <1>5, <1>9, <2>2, <2>4, <3>2
      <4> QED  BY <1>7, <3>1, <3>2, <4>1 DEF Kept, SameCall
    <3>3. CASE call.op = "write"
      <4>1. disk' = [disk EXCEPT ![call.sector] = call.val]
        BY <1>5, <2>2, <2>3, <2>4, <3>3
      <4>2. disk'[call.sector] = call.val
        BY <1>0, <3>1, <4>1 DEF BlkTypeOK
      <4> QED  BY <1>7, <3>1, <3>3, <4>2 DEF Kept, SameCall
    <3> QED  BY <1>0, <1>9, <3>2, <3>3 DEF CallOK, InProgress
  <2>5. ASSUME ~good, Kept(call, disk) PROVE Kept(call', disk')
    <3>1. disk' = disk /\ buf = call.buf
      BY <1>5, <2>5
    <3> QED  BY <1>7, <2>5, <3>1, KeptOn
  <2> QED  BY <2>1, <2>4, <2>5
<1>10. OwnAnswers'
  <2> SUFFICES ASSUME InProgress, call.clean
               PROVE  /\ \A j \in 1 .. Len(pending') : pending'[j] = RequestBy(call)'
                      /\ kind = "virtio" /\ call'.status = "ok" => Kept(call', disk')
                      /\ kind = "nvme" => \A j \in Places :
                           Age(dev'.tail, j) <= Shown' /\ dev'.cq[j].good => Kept(call', disk')
    BY <1>2, <1>7 DEF OwnAnswers, InProgress, SameCall
  <2>1. \A j \in 1 .. Len(pending') : pending'[j] = RequestBy(call)'
    <3>1. RequestBy(call)' = RequestBy(call)
      BY <1>7 DEF RequestBy, SameCall
    <3> QED  BY <1>1, <1>3, <3>1 DEF QueueInv, OwnAnswers
  <2>2. kind = "virtio" /\ call'.status = "ok" => Kept(call', disk')
    BY <1>1, <1>7, <1>9 DEF QueueInv, OwnAnswers
  <2>3. ASSUME kind = "nvme", NEW j \in Places, Age(dev'.tail, j) <= Shown', dev'.cq[j].good
        PROVE  Kept(call', disk')
    <3>1. \/ j = dev.tail /\ dev'.cq[j].good = good
          \/ dev'.cq[j] = dev.cq[j] /\ Age(dev'.tail, j) = Age(dev.tail, j) + 1
      BY <1>1, <1>2, <1>4, <2>3, AnnouncedKeeps
    <3>2. CASE dev'.cq[j].good = good
      BY <1>9, <2>3, <3>2
    <3>3. CASE dev'.cq[j] = dev.cq[j] /\ Age(dev'.tail, j) = Age(dev.tail, j) + 1
      <4>1. Age(dev.tail, j) \in Int
        BY <1>1, <2>3, BlkAssumption DEF Age, QueueInv, NvmeOK, Places
      <4>2. Age(dev.tail, j) <= Shown
        BY <1>0, <1>4, <2>3, <3>3, <4>1
      <4>3. Kept(call, disk)
        BY <1>1, <2>3, <3>3, <4>2 DEF QueueInv, OwnAnswers
      <4> QED  BY <1>9, <4>3
    <3> QED  BY <3>1, <3>2, <3>3
  <2> QED  BY <2>1, <2>2, <2>3
<1>11. QueueInv'
  <2>1. /\ dev'.go = dev.go /\ dev'.busy = dev.busy
        /\ kind = "virtio" => VirtioOK'
        /\ kind = "nvme" => NvmeOK'
    BY <1>1, <1>2, <1>4, AnnouncedKeeps
  <2>2. Shown' >= 0
    BY <1>0, <1>1, <1>4 DEF QueueInv
  <2> QED  BY <1>1, <1>2, <1>10, <2>1, <2>2 DEF QueueInv
<1> QED  BY <1>1, <1>2, <1>8, <1>11 DEF BlkInv

\* The driver goes on with a call, having taken an answer or given up.
LEMMA CallGoesOn ==
  ASSUME BlkInv, kind # "ahci", InProgress, UNCHANGED <<kind, disk, pending, dev>>,
         NEW st \in {"issue", "ok", "err"}, CallTo(call, call', st),
         DOMAIN drv' = DriverFields, drv'.owed \in Int, Shown' <= Shown, Shown' \in Int,
         kind = "virtio" => VirtioOK', kind = "nvme" => NvmeOK', Shown' >= 0
  PROVE  BlkInv'
<1>0. BlkTypeOK /\ CallOK(call) /\ QueueInv /\ Shown \in Int
  BY DEF BlkInv, BlkTypeOK, Shown
<1>1. SameCall(call, call') /\ call'.buf = call.buf /\ call'.status = call.status /\ call'.st = st
  BY DEF CallTo
<1>2. CallOK(call')
  BY <1>0, <1>1, CallToOK DEF InProgress, Stages
<1>3. BlkTypeOK'
  BY <1>0, <1>2 DEF BlkTypeOK
<1>4. Kept(call', disk') <=> Kept(call, disk)
  BY <1>1, KeptOn
<1>5. OwnAnswers'
  <2>1. RequestBy(call)' = RequestBy(call) /\ call'.clean = call.clean
    BY <1>1 DEF RequestBy, SameCall
  <2>2. ASSUME kind = "nvme", NEW i \in Places, Age(dev.tail, i) <= Shown' PROVE Age(dev.tail, i) <= Shown
    <3>1. Age(dev.tail, i) \in Int
      BY <1>0, <2>2, BlkAssumption DEF Age, QueueInv, NvmeOK, Places
    <3> QED  BY <1>0, <2>2, <3>1
  <2> QED  BY <1>0, <1>1, <1>4, <2>1, <2>2 DEF QueueInv, OwnAnswers
<1> QED  BY <1>0, <1>3, <1>5 DEF BlkInv, QueueInv

LEMMA PollUsedKeeps ==
  ASSUME BlkInv, PollUsed
  PROVE  BlkInv'
<1>0. BlkTypeOK /\ CallOK(call) /\ InProgress /\ kind = "virtio" /\ Shown \in Int /\ Shown >= 1
  BY AnsweredShown DEF BlkInv, BlkTypeOK, PollUsed, InProgress, Stages, Shown
<1>1. VirtioOK /\ IndexMod \in Nat \ {0}
  BY <1>0, BlkAssumption DEF BlkInv, QueueInv
<1> DEFINE n == (drv.last + 1) % IndexMod
<1>2. /\ UNCHANGED <<kind, disk, pending, dev>> /\ call' = Finished(call, call.status = "ok")
      /\ drv' = [[drv EXCEPT !.last = n] EXCEPT !.owed = drv.owed - 1]
  BY DEF PollUsed
<1>3. n = (IF drv.last = IndexMod - 1 THEN 0 ELSE drv.last + 1) /\ n \in 0 .. IndexMod - 1
  BY <1>1, NextIndex DEF VirtioOK
<1> HIDE DEF n
<1>4. DOMAIN drv' = DriverFields /\ drv'.owed = drv.owed - 1 /\ drv'.last = n
  BY <1>0, <1>2 DEF BlkTypeOK, DriverFields
<1>5. Shown' = Shown - 1 /\ drv'.owed \in Int
  BY <1>0, <1>2, <1>4 DEF Shown, BlkTypeOK
<1>6. VirtioOK'
  <2> DEFINE l == drv.last
             u == Shown
             d == dev.used
  <2>1. l \in 0 .. IndexMod - 1 /\ d \in 0 .. IndexMod - 1 /\ Multiple((l + u) - d, IndexMod) /\ u \in Int
    BY <1>0, <1>1 DEF VirtioOK
  <2>2. n = (l + 1) % IndexMod
    BY DEF n
  <2> HIDE DEF l, u, d
  <2>3. d \in Int
    BY <1>1, <2>1
  <2>6. Multiple((n + (u - 1)) - d, IndexMod)
    BY <1>1, <2>1, <2>2, <2>3, TakenKeepsStep
  <2> QED  BY <1>2, <1>3, <1>4, <1>5, <2>1, <2>6 DEF VirtioOK, u, d
<1>7. \E st \in {"issue", "ok", "err"} : CallTo(call, call', st)
  BY <1>0, <1>2, FinishedIs
<1> QED  BY <1>0, <1>2, <1>4, <1>5, <1>6, <1>7, CallGoesOn

LEMMA PollCompletionKeeps ==
  ASSUME BlkInv, PollCompletion
  PROVE  BlkInv'
<1>0. BlkTypeOK /\ CallOK(call) /\ InProgress /\ kind = "nvme" /\ Shown \in Int /\ Shown >= 1
  BY AnsweredShown DEF BlkInv, BlkTypeOK, PollCompletion, InProgress, Stages, Shown
<1>1. NvmeOK /\ Depth \in Nat \ {0}
  BY <1>0, BlkAssumption DEF BlkInv, QueueInv
<1> DEFINE n == (drv.head + 1) % Depth
           p == PhaseAfter(drv.head, drv.phase)
<1>2. /\ UNCHANGED <<kind, disk, pending, dev>> /\ call' = Finished(call, dev.cq[drv.head].good)
      /\ drv' = [[[drv EXCEPT !.head = n] EXCEPT !.owed = drv.owed - 1] EXCEPT !.phase = p]
  BY DEF PollCompletion, Consumed, PhaseAfter
<1>3. n \in Places /\ p \in BOOLEAN
  BY <1>1, TurnNext DEF NvmeOK
<1>4. Multiple(Turn(n, p) + ((Shown - Turn(dev.tail, dev.phase)) - 1), 2 * Depth)
  <2> DEFINE x == Shown - Turn(dev.tail, dev.phase)
             z == Turn(drv.head, drv.phase)
             y == Turn(dev.tail, dev.phase)
  <2>1. y \in Int /\ z \in Int /\ Multiple((z + Shown) - y, 2 * Depth)
    <3>1. y \in 0 .. 2 * Depth - 1 /\ z \in 0 .. 2 * Depth - 1 /\ Multiple((z + Shown) - y, 2 * Depth)
      BY <1>1, TurnNext DEF NvmeOK
    <3> HIDE DEF y, z
    <3> QED  BY <1>1, <3>1
  <2>2. x \in Int /\ z + x = (z + Shown) - y
    <3> HIDE DEF y, z
    <3> QED  BY <1>0, <2>1 DEF y
  <2>3. Multiple(z + x, 2 * Depth)
    <3> HIDE DEF x, y, z
    <3> QED  BY <2>1, <2>2
  <2> HIDE DEF x
  <2>4. Multiple(Turn(n, p) + x - 1, 2 * Depth)
    BY <1>1, <2>2, <2>3, TurnKeepsStep DEF NvmeOK
  <2> QED  BY <2>4 DEF x
<1> HIDE DEF n, p
<1>5. DOMAIN drv' = DriverFields /\ drv'.owed = drv.owed - 1 /\ drv'.head = n /\ drv'.phase = p
  BY <1>0, <1>2 DEF BlkTypeOK, DriverFields
<1>6. Shown' = Shown - 1 /\ drv'.owed \in Int
  BY <1>0, <1>2, <1>5 DEF Shown, BlkTypeOK
<1>7. NvmeOK'
  <2> DEFINE z == Turn(n, p)
             y == Turn(dev.tail, dev.phase)
             u == Shown
  <2>1. y \in Int /\ z \in Int /\ u \in Int
    <3>1. y \in 0 .. 2 * Depth - 1 /\ z \in 0 .. 2 * Depth - 1
      BY <1>1, <1>3, TurnNext DEF NvmeOK
    <3> HIDE DEF y, z
    <3> QED  BY <1>0, <1>1, <3>1
  <2>2. Multiple(z + ((u - y) - 1), 2 * Depth)
    BY <1>4
  <2> HIDE DEF z, y, u
  <2>3. z + ((u - y) - 1) = (z + (u - 1)) - y
    BY <2>1
  <2>4. Multiple((z + (u - 1)) - y, 2 * Depth)
    BY <2>2, <2>3
  <2>5. Multiple((Turn(drv.head, drv.phase)' + Shown') - Turn(dev.tail, dev.phase)', 2 * Depth)
    <3>1. Turn(drv.head, drv.phase)' = z /\ Shown' = u - 1 /\ Turn(dev.tail, dev.phase)' = y
      BY <1>2, <1>5, <1>6 DEF z, u, y
    <3> QED  BY <2>4, <3>1
  <2> QED  BY <1>1, <1>2, <1>3, <1>5, <2>5 DEF NvmeOK
<1>8. \E st \in {"issue", "ok", "err"} : CallTo(call, call', st)
  <2>1. CASE dev.cq[drv.head].good = TRUE
    BY <1>0, <1>2, <2>1, FinishedIs
  <2>2. CASE dev.cq[drv.head].good # TRUE
    <3>1. call' = Failed(call)
      BY <1>2, <2>2 DEF Finished
    <3> QED  BY <1>0, <3>1, FinishedIs
  <2> QED  BY <2>1, <2>2
<1> QED  BY <1>0, <1>2, <1>5, <1>6, <1>7, <1>8, CallGoesOn

LEMMA PollTimeoutKeeps ==
  ASSUME BlkInv, PollTimeout
  PROVE  BlkInv'
<1>0. BlkTypeOK /\ CallOK(call) /\ InProgress /\ kind # "ahci" /\ Shown \in Int /\ QueueInv
  BY DEF BlkInv, BlkTypeOK, PollTimeout, InProgress, Stages, Shown
<1>1. UNCHANGED <<kind, disk, pending, dev, drv>> /\ call' = Failed(call)
  BY DEF PollTimeout, GiveUp
<1>2. Shown' = Shown /\ (VirtioOK => VirtioOK') /\ (NvmeOK => NvmeOK')
  BY <1>1 DEF Shown, VirtioOK, NvmeOK
<1>3. \E st \in {"issue", "ok", "err"} : CallTo(call, call', st)
  BY <1>0, <1>1, FinishedIs
<1> QED  BY <1>0, <1>1, <1>2, <1>3, CallGoesOn DEF BlkTypeOK, QueueInv

\* The driver writes a command, waits for the port and starts it, without touching
\* what the port is working on.
LEMMA PortDriverKeeps ==
  ASSUME BlkInv, WriteFis \/ WritePrdt \/ NotBusy \/ WriteCi
  PROVE  BlkInv'
<1>0. BlkTypeOK /\ CallOK(call) /\ PortInv /\ kind = "ahci" /\ call.st \in Stages
  BY DEF BlkInv, BlkTypeOK, WriteFis, WritePrdt, NotBusy, WriteCi, Stages
<1>1. UNCHANGED <<kind, disk, pending, drv>>
  BY DEF WriteFis, WritePrdt, NotBusy, WriteCi
<1>2. PICK st \in Stages : call' = [call EXCEPT !.st = st]
  BY DEF WriteFis, WritePrdt, NotBusy, WriteCi, Stages
<1>3. SameCall(call, call') /\ call'.buf = call.buf /\ call'.st = st
  BY <1>0, <1>2 DEF CallOK, SameCall, CallFields
<1>4. CallOK(call')
  BY <1>0, <1>3, CallToOK
<1>5. DOMAIN dev' = DeviceFields
  BY <1>0 DEF BlkTypeOK, WriteFis, WritePrdt, NotBusy, WriteCi
<1>6. BlkTypeOK'
  BY <1>0, <1>1, <1>4, <1>5 DEF BlkTypeOK
<1>7. InProgress' /\ call'.sector \in Sectors
  BY <1>0, <1>3 DEF InProgress, SameCall, PortInv
<1>8. PortInv'
  <2>1. CASE WriteFis
    <3> DEFINE fis == [op |-> call.op, sector |-> call.sector]
    <3>1. call.st = "issue" /\ call'.st = "prdt" /\ dev' = [dev EXCEPT !.fis = fis]
      BY <1>0, <2>1 DEF WriteFis, CallOK, CallFields
    <3> HIDE DEF fis
    <3>2. dev'.fis = fis /\ dev'.go = dev.go /\ dev'.busy = dev.busy
      BY <1>0, <3>1 DEF BlkTypeOK, DeviceFields
    <3>3. dev'.fis = [op |-> call'.op, sector |-> call'.sector]
      BY <1>3, <3>2 DEF SameCall, fis
    <3> QED  BY <1>0, <1>1, <1>7, <3>1, <3>2, <3>3 DEF PortInv
  <2>2. CASE WritePrdt
    <3>1. call.st = "prdt" /\ call'.st = "busy" /\ dev' = [dev EXCEPT !.prdt = call.n]
      BY <1>0, <2>2 DEF WritePrdt, CallOK, CallFields
    <3>2. dev'.fis = dev.fis /\ dev'.prdt = call.n /\ dev'.go = dev.go /\ dev'.busy = dev.busy
      BY <1>0, <3>1 DEF BlkTypeOK, DeviceFields
    <3> QED  BY <1>0, <1>1, <1>3, <1>7, <3>1, <3>2 DEF PortInv, SameCall
  <2>3. CASE NotBusy
    <3>1. call.st = "busy" /\ call'.st = "ci" /\ dev' = dev /\ ~dev.busy
      BY <1>0, <2>3 DEF NotBusy, CallOK, CallFields
    <3> QED  BY <1>0, <1>1, <1>3, <1>7, <3>1 DEF PortInv, SameCall
  <2>4. CASE WriteCi
    <3> DEFINE go == dev.go \/ ~dev.busy
    <3>1. call.st = "ci" /\ call'.st = "poll" /\ dev' = [[dev EXCEPT !.ci = TRUE] EXCEPT !.go = go]
      BY <1>0, <2>4 DEF WriteCi, CallOK, CallFields
    <3>2. go \in BOOLEAN /\ (dev.busy => ~go)
      BY <1>0 DEF PortInv
    <3> HIDE DEF go
    <3>3. /\ dev'.fis = dev.fis /\ dev'.prdt = dev.prdt /\ dev'.ci /\ dev'.go = go /\ dev'.busy = dev.busy
          /\ dev'.cur = dev.cur /\ dev'.buffer = dev.buffer
      BY <1>0, <3>1 DEF BlkTypeOK, DeviceFields
    <3> QED  BY <1>0, <1>1, <1>3, <1>7, <3>1, <3>2, <3>3 DEF PortInv, SameCall
  <2> QED  BY <2>1, <2>2, <2>3, <2>4
<1> QED  BY <1>0, <1>1, <1>6, <1>8 DEF BlkInv

\* The driver has seen the end of a command, or gives up on it.
LEMMA PortPollKeeps ==
  ASSUME BlkInv, PollCi \/ PortTimeout
  PROVE  BlkInv'
<1>0. BlkTypeOK /\ CallOK(call) /\ PortInv /\ kind = "ahci" /\ call.st \in Stages
  BY DEF BlkInv, BlkTypeOK, PollCi, PortTimeout, Stages
<1>1. UNCHANGED <<kind, disk, pending, dev, drv>>
  BY DEF PollCi, PortTimeout, GiveUp
<1>2. call' = Finished(call, ~dev.err) \/ call' = Failed(call)
  BY DEF PollCi, PortTimeout, GiveUp
<1>3. PICK st \in {"issue", "ok", "err"} : CallTo(call, call', st)
  BY <1>0, <1>2, FinishedIs
<1>4. CallOK(call')
  BY <1>0, <1>3, CallToOK DEF CallTo, Stages
<1>5. BlkTypeOK'
  BY <1>0, <1>1, <1>4 DEF BlkTypeOK
<1>6. call'.sector \in Sectors /\ call'.st = st
  BY <1>0, <1>3 DEF PortInv, InProgress, CallTo, SameCall
<1>7. PortInv'
  BY <1>0, <1>1, <1>6 DEF PortInv
<1> QED  BY <1>0, <1>1, <1>5, <1>7 DEF BlkInv

\* The port takes the command it finds in memory.
LEMMA FetchKeeps ==
  ASSUME BlkInv, Fetch
  PROVE  BlkInv'
<1>0. BlkTypeOK /\ PortInv /\ kind = "ahci"
  BY DEF BlkInv, QueueInv, Fetch
<1>1. /\ UNCHANGED <<kind, disk, pending, drv, call>> /\ dev.go /\ ~dev.busy
      /\ dev' = [[[[[dev EXCEPT !.go = FALSE] EXCEPT !.busy = TRUE] EXCEPT !.err = FALSE] EXCEPT
                   !.cur = dev.fis] EXCEPT !.buffer = dev.prdt]
  BY DEF Fetch
<1>2. /\ DOMAIN dev' = DeviceFields /\ dev'.fis = dev.fis /\ dev'.prdt = dev.prdt /\ dev'.ci = dev.ci
      /\ dev'.go = FALSE /\ dev'.busy = TRUE /\ dev'.cur = dev.fis /\ dev'.buffer = dev.prdt
  BY <1>0, <1>1 DEF BlkTypeOK, DeviceFields
<1>3. BlkTypeOK'
  BY <1>0, <1>1, <1>2 DEF BlkTypeOK
<1>4. PortInv'
  BY <1>0, <1>1, <1>2 DEF PortInv, InProgress
<1> QED  BY <1>0, <1>1, <1>3, <1>4 DEF BlkInv

\* The port ends a command.  If the driver polls, it is the one in memory.
LEMMA PortDoneKeeps ==
  ASSUME BlkInv, PortDone
  PROVE  BlkInv'
<1>0. BlkTypeOK /\ CallOK(call) /\ PortInv /\ kind = "ahci" /\ dev.busy
  BY DEF BlkInv, BlkTypeOK, QueueInv, PortDone
<1>1. /\ UNCHANGED <<kind, pending, drv>>
      /\ dev' = [[dev EXCEPT !.busy = FALSE] EXCEPT !.ci = FALSE]
      /\ call' = IF dev.cur.op = "read" /\ InProgress /\ dev.buffer = call.n
                 THEN [call EXCEPT !.buf = disk[dev.cur.sector]] ELSE call
  BY DEF PortDone
<1>2. PICK v \in Held(dev.buffer) :
        disk' = IF dev.cur.op = "write" THEN [disk EXCEPT ![dev.cur.sector] = v] ELSE disk
  BY DEF PortDone
<1>3. /\ DOMAIN dev' = DeviceFields /\ dev'.fis = dev.fis /\ dev'.prdt = dev.prdt /\ dev'.go = dev.go
      /\ dev'.busy = FALSE
  BY <1>0, <1>1 DEF BlkTypeOK, DeviceFields
<1>4. SameCall(call, call') /\ call'.st = call.st
  <2> DEFINE b == disk[dev.cur.sector]
  <2>1. call' = [call EXCEPT !.buf = b] \/ call' = call
    BY <1>1
  <2> HIDE DEF b
  <2> QED  BY <1>0, <2>1 DEF CallOK, SameCall, CallFields
<1>5. CallOK(call)'
  BY <1>0, <1>4 DEF CallOK, SameCall
<1>6. DOMAIN disk' = Sectors
  BY <1>0, <1>2 DEF BlkTypeOK
<1>7. BlkTypeOK'
  BY <1>0, <1>1, <1>3, <1>5, <1>6 DEF BlkTypeOK
<1>8. ASSUME call.st = "poll" PROVE Kept(call', disk')
  <2>1. /\ dev.cur.op = call.op /\ dev.cur.sector = call.sector /\ dev.buffer = call.n
        /\ InProgress /\ call.sector \in Sectors
    BY <1>0, <1>8 DEF PortInv, InProgress, Stages
  <2>2. CASE call.op = "read"
    <3>1. disk' = disk /\ call' = [call EXCEPT !.buf = disk[call.sector]]
      BY <1>1, <1>2, <2>1, <2>2
    <3>2. call'.buf = disk[call.sector]
      BY <1>0, <3>1 DEF CallOK, CallFields
    <3> QED  BY <1>4, <2>1, <2>2, <3>1, <3>2 DEF Kept, SameCall
  <2>3. CASE call.op = "write"
    <3>1. v = call.val
      BY <1>2, <2>1, <2>3 DEF Held
    <3>2. disk'[call.sector] = call.val
      BY <1>0, <1>2, <2>1, <2>3, <3>1 DEF BlkTypeOK
    <3> QED  BY <1>4, <2>1, <2>3, <3>2 DEF Kept, SameCall
  <2> QED  BY <1>0, <2>1, <2>2, <2>3 DEF CallOK, InProgress
<1>9. ~dev'.go /\ ~dev'.busy /\ dev'.go \in BOOLEAN /\ dev'.busy \in BOOLEAN
  BY <1>0, <1>3 DEF PortInv
<1>10. InProgress' = InProgress /\ call'.sector = call.sector /\ call'.op = call.op /\ call'.n = call.n
  BY <1>4 DEF InProgress, SameCall
<1>11. PortInv'
  BY <1>0, <1>1, <1>3, <1>4, <1>8, <1>9, <1>10 DEF PortInv
<1> QED  BY <1>0, <1>1, <1>7, <1>11 DEF BlkInv

LEMMA PortErrorKeeps ==
  ASSUME BlkInv, PortError
  PROVE  BlkInv'
<1>0. BlkTypeOK /\ PortInv /\ kind = "ahci" /\ dev.busy
  BY DEF BlkInv, QueueInv, PortError
<1>1. PICK ci \in BOOLEAN : dev' = [[[dev EXCEPT !.busy = FALSE] EXCEPT !.err = TRUE] EXCEPT !.ci = ci]
  BY DEF PortError
<1>2. UNCHANGED <<kind, disk, pending, drv, call>>
  BY DEF PortError
<1>3. /\ DOMAIN dev' = DeviceFields /\ dev'.fis = dev.fis /\ dev'.prdt = dev.prdt /\ dev'.go = dev.go
      /\ dev'.busy = FALSE /\ dev'.err = TRUE
  BY <1>0, <1>1 DEF BlkTypeOK, DeviceFields
<1>4. BlkTypeOK'
  BY <1>0, <1>2, <1>3 DEF BlkTypeOK
<1>5. PortInv'
  BY <1>0, <1>2, <1>3 DEF PortInv, InProgress
<1> QED  BY <1>0, <1>2, <1>4, <1>5 DEF BlkInv

LEMMA BlkKeeps ==
  ASSUME BlkInv, BlkStep \/ UNCHANGED blkVars
  PROVE  BlkInv'
<1>1. CASE UNCHANGED blkVars
  <2>1. UNCHANGED <<kind, disk, pending, dev, drv, call>>
    BY <1>1 DEF blkVars
  <2> QED  BY <2>1 DEF BlkInv, BlkTypeOK, CallOK, QueueInv, VirtioOK, NvmeOK, OwnAnswers, PortInv,
                Shown, InProgress, RequestBy
<1>2. CASE \E s \in 0 .. Capacity : ReadSector(s) \/ \E v \in Values : WriteSector(s, v)
  BY <1>2, BeginKeeps DEF ReadSector, WriteSector
<1>3. CASE SubmitChain \/ SubmitEntry
  BY <1>3, SubmitKeeps DEF SubmitChain, SubmitEntry
<1>4. CASE PollUsed \/ PollCompletion \/ PollTimeout
  BY <1>4, PollUsedKeeps, PollCompletionKeeps, PollTimeoutKeeps
<1>5. CASE \E i \in DOMAIN pending, good \in BOOLEAN : Carry(i, good)
  BY <1>5, CarryKeeps
<1>6. CASE WriteFis \/ WritePrdt \/ NotBusy \/ WriteCi
  BY <1>6, PortDriverKeeps
<1>7. CASE PollCi \/ PortTimeout
  BY <1>7, PortPollKeeps
<1>8. CASE Fetch \/ PortDone \/ PortError
  BY <1>8, FetchKeeps, PortDoneKeeps, PortErrorKeeps
<1> QED  BY <1>1, <1>2, <1>3, <1>4, <1>5, <1>6, <1>7, <1>8 DEF BlkStep

\* A call ends well only with an answer of its own.
LEMMA BlkDone ==
  ASSUME BlkInv, BlkStep \/ UNCHANGED blkVars
  PROVE  DoneWhenOk
<1> SUFFICES ASSUME call.st # "ok", call'.st = "ok", kind = "ahci" \/ call.clean PROVE Kept(call, disk)
  BY DEF DoneWhenOk, Kept
<1>0. BlkTypeOK /\ CallOK(call)
  BY DEF BlkInv, BlkTypeOK
<1>1. CASE PollUsed
  <2>1. InProgress /\ kind = "virtio" /\ QueueInv /\ call' = Finished(call, call.status = "ok")
    BY <1>1 DEF PollUsed, InProgress, Stages, BlkInv
  <2>2. call.status = "ok"
    BY <1>0, <2>1, FinishedIs DEF CallTo
  <2> QED  BY <2>1, <2>2 DEF QueueInv, OwnAnswers
<1>2. CASE PollCompletion
  <2>1. InProgress /\ kind = "nvme" /\ QueueInv /\ call' = Finished(call, dev.cq[drv.head].good)
    BY <1>2 DEF PollCompletion, InProgress, Stages, BlkInv
  <2>2. ASSUME dev.cq[drv.head].good # TRUE PROVE FALSE
    <3>1. call' = Failed(call)
      BY <2>1, <2>2 DEF Finished
    <3> QED  BY <1>0, <3>1, FinishedIs DEF CallTo
  <2>3. drv.head \in Places /\ Age(dev.tail, drv.head) <= Shown
    BY <1>2, <2>1, AnsweredShown DEF PollCompletion, QueueInv, NvmeOK
  <2> QED  BY <2>1, <2>2, <2>3 DEF QueueInv, OwnAnswers
<1>3. CASE PollCi
  <2>1. PortInv /\ call.st = "poll" /\ (~dev.ci \/ dev.err) /\ call' = Finished(call, ~dev.err)
    BY <1>3 DEF PollCi, BlkInv
  <2>2. ~dev.err
    BY <1>0, <2>1, FinishedIs DEF CallTo
  <2> QED  BY <2>1, <2>2 DEF PortInv
<1>4. CASE PollTimeout \/ PortTimeout
  <2>1. call' = Failed(call)
    BY <1>4 DEF PollTimeout, PortTimeout, GiveUp
  <2> QED  BY <1>0, <2>1, FinishedIs DEF CallTo
<1>5. CASE \E i \in DOMAIN pending, good \in BOOLEAN : Carry(i, good)
  <2>0. PICK i \in DOMAIN pending, good \in BOOLEAN : Carry(i, good)
    BY <1>5
  <2> DEFINE b == IF good /\ InProgress /\ pending[i].call = call.n /\ pending[i].op = "read"
                  THEN disk[pending[i].sector] ELSE call.buf
             x(same) == IF same /\ call.st = "poll" THEN (IF good THEN "ok" ELSE "bad") ELSE call.status
  <2>1. PICK same \in BOOLEAN : call' = [[call EXCEPT !.buf = b] EXCEPT !.status = x(same)]
    BY <2>0 DEF Carry, Slots
  <2> HIDE DEF b, x
  <2> QED  BY <1>0, <2>1 DEF CallOK, CallFields
<1>6. CASE Fetch \/ PortError \/ UNCHANGED blkVars
  BY <1>6 DEF Fetch, PortError, blkVars
<1>7. CASE PortDone
  <2> DEFINE b == disk[dev.cur.sector]
  <2>1. call' = [call EXCEPT !.buf = b] \/ call' = call
    BY <1>7 DEF PortDone
  <2> HIDE DEF b
  <2> QED  BY <1>0, <2>1 DEF CallOK, CallFields
<1>8. CASE \E s \in 0 .. Capacity : ReadSector(s) \/ \E v \in Values : WriteSector(s, v)
  <2>1. call'.st \in {"err", "issue"}
    BY <1>8 DEF ReadSector, WriteSector, Begin
  <2> QED  BY <2>1
<1>9. CASE SubmitChain \/ SubmitEntry
  <2>1. PICK s : call' = [[call EXCEPT !.st = "poll"] EXCEPT !.status = s]
    BY <1>9 DEF SubmitChain, SubmitEntry, Submitted
  <2> QED  BY <1>0, <2>1 DEF CallOK, CallFields
<1>10. CASE WriteFis \/ WritePrdt \/ NotBusy \/ WriteCi
  <2>1. \E s \in Stages : call' = [call EXCEPT !.st = s]
    BY <1>10 DEF WriteFis, WritePrdt, NotBusy, WriteCi, Stages
  <2> QED  BY <1>0, <2>1 DEF CallOK, CallFields, Stages
<1> QED  BY <1>1, <1>2, <1>3, <1>4, <1>5, <1>6, <1>7, <1>8, <1>9, <1>10 DEF BlkStep

-----------------------------------------------------------------------------
(* Sending frames.                                                         *)

TxFields == {"queue", "used", "last", "owed", "desc", "head", "cur"}
TxPlaces == 0 .. TxRing - 1

\* The frames that have left and that the driver has not seen leave.
Gone == tx.owed - Len(tx.queue)

\* virtio: a clean call has no frame but its own in the queue.
TxQueueOK ==
  /\ tx.queue \in Seq(Nat) /\ tx.owed \in Int
  /\ tx.last \in 0 .. UsedMod - 1 /\ tx.used \in 0 .. UsedMod - 1
  /\ Gone >= 0 /\ Multiple((tx.last + Gone) - tx.used, UsedMod)
  /\ Sending /\ send.clean =>
       /\ \A i \in 1 .. Len(tx.queue) : tx.queue[i] = send.n
       /\ Gone >= 1 => Contains(wire, send.n)

\* e1000e: the descriptor of the call is the call's.
TxDescOK ==
  /\ DOMAIN tx.desc = TxPlaces /\ tx.head \in TxPlaces /\ tx.cur \in TxPlaces
  /\ \A i \in TxPlaces : DOMAIN tx.desc[i] = {"frame", "dd"} /\ tx.desc[i].frame \in Nat
  /\ Sending => /\ send.at \in TxPlaces /\ tx.desc[send.at].frame = send.n
                /\ tx.desc[send.at].dd => Contains(wire, send.n)

SendInv ==
  /\ card \in {"virtio", "e1000e"}
  /\ DOMAIN tx = TxFields /\ DOMAIN send = {"n", "st", "at", "clean"} /\ send.n \in Nat
  /\ wire \in Seq(Nat)
  /\ card = "virtio" => TxQueueOK
  /\ card = "e1000e" => TxDescOK

\* At boot the rings are empty.
LEMMA SendInitInv == NetInit => SendInv
<1> SUFFICES ASSUME NetInit PROVE SendInv
  OBVIOUS
<1>0. TxRing \in Nat \ {0} /\ UsedMod \in Nat \ {0, 1}
  BY NetCardsAssumption
<1>1. /\ card \in {"virtio", "e1000e"} /\ tx = FreshTx /\ wire = <<>> /\ ~Sending
      /\ DOMAIN send = {"n", "st", "at", "clean"} /\ send.n = 0
  BY DEF NetInit, Sending
<1>2. /\ DOMAIN tx = TxFields /\ tx.queue = <<>> /\ tx.used = 0 /\ tx.last = 0 /\ tx.owed = 0
      /\ tx.desc = [i \in TxPlaces |-> Free] /\ tx.head = 0 /\ tx.cur = 0
  BY <1>1 DEF FreshTx, TxFields, TxPlaces
<1>3. <<>> \in Seq(Nat) /\ Len(<<>>) = 0
  OBVIOUS
<1>4. Gone = 0
  <2>1. Len(tx.queue) = 0
    BY <1>2, <1>3
  <2>2. tx.owed = 0
    BY <1>2
  <2> QED  BY <2>1, <2>2 DEF Gone
<1>5. Multiple((tx.last + Gone) - tx.used, UsedMod)
  <2>1. (tx.last + Gone) - tx.used = UsedMod * 0
    BY <1>0, <1>2, <1>4
  <2> QED  BY <2>1 DEF Multiple
<1>6. TxQueueOK
  BY <1>0, <1>1, <1>2, <1>3, <1>4, <1>5 DEF TxQueueOK
<1>7. TxDescOK
  BY <1>0, <1>1, <1>2 DEF TxDescOK, TxPlaces, Free
<1> QED  BY <1>1, <1>2, <1>3, <1>6, <1>7 DEF SendInv

\* A frame that has left has left for good.
LEMMA WireGrows ==
  ASSUME NEW w \in Seq(Nat), NEW n \in Nat
  PROVE  /\ Append(w, n) \in Seq(Nat) /\ Contains(Append(w, n), n)
         /\ \A e : Contains(w, e) => Contains(Append(w, n), e)
<1> DEFINE q == Append(w, n)
<1>1. /\ q \in Seq(Nat) /\ Len(w) \in Nat /\ Len(q) = Len(w) + 1 /\ q[Len(w) + 1] = n
      /\ \A i \in 1 .. Len(w) : q[i] = w[i]
  BY AppendIs
<1> HIDE DEF q
<1>2. Len(w) + 1 \in 1 .. Len(q) /\ \A i \in 1 .. Len(w) : i \in 1 .. Len(q)
  BY <1>1
<1>3. Contains(q, n)
  BY <1>1, <1>2 DEF Contains
<1>4. ASSUME NEW e, Contains(w, e) PROVE Contains(q, e)
  BY <1>1, <1>2, <1>4 DEF Contains
<1> QED  BY <1>1, <1>3, <1>4 DEF q

\* A frame goes to the virtio card.
LEMMA SendVirtioKeeps ==
  ASSUME SendInv, SendVirtio
  PROVE  SendInv'
<1>0. /\ card = "virtio" /\ TxQueueOK /\ DOMAIN tx = TxFields /\ send.n \in Nat
      /\ UNCHANGED <<card, wire>> /\ Len(tx.queue) \in Nat
  BY DEF SendInv, SendVirtio, NewSend, TxQueueOK
<1> DEFINE q == Append(tx.queue, send.n + 1)
<1>1. /\ tx' = [[tx EXCEPT !.queue = q] EXCEPT !.owed = tx.owed + 1]
      /\ send' = [n |-> send.n + 1, st |-> "poll", at |-> 0, clean |-> tx.owed = 0]
  BY DEF SendVirtio, NewSend
<1>2. send.n + 1 \in Nat
  BY <1>0
<1>3. /\ q \in Seq(Nat) /\ Len(q) = Len(tx.queue) + 1 /\ q[Len(tx.queue) + 1] = send.n + 1
  BY <1>0, <1>2, AppendIs DEF TxQueueOK
<1> HIDE DEF q
<1>4. /\ DOMAIN tx' = TxFields /\ tx'.queue = q /\ tx'.owed = tx.owed + 1 /\ tx'.used = tx.used
      /\ tx'.last = tx.last
  BY <1>0, <1>1 DEF TxFields
<1>5. /\ DOMAIN send' = {"n", "st", "at", "clean"} /\ send'.n = send.n + 1 /\ send'.clean = (tx.owed = 0)
  BY <1>1
<1>6. Gone' = Gone /\ Gone \in Int /\ tx'.owed \in Int
  <2>1. tx.owed \in Int
    BY <1>0 DEF TxQueueOK
  <2>2. Len(tx'.queue) = Len(tx.queue) + 1
    BY <1>3, <1>4
  <2>3. Gone' = tx'.owed - Len(tx'.queue)
    BY DEF Gone
  <2> QED  BY <1>0, <1>4, <2>1, <2>2, <2>3 DEF Gone
<1>7. ASSUME tx.owed = 0 PROVE Gone = 0 /\ \A i \in 1 .. Len(q) : q[i] = send.n + 1
  <2>1. Len(tx.queue) = 0 /\ Gone = 0
    BY <1>0, <1>6, <1>7 DEF TxQueueOK, Gone
  <2>2. \A i \in 1 .. Len(q) : i = Len(tx.queue) + 1
    BY <1>3, <2>1
  <2> QED  BY <1>3, <2>1, <2>2
<1>8. TxQueueOK'
  <2>1. Multiple((tx'.last + Gone') - tx'.used, UsedMod)
    BY <1>0, <1>4, <1>6 DEF TxQueueOK
  <2>2. send'.clean => ~(Gone' >= 1) /\ \A i \in 1 .. Len(tx'.queue) : tx'.queue[i] = send'.n
    <3> SUFFICES ASSUME send'.clean PROVE ~(Gone' >= 1) /\ \A i \in 1 .. Len(q) : q[i] = send.n + 1
      BY <1>4, <1>5
    <3>1. tx.owed = 0
      BY <1>5
    <3>2. Gone = 0 /\ \A i \in 1 .. Len(q) : q[i] = send.n + 1
      BY <1>7, <3>1
    <3> QED  BY <1>6, <3>2
  <2> QED  BY <1>0, <1>3, <1>4, <1>6, <2>1, <2>2 DEF TxQueueOK
<1> QED  BY <1>0, <1>2, <1>4, <1>5, <1>8 DEF SendInv

\* A frame goes into the next descriptor of the e1000e, or the link is down.
LEMMA SendE1000eKeeps ==
  ASSUME SendInv, SendE1000e
  PROVE  SendInv'
<1>0. card = "e1000e" /\ TxDescOK /\ DOMAIN tx = TxFields /\ send.n \in Nat /\ UNCHANGED <<card, wire>>
  BY DEF SendInv, SendE1000e, NewSend
<1>1. send.n + 1 \in Nat /\ TxRing \in Nat \ {0}
  BY <1>0, NetCardsAssumption
<1>2. CASE link
  <2> DEFINE f == [frame |-> send.n + 1, dd |-> FALSE]
             d == [tx.desc EXCEPT ![tx.cur] = f]
             c == (tx.cur + 1) % TxRing
  <2>1. /\ tx' = [[tx EXCEPT !.desc = d] EXCEPT !.cur = c]
        /\ send' = [n |-> send.n + 1, st |-> "poll", at |-> tx.cur, clean |-> TRUE]
    BY <1>0, <1>2 DEF SendE1000e, NewSend, TxFields
  <2>2. DOMAIN f = {"frame", "dd"} /\ f.frame = send.n + 1 /\ ~f.dd
    OBVIOUS
  <2> HIDE DEF f
  <2>3. /\ DOMAIN d = TxPlaces /\ d[tx.cur] = f
        /\ \A i \in TxPlaces : DOMAIN d[i] = {"frame", "dd"} /\ d[i].frame \in Nat
    BY <1>0, <1>1, <2>2 DEF TxDescOK
  <2>4. c \in TxPlaces
    BY <1>0, <1>1, NextIndex DEF TxDescOK, TxPlaces
  <2> HIDE DEF d, c
  <2>5. DOMAIN tx' = TxFields /\ tx'.desc = d /\ tx'.cur = c /\ tx'.head = tx.head
    BY <1>0, <2>1 DEF TxFields
  <2>6. DOMAIN send' = {"n", "st", "at", "clean"} /\ send'.n = send.n + 1 /\ send'.at = tx.cur
    BY <2>1
  <2>7. TxDescOK'
    BY <1>0, <2>2, <2>3, <2>4, <2>5, <2>6 DEF TxDescOK
  <2> QED  BY <1>0, <1>1, <2>5, <2>6, <2>7 DEF SendInv
<1>3. CASE ~link
  <2>1. tx' = tx /\ send' = [n |-> send.n + 1, st |-> "err", at |-> 0, clean |-> TRUE]
    BY <1>3 DEF SendE1000e, NewSend
  <2>2. DOMAIN send' = {"n", "st", "at", "clean"} /\ send'.n = send.n + 1 /\ ~Sending'
    BY <2>1 DEF Sending
  <2>3. TxDescOK'
    BY <1>0, <2>1, <2>2 DEF TxDescOK
  <2> QED  BY <1>0, <1>1, <2>1, <2>2, <2>3 DEF SendInv
<1> QED  BY <1>2, <1>3

\* The card sends the next frame of its ring, which in a clean call is the call's.
LEMMA TransmitKeeps ==
  ASSUME SendInv, Transmit
  PROVE  SendInv'
<1>0. /\ DOMAIN tx = TxFields /\ send.n \in Nat /\ UNCHANGED <<card, send>> /\ wire \in Seq(Nat)
      /\ card \in {"virtio", "e1000e"} /\ DOMAIN send = {"n", "st", "at", "clean"}
  BY DEF SendInv, Transmit
<1>1. CASE card = "virtio"
  <2> DEFINE q == Tail(tx.queue)
             u == (tx.used + 1) % UsedMod
  <2>0. TxQueueOK /\ UsedMod \in Nat \ {0}
    BY <1>1, NetCardsAssumption DEF SendInv
  <2>1. tx.queue # <<>> /\ tx' = [[tx EXCEPT !.queue = q] EXCEPT !.used = u]
    BY <1>1 DEF Transmit
  <2>2. PICK n \in InMemory(Head(tx.queue)) : wire' = Append(wire, n)
    BY <1>1 DEF Transmit
  <2>3. /\ q \in Seq(Nat) /\ Head(tx.queue) = tx.queue[1] /\ tx.queue[1] \in Nat
        /\ Len(tx.queue) \in Nat /\ Len(tx.queue) >= 1 /\ Len(q) = Len(tx.queue) - 1
        /\ \A i \in 1 .. Len(tx.queue) - 1 : q[i] = tx.queue[i + 1]
    BY <2>0, <2>1, TailIs DEF TxQueueOK
  <2>4. n \in Nat
    BY <2>2, <2>3 DEF InMemory
  <2>5. u \in 0 .. UsedMod - 1
    BY <2>0, NextIndex DEF TxQueueOK
  <2>6. /\ wire' \in Seq(Nat) /\ Contains(wire', n)
    BY <1>0, <2>2, <2>4, WireGrows
  <2>7. Gone \in Int /\ Gone >= 0 /\ tx.owed \in Int /\ tx.last \in Int
    BY <2>0, <2>3 DEF Gone, TxQueueOK
  <2>8. Multiple(((tx.last + Gone) + 1) - u, UsedMod)
    <3> DEFINE x == tx.last + Gone
    <3>1. x \in Int /\ Multiple(x - tx.used, UsedMod) /\ tx.used \in 0 .. UsedMod - 1
      BY <2>0, <2>7 DEF TxQueueOK
    <3> HIDE DEF x
    <3>2. Multiple((x + 1) - u, UsedMod)
      BY <2>0, <3>1, WrapKeepsStep
    <3> QED  BY <3>2 DEF x
  <2> HIDE DEF q, u
  <2>9. /\ DOMAIN tx' = TxFields /\ tx'.queue = q /\ tx'.used = u /\ tx'.last = tx.last
        /\ tx'.owed = tx.owed
    BY <1>0, <2>1 DEF TxFields
  <2>10. Gone' = Gone + 1
    BY <2>3, <2>7, <2>9 DEF Gone
  <2>11. Multiple((tx'.last + Gone') - tx'.used, UsedMod)
    <3>1. tx'.last + Gone' = (tx.last + Gone) + 1
      BY <2>7, <2>9, <2>10
    <3> QED  BY <2>8, <2>9, <3>1
  <2>12. ASSUME Sending, send.clean
         PROVE  Contains(wire', send.n) /\ \A i \in 1 .. Len(q) : q[i] = send.n
    <3>1. \A i \in 1 .. Len(tx.queue) : tx.queue[i] = send.n
      BY <2>0, <2>12 DEF TxQueueOK
    <3>2. 1 \in 1 .. Len(tx.queue) /\ \A i \in 1 .. Len(q) : i + 1 \in 1 .. Len(tx.queue) /\ i \in 1 .. Len(tx.queue) - 1
      BY <2>3
    <3>3. n = send.n
      BY <2>2, <2>3, <2>12, <3>1, <3>2 DEF InMemory
    <3>4. \A i \in 1 .. Len(q) : q[i] = send.n
      BY <2>3, <3>1, <3>2
    <3> QED  BY <2>6, <3>3, <3>4
  <2>13. Sending' = Sending
    BY <1>0 DEF Sending
  <2>14. Gone' >= 0
    BY <2>7, <2>10
  <2>15. TxQueueOK'
    BY <1>0, <2>0, <2>3, <2>5, <2>9, <2>11, <2>12, <2>13, <2>14 DEF TxQueueOK
  <2> QED  BY <1>0, <1>1, <2>6, <2>9, <2>15 DEF SendInv
<1>2. CASE card = "e1000e"
  <2> DEFINE g == [tx.desc[tx.head] EXCEPT !.dd = TRUE]
             d == [tx.desc EXCEPT ![tx.head] = g]
             h == (tx.head + 1) % TxRing
  <2>0. TxDescOK /\ TxRing \in Nat \ {0}
    BY <1>2, NetCardsAssumption DEF SendInv
  <2>1. tx' = [[tx EXCEPT !.desc = d] EXCEPT !.head = h]
    BY <1>0, <1>2, <2>0 DEF Transmit, TxFields, TxDescOK
  <2>2. PICK n \in InMemory(tx.desc[tx.head].frame) : wire' = Append(wire, n)
    BY <1>2 DEF Transmit
  <2>3. DOMAIN g = {"frame", "dd"} /\ g.frame = tx.desc[tx.head].frame /\ g.frame \in Nat
    BY <2>0 DEF TxDescOK
  <2>4. n \in Nat
    BY <2>2, <2>3 DEF InMemory
  <2>5. /\ wire' \in Seq(Nat) /\ Contains(wire', n) /\ \A e : Contains(wire, e) => Contains(wire', e)
    BY <1>0, <2>2, <2>4, WireGrows
  <2>6. h \in TxPlaces
    BY <2>0, NextIndex DEF TxDescOK, TxPlaces
  <2> HIDE DEF g
  <2>7. /\ DOMAIN d = TxPlaces /\ d[tx.head] = g /\ \A i \in TxPlaces : i # tx.head => d[i] = tx.desc[i]
    BY <2>0 DEF TxDescOK
  <2> HIDE DEF d, h
  <2>8. DOMAIN tx' = TxFields /\ tx'.desc = d /\ tx'.head = h /\ tx'.cur = tx.cur
    BY <1>0, <2>1 DEF TxFields
  <2>9. ASSUME Sending
        PROVE  send.at \in TxPlaces /\ d[send.at].frame = send.n /\ (d[send.at].dd => Contains(wire', send.n))
    <3>1. CASE send.at = tx.head
      <4>1. g.frame = send.n
        BY <2>0, <2>3, <2>9, <3>1 DEF TxDescOK
      <4>2. n = send.n
        BY <2>2, <2>3, <2>9, <4>1 DEF InMemory
      <4> QED  BY <2>0, <2>5, <2>7, <3>1, <4>1, <4>2 DEF TxDescOK
    <3>2. CASE send.at # tx.head
      BY <2>0, <2>5, <2>7, <2>9, <3>2 DEF TxDescOK
    <3> QED  BY <3>1, <3>2
  <2>10. \A i \in TxPlaces : DOMAIN d[i] = {"frame", "dd"} /\ d[i].frame \in Nat
    BY <2>0, <2>3, <2>7 DEF TxDescOK
  <2>11. Sending' = Sending
    BY <1>0 DEF Sending
  <2>12. TxDescOK'
    BY <1>0, <2>0, <2>6, <2>7, <2>8, <2>9, <2>10, <2>11 DEF TxDescOK
  <2> QED  BY <1>0, <1>2, <2>5, <2>8, <2>12 DEF SendInv
<1> QED  BY <1>0, <1>1, <1>2

\* The driver that sees the next used index has a frame that left.
LEMMA SentIsGone ==
  ASSUME SendInv, card = "virtio", SentOk
  PROVE  Gone >= 1
<1> DEFINE l == tx.last
           u == Gone
<1>1. /\ UsedMod \in Nat \ {0, 1} /\ l \in 0 .. UsedMod - 1 /\ u \in Nat
      /\ Multiple((l + u) - ((l + 1) % UsedMod), UsedMod)
  BY NetCardsAssumption DEF SendInv, TxQueueOK, SentOk, Gone
<1> HIDE DEF l, u
<1>2. u >= 1
  BY <1>1, SeenAhead
<1> QED  BY <1>2 DEF u

LEMMA SendEnds ==
  ASSUME SendInv, Sent \/ SendTimeout
  PROVE  SendInv'
<1>0. /\ DOMAIN tx = TxFields /\ send.n \in Nat /\ UNCHANGED <<card, wire>> /\ wire \in Seq(Nat)
      /\ card \in {"virtio", "e1000e"} /\ DOMAIN send = {"n", "st", "at", "clean"}
  BY DEF SendInv, Sent, SendTimeout
<1>1. send' = [send EXCEPT !.st = "ok"] \/ send' = [send EXCEPT !.st = "err"]
  BY DEF Sent, SendTimeout
<1>2. DOMAIN send' = {"n", "st", "at", "clean"} /\ send'.n = send.n /\ ~Sending'
  BY <1>0, <1>1 DEF Sending
<1>3. CASE tx' = tx
  <2>1. (TxQueueOK => TxQueueOK') /\ (TxDescOK => TxDescOK')
    BY <1>2, <1>3 DEF TxQueueOK, TxDescOK, Gone
  <2> QED  BY <1>0, <1>2, <1>3, <2>1 DEF SendInv
<1>4. CASE Sent /\ card = "virtio"
  <2> DEFINE l == (tx.last + 1) % UsedMod
  <2>0. TxQueueOK /\ UsedMod \in Nat \ {0} /\ Gone >= 1
    BY <1>4, SentIsGone, NetCardsAssumption DEF SendInv, Sent
  <2>1. tx' = [[tx EXCEPT !.last = l] EXCEPT !.owed = tx.owed - 1]
    BY <1>4 DEF Sent
  <2>2. l \in 0 .. UsedMod - 1
    BY <2>0, NextIndex DEF TxQueueOK
  <2>3. Gone \in Int /\ tx.owed \in Int /\ Len(tx.queue) \in Nat
    BY <2>0 DEF TxQueueOK, Gone
  <2>4. Multiple((l + (Gone - 1)) - tx.used, UsedMod)
    <3> DEFINE g == Gone
               a == tx.last
               d == tx.used
    <3>1. a \in 0 .. UsedMod - 1 /\ d \in Int /\ g \in Int /\ Multiple((a + g) - d, UsedMod)
      BY <2>0, <2>3 DEF TxQueueOK
    <3> HIDE DEF g, a, d
    <3>2. Multiple((((a + 1) % UsedMod) + (g - 1)) - d, UsedMod)
      BY <2>0, <3>1, TakenKeepsStep
    <3> QED  BY <3>2 DEF g, a, d
  <2> HIDE DEF l
  <2>5. /\ DOMAIN tx' = TxFields /\ tx'.last = l /\ tx'.owed = tx.owed - 1 /\ tx'.queue = tx.queue
        /\ tx'.used = tx.used
    BY <1>0, <2>1 DEF TxFields
  <2>6. Gone' = Gone - 1
    BY <2>3, <2>5 DEF Gone
  <2>7. Gone' >= 0 /\ tx'.owed \in Int
    BY <2>0, <2>3, <2>5, <2>6
  <2>8. TxQueueOK'
    BY <1>2, <2>0, <2>2, <2>4, <2>5, <2>6, <2>7 DEF TxQueueOK
  <2> QED  BY <1>0, <1>2, <1>4, <2>5, <2>8 DEF SendInv
<1> QED  BY <1>3, <1>4 DEF Sent, SendTimeout

LEMMA SendKeeps ==
  ASSUME SendInv, NetStep \/ UNCHANGED netVars
  PROVE  SendInv'
<1>1. ASSUME UNCHANGED <<card, tx, send, wire>> PROVE SendInv'
  BY <1>1 DEF SendInv, TxQueueOK, TxDescOK, Gone, Sending
<1>2. CASE SendVirtio \/ SendE1000e \/ Transmit \/ Sent \/ SendTimeout
  BY <1>2, SendVirtioKeeps, SendE1000eKeeps, TransmitKeeps, SendEnds
<1>3. CASE LinkChange \/ (\E good \in BOOLEAN : Arrive(good)) \/ RxTakeVirtio \/ RxTakeE1000e
           \/ RxGive \/ UNCHANGED netVars
  BY <1>1, <1>3 DEF LinkChange, Arrive, RxTakeVirtio, RxTakeE1000e, RxGive, netVars
<1> QED  BY <1>2, <1>3 DEF NetStep

\* A call of send_packet() ends well only after its frame has left.
LEMMA SendDone ==
  ASSUME SendInv, NetStep \/ UNCHANGED netVars
  PROVE  SentWhenOk
<1> SUFFICES ASSUME send.st # "ok", send'.st = "ok", send.clean PROVE Contains(wire, send.n)
  BY DEF SentWhenOk
<1>1. CASE Sent
  <2>1. Sending /\ SentOk
    BY <1>1 DEF Sent
  <2>2. CASE card = "virtio"
    BY <2>1, <2>2, SentIsGone DEF SendInv, TxQueueOK
  <2>3. CASE card = "e1000e"
    BY <2>1, <2>3 DEF SendInv, TxDescOK, SentOk
  <2> QED  BY <2>2, <2>3 DEF SendInv
<1>2. CASE SendVirtio \/ SendE1000e
  <2>1. send'.st \in {"poll", "err"}
    BY <1>2 DEF SendVirtio, SendE1000e, NewSend
  <2> QED  BY <2>1
<1>3. CASE SendTimeout
  BY <1>3 DEF SendTimeout, SendInv
<1>4. CASE Transmit \/ LinkChange \/ (\E good \in BOOLEAN : Arrive(good)) \/ RxTakeVirtio \/ RxTakeE1000e
           \/ RxGive \/ UNCHANGED netVars
  BY <1>4 DEF Transmit, LinkChange, Arrive, RxTakeVirtio, RxTakeE1000e, RxGive, netVars
<1> QED  BY <1>1, <1>2, <1>3, <1>4 DEF NetStep

-----------------------------------------------------------------------------
(* What a 9P call has read.                                                *)

\* What a file or directory consists of.
Piece(what, i) == IF what = "file" THEN Pieces[i] ELSE Entered(Pieces[i])

\* The call has the pieces before the one it asks for.
Gathered(v) ==
  /\ v.at \in 0 .. Len(Pieces)
  /\ v.data \in Seq({Piece(v.what, i) : i \in 1 .. Len(Pieces)}) /\ Len(v.data) = v.at
  /\ \A i \in 1 .. v.at : v.data[i] = Piece(v.what, i)

\* It has read nothing before the file is open, and everything once it gives the fid
\* back for good.
Holds(v) ==
  /\ v.st \notin {"clunkerr", "err"} => Gathered(v)
  /\ v.st \in {"walk", "midclunk", "getattr", "lopen"} => v.at = 0
  /\ v.st = "read" => v.what = "file"
  /\ v.st = "readdir" => v.what # "file"
  /\ v.st \in {"clunkok", "ok"} => v.at = Len(Pieces)

\* The message of the transaction is with the server, or the answer is that message's.
Sync ==
  /\ ~visit.waiting => sent = <<>> /\ ahead = 0
  /\ visit.waiting => \/ sent = <<RequestOf(visit)>> /\ ahead = 0
                      \/ sent = <<>> /\ ahead = 1 /\ rxBuf \in {Rlerror, Served(RequestOf(visit))}

\* The Tclunk between two Twalks was given up: its answer is taken for the next one's,
\* or comes first.
Lagging ==
  \/ ~visit.waiting /\ ahead = 0 /\ \E c : sent = <<c>> /\ c.type = "clunk"
  \/ ~visit.waiting /\ ahead = 1 /\ sent = <<>> /\ rxBuf.type = "clunk"
  \/ visit.waiting /\ ahead = 0 /\ \E c, m : sent = <<c, m>> /\ c.type = "clunk"
  \/ visit.waiting /\ ahead = 1 /\ (\E m : sent = <<m>>) /\ rxBuf.type = "clunk"
  \/ visit.waiting /\ ahead = 2 /\ sent = <<>>

WholeInv ==
  /\ VisitOK(visit)
  /\ visit.clean => Holds(visit)
  /\ visit.clean /\ Visiting /\ visit.st \notin {"clunkok", "clunkerr"} =>
       Sync \/ (visit.st = "walk" /\ Lagging)

LEMMA NothingRead ==
  ASSUME NEW v, v.at = 0, v.data = <<>>
  PROVE  Gathered(v)
<1> DEFINE T == {Piece(v.what, i) : i \in 1 .. Len(Pieces)}
<1>1. Len(Pieces) \in Nat
  BY PiecesAssumption
<1>2. <<>> \in Seq(T) /\ Len(<<>>) = 0
  <2> HIDE DEF T
  <2> QED  OBVIOUS
<1> QED  BY <1>1, <1>2 DEF Gathered

\* What a call has read, at the next transaction of the call.
LEMMA HoldsOn ==
  ASSUME NEW v, NEW w, Holds(v), w.what = v.what, SameData(v, w),
         \/ w.st \in {"err", "clunkerr"}
         \/ v.st = "clunkok" /\ w.st = "ok"
         \/ v.st \in {"walk", "midclunk", "getattr"} /\ w.st \in {"walk", "midclunk", "getattr", "lopen"}
         \/ v.st = "lopen" /\ w.st = (IF v.what = "file" THEN "read" ELSE "readdir")
         \/ v.st \in {"read", "readdir"} /\ w.st = "clunkok" /\ v.at = Len(Pieces)
  PROVE  Holds(w)
<1>1. Gathered(v) => Gathered(w)
  BY DEF Gathered, SameData
<1> QED  BY <1>1 DEF Holds, SameData

LEMMA FailureHolds ==
  ASSUME NEW v, VisitOK(v), v.st \in Busy, Holds(v)
  PROVE  LET w == Done(AfterFailure(v))
         IN  /\ VisitOK(w) /\ Holds(w) /\ w.what = v.what /\ w.clean = v.clean /\ w.waiting = FALSE
             /\ w.st \in {"err", "ok", "clunkerr"} \/ (v.st = "midclunk" /\ w.st = "walk")
             /\ w.st = "ok" => v.st = "clunkok"
<1> DEFINE w == Done(AfterFailure(v))
<1> SUFFICES /\ VisitOK(w) /\ Holds(w) /\ w.what = v.what /\ w.clean = v.clean /\ w.waiting = FALSE
             /\ w.st \in {"err", "ok", "clunkerr"} \/ (v.st = "midclunk" /\ w.st = "walk")
             /\ w.st = "ok" => v.st = "clunkok"
  OBVIOUS
<1>1. SameData(v, w)
  BY FailureOnward
<1>2. PICK st, cur :
        /\ st \in {"err", "ok", "clunkerr", "walk"}
        /\ Onward(v, w, st, cur) /\ (cur = v.cur \/ v.st = "midclunk")
        /\ st = "ok" => v.st = "clunkok"
        /\ st = "walk" => v.st = "midclunk"
  BY FailureOnward DEF Busy
<1> HIDE DEF w
<1>3. w.st = st /\ w.what = v.what /\ w.clean = v.clean /\ w.waiting = FALSE
  BY <1>2 DEF Onward
<1>4. VisitOK(w)
  <2>1. st \in Busy \union {"ok", "err"} /\ st # "midclunk"
    BY <1>2 DEF Busy
  <2>2. cur # Root => Len(v.path) > WalkMax
    BY <1>2 DEF VisitOK
  <2> QED  BY <1>2, <2>1, <2>2, OnwardOK
<1>5. Holds(w)
  BY <1>1, <1>2, <1>3, HoldsOn
<1> QED  BY <1>2, <1>3, <1>4, <1>5

\* An answer that is a piece is the next one, an empty one comes after the last.
LEMMA ReadHolds ==
  ASSUME NEW v, NEW piece, VisitOK(v), Holds(v), v.st \in {"read", "readdir"},
         piece = IF v.at < Len(Pieces) THEN Piece(v.what, v.at + 1) ELSE <<>>
  PROVE  Holds(Done(AfterRead(v, piece)))
<1> DEFINE T == {Piece(v.what, i) : i \in 1 .. Len(Pieces)}
<1>0. /\ Gathered(v) /\ v.at \in 0 .. Len(Pieces) /\ Len(Pieces) \in Nat /\ DOMAIN Pieces = 1 .. Len(Pieces)
      /\ v.data \in Seq(T)
  BY PiecesAssumption DEF Holds, Gathered
<1>1. CASE v.at < Len(Pieces)
  <2> DEFINE a == v.at + 1
             d == Append(v.data, piece)
             w == Done(AfterRead(v, piece))
  <2>1. a \in 1 .. Len(Pieces) /\ piece = Piece(v.what, a)
    BY <1>0, <1>1
  <2>2. piece # <<>>
    <3> HIDE DEF a
    <3> QED  BY <1>0, <2>1, PiecesAssumption DEF Piece
  <2>3. piece \in T
    BY <2>1
  <2> HIDE DEF T
  <2>4. /\ d \in Seq(T) /\ Len(d) = Len(v.data) + 1 /\ d[Len(v.data) + 1] = piece /\ Len(v.data) \in Nat
        /\ \A i \in 1 .. Len(v.data) : d[i] = v.data[i]
    BY <1>0, <2>3, AppendIs
  <2>5. Len(v.data) = v.at /\ \A i \in 1 .. v.at : v.data[i] = Piece(v.what, i)
    BY <1>0 DEF Gathered
  <2>6. w = [[[v EXCEPT !.at = a] EXCEPT !.data = d] EXCEPT !.waiting = FALSE]
    BY <2>2 DEF AfterRead, Done
  <2>7. \A i \in 1 .. a : d[i] = Piece(v.what, i)
    <3> SUFFICES ASSUME NEW i \in 1 .. a PROVE d[i] = Piece(v.what, i)
      OBVIOUS
    <3>1. i \in 1 .. v.at \/ i = v.at + 1
      BY <1>0
    <3> HIDE DEF d
    <3> QED  BY <2>1, <2>4, <2>5, <3>1
  <2>8. Len(d) = a
    BY <2>4, <2>5
  <2> HIDE DEF a, d, w
  <2>9. w.at = a /\ w.data = d /\ w.st = v.st /\ w.what = v.what
    BY <2>6 DEF VisitOK, Fields
  <2>10. Gathered(w)
    BY <1>0, <2>1, <2>4, <2>7, <2>8, <2>9 DEF Gathered, T
  <2>11. Holds(w)
    BY <2>9, <2>10 DEF Holds
  <2> QED  BY <2>11 DEF w
<1>2. CASE ~(v.at < Len(Pieces))
  <2> DEFINE w == Done(AfterRead(v, piece))
  <2>1. v.at = Len(Pieces) /\ piece = <<>>
    BY <1>0, <1>2
  <2>2. w = [[v EXCEPT !.st = "clunkok"] EXCEPT !.waiting = FALSE]
    BY <2>1 DEF AfterRead, Done
  <2> HIDE DEF w
  <2>3. SameData(v, w) /\ w.st = "clunkok" /\ w.what = v.what
    BY <2>2 DEF VisitOK, Fields, SameData
  <2>4. Holds(w)
    BY <2>1, <2>3, HoldsOn
  <2> QED  BY <2>4 DEF w
<1> QED  BY <1>1, <1>2

\* The server's answer to a Tread or a Treaddir has the piece it asks for.
LEMMA ServedIs ==
  ASSUME NEW v, v.st \in {"read", "readdir"}
  PROVE  Served(RequestOf(v)) =
           Reply(v.st, 0, IF v.at < Len(Pieces) THEN Pieces[v.at + 1] ELSE <<>>)
<1>1. RequestOf(v) = Message(v.st, v.new, v.at, <<>>)
  BY DEF RequestOf
<1>2. RequestOf(v).type = v.st /\ RequestOf(v).new = v.at
  BY <1>1 DEF Message
<1> QED  BY <1>2 DEF Served

\* The answer to the call's own message.
LEMMA AnswerHolds ==
  ASSUME NEW v, NEW r, VisitOK(v), v.st \in Busy, v.waiting, Holds(v),
         v.st \notin {"clunkok", "clunkerr"} => r \in {Rlerror, Served(RequestOf(v))}
  PROVE  LET w == Done(AfterAnswer(v, r))
         IN  Holds(w) /\ w.what = v.what /\ w.clean = v.clean /\ (w.st = "ok" => v.st = "clunkok")
<1> DEFINE w == Done(AfterAnswer(v, r))
<1> SUFFICES Holds(w) /\ w.what = v.what /\ w.clean = v.clean /\ (w.st = "ok" => v.st = "clunkok")
  OBVIOUS
<1>1. CASE v.st \in {"midclunk", "clunkok", "clunkerr"} \/ r.type # v.st
  <2>1. AfterAnswer(v, r) = AfterFailure(v)
    BY <1>1 DEF AfterAnswer
  <2> QED  BY <2>1, FailureHolds
<1>2. CASE r.type = v.st /\ v.st = "walk"
  <2>1. AfterAnswer(v, r) = AfterWalk(v, r)
    BY <1>2 DEF AfterAnswer
  <2>2. SameData(v, w)
    BY <1>2, <2>1, WalkOnward
  <2>3. PICK st, cur : st \in {"err", "getattr", "lopen", "midclunk", "walk"} /\ Onward(v, w, st, cur)
    BY <1>2, <2>1, WalkOnward
  <2> HIDE DEF w
  <2>4. w.st = st /\ w.what = v.what /\ w.clean = v.clean
    BY <2>3 DEF Onward
  <2>5. Holds(w)
    BY <1>2, <2>2, <2>3, <2>4, HoldsOn
  <2> QED  BY <2>3, <2>4, <2>5
<1>3. CASE r.type = v.st /\ v.st = "getattr"
  <2>1. AfterAnswer(v, r) = AfterGetattr(v)
    BY <1>3 DEF AfterAnswer
  <2>2. w = [[v EXCEPT !.st = "lopen"] EXCEPT !.waiting = FALSE]
    BY <2>1 DEF AfterGetattr, Done
  <2> HIDE DEF w
  <2>3. SameData(v, w) /\ w.st = "lopen" /\ w.what = v.what /\ w.clean = v.clean
    BY <2>2 DEF VisitOK, Fields, SameData
  <2>4. Holds(w)
    BY <1>3, <2>3, HoldsOn
  <2> QED  BY <2>3, <2>4
<1>4. CASE r.type = v.st /\ v.st = "lopen"
  <2> DEFINE st == IF v.what = "file" THEN "read" ELSE "readdir"
  <2>1. AfterAnswer(v, r) = AfterLopen(v)
    BY <1>4 DEF AfterAnswer
  <2>2. w = [[v EXCEPT !.st = st] EXCEPT !.waiting = FALSE]
    BY <2>1 DEF AfterLopen, Done
  <2> HIDE DEF w
  <2>3. SameData(v, w) /\ w.st = st /\ w.what = v.what /\ w.clean = v.clean
    BY <2>2 DEF VisitOK, Fields, SameData
  <2>4. Holds(w)
    BY <1>4, <2>3, HoldsOn
  <2> QED  BY <2>3, <2>4
<1>5. CASE r.type = v.st /\ v.st \in {"read", "readdir"}
  <2> DEFINE p == IF v.at < Len(Pieces) THEN Pieces[v.at + 1] ELSE <<>>
             piece == IF v.at < Len(Pieces) THEN Piece(v.what, v.at + 1) ELSE <<>>
  <2>1. r = Reply(v.st, 0, p)
    <3>1. r # Rlerror
      BY <1>5 DEF Rlerror, Reply
    <3> QED  BY <1>5, <3>1, ServedIs
  <2>2. r.data = p
    <3> HIDE DEF p
    <3> QED  BY <2>1 DEF Reply
  <2>3. AfterAnswer(v, r) = AfterRead(v, piece)
    <3>1. CASE v.st = "read"
      <4>1. v.what = "file"
        BY <3>1 DEF Holds
      <4>2. piece = p
        BY <4>1 DEF Piece
      <4> HIDE DEF p, piece
      <4> QED  BY <1>5, <2>2, <3>1, <4>2 DEF AfterAnswer
    <3>2. CASE v.st = "readdir"
      <4>1. v.what # "file"
        BY <3>2 DEF Holds
      <4>2. piece = Entered(p)
        BY <4>1, NothingEntered DEF Piece
      <4> HIDE DEF p, piece
      <4> QED  BY <1>5, <2>2, <3>2, <4>2 DEF AfterAnswer, AfterReaddir
    <3> QED  BY <1>5, <3>1, <3>2
  <2>4. Holds(w)
    BY <1>5, <2>3, ReadHolds
  <2>5. PICK st \in {"lopen", "read", "readdir", "clunkok", "clunkerr"} : Onward(v, w, st, v.cur)
    BY <1>5, OtherOnward
  <2> HIDE DEF w
  <2> QED  BY <2>4, <2>5 DEF Onward
<1> QED  BY <1>1, <1>2, <1>3, <1>4, <1>5 DEF Busy

LEMMA WholeInitInv == P9Init => WholeInv
<1> SUFFICES ASSUME P9Init PROVE WholeInv
  OBVIOUS
<1>1. /\ visit.st = "idle" /\ visit.path = <<>> /\ visit.cur = Root /\ visit.waiting = FALSE
      /\ visit.at = 0 /\ visit.data = <<>> /\ visit.done = 0 /\ DOMAIN visit = Fields
  BY DEF P9Init, Fields
<1>2. VisitOK(visit)
  BY DEF P9Init, VisitOK, Fields
<1>3. Gathered(visit)
  BY <1>1, NothingRead
<1> QED  BY <1>1, <1>2, <1>3 DEF WholeInv, Holds, Visiting

\* A failure and an answer leave the call what it is about.
LEMMA FailureKeepsCall ==
  ASSUME NEW v, VisitOK(v), v.st \in Busy
  PROVE  LET w == Done(AfterFailure(v))
         IN  VisitOK(w) /\ w.what = v.what /\ w.clean = v.clean /\ w.waiting = FALSE
<1> DEFINE w == Done(AfterFailure(v))
<1> SUFFICES VisitOK(w) /\ w.what = v.what /\ w.clean = v.clean /\ w.waiting = FALSE
  OBVIOUS
<1>1. PICK st, cur : /\ st \in {"err", "ok", "clunkerr", "walk"}
                     /\ Onward(v, w, st, cur) /\ (cur = v.cur \/ v.st = "midclunk")
  BY FailureOnward DEF Busy
<1> HIDE DEF w
<1>2. st \in Busy \union {"ok", "err"} /\ st # "midclunk"
  BY <1>1 DEF Busy
<1>3. cur # Root => Len(v.path) > WalkMax
  BY <1>1 DEF VisitOK
<1>4. VisitOK(w)
  BY <1>1, <1>2, <1>3, OnwardOK
<1> QED  BY <1>1, <1>4 DEF Onward

LEMMA AnswerKeepsCall ==
  ASSUME NEW v, NEW r, VisitOK(v), v.st \in Busy
  PROVE  Done(AfterAnswer(v, r)).what = v.what /\ Done(AfterAnswer(v, r)).clean = v.clean
<1> DEFINE w == Done(AfterAnswer(v, r))
<1>1. CASE v.st \in {"midclunk", "clunkok", "clunkerr"} \/ r.type # v.st
  <2>1. AfterAnswer(v, r) = AfterFailure(v)
    BY <1>1 DEF AfterAnswer
  <2> QED  BY <2>1, FailureKeepsCall
<1>2. CASE r.type = v.st /\ v.st = "walk"
  <2>1. AfterAnswer(v, r) = AfterWalk(v, r)
    BY <1>2 DEF AfterAnswer
  <2>2. \E st, cur : Onward(v, w, st, cur)
    BY <1>2, <2>1, WalkOnward
  <2> HIDE DEF w
  <2>3. w.what = v.what /\ w.clean = v.clean
    BY <2>2 DEF Onward
  <2> QED  BY <2>3 DEF w
<1>3. CASE v.st \in {"getattr", "lopen", "read", "readdir"}
  <2>1. \E st : Onward(v, w, st, v.cur)
    BY <1>3, OtherOnward
  <2> HIDE DEF w
  <2>2. w.what = v.what /\ w.clean = v.clean
    BY <2>1 DEF Onward
  <2> QED  BY <2>2 DEF w
<1> QED  BY <1>1, <1>2, <1>3 DEF Busy

\* A call in progress is at one of its transactions.
LEMMA VisitingIsBusy ==
  ASSUME WholeInv
  PROVE  VisitOK(visit) /\ (Visiting <=> visit.st \in Busy)
BY DEF WholeInv, VisitOK, Visiting, Busy

LEMMA WholeBegins ==
  ASSUME WholeInv, NEW what \in {"file", "dir"}, NEW path \in Asked, Visit(what, path)
  PROVE  WholeInv'
<1>1. /\ visit'.st = "walk" /\ visit'.waiting = FALSE /\ visit'.at = 0 /\ visit'.data = <<>>
      /\ visit'.clean = (ahead = 0 /\ sent = <<>>) /\ VisitOK(visit')
  BY VisitStarts
<1>2. UNCHANGED <<sent, ahead>>
  BY DEF Visit
<1>3. Holds(visit')
  <2>1. Gathered(visit')
    BY <1>1, NothingRead
  <2> QED  BY <1>1, <2>1 DEF Holds
<1>4. visit'.clean => Sync'
  BY <1>1, <1>2 DEF Sync
<1> QED  BY <1>1, <1>3, <1>4 DEF WholeInv

LEMMA WholeTransacts ==
  ASSUME WholeInv, Transact
  PROVE  WholeInv'
<1>1. VisitOK(visit) /\ Visiting /\ ~visit.waiting /\ UNCHANGED <<rxBuf, ahead>>
  BY DEF WholeInv, Transact
<1> DEFINE m == RequestOf(visit')
<1>2. /\ visit'.waiting = TRUE /\ visit'.st = visit.st /\ visit'.what = visit.what
      /\ visit'.clean = visit.clean /\ SameData(visit, visit') /\ VisitOK(visit')
      /\ sent' = Append(sent, m)
  BY <1>1, TransactSends
<1> HIDE DEF m
<1>3. Holds(visit) => Holds(visit')
  <2>1. Gathered(visit) => Gathered(visit')
    BY <1>2 DEF Gathered, SameData
  <2> QED  BY <1>2, <2>1 DEF Holds, SameData
<1>4. ASSUME Sync PROVE Sync'
  <2>1. sent = <<>> /\ ahead = 0
    BY <1>1, <1>4 DEF Sync
  <2>2. sent' = <<m>>
    BY <1>2, <2>1, OneInQueue
  <2> QED  BY <1>1, <1>2, <2>1, <2>2 DEF Sync, m
<1>5. ASSUME Lagging PROVE Lagging'
  <2>1. CASE ahead = 0 /\ \E c : sent = <<c>> /\ c.type = "clunk"
    <3>1. PICK c : sent = <<c>> /\ c.type = "clunk"
      BY <2>1
    <3>2. sent' = <<c, m>>
      BY <1>2, <3>1, OneInQueue
    <3> QED  BY <1>1, <1>2, <2>1, <3>1, <3>2 DEF Lagging
  <2>2. CASE ahead = 1 /\ sent = <<>> /\ rxBuf.type = "clunk"
    <3>1. sent' = <<m>>
      BY <1>2, <2>2, OneInQueue
    <3> QED  BY <1>1, <1>2, <2>2, <3>1 DEF Lagging
  <2> QED  BY <1>1, <1>5, <2>1, <2>2 DEF Lagging
<1>6. Visiting'
  BY <1>1, <1>2 DEF Visiting
<1> QED  BY <1>1, <1>2, <1>3, <1>4, <1>5, <1>6 DEF WholeInv

\* What the driver finds in the receive buffer is its own answer, or that of the
\* Tclunk it gave up, which ends the call.
LEMMA AnswerIs ==
  ASSUME WholeInv, Answer
  PROVE  LET w == Done(AfterAnswer(visit, rxBuf))
         IN  /\ visit' = w /\ VisitOK(w) /\ w.waiting = FALSE /\ w.clean = visit.clean /\ w.what = visit.what
             /\ visit.clean => Holds(w)
             /\ visit.clean /\ w.st = "ok" => visit.st = "clunkok"
             /\ visit.clean /\ w.st \in Busy /\ w.st \notin {"clunkok", "clunkerr"} => sent = <<>>
<1> DEFINE w == Done(AfterAnswer(visit, rxBuf))
<1> SUFFICES /\ visit' = w /\ VisitOK(w) /\ w.waiting = FALSE /\ w.clean = visit.clean /\ w.what = visit.what
             /\ visit.clean => Holds(w)
             /\ visit.clean /\ w.st = "ok" => visit.st = "clunkok"
             /\ visit.clean /\ w.st \in Busy /\ w.st \notin {"clunkok", "clunkerr"} => sent = <<>>
  OBVIOUS
<1>1. VisitOK(visit) /\ visit.st \in Busy /\ visit.waiting /\ ahead = 1
  BY VisitingIsBusy DEF Answer
<1>2. visit' = w
  BY DEF Answer, Done
<1>3. VisitOK(w) /\ w.waiting = FALSE
  BY <1>1, AnswerOnward
<1>4. w.clean = visit.clean /\ w.what = visit.what
  BY <1>1, AnswerKeepsCall
<1>5. ASSUME visit.clean
      PROVE  /\ Holds(w) /\ (w.st = "ok" => visit.st = "clunkok")
             /\ w.st \in Busy /\ w.st \notin {"clunkok", "clunkerr"} => sent = <<>>
  <2>0. Holds(visit) /\ Visiting
    BY <1>1, <1>5, VisitingIsBusy DEF WholeInv
  <2>1. CASE visit.st \in {"clunkok", "clunkerr"}
    <3>1. Holds(w) /\ (w.st = "ok" => visit.st = "clunkok")
      BY <1>1, <2>0, <2>1, AnswerHolds
    <3>2. AfterAnswer(visit, rxBuf) = AfterFailure(visit)
      BY <2>1 DEF AfterAnswer
    <3>3. w.st \in {"err", "ok"}
      <4>1. Onward(visit, w, "err", visit.cur) \/ Onward(visit, w, "ok", visit.cur)
        BY <1>1, <2>1, <3>2, FailureOnward
      <4> HIDE DEF w
      <4> QED  BY <4>1 DEF Onward
    <3> HIDE DEF w
    <3> QED  BY <3>1, <3>3 DEF Busy
  <2>2. CASE visit.st \notin {"clunkok", "clunkerr"} /\ Sync
    <3>1. sent = <<>> /\ rxBuf \in {Rlerror, Served(RequestOf(visit))}
      BY <1>1, <2>2 DEF Sync
    <3>2. Holds(w) /\ (w.st = "ok" => visit.st = "clunkok")
      BY <1>1, <2>0, <3>1, AnswerHolds
    <3> QED  BY <3>1, <3>2
  <2>3. CASE visit.st = "walk" /\ Lagging
    <3>1. rxBuf.type = "clunk"
      BY <1>1, <2>3 DEF Lagging
    <3>2. AfterAnswer(visit, rxBuf) = AfterFailure(visit)
      BY <2>3, <3>1 DEF AfterAnswer
    <3>3. Holds(w)
      BY <1>1, <2>0, <3>2, FailureHolds
    <3>4. Onward(visit, w, "err", visit.cur)
      BY <1>1, <2>3, <3>2, FailureOnward
    <3> HIDE DEF w
    <3> QED  BY <3>3, <3>4 DEF Onward, Busy
  <2> QED  BY <1>5, <2>0, <2>1, <2>2, <2>3 DEF WholeInv
<1> QED  BY <1>2, <1>3, <1>4, <1>5

LEMMA WholeAnswered ==
  ASSUME WholeInv, Answer
  PROVE  WholeInv'
<1> DEFINE w == Done(AfterAnswer(visit, rxBuf))
<1>1. /\ visit' = w /\ VisitOK(w) /\ w.waiting = FALSE /\ w.clean = visit.clean
      /\ visit.clean => Holds(w)
      /\ visit.clean /\ w.st \in Busy /\ w.st \notin {"clunkok", "clunkerr"} => sent = <<>>
  BY AnswerIs
<1> HIDE DEF w
<1>2. ahead' = 0 /\ sent' = sent
  BY DEF Answer
<1>3. Visiting' => w.st \in Busy
  BY <1>1 DEF VisitOK, Visiting
<1>4. sent = <<>> => Sync'
  BY <1>1, <1>2 DEF Sync
<1> QED  BY <1>1, <1>3, <1>4 DEF WholeInv

\* A transaction that is given up ends the call, but for the Tclunk of a walk.
LEMMA WholeGivesUp ==
  ASSUME WholeInv, NoAnswer
  PROVE  WholeInv'
<1> DEFINE w == Done(AfterFailure(visit))
<1>1. VisitOK(visit) /\ visit.st \in Busy /\ Visiting /\ visit.waiting /\ ahead # 1 /\ UNCHANGED <<sent, rxBuf, ahead>>
  BY VisitingIsBusy DEF NoAnswer
<1>2. visit' = w
  BY DEF NoAnswer, Done
<1>3. VisitOK(w) /\ w.waiting = FALSE /\ w.clean = visit.clean
  BY <1>1, FailureKeepsCall
<1>4. ASSUME visit.clean PROVE Holds(w) /\ (w.st \in {"err", "ok", "clunkerr"} \/ (visit.st = "midclunk" /\ w.st = "walk"))
  <2>1. Holds(visit)
    BY <1>4 DEF WholeInv
  <2> QED  BY <1>1, <2>1, FailureHolds
<1> HIDE DEF w
<1>5. ASSUME visit.clean, visit.st = "midclunk" PROVE Lagging'
  <2>1. Sync
    BY <1>1, <1>5 DEF WholeInv
  <2> DEFINE c == RequestOf(visit)
  <2>2. sent = <<c>> /\ ahead = 0
    BY <1>1, <2>1 DEF Sync
  <2>3. c.type = "clunk"
    BY <1>5 DEF RequestOf, Message
  <2> HIDE DEF c
  <2> QED  BY <1>1, <1>2, <1>3, <2>2, <2>3 DEF Lagging
<1> QED  BY <1>1, <1>2, <1>3, <1>4, <1>5 DEF WholeInv, Visiting

\* The server has answered the oldest message.
LEMMA WholeServed ==
  ASSUME WholeInv, Serve \/ Refuse
  PROVE  WholeInv'
<1>1. UNCHANGED visit /\ sent # <<>> /\ sent' = Tail(sent) /\ ahead' = ahead + 1
  BY DEF Serve, Refuse
<1>2. \/ rxBuf' = Served(Head(sent))
      \/ rxBuf' = Rlerror /\ Head(sent).type # "clunk"
  BY DEF Serve, Refuse
<1>3. ASSUME Sync PROVE Sync'
  <2> DEFINE m == RequestOf(visit)
  <2>1. visit.waiting /\ sent = <<m>> /\ ahead = 0
    BY <1>1, <1>3 DEF Sync
  <2> HIDE DEF m
  <2>2. sent' = <<>> /\ Head(sent) = m /\ ahead' = 1
    BY <1>1, <2>1, OneInQueue
  <2>3. rxBuf' \in {Rlerror, Served(m)}
    BY <1>2, <2>2
  <2> QED  BY <1>1, <2>1, <2>2, <2>3 DEF Sync, m
<1>4. ASSUME Lagging PROVE Lagging'
  <2>1. ASSUME NEW c, c.type = "clunk", Head(sent) = c PROVE rxBuf'.type = "clunk"
    <3>1. rxBuf' = Served(c)
      BY <1>2, <2>1
    <3>2. Served(c) = Reply("clunk", 0, <<>>)
      BY <2>1 DEF Served
    <3> QED  BY <3>1, <3>2 DEF Reply
  <2>2. CASE ~visit.waiting /\ ahead = 0 /\ \E c : sent = <<c>> /\ c.type = "clunk"
    <3>1. PICK c : sent = <<c>> /\ c.type = "clunk"
      BY <2>2
    <3>2. sent' = <<>> /\ Head(sent) = c
      BY <1>1, <3>1, OneInQueue
    <3>3. ahead' = 1 /\ rxBuf'.type = "clunk"
      BY <1>1, <2>1, <2>2, <3>1, <3>2
    <3> QED  BY <1>1, <2>2, <3>2, <3>3 DEF Lagging
  <2>3. CASE visit.waiting /\ ahead = 0 /\ \E c, m : sent = <<c, m>> /\ c.type = "clunk"
    <3>1. PICK c, m : sent = <<c, m>> /\ c.type = "clunk"
      BY <2>3
    <3>2. sent' = <<m>> /\ Head(sent) = c
      BY <1>1, <3>1, OneInQueue
    <3>3. ahead' = 1 /\ rxBuf'.type = "clunk"
      BY <1>1, <2>1, <2>3, <3>1, <3>2
    <3> QED  BY <1>1, <2>3, <3>2, <3>3 DEF Lagging
  <2>4. CASE visit.waiting /\ ahead = 1 /\ \E m : sent = <<m>>
    <3>1. PICK m : sent = <<m>>
      BY <2>4
    <3>2. sent' = <<>> /\ ahead' = 2
      BY <1>1, <2>4, <3>1, OneInQueue
    <3> QED  BY <1>1, <2>4, <3>2 DEF Lagging
  <2> QED  BY <1>1, <1>4, <2>2, <2>3, <2>4 DEF Lagging
<1> QED  BY <1>1, <1>3, <1>4 DEF WholeInv, Visiting

LEMMA WholeKeeps ==
  ASSUME WholeInv, P9Step \/ UNCHANGED p9Vars
  PROVE  WholeInv'
<1>1. CASE UNCHANGED p9Vars
  <2>1. UNCHANGED <<sent, rxBuf, ahead, visit>>
    BY <1>1 DEF p9Vars
  <2>2. (Sync => Sync') /\ (Lagging => Lagging')
    BY <2>1 DEF Sync, Lagging
  <2> QED  BY <2>1, <2>2 DEF WholeInv, Visiting
<1> QED  BY <1>1, WholeBegins, WholeTransacts, WholeAnswered, WholeGivesUp, WholeServed DEF P9Step

\* A call ends well only from the Tclunk after the last piece.
LEMMA WholeDone ==
  ASSUME WholeInv, P9Step \/ UNCHANGED p9Vars
  PROVE  WholeWhenOk
<1> SUFFICES ASSUME visit.st # "ok", visit'.st = "ok", visit.clean
             PROVE  visit'.data = IF visit.what = "file" THEN Pieces ELSE [i \in DOMAIN Pieces |-> Entered(Pieces[i])]
  BY DEF WholeWhenOk
<1>1. VisitOK(visit) /\ Holds(visit)
  BY DEF WholeInv
<1>2. Holds(visit') /\ visit'.what = visit.what
  <2>1. CASE Answer
    BY <2>1, AnswerIs
  <2>2. CASE NoAnswer
    <3> DEFINE w == Done(AfterFailure(visit))
    <3>1. visit' = w /\ visit.st \in Busy
      BY <2>2, VisitingIsBusy DEF NoAnswer, Done
    <3>2. Holds(w) /\ w.what = visit.what
      BY <1>1, <3>1, FailureHolds
    <3> QED  BY <3>1, <3>2
  <2>3. ASSUME NEW what \in {"file", "dir"}, NEW path \in Asked, Visit(what, path) PROVE FALSE
    BY <2>3, VisitStarts
  <2>4. CASE Transact
    BY <1>1, <2>4, TransactSends
  <2>5. CASE Serve \/ Refuse \/ UNCHANGED p9Vars
    BY <2>5 DEF Serve, Refuse, p9Vars
  <2> QED  BY <2>1, <2>2, <2>3, <2>4, <2>5 DEF P9Step
<1> DEFINE d == visit'.data
           k == visit.what
           T == {Piece(k, i) : i \in 1 .. Len(Pieces)}
<1>3. /\ Len(Pieces) \in Nat /\ DOMAIN Pieces = 1 .. Len(Pieces) /\ d \in Seq(T) /\ Len(d) = Len(Pieces)
      /\ \A i \in 1 .. Len(Pieces) : d[i] = Piece(k, i)
  BY <1>2, PiecesAssumption DEF Holds, Gathered
<1>4. DOMAIN d = 1 .. Len(Pieces) /\ d = [i \in 1 .. Len(Pieces) |-> d[i]]
  <2> HIDE DEF d, T
  <2> QED  BY <1>3
<1>5. Pieces = [i \in 1 .. Len(Pieces) |-> Pieces[i]]
  BY PiecesAssumption
<1> HIDE DEF d, k
<1>6. CASE k = "file"
  <2>1. \A i \in 1 .. Len(Pieces) : d[i] = Pieces[i]
    BY <1>3, <1>6 DEF Piece
  <2>2. d = Pieces
    BY <1>4, <1>5, <2>1
  <2> QED  BY <1>6, <2>2 DEF d, k
<1>7. CASE k # "file"
  <2>1. \A i \in 1 .. Len(Pieces) : d[i] = Entered(Pieces[i])
    BY <1>3, <1>7 DEF Piece
  <2>2. d = [i \in 1 .. Len(Pieces) |-> Entered(Pieces[i])]
    BY <1>4, <2>1
  <2> QED  BY <1>3, <1>7, <2>2 DEF d, k
<1> QED  BY <1>6, <1>7

-----------------------------------------------------------------------------
(* The device end of the machine.                                          *)

DevicesInv == SndInv /\ NetInv /\ P9Inv /\ BlkInv /\ SendInv /\ WholeInv

\* A step is a step of one device, of its driver, or leaves the device alone.
LEMMA OneDevice ==
  ASSUME [Next]_vars
  PROVE  /\ SndStep \/ UNCHANGED sndVars
         /\ NetStep \/ UNCHANGED netVars
         /\ P9Step \/ UNCHANGED p9Vars
         /\ BlkStep \/ UNCHANGED blkVars
<1>1. CASE UNCHANGED driversVars
  BY <1>1 DEF driversVars
<1>2. CASE UNCHANGED vars
  BY <1>1, <1>2 DEF vars
<1>3. CASE DriversNext
  BY <1>3 DEF DriversNext
<1> QED  BY <1>1, <1>2, <1>3 DEF Next, Boot

LEMMA DevicesInitInv == Init => DevicesInv
BY SndInitInv, NetInitInv, P9InitInv, BlkInitInv, SendInitInv, WholeInitInv DEF Init, DriversInit, DevicesInv

LEMMA DevicesKeep == DevicesInv /\ [Next]_vars => DevicesInv'
<1> SUFFICES ASSUME DevicesInv, [Next]_vars PROVE DevicesInv'
  OBVIOUS
<1>0. SndInv /\ NetInv /\ P9Inv /\ BlkInv /\ SendInv /\ WholeInv
  BY DEF DevicesInv
<1>1. SndInv'
  BY <1>0, OneDevice, SndKeeps
<1>2. NetInv' /\ SendInv'
  BY <1>0, OneDevice, NetKeeps, SendKeeps
<1>3. P9Inv' /\ WholeInv'
  BY <1>0, OneDevice, P9Keeps, WholeKeeps
<1>4. BlkInv'
  BY <1>0, OneDevice, BlkKeeps
<1> QED  BY <1>1, <1>2, <1>3, <1>4 DEF DevicesInv

\* The inductive invariant of the drivers holds in every reachable state.
THEOREM DevicesInvariant == Spec => []DevicesInv
BY DevicesInitInv, DevicesKeep, PTL DEF Spec

\* For rings of any size, paths and tones of any length and any number of calls, frames,
\* timeouts and refusals: the drivers take the frames of virtio_net.rs and e1000e.rs from
\* their rings once and in the order they came, virtio_9p.rs leaves at the server no fid
\* but one of each path that took more than one Twalk (as long as no transaction was
\* given up), and the buffers the engine of ac97.rs runs over hold the tone and are not
\* written to.
THEOREM RingsAreSound == Spec => []RingsSound
<1>1. DevicesInv => RingsSound
  BY SndInvIs, NetInvIs, P9InvIs DEF DevicesInv, RingsSound
<1> QED  BY <1>1, DevicesInvariant, PTL

\* For disks, queues and rings of any size, indices that wrap anywhere, files of any
\* length, any number of calls and any timeouts and errors: when read_sector() or
\* write_sector() of virtio_blk.rs, nvme.rs and ahci.rs, send_packet() of virtio_net.rs and
\* e1000e.rs or a read or listing of virtio_9p.rs returns success, the sector has been read
\* or written, the frame has left, the file is whole; of the drivers that do not look whose
\* answer they see, for the calls that begin with no answer outstanding (an attempt that
\* times out leaves one, also when the retry after it succeeds).
THEOREM SuccessMeansDone == Spec => OkMeansDone
<1>1. DevicesInv /\ [Next]_vars => [DoneWhenOk /\ SentWhenOk /\ WholeWhenOk]_driversVars
  <2> SUFFICES ASSUME DevicesInv, [Next]_vars PROVE DoneWhenOk /\ SentWhenOk /\ WholeWhenOk
    OBVIOUS
  <2>0. BlkInv /\ SendInv /\ WholeInv
    BY DEF DevicesInv
  <2>1. DoneWhenOk
    BY <2>0, OneDevice, BlkDone
  <2>2. SentWhenOk
    BY <2>0, OneDevice, SendDone
  <2>3. WholeWhenOk
    BY <2>0, OneDevice, WholeDone
  <2> QED  BY <2>1, <2>2, <2>3
<1> QED  BY <1>1, DevicesInvariant, PTL DEF Spec, OkMeansDone
=============================================================================
