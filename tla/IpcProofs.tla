------------------------------ MODULE IpcProofs ------------------------------
(***************************************************************************)
(* Proofs about Ipc, for any number of tasks, messages and ticks.  All of  *)
(* its safety properties follow from IpcInv, which is inductive.           *)
(***************************************************************************)
EXTENDS Ipc, FiniteSetTheorems, SequenceTheorems, TLAPS

-----------------------------------------------------------------------------
(* Queues.                                                                 *)

\* q without its element i.
Without(q, i) == SubSeq(q, 1, i - 1) \o SubSeq(q, i + 1, Len(q))

\* What the removal in try_recv_from(), VecDeque::remove(i), leaves.
LEMMA WithoutIs ==
  ASSUME NEW S, NEW q \in Seq(S), NEW i \in 1..Len(q)
  PROVE  /\ Without(q, i) \in Seq(S)
         /\ Len(Without(q, i)) = Len(q) - 1
         /\ \A j \in 1..Len(q) - 1 : Without(q, i)[j] = IF j < i THEN q[j] ELSE q[j + 1]
<1> DEFINE a == SubSeq(q, 1, i - 1)
           b == SubSeq(q, i + 1, Len(q))
<1>1. a \in Seq(S) /\ Len(a) = i - 1 /\ \A j \in 1..i - 1 : a[j] = q[j]
  OBVIOUS
<1>2. b \in Seq(S) /\ Len(b) = Len(q) - i /\ \A j \in 1..Len(q) - i : b[j] = q[i + j]
  OBVIOUS
<1> HIDE DEF a, b
<1>3. a \o b \in Seq(S) /\ Len(a \o b) = Len(q) - 1
  <2>1. a \o b \in Seq(S) /\ Len(a \o b) = Len(a) + Len(b)
    BY <1>1, <1>2, ConcatProperties
  <2>2. Len(q) \in Nat
    OBVIOUS
  <2> QED  BY <1>1, <1>2, <2>1, <2>2
<1>4. ASSUME NEW j \in 1..Len(q) - 1
      PROVE  (a \o b)[j] = IF j < i THEN q[j] ELSE q[j + 1]
  <2>1. (a \o b)[j] = IF j <= Len(a) THEN a[j] ELSE b[j - Len(a)]
    BY <1>1, <1>2, ConcatProperties
  <2>2. Len(q) \in Nat /\ i \in Int /\ j \in Int
    OBVIOUS
  <2>3. CASE j < i
    <3>1. j \in 1..i - 1 /\ j <= Len(a)
      BY <1>1, <2>2, <2>3
    <3> QED  BY <2>1, <2>3, <3>1, <1>1
  <2>4. CASE ~(j < i)
    <3>1. j - Len(a) \in 1..Len(q) - i /\ ~(j <= Len(a)) /\ i + (j - Len(a)) = j + 1
      BY <1>1, <2>2, <2>4
    <3>2. b[j - Len(a)] = q[j + 1]
      BY <1>2, <3>1
    <3> QED  BY <2>1, <2>4, <3>1, <3>2
  <2> QED  BY <2>3, <2>4
<1> QED  BY <1>3, <1>4 DEF Without, a, b

\* Carries without the set of positions, in the form the provers handle best.
LEMMA CarriesIs ==
  ASSUME NEW q, NEW s, NEW lo, NEW hi
  PROVE  Carries(q, s, lo, hi) <=>
           /\ \A i \in 1..Len(q) : q[i].from = s => q[i].n \in lo + 1..hi
           /\ \A n \in lo + 1..hi : \E i \in 1..Len(q) : q[i].from = s /\ q[i].n = n
           /\ \A i, j \in 1..Len(q) :
                q[i].from = s /\ q[j].from = s /\ i < j => q[i].n < q[j].n
<1> DEFINE mine == {i \in 1..Len(q) : q[i].from = s}
<1>1. {q[i].n : i \in mine} = lo + 1..hi <=>
        /\ \A i \in 1..Len(q) : q[i].from = s => q[i].n \in lo + 1..hi
        /\ \A n \in lo + 1..hi : \E i \in 1..Len(q) : q[i].from = s /\ q[i].n = n
  <2> DEFINE I == lo + 1..hi
             N == 1..Len(q)
  <2> HIDE DEF I, N
  <2> SUFFICES {q[i].n : i \in {x \in N : q[x].from = s}} = I <=>
        /\ \A i \in N : q[i].from = s => q[i].n \in I
        /\ \A n \in I : \E i \in N : q[i].from = s /\ q[i].n = n
    BY DEF I, N
  <2> QED  OBVIOUS
<1>2. (\A i, j \in mine : i < j => q[i].n < q[j].n) <=>
        \A i, j \in 1..Len(q) :
          q[i].from = s /\ q[j].from = s /\ i < j => q[i].n < q[j].n
  OBVIOUS
<1> QED  BY <1>1, <1>2 DEF Carries

\* An empty queue carries nothing, which is right when all has been delivered.
LEMMA CarriesEmpty ==
  ASSUME NEW s, NEW lo \in Nat
  PROVE  Carries(<< >>, s, lo, lo)
BY CarriesIs

\* send(): the new message extends what its sender has queued, and nobody else's.
LEMMA CarriesAppend ==
  ASSUME NEW q \in Seq(Message), NEW s, NEW lo \in Nat, NEW hi \in Nat,
         NEW m \in Message, Carries(q, s, lo, hi), lo <= hi,
         m.from = s => m.n = hi + 1
  PROVE  Carries(Append(q, m), s, lo, IF m.from = s THEN hi + 1 ELSE hi)
<1> DEFINE r == Append(q, m)
<1>1. Len(r) = Len(q) + 1 /\ r[Len(q) + 1] = m /\ \A i \in 1..Len(q) : r[i] = q[i]
  OBVIOUS
<1>2. /\ \A i \in 1..Len(q) : q[i].from = s => q[i].n \in lo + 1..hi
      /\ \A n \in lo + 1..hi : \E i \in 1..Len(q) : q[i].from = s /\ q[i].n = n
      /\ \A i, j \in 1..Len(q) :
           q[i].from = s /\ q[j].from = s /\ i < j => q[i].n < q[j].n
  BY CarriesIs
<1> HIDE DEF r
<1> DEFINE top == IF m.from = s THEN hi + 1 ELSE hi
<1>3. ASSUME NEW i \in 1..Len(r), r[i].from = s PROVE r[i].n \in lo + 1..top
  BY <1>1, <1>2, <1>3
<1>4. ASSUME NEW n \in lo + 1..top PROVE \E i \in 1..Len(r) : r[i].from = s /\ r[i].n = n
  <2>1. CASE n \in lo + 1..hi
    <3>1. PICK i \in 1..Len(q) : q[i].from = s /\ q[i].n = n
      BY <1>2, <2>1
    <3> QED  BY <1>1, <3>1
  <2>2. CASE n \notin lo + 1..hi
    BY <1>1, <1>4, <2>2
  <2> QED  BY <2>1, <2>2
<1>5. ASSUME NEW i \in 1..Len(r), NEW j \in 1..Len(r), r[i].from = s, r[j].from = s, i < j
      PROVE  r[i].n < r[j].n
  <2>1. i \in 1..Len(q) /\ r[i] = q[i] /\ q[i].n \in lo + 1..hi
    BY <1>1, <1>2, <1>5
  <2>2. CASE j \in 1..Len(q)
    BY <1>1, <1>2, <1>5, <2>1, <2>2
  <2>3. CASE j = Len(q) + 1
    BY <1>1, <1>5, <2>1, <2>3
  <2> QED  BY <1>1, <2>2, <2>3
<1> QED  BY <1>3, <1>4, <1>5, CarriesIs DEF r

\* try_recv_from(): the first message of its sender is the oldest one not
\* delivered, and what the other senders have queued is not touched.
LEMMA CarriesTake ==
  ASSUME NEW q \in Seq(Message), NEW i \in 1..Len(q), NEW s, NEW lo \in Nat, NEW hi \in Nat,
         Carries(q, s, lo, hi), lo <= hi,
         \A j \in 1..Len(q) : q[j].from = q[i].from => i <= j
  PROVE  /\ q[i].from = s => q[i].n = lo + 1 /\ lo < hi
         /\ Carries(Without(q, i), s, IF q[i].from = s THEN lo + 1 ELSE lo, hi)
<1> DEFINE r == Without(q, i)
           bot == IF q[i].from = s THEN lo + 1 ELSE lo
<1>1. /\ Len(r) = Len(q) - 1
      /\ \A j \in 1..Len(q) - 1 : r[j] = IF j < i THEN q[j] ELSE q[j + 1]
  BY WithoutIs
<1>2. /\ \A j \in 1..Len(q) : q[j].from = s => q[j].n \in lo + 1..hi
      /\ \A n \in lo + 1..hi : \E j \in 1..Len(q) : q[j].from = s /\ q[j].n = n
      /\ \A j, k \in 1..Len(q) :
           q[j].from = s /\ q[k].from = s /\ j < k => q[j].n < q[k].n
  BY CarriesIs
<1> HIDE DEF r
<1>3. ASSUME q[i].from = s PROVE q[i].n = lo + 1 /\ lo < hi
  <2>1. q[i].n \in lo + 1..hi
    BY <1>2, <1>3
  <2>2. PICK j \in 1..Len(q) : q[j].from = s /\ q[j].n = lo + 1
    BY <1>2, <2>1
  <2>3. CASE i = j
    BY <2>1, <2>2, <2>3
  <2>4. CASE i # j
    <3>1. i < j
      BY <1>3, <2>2, <2>4
    <3>2. q[i].n < q[j].n
      BY <1>2, <1>3, <2>2, <3>1
    <3> QED  BY <2>1, <2>2, <3>2
  <2> QED  BY <2>3, <2>4
\* Every position of r is a position of q other than i, and the other way round.
<1>4. \A j \in 1..Len(r) :
        LET k == IF j < i THEN j ELSE j + 1
        IN  k \in 1..Len(q) /\ k # i /\ r[j] = q[k]
  BY <1>1
<1>5. ASSUME NEW j \in 1..Len(r), r[j].from = s PROVE r[j].n \in bot + 1..hi
  <2>1. PICK k \in 1..Len(q) : k # i /\ r[j] = q[k]
    BY <1>4
  <2>2. q[k].n \in lo + 1..hi
    BY <1>2, <1>5, <2>1
  <2>3. CASE q[i].from = s
    <3>1. i < k
      BY <1>5, <2>1, <2>3
    <3>2. q[i].n < q[k].n
      BY <1>2, <1>5, <2>1, <2>3, <3>1
    <3> QED  BY <1>3, <2>1, <2>2, <2>3, <3>2
  <2> QED  BY <2>1, <2>2, <2>3
<1>6. ASSUME NEW n \in bot + 1..hi PROVE \E j \in 1..Len(r) : r[j].from = s /\ r[j].n = n
  <2>1. n \in lo + 1..hi
    BY <1>6
  <2>2. PICK k \in 1..Len(q) : q[k].from = s /\ q[k].n = n
    BY <1>2, <2>1
  <2>3. k # i
    BY <1>3, <1>6, <2>2
  <2>4. CASE k < i
    BY <1>1, <2>2, <2>4
  <2>5. CASE k > i
    <3>1. k - 1 \in 1..Len(r) /\ r[k - 1] = q[k]
      BY <1>1, <2>5
    <3> QED  BY <2>2, <3>1
  <2> QED  BY <2>3, <2>4, <2>5
<1>7. ASSUME NEW j \in 1..Len(r), NEW k \in 1..Len(r), r[j].from = s, r[k].from = s, j < k
      PROVE  r[j].n < r[k].n
  <2> DEFINE jj == IF j < i THEN j ELSE j + 1
             kk == IF k < i THEN k ELSE k + 1
  <2>1. jj \in 1..Len(q) /\ kk \in 1..Len(q) /\ jj < kk /\ r[j] = q[jj] /\ r[k] = q[kk]
    BY <1>1, <1>7
  <2> HIDE DEF jj, kk
  <2> QED  BY <1>2, <1>7, <2>1
<1> QED  BY <1>3, <1>5, <1>6, <1>7, CarriesIs DEF r

-----------------------------------------------------------------------------
(* The inductive invariant.                                                *)

Asleep   == {"recheck", "claimed", "yield", "woken"}
Enrolled == {"sleep", "leave"} \cup Asleep

\* A finished task is at the end of its program; a Sleeping one is in the second
\* half of a receiving call and has left the CPU if it has called yield_now();
\* IPC_WAITERS holds the living tasks in that half and no others.
Stages(st, p, cur, w) ==
  \A t \in Tasks :
    /\ st[t] = "Finished" <=> p[t] = "dead"
    /\ st[t] = "Sleeping" => p[t] \in Asleep
    /\ cur = t /\ p[t] = "woken" => st[t] # "Sleeping"
    /\ st[t] # "Finished" => (t \in w <=> p[t] \in Enrolled)

\* Nothing is delivered before it is sent.
Delivered == \A k \in Kinds, s, d \in Tasks : last[k][s][d] <= sent[k][s][d]

IpcInv ==
  /\ TypeOK
  /\ Stages(state, pc, current, waiters)
  /\ Delivered
  /\ InOrder
  /\ DeadIsClean

\* The scheduler's variables.
SchedType(st, p, cur, w) ==
  /\ cur \in Tasks \cup {Idle}
  /\ st \in [Tasks -> {"Ready", "Running", "Sleeping", "Finished"}]
  /\ p \in [Tasks -> Location]
  /\ w \subseteq Tasks

\* The messages and their counts.
Data ==
  /\ queue \in [Kinds -> [Tasks -> Seq(Message)]]
  /\ sent \in [Kinds -> [Tasks -> [Tasks -> 0..MaxSent]]]
  /\ last \in [Kinds -> [Tasks -> [Tasks -> 0..MaxSent]]]
  /\ Delivered
  /\ InOrder

\* IpcInv, taken apart.
LEMMA Parts ==
  IpcInv <=> /\ SchedType(state, pc, current, waiters)
             /\ Stages(state, pc, current, waiters)
             /\ Data
             /\ timer \in [Tasks -> 0..Forever] /\ want \in [Tasks -> Want]
             /\ cancelled \subseteq Tasks
             /\ caught \in [Tasks -> {"none", "Ready", "Running", "Sleeping"}]
             /\ DeadIsClean
BY DEF IpcInv, TypeOK, SchedType, Data

\* The same for the state after a step.
LEMMA PartsNext ==
  IpcInv' <=> /\ SchedType(state', pc', current', waiters')
              /\ Stages(state', pc', current', waiters')
              /\ Data'
              /\ timer' \in [Tasks -> 0..Forever] /\ want' \in [Tasks -> Want]
              /\ cancelled' \subseteq Tasks
              /\ caught' \in [Tasks -> {"none", "Ready", "Running", "Sleeping"}]
              /\ DeadIsClean'
BY DEF IpcInv, TypeOK, SchedType, Data, Stages

\* The initial state: nobody is in a receiving call and all queues are empty.
LEMMA InitInv == Init => IpcInv
<1> SUFFICES ASSUME Init PROVE IpcInv
  OBVIOUS
<1> USE IpcConstants
<1>1. SchedType(state, pc, current, waiters) /\ Stages(state, pc, current, waiters)
  BY DEF Init, SchedType, Stages, Location, Asleep, Enrolled
<1>2. /\ timer \in [Tasks -> 0..Forever] /\ want \in [Tasks -> Want] /\ cancelled \subseteq Tasks
      /\ caught \in [Tasks -> {"none", "Ready", "Running", "Sleeping"}]
  BY DEF Init, Want, Kinds, Forever
<1>3. queue \in [Kinds -> [Tasks -> Seq(Message)]]
  BY DEF Init
<1>4. /\ sent \in [Kinds -> [Tasks -> [Tasks -> 0..MaxSent]]]
      /\ last \in [Kinds -> [Tasks -> [Tasks -> 0..MaxSent]]]
  BY DEF Init
<1>5. ASSUME NEW k \in Kinds, NEW s \in Tasks, NEW d \in Tasks
      PROVE  /\ last[k][s][d] <= sent[k][s][d]
             /\ Carries(queue[k][d], s, last[k][s][d], sent[k][s][d])
  <2>1. last[k][s][d] = 0 /\ sent[k][s][d] = 0 /\ queue[k][d] = << >>
    BY DEF Init
  <2> QED  BY <2>1, CarriesEmpty
<1>6. Data
  BY <1>3, <1>4, <1>5 DEF Data, Delivered, InOrder
<1>7. DeadIsClean
  BY DEF Init, DeadIsClean, Alive
<1> QED  BY <1>1, <1>2, <1>6, <1>7, Parts

-----------------------------------------------------------------------------
(* What an action does to one part of the state.                           *)

\* The counts are updated for one kind, sender and destination at a time.
LEMMA OneCount ==
  ASSUME NEW F \in [Kinds -> [Tasks -> [Tasks -> 0..MaxSent]]], NEW v \in 0..MaxSent,
         NEW K \in Kinds, NEW S \in Tasks, NEW D \in Tasks,
         NEW G, G = [F EXCEPT ![K][S][D] = v]
  PROVE  /\ G \in [Kinds -> [Tasks -> [Tasks -> 0..MaxSent]]]
         /\ \A k \in Kinds, s, d \in Tasks :
              G[k][s][d] = IF k = K /\ s = S /\ d = D THEN v ELSE F[k][s][d]
<1> DEFINE C == 0..MaxSent
<1> HIDE DEF C
<1>1. F \in [Kinds -> [Tasks -> [Tasks -> C]]] /\ v \in C
  BY DEF C
<1>2. G \in [Kinds -> [Tasks -> [Tasks -> C]]]
  BY <1>1
<1>3. ASSUME NEW k \in Kinds, NEW s \in Tasks, NEW d \in Tasks
      PROVE  G[k][s][d] = IF k = K /\ s = S /\ d = D THEN v ELSE F[k][s][d]
  <2>1. CASE k # K
    BY <1>1, <2>1
  <2>2. CASE k = K /\ s # S
    BY <1>1, <2>2
  <2>3. CASE k = K /\ s = S
    BY <1>1, <2>3
  <2> QED  BY <2>1, <2>2, <2>3
<1> QED  BY <1>2, <1>3 DEF C

\* A step that moves no message and revives nobody keeps the queues in order.
LEMMA QuietData ==
  ASSUME Data, UNCHANGED <<queue, sent, last>>, \A d \in Tasks : Alive(d)' => Alive(d)
  PROVE  Data'
BY DEF Data, Delivered, InOrder

\* A context switch to a Ready task keeps the stages: the outgoing task may be
\* behind its yield_now().
LEMMA SwitchStages ==
  ASSUME NEW st, NEW p, NEW w, NEW nxt \in (Tasks \cup {Idle}) \ {current},
         SchedType(st, p, current, w),
         nxt \in Tasks => st[nxt] = "Ready",
         \A t \in Tasks : /\ st[t] = "Finished" <=> p[t] = "dead"
                          /\ st[t] = "Sleeping" => p[t] \in Asleep
                          /\ st[t] # "Finished" => (t \in w <=> p[t] \in Enrolled)
  PROVE  /\ SchedType(SwitchTo(st, nxt), p, nxt, w)
         /\ Stages(SwitchTo(st, nxt), p, nxt, w)
         /\ \A t \in Tasks : SwitchTo(st, nxt)[t] = "Finished" <=> st[t] = "Finished"
<1>1. SchedType(SwitchTo(st, nxt), p, nxt, w)
  BY DEF SchedType, SwitchTo
<1>2. ASSUME NEW t \in Tasks
      PROVE  /\ SwitchTo(st, nxt)[t] = "Finished" <=> st[t] = "Finished"
             /\ SwitchTo(st, nxt)[t] = "Sleeping" => st[t] = "Sleeping" /\ t # nxt
  BY DEF SwitchTo
<1>3. Stages(SwitchTo(st, nxt), p, nxt, w)
  BY <1>2 DEF Stages
<1> QED  BY <1>1, <1>2, <1>3

\* A wake-up keeps the stages.
LEMMA WakeStages ==
  ASSUME NEW u \in Tasks, SchedType(state, pc, current, waiters),
         Stages(state, pc, current, waiters)
  PROVE  /\ SchedType(WakeTask(state, u), pc, current, waiters)
         /\ Stages(WakeTask(state, u), pc, current, waiters)
         /\ \A t \in Tasks : WakeTask(state, u)[t] = "Finished" <=> state[t] = "Finished"
<1>1. SchedType(WakeTask(state, u), pc, current, waiters)
  BY DEF SchedType, WakeTask
<1>2. ASSUME NEW t \in Tasks
      PROVE  /\ WakeTask(state, u)[t] = "Finished" <=> state[t] = "Finished"
             /\ WakeTask(state, u)[t] = "Sleeping" => state[t] = "Sleeping"
  BY DEF SchedType, WakeTask
<1>3. Stages(WakeTask(state, u), pc, current, waiters)
  BY <1>2 DEF Stages
<1> QED  BY <1>1, <1>2, <1>3

\* try_recv() and its siblings: the message taken is the next one of its sender,
\* and no queue but the caller's changes.
LEMMA TakeData ==
  ASSUME NEW t \in Tasks, NEW w \in Want, Data, Take(t, w), Alive(t), UNCHANGED sent,
         \A d \in Tasks : Alive(d)' => Alive(d)
  PROVE  /\ Data'
         /\ \A k \in Kinds, d \in Tasks : d # t => queue'[k][d] = queue[k][d]
<1> DEFINE K == w.kind
           q == queue[K][t]
<1>0. K \in Kinds /\ q \in Seq(Message)
  BY DEF Want, Data
<1>1. PICK i \in Matches(t, w) :
        /\ \A j \in Matches(t, w) : i <= j
        /\ queue' = [queue EXCEPT ![K][t] = Without(q, i)]
        /\ last' = [last EXCEPT ![K][q[i].from][t] = q[i].n]
  BY DEF Take, Without
<1>2. i \in 1..Len(q) /\ \A j \in 1..Len(q) : q[j].from = q[i].from => i <= j
  BY <1>0, <1>1 DEF Matches
<1>3. q[i] \in Message
  BY <1>0, <1>2
<1> DEFINE f == q[i].from
<1>4. f \in Tasks /\ q[i].n \in 1..MaxSent
  BY <1>3 DEF Message
<1>5. Without(q, i) \in Seq(Message)
  BY <1>0, <1>2, WithoutIs
<1> HIDE DEF K, q, f
<1>6. queue' \in [Kinds -> [Tasks -> Seq(Message)]]
  BY <1>0, <1>1, <1>5 DEF Data
<1>7. q[i].n \in 0..MaxSent
  BY <1>4, IpcConstants
<1>8. ASSUME NEW k \in Kinds, NEW d \in Tasks
      PROVE  queue'[k][d] = IF k = K /\ d = t THEN Without(q, i) ELSE queue[k][d]
  BY <1>0, <1>1 DEF Data
<1>9. /\ last' \in [Kinds -> [Tasks -> [Tasks -> 0..MaxSent]]]
      /\ \A k \in Kinds, s, d \in Tasks :
           last'[k][s][d] = IF k = K /\ s = f /\ d = t THEN q[i].n ELSE last[k][s][d]
  <2> DEFINE m == q[i].n
             G == last'
  <2>1. G = [last EXCEPT ![K][f][t] = m]
    BY <1>1 DEF f
  <2>2. last \in [Kinds -> [Tasks -> [Tasks -> 0..MaxSent]]]
    BY DEF Data
  <2>3. m \in 0..MaxSent /\ K \in Kinds /\ f \in Tasks
    BY <1>0, <1>4, <1>7
  <2> HIDE DEF m, G
  <2>4. /\ G \in [Kinds -> [Tasks -> [Tasks -> 0..MaxSent]]]
        /\ \A k \in Kinds, s, d \in Tasks :
             G[k][s][d] = IF k = K /\ s = f /\ d = t THEN m ELSE last[k][s][d]
    BY <2>1, <2>2, <2>3, OneCount
  <2> QED  BY <2>4 DEF G, m
<1>10. ASSUME NEW k \in Kinds, NEW s \in Tasks, NEW d \in Tasks
       PROVE  /\ last'[k][s][d] <= sent'[k][s][d]
              /\ Alive(d)' => Carries(queue'[k][d], s, last'[k][s][d], sent'[k][s][d])
  <2> DEFINE lo == last[k][s][d]
             hi == sent[k][s][d]
  <2>1. lo \in Nat /\ hi \in Nat /\ lo <= hi /\ sent'[k][s][d] = hi
    BY IpcConstants DEF Data, Delivered
  <2>2. Alive(d)' => Carries(queue[k][d], s, lo, hi)
    BY DEF Data, InOrder
  <2>3. CASE k = K /\ d = t
    <3>1. Carries(q, s, lo, hi)
      BY <2>3 DEF Data, InOrder, q
    <3> HIDE DEF lo, hi
    <3>2. /\ f = s => q[i].n = lo + 1 /\ lo < hi
          /\ Carries(Without(q, i), s, IF f = s THEN lo + 1 ELSE lo, hi)
      BY <1>0, <1>2, <2>1, <3>1, CarriesTake DEF f
    <3>3. last'[k][s][d] = IF f = s THEN lo + 1 ELSE lo
      BY <1>9, <2>3, <3>2 DEF lo
    <3>4. queue'[k][d] = Without(q, i)
      BY <1>8, <2>3
    <3> QED  BY <2>1, <3>2, <3>3, <3>4
  <2>4. CASE ~(k = K /\ d = t)
    BY <1>8, <1>9, <2>1, <2>2, <2>4
  <2> QED  BY <2>3, <2>4
<1>11. sent' \in [Kinds -> [Tasks -> [Tasks -> 0..MaxSent]]]
  BY DEF Data
<1> QED  BY <1>6, <1>8, <1>9, <1>10, <1>11 DEF Data, Delivered, InOrder

\* The bound on all messages bounds those of one sender.
LEMMA SentBound ==
  ASSUME NEW K \in Kinds, NEW S \in Tasks, NEW D \in Tasks, TotalSent < MaxSent,
         sent \in [Kinds -> [Tasks -> [Tasks -> 0..MaxSent]]]
  PROVE  sent[K][S][D] < MaxSent
<1> DEFINE All == Kinds \X Tasks \X Tasks \X (1..MaxSent)
           Sent == {x \in All : x[4] <= sent[x[1]][x[2]][x[3]]}
           f == [n \in 1..MaxSent |-> <<K, S, D, n>>]
<1>1. IsFiniteSet(Kinds)
  <2>1. Kinds = {"plain"} \cup {"handle"}
    BY DEF Kinds
  <2> QED  BY <2>1, FS_Singleton, FS_Union
<1>2. IsFiniteSet(1..MaxSent) /\ Cardinality(1..MaxSent) = MaxSent
  BY IpcConstants, FS_Interval
<1>3. IsFiniteSet(Sent)
  <2>1. IsFiniteSet((Kinds \X Tasks) \X (Tasks \X (1..MaxSent)))
    BY <1>1, <1>2, IpcConstants, FS_Product
  <2> DEFINE h == [x \in All |-> <<<<x[1], x[2]>>, <<x[3], x[4]>>>>]
  <2>2. h \in Injection(All, (Kinds \X Tasks) \X (Tasks \X (1..MaxSent)))
    <3>1. h \in [All -> (Kinds \X Tasks) \X (Tasks \X (1..MaxSent))]
      OBVIOUS
    <3>2. ASSUME NEW x \in All, NEW y \in All, h[x] = h[y] PROVE x = y
      <4>1. x = <<x[1], x[2], x[3], x[4]>> /\ y = <<y[1], y[2], y[3], y[4]>>
        OBVIOUS
      <4>2. x[1] = y[1] /\ x[2] = y[2] /\ x[3] = y[3] /\ x[4] = y[4]
        BY <3>2
      <4> QED  BY <4>1, <4>2
    <3> HIDE DEF h, All
    <3> QED  BY <3>1, <3>2 DEF Injection, IsInjective
  <2>3. IsFiniteSet(All)
    BY <2>1, <2>2, FS_Injection
  <2> QED  BY <2>3, FS_Subset
<1>4. Cardinality(Sent) < MaxSent
  BY Zenon DEF TotalSent
<1>5. ASSUME sent[K][S][D] = MaxSent PROVE FALSE
  <2>1. f \in Injection(1..MaxSent, Sent)
    <3>1. \A n \in 1..MaxSent : f[n] \in Sent
      BY <1>5, IpcConstants
    <3>2. ASSUME NEW m \in 1..MaxSent, NEW n \in 1..MaxSent, f[m] = f[n] PROVE m = n
      BY <3>2
    <3>3. f \in [1..MaxSent -> Sent]
      BY <3>1
    <3> HIDE DEF f, Sent
    <3> QED  BY <3>2, <3>3 DEF Injection, IsInjective
  <2>2. Cardinality(1..MaxSent) <= Cardinality(Sent)
    BY <1>3, <2>1, FS_Injection
  <2> QED  BY <1>2, <1>3, <1>4, <2>2, FS_CardinalityType, IpcConstants
<1>6. sent[K][S][D] \in 0..MaxSent
  OBVIOUS
<1>7. MaxSent \in Nat
  BY IpcConstants
<1> HIDE DEF Sent, All, f
<1>8. ASSUME NEW x \in 0..MaxSent, x # MaxSent PROVE x < MaxSent
  BY <1>7, <1>8
<1> QED  BY <1>5, <1>6, <1>8

-----------------------------------------------------------------------------
(* One lemma per action.                                                   *)

\* send() and send_with_handle().
LEMMA SendInv ==
  ASSUME IpcInv, NEW t \in Tasks, NEW kind \in Kinds, NEW dest \in Tasks, Send(t, kind, dest)
  PROVE  IpcInv'
<1> DEFINE n == sent[kind][t][dest] + 1
           m == [from |-> t, n |-> n]
<1>0. /\ SchedType(state, pc, current, waiters) /\ Stages(state, pc, current, waiters)
      /\ Data /\ DeadIsClean
  BY Parts
<1>1. n \in 1..MaxSent /\ sent[kind][t][dest] \in 0..MaxSent
  <2>1. TotalSent < MaxSent /\ sent \in [Kinds -> [Tasks -> [Tasks -> 0..MaxSent]]]
    BY <1>0 DEF Data, Send
  <2>2. sent[kind][t][dest] < MaxSent /\ sent[kind][t][dest] \in 0..MaxSent
    BY <2>1, SentBound
  <2> QED  BY <2>2, IpcConstants
<1>2. m \in Message
  BY <1>1 DEF Message
<1>3. /\ SchedType(state', pc, current, waiters) /\ Stages(state', pc, current, waiters)
      /\ \A u \in Tasks : state'[u] = "Finished" <=> state[u] = "Finished"
  <2>1. state' = state \/ state' = WakeTask(state, dest)
    BY DEF Send
  <2> QED  BY <1>0, <2>1, WakeStages
<1>4. Alive(dest)
  BY DEF Send, TaskExists
<1> HIDE DEF n, m
<1>5. queue' = [queue EXCEPT ![kind][dest] = Append(queue[kind][dest], m)]
  BY <1>0 DEF Send, Data, n, m
<1>6. queue' \in [Kinds -> [Tasks -> Seq(Message)]]
  BY <1>0, <1>2, <1>5 DEF Data
<1>7. ASSUME NEW k \in Kinds, NEW d \in Tasks
      PROVE  queue'[k][d] = IF k = kind /\ d = dest THEN Append(queue[k][d], m)
                            ELSE queue[k][d]
  BY <1>0, <1>5 DEF Data
<1>8. /\ sent' \in [Kinds -> [Tasks -> [Tasks -> 0..MaxSent]]]
      /\ \A k \in Kinds, s, d \in Tasks :
           sent'[k][s][d] = IF k = kind /\ s = t /\ d = dest THEN n ELSE sent[k][s][d]
  <2> DEFINE G == sent'
  <2>1. G = [sent EXCEPT ![kind][t][dest] = n]
    BY DEF Send, n
  <2>2. sent \in [Kinds -> [Tasks -> [Tasks -> 0..MaxSent]]] /\ n \in 0..MaxSent
    BY <1>0, <1>1, IpcConstants DEF Data
  <2> HIDE DEF G
  <2>3. /\ G \in [Kinds -> [Tasks -> [Tasks -> 0..MaxSent]]]
        /\ \A k \in Kinds, s, d \in Tasks :
             G[k][s][d] = IF k = kind /\ s = t /\ d = dest THEN n ELSE sent[k][s][d]
    BY <2>1, <2>2, OneCount
  <2> QED  BY <2>3 DEF G
<1>9. ASSUME NEW k \in Kinds, NEW s \in Tasks, NEW d \in Tasks
      PROVE  /\ last'[k][s][d] <= sent'[k][s][d]
             /\ Alive(d)' => Carries(queue'[k][d], s, last'[k][s][d], sent'[k][s][d])
  <2> DEFINE lo == last[k][s][d]
             hi == sent[k][s][d]
  <2>1. lo \in Nat /\ hi \in Nat /\ lo <= hi /\ last'[k][s][d] = lo
    BY <1>0, IpcConstants DEF Data, Delivered, Send
  <2>2. Alive(d)' => Carries(queue[k][d], s, lo, hi)
    BY <1>0, <1>3 DEF Data, InOrder, Alive
  <2>3. CASE k = kind /\ d = dest
    <3>1. queue[k][d] \in Seq(Message) /\ Carries(queue[k][d], s, lo, hi)
      BY <1>0, <1>4, <2>3 DEF Data, InOrder
    <3>2. m.from = t /\ m.n = n /\ (s = t => n = hi + 1)
      BY <2>3 DEF m, n
    <3> HIDE DEF lo, hi
    <3>3. Carries(Append(queue[k][d], m), s, lo, IF s = t THEN hi + 1 ELSE hi)
      BY <1>2, <2>1, <3>1, <3>2, CarriesAppend
    <3>4. sent'[k][s][d] = IF s = t THEN hi + 1 ELSE hi
      BY <1>8, <2>3, <3>2 DEF hi
    <3>5. queue'[k][d] = Append(queue[k][d], m)
      BY <1>7, <2>3
    <3> QED  BY <2>1, <3>3, <3>4, <3>5
  <2>4. CASE ~(k = kind /\ d = dest)
    BY <1>7, <1>8, <2>1, <2>2, <2>4
  <2> QED  BY <2>3, <2>4
<1>10. Data'
  BY <1>0, <1>6, <1>8, <1>9 DEF Data, Delivered, InOrder, Send
<1>11. DeadIsClean'
  <2> SUFFICES ASSUME NEW u \in Tasks \ Threads, ~Alive(u)'
               PROVE  /\ \A k \in Kinds : queue'[k][u] = << >>
                      /\ u \notin waiters' \cup cancelled'
    BY DEF DeadIsClean
  <2>1. ~Alive(u) /\ u # dest
    BY <1>3, <1>4 DEF Alive
  <2> QED  BY <1>0, <1>7, <2>1 DEF DeadIsClean, Send
<1> QED  BY <1>3, <1>10, <1>11, Parts, PartsNext DEF Send

\* cancel_recv().
LEMMA CancelInv ==
  ASSUME IpcInv, NEW t \in Tasks, NEW u \in Tasks, CancelRecv(t, u)
  PROVE  IpcInv'
<1>0. /\ SchedType(state, pc, current, waiters) /\ Stages(state, pc, current, waiters)
      /\ Data /\ DeadIsClean
  BY Parts
<1>1. /\ SchedType(state', pc, current, waiters) /\ Stages(state', pc, current, waiters)
      /\ \A v \in Tasks : state'[v] = "Finished" <=> state[v] = "Finished"
  BY <1>0, WakeStages DEF CancelRecv
<1>2. Data'
  BY <1>0, <1>1, QuietData DEF CancelRecv, Alive
<1>3. DeadIsClean'
  BY <1>0, <1>1 DEF DeadIsClean, CancelRecv, TaskExists, Alive
<1>4. cancelled' \subseteq Tasks
  BY Parts DEF CancelRecv
<1>5. caught' \in [Tasks -> {"none", "Ready", "Running", "Sleeping"}]
  <2>1. state[u] \in {"Ready", "Running", "Sleeping"}
    BY <1>0 DEF CancelRecv, TaskExists, Alive, SchedType
  <2> QED  BY <2>1, Parts DEF CancelRecv, Met
<1> QED  BY <1>1, <1>2, <1>3, <1>4, <1>5, Parts, PartsNext DEF CancelRecv

\* A receiving call with timeout_ms = 0.
LEMMA RecvNowInv ==
  ASSUME IpcInv, NEW t \in Tasks, NEW w \in Want, RecvNow(t, w)
  PROVE  IpcInv'
<1>0. /\ SchedType(state, pc, current, waiters) /\ Stages(state, pc, current, waiters)
      /\ Data /\ DeadIsClean
  BY Parts
<1>1. Alive(t)
  BY <1>0 DEF RecvNow, At, Stages, Alive
<1>2. /\ Data'
      /\ \A k \in Kinds, d \in Tasks : d # t => queue'[k][d] = queue[k][d]
  BY <1>0, <1>1, TakeData DEF RecvNow, Alive
<1>3. DeadIsClean'
  BY <1>0, <1>1, <1>2 DEF DeadIsClean, RecvNow, Alive
<1> QED  BY <1>0, <1>2, <1>3, Parts, PartsNext DEF RecvNow

\* A receiving call that may block begins.
LEMMA RecvStartInv ==
  ASSUME IpcInv, NEW t \in Tasks, NEW w \in Want, NEW ticks \in 1..Forever,
         RecvStart(t, w, ticks)
  PROVE  IpcInv'
<1>0. /\ SchedType(state, pc, current, waiters) /\ Stages(state, pc, current, waiters)
      /\ Data /\ DeadIsClean
  BY Parts
<1>1. SchedType(state, pc', current, waiters) /\ Stages(state, pc', current, waiters)
  BY <1>0 DEF RecvStart, At, Goto, SchedType, Stages, Location, Asleep, Enrolled
<1>2. Data' /\ DeadIsClean'
  BY <1>0, QuietData DEF RecvStart, Alive, DeadIsClean
<1>3. /\ timer' \in [Tasks -> 0..Forever] /\ want' \in [Tasks -> Want]
      /\ caught' \in [Tasks -> {"none", "Ready", "Running", "Sleeping"}]
  BY Parts, IpcConstants DEF RecvStart, Forever
<1> QED  BY <1>1, <1>2, <1>3, Parts, PartsNext DEF RecvStart

\* The head of the loop of a receiving call.
LEMMA RecvCheckInv ==
  ASSUME IpcInv, NEW t \in Tasks, RecvCheck(t)
  PROVE  IpcInv'
<1>0. /\ SchedType(state, pc, current, waiters) /\ Stages(state, pc, current, waiters)
      /\ Data /\ DeadIsClean
  BY Parts
<1>1. Alive(t)
  BY <1>0 DEF RecvCheck, At, Stages, Alive
<1>2. \E l \in {"idle", "register"} : Goto(t, l)
  BY DEF RecvCheck
<1>3. SchedType(state, pc', current, waiters) /\ Stages(state, pc', current, waiters)
  BY <1>0, <1>1, <1>2
     DEF RecvCheck, At, Goto, SchedType, Stages, Location, Asleep, Enrolled, Alive
<1>4. Data' /\ \A k \in Kinds, d \in Tasks : d # t => queue'[k][d] = queue[k][d]
  <2>1. CASE Take(t, want[t])
    <3>1. want[t] \in Want
      BY Parts
    <3> QED  BY <1>0, <1>1, <2>1, <3>1, TakeData DEF RecvCheck, Alive
  <2>2. CASE UNCHANGED <<queue, last>>
    BY <1>0, <2>2, QuietData DEF RecvCheck, Alive
  <2> QED  BY <2>1, <2>2 DEF RecvCheck
<1>5. DeadIsClean'
  BY <1>0, <1>1, <1>4 DEF DeadIsClean, RecvCheck, Alive
<1> QED  BY <1>3, <1>4, <1>5, Parts, PartsNext DEF RecvCheck

\* The registration in IPC_WAITERS.
LEMMA RegisterInv ==
  ASSUME IpcInv, NEW t \in Tasks, Register(t)
  PROVE  IpcInv'
<1>0. /\ SchedType(state, pc, current, waiters) /\ Stages(state, pc, current, waiters)
      /\ Data /\ DeadIsClean
  BY Parts
<1>1. Alive(t)
  BY <1>0 DEF Register, At, Stages, Alive
<1>2. SchedType(state, pc', current, waiters') /\ Stages(state, pc', current, waiters')
  BY <1>0, <1>1
     DEF Register, At, Goto, SchedType, Stages, Location, Asleep, Enrolled, Alive
<1>3. Data'
  BY <1>0, QuietData DEF Register, Alive
<1>4. DeadIsClean'
  BY <1>0, <1>1 DEF DeadIsClean, Register, Alive
<1> QED  BY <1>2, <1>3, <1>4, Parts, PartsNext DEF Register

\* set_current_sleeping().
LEMMA SleepInv ==
  ASSUME IpcInv, NEW t \in Tasks, Sleep(t)
  PROVE  IpcInv'
<1>0. /\ SchedType(state, pc, current, waiters) /\ Stages(state, pc, current, waiters)
      /\ Data /\ DeadIsClean
  BY Parts
<1>1. Alive(t) /\ pc[t] = "sleep" /\ current = t
  BY <1>0 DEF Sleep, At, Stages, Alive
<1>2. SchedType(state', pc', current, waiters)
  BY <1>0 DEF Sleep, Goto, SchedType, Location
<1>3. ASSUME NEW u \in Tasks
      PROVE  /\ state'[u] = IF u = t THEN "Sleeping" ELSE state[u]
             /\ pc'[u] = IF u = t THEN "recheck" ELSE pc[u]
  BY <1>0 DEF Sleep, Goto, SchedType
<1>4. Stages(state', pc', current, waiters)
  BY <1>0, <1>1, <1>3 DEF Stages, Asleep, Enrolled, Alive
<1>5. Data'
  BY <1>0, <1>1, <1>3, QuietData DEF Sleep, Alive
<1>6. DeadIsClean'
  BY <1>0, <1>1, <1>3 DEF DeadIsClean, Sleep, Alive
<1> QED  BY <1>2, <1>4, <1>5, <1>6, Parts, PartsNext DEF Sleep

\* The second look at the queue, between set_current_sleeping() and yield_now().
LEMMA DoubleCheckInv ==
  ASSUME IpcInv, NEW t \in Tasks, DoubleCheck(t)
  PROVE  IpcInv'
<1>0. /\ SchedType(state, pc, current, waiters) /\ Stages(state, pc, current, waiters)
      /\ Data /\ DeadIsClean
  BY Parts
<1>1. Alive(t) /\ pc[t] = "recheck" /\ current = t
  BY <1>0 DEF DoubleCheck, At, Stages, Alive
<1>2. PICK l \in {"claimed", "yield"} : Goto(t, l)
  BY DEF DoubleCheck
<1>3. SchedType(state, pc', current, waiters) /\ Stages(state, pc', current, waiters)
  BY <1>0, <1>1, <1>2 DEF Goto, SchedType, Stages, Location, Asleep, Enrolled, Alive
<1>4. Data' /\ \A k \in Kinds, d \in Tasks : d # t => queue'[k][d] = queue[k][d]
  <2>1. CASE Take(t, want[t])
    <3>1. want[t] \in Want
      BY Parts
    <3> QED  BY <1>0, <1>1, <2>1, <3>1, TakeData DEF DoubleCheck, Alive
  <2>2. CASE UNCHANGED <<queue, last>>
    BY <1>0, <2>2, QuietData DEF DoubleCheck, Alive
  <2> QED  BY <2>1, <2>2 DEF DoubleCheck
<1>5. DeadIsClean'
  BY <1>0, <1>1, <1>4 DEF DeadIsClean, DoubleCheck, Alive
<1> QED  BY <1>3, <1>4, <1>5, Parts, PartsNext DEF DoubleCheck

\* wake_task(self), with the message taken.
LEMMA WakeSelfInv ==
  ASSUME IpcInv, NEW t \in Tasks, WakeSelf(t)
  PROVE  IpcInv'
<1>0. /\ SchedType(state, pc, current, waiters) /\ Stages(state, pc, current, waiters)
      /\ Data /\ DeadIsClean
  BY Parts
<1>1. Alive(t) /\ pc[t] = "claimed" /\ current = t
  BY <1>0 DEF WakeSelf, At, Stages, Alive
<1>2. ASSUME NEW u \in Tasks
      PROVE  /\ state'[u] = IF u = t /\ state[u] = "Sleeping" THEN "Ready" ELSE state[u]
             /\ pc'[u] = IF u = t THEN "leave" ELSE pc[u]
  BY <1>0 DEF WakeSelf, Goto, SchedType, WakeTask
<1>3. SchedType(state', pc', current, waiters)
  BY <1>0 DEF WakeSelf, Goto, SchedType, WakeTask, Location
<1>4. Stages(state', pc', current, waiters)
  BY <1>0, <1>1, <1>2 DEF Stages, Asleep, Enrolled, Alive
<1>5. Data' /\ DeadIsClean'
  BY <1>0, <1>1, <1>2, QuietData DEF WakeSelf, Alive, DeadIsClean
<1> QED  BY <1>3, <1>4, <1>5, Parts, PartsNext DEF WakeSelf

\* The return with the message.
LEMMA LeaveInv ==
  ASSUME IpcInv, NEW t \in Tasks, Leave(t)
  PROVE  IpcInv'
<1>0. /\ SchedType(state, pc, current, waiters) /\ Stages(state, pc, current, waiters)
      /\ Data /\ DeadIsClean
  BY Parts
<1>1. Alive(t) /\ pc[t] = "leave" /\ current = t /\ state[t] # "Sleeping"
  BY <1>0 DEF Leave, At, Stages, Alive, Asleep
<1>2. SchedType(state, pc', current, waiters') /\ Stages(state, pc', current, waiters')
  BY <1>0, <1>1 DEF Leave, Goto, SchedType, Stages, Location, Asleep, Enrolled, Alive
<1>3. Data' /\ DeadIsClean'
  BY <1>0, QuietData DEF Leave, Alive, DeadIsClean
<1> QED  BY <1>2, <1>3, Parts, PartsNext DEF Leave

\* yield_now() in a receiving call.
LEMMA RecvYieldInv ==
  ASSUME IpcInv, NEW t \in Tasks, RecvYield(t)
  PROVE  IpcInv'
<1>0. /\ SchedType(state, pc, current, waiters) /\ Stages(state, pc, current, waiters)
      /\ Data /\ DeadIsClean
  BY Parts
<1>1. Alive(t) /\ pc[t] = "yield" /\ current = t
  BY <1>0 DEF RecvYield, At, Stages, Alive
<1>2. PICK nxt \in (Tasks \cup {Idle}) \ {current} :
        /\ nxt \in Tasks => state[nxt] = "Ready"
        /\ current' = nxt /\ state' = SwitchTo(state, nxt)
  BY DEF RecvYield, Yield
<1>3. ASSUME NEW u \in Tasks PROVE pc'[u] = IF u = t THEN "woken" ELSE pc[u]
  BY <1>0 DEF RecvYield, Goto, SchedType
<1>4. SchedType(state, pc', current, waiters)
  BY <1>0 DEF RecvYield, Goto, SchedType, Location
<1>5. \A u \in Tasks : /\ state[u] = "Finished" <=> pc'[u] = "dead"
                       /\ state[u] = "Sleeping" => pc'[u] \in Asleep
                       /\ state[u] # "Finished" => (u \in waiters <=> pc'[u] \in Enrolled)
  BY <1>0, <1>1, <1>3 DEF Stages, Asleep, Enrolled, Alive
<1>6. /\ SchedType(state', pc', current', waiters) /\ Stages(state', pc', current', waiters)
      /\ \A u \in Tasks : state'[u] = "Finished" <=> state[u] = "Finished"
  <2> DEFINE p == pc'
  <2> HIDE DEF p
  <2>1. /\ SchedType(SwitchTo(state, nxt), p, nxt, waiters)
        /\ Stages(SwitchTo(state, nxt), p, nxt, waiters)
        /\ \A u \in Tasks : SwitchTo(state, nxt)[u] = "Finished" <=> state[u] = "Finished"
    BY <1>2, <1>4, <1>5, SwitchStages DEF p
  <2> QED  BY <1>2, <2>1 DEF p
<1>7. Data' /\ DeadIsClean'
  BY <1>0, <1>6, QuietData DEF RecvYield, Alive, DeadIsClean
<1> QED  BY <1>6, <1>7, Parts, PartsNext DEF RecvYield

\* Back from yield_now().
LEMMA WokenInv ==
  ASSUME IpcInv, NEW t \in Tasks, Woken(t)
  PROVE  IpcInv'
<1>0. /\ SchedType(state, pc, current, waiters) /\ Stages(state, pc, current, waiters)
      /\ Data /\ DeadIsClean
  BY Parts
<1>1. Alive(t) /\ pc[t] = "woken" /\ current = t /\ state[t] # "Sleeping"
  BY <1>0 DEF Woken, At, Stages, Alive
<1>2. SchedType(state, pc', current, waiters') /\ Stages(state, pc', current, waiters')
  BY <1>0, <1>1 DEF Woken, Goto, SchedType, Stages, Location, Asleep, Enrolled, Alive
<1>3. Data' /\ DeadIsClean'
  BY <1>0, QuietData DEF Woken, Alive, DeadIsClean
<1> QED  BY <1>2, <1>3, Parts, PartsNext DEF Woken

\* The look at IPC_CANCELLED.
LEMMA CancelCheckInv ==
  ASSUME IpcInv, NEW t \in Tasks, CancelCheck(t)
  PROVE  IpcInv'
<1>0. /\ SchedType(state, pc, current, waiters) /\ Stages(state, pc, current, waiters)
      /\ Data /\ DeadIsClean
  BY Parts
<1>1. Alive(t) /\ pc[t] = "flag" /\ current = t /\ state[t] # "Sleeping"
  BY <1>0 DEF CancelCheck, At, Stages, Alive, Asleep
<1>2. PICK l \in {"idle", "check"} : Goto(t, l)
  BY DEF CancelCheck
<1>3. SchedType(state, pc', current, waiters) /\ Stages(state, pc', current, waiters)
  BY <1>0, <1>1, <1>2
     DEF Goto, SchedType, Stages, Location, Asleep, Enrolled, Alive
<1>4. Data' /\ DeadIsClean'
  BY <1>0, QuietData DEF CancelCheck, Alive, DeadIsClean
<1> QED  BY <1>3, <1>4, Parts, PartsNext DEF CancelCheck

\* The timer interrupt.
LEMMA TickInv ==
  ASSUME IpcInv, NEW nxt \in Tasks \cup {Idle}, Tick(nxt)
  PROVE  IpcInv'
<1>0. /\ SchedType(state, pc, current, waiters) /\ Stages(state, pc, current, waiters)
      /\ Data /\ DeadIsClean
  BY Parts
<1> DEFINE st == [t \in Tasks |-> IF state[t] = "Sleeping" /\ Elapse[t] = 0
                                   THEN "Ready" ELSE state[t]]
<1>1. SchedType(st, pc, current, waiters) /\ Stages(st, pc, current, waiters)
  BY <1>0 DEF SchedType, Stages
<1>2. \A t \in Tasks : st[t] = "Finished" <=> state[t] = "Finished"
  OBVIOUS
<1>3. timer' \in [Tasks -> 0..Forever]
  <2>1. \A t \in Tasks : timer[t] \in 0..Forever
    BY Parts
  <2> QED  BY <2>1, IpcConstants DEF Tick, Elapse, Forever
<1>4. current' = nxt /\ ((nxt = current /\ state' = st)
                           \/ /\ nxt # current /\ state' = SwitchTo(st, nxt)
                              /\ nxt \in Tasks => st[nxt] = "Ready")
  BY DEF Tick
<1> HIDE DEF st
<1>5. /\ SchedType(state', pc, current', waiters) /\ Stages(state', pc, current', waiters)
      /\ \A u \in Tasks : state'[u] = "Finished" <=> state[u] = "Finished"
  <2>1. CASE nxt = current /\ state' = st
    BY <1>1, <1>2, <1>4, <2>1
  <2>2. CASE nxt # current /\ state' = SwitchTo(st, nxt) /\ (nxt \in Tasks => st[nxt] = "Ready")
    <3>1. \A t \in Tasks : /\ st[t] = "Finished" <=> pc[t] = "dead"
                           /\ st[t] = "Sleeping" => pc[t] \in Asleep
                           /\ st[t] # "Finished" => (t \in waiters <=> pc[t] \in Enrolled)
      BY <1>1 DEF Stages
    <3>2. /\ SchedType(SwitchTo(st, nxt), pc, nxt, waiters)
          /\ Stages(SwitchTo(st, nxt), pc, nxt, waiters)
          /\ \A u \in Tasks : SwitchTo(st, nxt)[u] = "Finished" <=> st[u] = "Finished"
      BY <1>1, <2>2, <3>1, SwitchStages
    <3> QED  BY <1>2, <1>4, <2>2, <3>2
  <2> QED  BY <1>4, <2>1, <2>2
<1>6. Data' /\ DeadIsClean'
  BY <1>0, <1>5, QuietData DEF Tick, Alive, DeadIsClean
<1> QED  BY <1>3, <1>5, <1>6, Parts, PartsNext DEF Tick

\* cleanup_task(u) when the tasks of dead end, u among them: the others keep what
\* they have queued, and whoever cleans up behind itself is clean.
LEMMA CleanupData ==
  ASSUME Data, DeadIsClean, NEW u \in Tasks, NEW dead \in SUBSET Tasks, Cleanup(u),
         u \in dead, dead \ {u} \subseteq Threads, UNCHANGED <<sent, last>>,
         \A t \in Tasks : Alive(t)' <=> Alive(t) /\ t \notin dead
  PROVE  Data' /\ DeadIsClean'
<1>1. \A k \in Kinds, d \in Tasks :
        queue'[k][d] = IF d = u THEN << >> ELSE queue[k][d]
  BY DEF Cleanup, Data
<1>2. queue' \in [Kinds -> [Tasks -> Seq(Message)]]
  <2>1. << >> \in Seq(Message)
    OBVIOUS
  <2> QED  BY <2>1 DEF Cleanup, Data
<1>3. InOrder'
  BY <1>1 DEF InOrder, Data
<1>4. DeadIsClean'
  BY <1>1 DEF DeadIsClean, Cleanup
<1> QED  BY <1>2, <1>3, <1>4 DEF Data, Delivered

\* The stages after the tasks of dead have ended and u has been cleaned up.
LEMMA DieStages ==
  ASSUME SchedType(state, pc, current, waiters), Stages(state, pc, current, waiters),
         NEW dead \in SUBSET Tasks, NEW u \in dead
  PROVE  /\ SchedType(Die(dead), DeadAt(dead), current, waiters \ {u})
         /\ Stages(Die(dead), DeadAt(dead), current, waiters \ {u})
         /\ \A t \in Tasks : Die(dead)[t] = "Finished" <=> state[t] = "Finished" \/ t \in dead
<1>1. SchedType(Die(dead), DeadAt(dead), current, waiters \ {u})
  BY DEF SchedType, Die, DeadAt, Location
<1>2. ASSUME NEW t \in Tasks
      PROVE  /\ Die(dead)[t] = IF t \in dead THEN "Finished" ELSE state[t]
             /\ DeadAt(dead)[t] = IF t \in dead THEN "dead" ELSE pc[t]
  BY DEF Die, DeadAt
<1>3. Stages(Die(dead), DeadAt(dead), current, waiters \ {u})
  BY <1>2 DEF Stages
<1> QED  BY <1>1, <1>2, <1>3

\* SYS_EXIT, SYS_THREAD_EXIT and faults.
LEMMA ExitInv ==
  ASSUME IpcInv, NEW t \in Tasks, NEW dead \in {{t}, {t} \cup Threads}, Exit(t, dead)
  PROVE  IpcInv'
<1>0. /\ SchedType(state, pc, current, waiters) /\ Stages(state, pc, current, waiters)
      /\ Data /\ DeadIsClean
  BY Parts
<1>1. dead \in SUBSET Tasks /\ t \in dead /\ dead \ {t} \subseteq Threads
  BY IpcConstants
<1>2. /\ SchedType(Die(dead), DeadAt(dead), current, waiters \ {t})
      /\ Stages(Die(dead), DeadAt(dead), current, waiters \ {t})
      /\ \A u \in Tasks : Die(dead)[u] = "Finished" <=> state[u] = "Finished" \/ u \in dead
  BY <1>0, <1>1, DieStages
<1>3. PICK nxt \in (Tasks \cup {Idle}) \ {current} :
        /\ nxt \in Tasks => Die(dead)[nxt] = "Ready"
        /\ current' = nxt /\ state' = SwitchTo(Die(dead), nxt)
  BY DEF Exit, Yield
<1>4. /\ SchedType(state', pc', current', waiters') /\ Stages(state', pc', current', waiters')
      /\ \A u \in Tasks : state'[u] = "Finished" <=> Die(dead)[u] = "Finished"
  <2> DEFINE st == Die(dead)
             p == DeadAt(dead)
             w == waiters \ {t}
  <2>1. pc' = p /\ waiters' = w
    BY DEF Exit, Cleanup
  <2>2. \A u \in Tasks : /\ st[u] = "Finished" <=> p[u] = "dead"
                         /\ st[u] = "Sleeping" => p[u] \in Asleep
                         /\ st[u] # "Finished" => (u \in w <=> p[u] \in Enrolled)
    BY <1>2 DEF Stages
  <2>3. SchedType(st, p, current, w)
    BY <1>2
  <2>4. current' = nxt /\ state' = SwitchTo(st, nxt) /\ (nxt \in Tasks => st[nxt] = "Ready")
    BY <1>3
  <2> HIDE DEF st, p, w
  <2>5. /\ SchedType(SwitchTo(st, nxt), p, nxt, w) /\ Stages(SwitchTo(st, nxt), p, nxt, w)
        /\ \A u \in Tasks : SwitchTo(st, nxt)[u] = "Finished" <=> st[u] = "Finished"
    BY <2>2, <2>3, <2>4, SwitchStages
  <2> QED  BY <2>1, <2>4, <2>5 DEF st
<1>5. Data' /\ DeadIsClean'
  <2>1. \A u \in Tasks : Alive(u)' <=> Alive(u) /\ u \notin dead
    BY <1>2, <1>4 DEF Alive
  <2> QED  BY <1>0, <1>1, <2>1, CleanupData DEF Exit
<1>6. cancelled' \subseteq Tasks
  BY Parts DEF Exit, Cleanup
<1> QED  BY <1>4, <1>5, <1>6, Parts, PartsNext DEF Exit

\* SYS_KILL.
LEMMA KillInv ==
  ASSUME IpcInv, NEW t \in Tasks, NEW u \in Tasks, Kill(t, u)
  PROVE  IpcInv'
<1>0. /\ SchedType(state, pc, current, waiters) /\ Stages(state, pc, current, waiters)
      /\ Data /\ DeadIsClean
  BY Parts
<1>1. {u} \in SUBSET Tasks /\ u \in {u} /\ {u} \ {u} \subseteq Threads
  OBVIOUS
<1>2. /\ SchedType(Die({u}), DeadAt({u}), current, waiters \ {u})
      /\ Stages(Die({u}), DeadAt({u}), current, waiters \ {u})
      /\ \A v \in Tasks : Die({u})[v] = "Finished" <=> state[v] = "Finished" \/ v \in {u}
  BY <1>0, <1>1, DieStages
<1>3. Data' /\ DeadIsClean'
  <2>1. \A v \in Tasks : Alive(v)' <=> Alive(v) /\ v \notin {u}
    BY <1>2 DEF Alive, Kill
  <2> QED  BY <1>0, <1>1, <2>1, CleanupData DEF Kill
<1>4. cancelled' \subseteq Tasks
  BY Parts DEF Kill, Cleanup
<1> QED  BY <1>2, <1>3, <1>4, Parts, PartsNext DEF Kill, Cleanup

-----------------------------------------------------------------------------
(* The theorems.                                                           *)

\* Every step of the message queues and of the scheduler keeps IpcInv.
LEMMA NextInv == IpcInv /\ [Next]_vars => IpcInv'
<1> SUFFICES ASSUME IpcInv, [Next]_vars PROVE IpcInv'
  OBVIOUS
<1>1. CASE UNCHANGED vars
  <2>1. UNCHANGED <<current, state, timer, pc, want, queue, waiters, cancelled, sent, last, caught>>
    BY <1>1 DEF vars
  <2> QED
    BY <2>1 DEF IpcInv, TypeOK, Stages, Delivered, InOrder, DeadIsClean, Alive
<1>2. CASE \E nxt \in Tasks \cup {Idle} : Tick(nxt)
  BY <1>2, TickInv
<1>3. ASSUME NEW t \in Tasks, Call(t) PROVE IpcInv'
  <2>1. Receivers \subseteq Tasks
    BY IpcConstants
  <2>2. CASE \E k \in Kinds, u \in Receivers : Send(t, k, u)
    BY <2>1, <2>2, SendInv
  <2>3. CASE \E u \in Receivers : CancelRecv(t, u)
    BY <2>1, <2>3, CancelInv
  <2>4. CASE \E w \in Want : RecvNow(t, w) \/ \E d \in 1..Forever : RecvStart(t, w, d)
    BY <2>4, RecvNowInv, RecvStartInv
  <2>5. CASE \E dead \in {{t}, {t} \cup Threads} : Exit(t, dead)
    <3>1. PICK dead \in {{t}, {t} \cup Threads} : Exit(t, dead)
      BY <2>5
    <3> QED  BY <3>1, ExitInv
  <2>6. CASE \E u \in Tasks : Kill(t, u)
    BY <2>6, KillInv
  <2> QED  BY <1>3, <2>2, <2>3, <2>4, <2>5, <2>6 DEF Call
<1>4. ASSUME NEW t \in Tasks, RecvStep(t) PROVE IpcInv'
  BY <1>4, RecvCheckInv, RegisterInv, SleepInv, DoubleCheckInv, WakeSelfInv, LeaveInv,
     RecvYieldInv, WokenInv, CancelCheckInv
     DEF RecvStep
<1> QED  BY <1>1, <1>2, <1>3, <1>4 DEF Next

\* In every behaviour of ipc.rs the queues, the sets of waiters and of cancelled
\* receivers and the stages of the receiving calls agree.
THEOREM Invariant == Spec => []IpcInv
BY InitInv, NextInv, PTL DEF Spec

\* The variables of ipc.rs keep their types, and no deadline goes below zero.
THEOREM TypeCorrect == Spec => []TypeOK
<1>1. IpcInv => TypeOK
  BY DEF IpcInv
<1> QED  BY <1>1, Invariant, PTL

\* send(), recv() and recv_from(): between one sender and one receiver nothing is
\* lost, doubled or reordered.
THEOREM FifoPerSender == Spec => []InOrder
<1>1. IpcInv => InOrder
  BY DEF IpcInv
<1> QED  BY <1>1, Invariant, PTL

\* A receiver that is marked Sleeping is in IPC_WAITERS, and wake_if_waiting() only ever
\* wakes a task that waits for a message.
THEOREM WaitersAreSound == Spec => []WaitersSound
<1>1. IpcInv => WaitersSound
  BY DEF IpcInv, TypeOK, Stages, WaitersSound, Alive, Asleep, Enrolled
<1> QED  BY <1>1, Invariant, PTL

\* cleanup_task() is final: what it has emptied stays empty.
THEOREM CleanupIsFinal == Spec => []DeadIsClean
<1>1. IpcInv => DeadIsClean
  BY DEF IpcInv
<1> QED  BY <1>1, Invariant, PTL

=============================================================================
