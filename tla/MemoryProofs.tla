---------------------------- MODULE MemoryProofs ----------------------------
(***************************************************************************)
(* Proofs about Memory: the kernel heap, for any slabs, any sizes and      *)
(* alignments and any number of calls; and lemmas about the frame          *)
(* allocator, for any regions, which SpaceProofs puts to use.              *)
(***************************************************************************)
EXTENDS Memory, FiniteSetTheorems, SequenceTheorems, WellFoundedInduction, TLAPS

-----------------------------------------------------------------------------
(* Numbers.                                                                *)

\* The order of the natural numbers is well founded, so a set of them that is
\* not empty has a least element.  The library's induction theorems take an
\* operator; this one takes a set, and the provers can use it.
LEMMA LeastNumber ==
  ASSUME NEW T, T # {}, \A y \in T : y \in Nat
  PROVE  \E x \in T : \A y \in T : x <= y
<1> DEFINE R == OpToRel(<, Nat)
<1>1. IsWellFoundedOn(R, Nat)
  BY NatLessThanWellFounded
<1> HIDE DEF R
<1>2. PICK x \in T : \A y \in T : ~(<<y, x>> \in R)
  BY <1>1, WFMin
<1>3. \A y \in T : y < x => <<y, x>> \in R
  BY DEF R, OpToRel
<1>4. \A y \in T : ~(y < x)
  BY <1>2, <1>3, Zenon
<1>5. \A y \in T : x <= y
  BY <1>4
<1> QED  BY <1>5

\* What Min takes out of a set of numbers.
LEMMA MinIs ==
  ASSUME NEW T, T # {}, \A y \in T : y \in Nat
  PROVE  Min(T) \in T /\ \A y \in T : Min(T) <= y
<1>1. \E x \in T : \A y \in T : x <= y
  BY LeastNumber
<1> QED  BY <1>1 DEF Min

\* Induction, with a set for the predicate.
LEMMA SetInduction ==
  ASSUME NEW T, 0 \in T, \A n \in Nat : n \in T => n + 1 \in T
  PROVE  \A n \in Nat : n \in T
<1> SUFFICES ASSUME ~(\A n \in Nat : n \in T) PROVE FALSE
  OBVIOUS
<1> DEFINE U == {n \in Nat : n \notin T}
<1>1. U # {} /\ \A y \in U : y \in Nat
  OBVIOUS
<1>2. PICK x \in U : \A y \in U : x <= y
  <2> HIDE DEF U
  <2> QED  BY <1>1, LeastNumber
<1>3. x # 0 /\ x \in Nat
  OBVIOUS
<1>4. x - 1 \in Nat /\ x - 1 < x /\ (x - 1) + 1 = x
  BY <1>3
<1>5. x - 1 \in T
  BY <1>2, <1>4
<1> QED  BY <1>4, <1>5

\* f[n] is F applied n times to g, for n from 0 to m.
Iteration(f, S, F, g, m) ==
  /\ f \in [0..m -> S]
  /\ \A n \in 0..m : f[n] = IF n = 0 THEN g ELSE F[f[n - 1]]

\* A function that is defined like that by recursion exists.
LEMMA Iterates ==
  ASSUME NEW S, NEW F \in [S -> S], NEW g \in S, NEW m \in Nat
  PROVE  \E f : Iteration(f, S, F, g, m)
<1> DEFINE Good(k, f) == f \in [0..k -> S] /\ \A n \in 0..k : f[n] = IF n = 0 THEN g ELSE F[f[n - 1]]
           T == {k \in Nat : \E f : Good(k, f)}
<1>1. 0 \in T
  <2>1. Good(0, [n \in 0..0 |-> g])
    OBVIOUS
  <2> QED  BY <2>1
<1>2. ASSUME NEW k \in Nat, k \in T
      PROVE  k + 1 \in T
  <2>1. PICK f : Good(k, f)
    BY <1>2
  <2> DEFINE e == [n \in 0..k + 1 |-> IF n <= k THEN f[n] ELSE F[f[k]]]
  <2>2. e \in [0..k + 1 -> S]
    BY <2>1
  <2>3. ASSUME NEW n \in 0..k + 1
        PROVE  e[n] = IF n = 0 THEN g ELSE F[e[n - 1]]
    <3>1. CASE n <= k
      <4>1. n = 0 \/ n - 1 \in 0..k
        BY <3>1
      <4> QED  BY <2>1, <3>1, <4>1
    <3>2. CASE n = k + 1
      <4>1. e[n] = F[f[k]] /\ e[k] = f[k] /\ n - 1 = k /\ n # 0
        BY <3>2
      <4> QED  BY <4>1
    <3> QED  BY <3>1, <3>2
  <2>4. Good(k + 1, e)
    <3> HIDE DEF e
    <3> QED  BY <2>2, <2>3
  <2> HIDE DEF e, Good
  <2> QED  BY <2>4
<1>3. m \in T
  <2> HIDE DEF T
  <2> QED  BY <1>1, <1>2, SetInduction
<1>4. PICK f : Good(m, f)
  BY <1>3
<1> QED  BY <1>4 DEF Iteration

-----------------------------------------------------------------------------
(* Sequences.                                                              *)

\* A sequence without its element i.
LEMMA RemoveAtIs ==
  ASSUME NEW S, NEW q \in Seq(S), NEW i \in 1..Len(q)
  PROVE  /\ RemoveAt(q, i) \in Seq(S)
         /\ Len(RemoveAt(q, i)) = Len(q) - 1
         /\ \A j \in 1..Len(q) - 1 : RemoveAt(q, i)[j] = IF j < i THEN q[j] ELSE q[j + 1]
<1> DEFINE a == SubSeq(q, 1, i - 1)
           b == SubSeq(q, i + 1, Len(q))
<1>0. Len(q) \in Nat /\ i \in Nat
  OBVIOUS
<1>1. a \in Seq(S) /\ Len(a) = i - 1 /\ \A j \in 1..i - 1 : a[j] = q[j]
  OBVIOUS
<1>2. b \in Seq(S) /\ Len(b) = Len(q) - i /\ \A j \in 1..Len(q) - i : b[j] = q[i + j]
  OBVIOUS
<1> HIDE DEF a, b
<1>3. a \o b \in Seq(S) /\ Len(a \o b) = Len(a) + Len(b)
  BY <1>1, <1>2, ConcatProperties
<1>4. ASSUME NEW j \in 1..Len(q) - 1
      PROVE  (a \o b)[j] = IF j < i THEN q[j] ELSE q[j + 1]
  <2>1. (a \o b)[j] = IF j <= Len(a) THEN a[j] ELSE b[j - Len(a)]
    BY <1>0, <1>1, <1>2, ConcatProperties
  <2>2. CASE j < i
    BY <1>0, <1>1, <2>1, <2>2
  <2>3. CASE ~(j < i)
    <3>1. j - Len(a) \in 1..Len(q) - i /\ ~(j <= Len(a)) /\ i + (j - Len(a)) = j + 1
      BY <1>0, <1>1, <2>3
    <3>2. b[j - Len(a)] = q[j + 1]
      BY <1>2, <3>1
    <3> QED  BY <2>1, <2>3, <3>1, <3>2
  <2> QED  BY <2>2, <2>3
<1>5. RemoveAt(q, i) = a \o b
  BY DEF RemoveAt, a, b
<1>6. Len(a \o b) = Len(q) - 1
  BY <1>0, <1>1, <1>2, <1>3
<1> QED  BY <1>3, <1>4, <1>5, <1>6

\* A sequence with e in front of its element i, or behind its last.
LEMMA InsertAtIs ==
  ASSUME NEW S, NEW q \in Seq(S), NEW i \in 1..Len(q) + 1, NEW e \in S
  PROVE  /\ InsertAt(q, i, e) \in Seq(S)
         /\ Len(InsertAt(q, i, e)) = Len(q) + 1
         /\ \A j \in 1..Len(q) + 1 :
              InsertAt(q, i, e)[j] = IF j < i THEN q[j] ELSE IF j = i THEN e ELSE q[j - 1]
<1> DEFINE a == SubSeq(q, 1, i - 1)
           b == SubSeq(q, i, Len(q))
           c == a \o <<e>>
<1>0. Len(q) \in Nat /\ i \in Nat
  OBVIOUS
<1>1. a \in Seq(S) /\ Len(a) = i - 1 /\ \A j \in 1..i - 1 : a[j] = q[j]
  OBVIOUS
<1>2. b \in Seq(S) /\ Len(b) = Len(q) + 1 - i /\ \A j \in 1..Len(q) + 1 - i : b[j] = q[i + j - 1]
  OBVIOUS
<1> HIDE DEF a, b
<1>3. c \in Seq(S) /\ Len(c) = i /\ c[i] = e /\ \A j \in 1..i - 1 : c[j] = q[j]
  <2>1. c = Append(a, e)
    BY <1>1
  <2>2. c \in Seq(S) /\ Len(c) = Len(a) + 1 /\ c[Len(a) + 1] = e /\ \A j \in 1..Len(a) : c[j] = a[j]
    BY <1>1, <2>1, AppendProperties
  <2>3. Len(a) + 1 = i
    BY <1>0, <1>1
  <2> QED  BY <1>1, <2>2, <2>3
<1> HIDE DEF c
<1>4. c \o b \in Seq(S) /\ Len(c \o b) = Len(c) + Len(b)
  BY <1>2, <1>3, ConcatProperties
<1>5. ASSUME NEW j \in 1..Len(q) + 1
      PROVE  (c \o b)[j] = IF j < i THEN q[j] ELSE IF j = i THEN e ELSE q[j - 1]
  <2>1. (c \o b)[j] = IF j <= Len(c) THEN c[j] ELSE b[j - Len(c)]
    BY <1>0, <1>2, <1>3, ConcatProperties
  <2>2. CASE j <= i
    BY <1>0, <1>3, <2>1, <2>2
  <2>3. CASE ~(j <= i)
    <3>1. j - Len(c) \in 1..Len(q) + 1 - i /\ ~(j <= Len(c)) /\ i + (j - Len(c)) - 1 = j - 1
      BY <1>0, <1>3, <2>3
    <3>2. b[j - Len(c)] = q[j - 1]
      BY <1>2, <3>1
    <3> QED  BY <1>0, <2>1, <2>3, <3>1, <3>2
  <2> QED  BY <1>0, <2>2, <2>3
<1>6. InsertAt(q, i, e) = c \o b
  BY DEF InsertAt, a, b, c
<1>7. Len(c \o b) = Len(q) + 1
  BY <1>0, <1>2, <1>3, <1>4
<1> QED  BY <1>4, <1>5, <1>6, <1>7

-----------------------------------------------------------------------------
(* Lists of free blocks.                                                   *)

Span == [at : Int, size : Int]
Spans == Seq(Span)

\* Where a block of the list starts, and where it ends.
StartOf(s, i) == s[i].at
EndOf(s, i) == s[i].at + s[i].size

\* A list of blocks between two addresses, in the order of their addresses.
FreeList(s, lo, hi) ==
  /\ s \in Spans
  /\ \A i \in 1..Len(s) : lo <= StartOf(s, i) /\ StartOf(s, i) < EndOf(s, i) /\ EndOf(s, i) <= hi
  /\ \A i, j \in 1..Len(s) : i < j => EndOf(s, i) <= StartOf(s, j)

\* There is memory between each block and the next, except behind the blocks in E.
GapsBut(s, E) ==
  \A k \in 1..Len(s) - 1 : k \notin E => EndOf(s, k) < StartOf(s, k + 1)

\* No block of the list has memory between two addresses.
Clear(s, a, z) ==
  \A k \in 1..Len(s) : EndOf(s, k) <= a \/ z <= StartOf(s, k)

\* What a list in Spans holds.
LEMMA SpansHold ==
  ASSUME NEW s \in Spans
  PROVE  /\ Len(s) \in Nat
         /\ \A i \in 1..Len(s) : s[i] \in Span /\ StartOf(s, i) \in Int /\ EndOf(s, i) \in Int
<1>1. s \in Seq(Span)
  BY DEF Spans
<1>2. Len(s) \in Nat /\ \A i \in 1..Len(s) : s[i] \in Span
  BY <1>1
<1>3. \A i \in 1..Len(s) : s[i].at \in Int /\ s[i].size \in Int
  BY <1>2 DEF Span
<1> QED  BY <1>2, <1>3 DEF StartOf, EndOf

\* RemoveAt, on a list of blocks.
LEMMA SpanRemoved ==
  ASSUME NEW s \in Spans, NEW i \in 1..Len(s)
  PROVE  /\ RemoveAt(s, i) \in Spans
         /\ Len(RemoveAt(s, i)) = Len(s) - 1
         /\ \A j \in 1..Len(s) - 1 :
              /\ StartOf(RemoveAt(s, i), j) = IF j < i THEN StartOf(s, j) ELSE StartOf(s, j + 1)
              /\ EndOf(RemoveAt(s, i), j) = IF j < i THEN EndOf(s, j) ELSE EndOf(s, j + 1)
<1>0. s \in Seq(Span)
  BY DEF Spans
<1>1. /\ RemoveAt(s, i) \in Seq(Span)
      /\ Len(RemoveAt(s, i)) = Len(s) - 1
      /\ \A j \in 1..Len(s) - 1 : RemoveAt(s, i)[j] = IF j < i THEN s[j] ELSE s[j + 1]
  BY <1>0, RemoveAtIs, Zenon
<1>2. RemoveAt(s, i) \in Spans
  BY <1>1 DEF Spans
<1> QED  BY <1>1, <1>2 DEF StartOf, EndOf

\* InsertAt, on a list of blocks.
LEMMA SpanInserted ==
  ASSUME NEW s \in Spans, NEW i \in 1..Len(s) + 1, NEW e \in Span
  PROVE  /\ InsertAt(s, i, e) \in Spans
         /\ Len(InsertAt(s, i, e)) = Len(s) + 1
         /\ \A j \in 1..Len(s) + 1 :
              /\ StartOf(InsertAt(s, i, e), j) =
                   IF j < i THEN StartOf(s, j) ELSE IF j = i THEN e.at ELSE StartOf(s, j - 1)
              /\ EndOf(InsertAt(s, i, e), j) =
                   IF j < i THEN EndOf(s, j) ELSE IF j = i THEN e.at + e.size ELSE EndOf(s, j - 1)
<1>0. s \in Seq(Span)
  BY DEF Spans
<1>1. /\ InsertAt(s, i, e) \in Seq(Span)
      /\ Len(InsertAt(s, i, e)) = Len(s) + 1
      /\ \A j \in 1..Len(s) + 1 :
              InsertAt(s, i, e)[j] = IF j < i THEN s[j] ELSE IF j = i THEN e ELSE s[j - 1]
  <2>1. ASSUME NEW q \in Seq(Span), NEW j \in 1..Len(q) + 1
        PROVE  /\ InsertAt(q, j, e) \in Seq(Span)
               /\ Len(InsertAt(q, j, e)) = Len(q) + 1
               /\ \A k \in 1..Len(q) + 1 :
                    InsertAt(q, j, e)[k] = IF k < j THEN q[k] ELSE IF k = j THEN e ELSE q[k - 1]
    BY InsertAtIs
  <2> QED  BY <1>0, <2>1
<1>2. InsertAt(s, i, e) \in Spans
  BY <1>1 DEF Spans
<1> DEFINE t == InsertAt(s, i, e)
<1>3. Len(t) = Len(s) + 1 /\ \A j \in 1..Len(s) + 1 : t[j] = IF j < i THEN s[j] ELSE IF j = i THEN e ELSE s[j - 1]
  BY <1>1
<1> HIDE DEF t
<1>4. \A j \in 1..Len(s) + 1 :
        /\ StartOf(t, j) = IF j < i THEN StartOf(s, j) ELSE IF j = i THEN e.at ELSE StartOf(s, j - 1)
        /\ EndOf(t, j) = IF j < i THEN EndOf(s, j) ELSE IF j = i THEN e.at + e.size ELSE EndOf(s, j - 1)
  BY <1>3 DEF StartOf, EndOf
<1> QED  BY <1>2, <1>3, <1>4 DEF t

\* Join, on a list of blocks.
LEMMA SpanJoined ==
  ASSUME NEW s \in Spans, NEW k, Touch(s, k)
  PROVE  /\ k \in 1..Len(s) - 1 /\ EndOf(s, k) = StartOf(s, k + 1)
         /\ Join(s, k) \in Spans
         /\ Len(Join(s, k)) = Len(s) - 1
         /\ \A j \in 1..Len(s) - 1 :
              /\ StartOf(Join(s, k), j) = IF j <= k THEN StartOf(s, j) ELSE StartOf(s, j + 1)
              /\ EndOf(Join(s, k), j) = IF j < k THEN EndOf(s, j) ELSE EndOf(s, j + 1)
<1> DEFINE e == [s EXCEPT ![k].size = @ + s[k + 1].size]
<1>0. /\ Len(s) \in Nat /\ k \in 1..Len(s) - 1 /\ k \in 1..Len(s) /\ k + 1 \in 1..Len(s)
      /\ s[k].at + s[k].size = s[k + 1].at
  BY SpansHold DEF Touch
<1>1. /\ e \in Spans /\ Len(e) = Len(s)
      /\ e[k].at = s[k].at /\ e[k].size = s[k].size + s[k + 1].size
      /\ \A j \in 1..Len(s) : j # k => e[j] = s[j]
  <2>1. s \in Seq(Span)
    BY DEF Spans
  <2>2. s[k] \in Span /\ s[k + 1].size \in Int
    BY <1>0, SpansHold DEF Span
  <2>3. [s[k] EXCEPT !.size = @ + s[k + 1].size] \in Span
    BY <2>2 DEF Span
  <2>4. e = [s EXCEPT ![k] = [s[k] EXCEPT !.size = @ + s[k + 1].size]]
    BY <1>0, <2>1
  <2>5. e \in Seq(Span) /\ Len(e) = Len(s)
    BY <1>0, <2>1, <2>3, <2>4
  <2>6. e[k] = [s[k] EXCEPT !.size = @ + s[k + 1].size] /\ \A j \in 1..Len(s) : j # k => e[j] = s[j]
    BY <1>0, <2>1, <2>4
  <2>7. e[k].at = s[k].at /\ e[k].size = s[k].size + s[k + 1].size
    BY <2>2, <2>6 DEF Span
  <2> QED  BY <2>5, <2>6, <2>7 DEF Spans
<1> HIDE DEF e
<1>2. Join(s, k) = RemoveAt(e, k + 1)
  BY DEF Join, e
<1>3. /\ RemoveAt(e, k + 1) \in Spans
      /\ Len(RemoveAt(e, k + 1)) = Len(s) - 1
      /\ \A j \in 1..Len(s) - 1 :
           /\ StartOf(RemoveAt(e, k + 1), j) = IF j < k + 1 THEN StartOf(e, j) ELSE StartOf(e, j + 1)
           /\ EndOf(RemoveAt(e, k + 1), j) = IF j < k + 1 THEN EndOf(e, j) ELSE EndOf(e, j + 1)
  <2>1. e \in Spans /\ k + 1 \in 1..Len(e)
    BY <1>0, <1>1
  <2> QED  BY <1>1, <2>1, SpanRemoved
<1>4. /\ \A j \in 1..Len(s) : j # k => StartOf(e, j) = StartOf(s, j) /\ EndOf(e, j) = EndOf(s, j)
      /\ StartOf(e, k) = StartOf(s, k)
  BY <1>1 DEF StartOf, EndOf
<1>5. EndOf(e, k) = EndOf(s, k + 1) /\ EndOf(s, k) = StartOf(s, k + 1)
  <2>1. s[k].at \in Int /\ s[k].size \in Int /\ s[k + 1].size \in Int /\ s[k + 1].at \in Int
    BY <1>0, SpansHold DEF Span
  <2> QED  BY <1>0, <1>1, <2>1 DEF StartOf, EndOf
<1>6. ASSUME NEW j \in 1..Len(s) - 1
      PROVE  /\ StartOf(Join(s, k), j) = IF j <= k THEN StartOf(s, j) ELSE StartOf(s, j + 1)
             /\ EndOf(Join(s, k), j) = IF j < k THEN EndOf(s, j) ELSE EndOf(s, j + 1)
  <2>1. j \in 1..Len(s) /\ j + 1 \in 1..Len(s) /\ j \in Int /\ k \in Int
    BY <1>0
  <2>2. CASE j < k
    BY <1>2, <1>3, <1>4, <2>1, <2>2
  <2>3. CASE j = k
    BY <1>2, <1>3, <1>4, <1>5, <2>1, <2>3
  <2>4. CASE j > k
    BY <1>2, <1>3, <1>4, <2>1, <2>4
  <2> QED  BY <2>1, <2>2, <2>3, <2>4
<1> QED  BY <1>0, <1>2, <1>3, <1>5, <1>6

\* Two blocks that touch may become one.
LEMMA JoinKeeps ==
  ASSUME NEW s, NEW lo \in Int, NEW hi \in Int, NEW k, FreeList(s, lo, hi), Touch(s, k)
  PROVE  /\ FreeList(Join(s, k), lo, hi)
         /\ Len(Join(s, k)) = Len(s) - 1
         /\ \A a, z \in Int : a < z /\ Clear(s, a, z) => Clear(Join(s, k), a, z)
         /\ \A E : E \subseteq {k - 1, k} /\ GapsBut(s, E) => GapsBut(Join(s, k), E \ {k})
<1> DEFINE t == Join(s, k)
<1>0. /\ s \in Spans /\ Len(s) \in Nat /\ k \in 1..Len(s) - 1 /\ k \in Int
      /\ EndOf(s, k) = StartOf(s, k + 1)
      /\ \A i \in 1..Len(s) : StartOf(s, i) \in Int /\ EndOf(s, i) \in Int
      /\ \A i \in 1..Len(s) : lo <= StartOf(s, i) /\ StartOf(s, i) < EndOf(s, i) /\ EndOf(s, i) <= hi
      /\ \A i, j \in 1..Len(s) : i < j => EndOf(s, i) <= StartOf(s, j)
  BY SpansHold, SpanJoined DEF FreeList
<1>1. /\ t \in Spans /\ Len(t) = Len(s) - 1
      /\ \A j \in 1..Len(s) - 1 :
              /\ StartOf(t, j) = IF j <= k THEN StartOf(s, j) ELSE StartOf(s, j + 1)
              /\ EndOf(t, j) = IF j < k THEN EndOf(s, j) ELSE EndOf(s, j + 1)
  BY <1>0, SpanJoined
<1> HIDE DEF t
<1>2. \A j \in 1..Len(s) - 1 : j \in 1..Len(s) /\ j + 1 \in 1..Len(s)
  BY <1>0
<1>3. FreeList(t, lo, hi)
  <2>1. ASSUME NEW j \in 1..Len(t)
        PROVE  lo <= StartOf(t, j) /\ StartOf(t, j) < EndOf(t, j) /\ EndOf(t, j) <= hi
    BY <1>0, <1>1, <1>2
  <2>2. ASSUME NEW i \in 1..Len(t), NEW j \in 1..Len(t), i < j
        PROVE  EndOf(t, i) <= StartOf(t, j)
    <3>0. /\ i \in 1..Len(s) /\ i + 1 \in 1..Len(s) /\ j \in 1..Len(s) /\ j + 1 \in 1..Len(s)
          /\ i < j + 1 /\ i + 1 < j + 1 /\ i \in Int /\ j \in Int
      BY <1>0, <1>1, <1>2, <2>2
    <3>1. CASE i < k
      <4>1. EndOf(t, i) = EndOf(s, i) /\ StartOf(t, j) \in {StartOf(s, j), StartOf(s, j + 1)}
        BY <1>1, <3>1
      <4> QED  BY <1>0, <2>2, <3>0, <4>1
    <3>2. CASE ~(i < k)
      <4>1. EndOf(t, i) = EndOf(s, i + 1) /\ StartOf(t, j) = StartOf(s, j + 1)
        BY <1>0, <1>1, <2>2, <3>0, <3>2
      <4> QED  BY <1>0, <3>0, <4>1
    <3> QED  BY <3>1, <3>2
  <2> QED  BY <1>1, <2>1, <2>2 DEF FreeList
<1>4. ASSUME NEW a \in Int, NEW z \in Int, a < z, Clear(s, a, z)
      PROVE  Clear(t, a, z)
  <2>1. ASSUME NEW j \in 1..Len(t)
        PROVE  EndOf(t, j) <= a \/ z <= StartOf(t, j)
    <3>1. j \in 1..Len(s) /\ j + 1 \in 1..Len(s) /\ j \in 1..Len(s) - 1
      BY <1>0, <1>1, <1>2
    <3>2. (EndOf(s, j) <= a \/ z <= StartOf(s, j)) /\ (EndOf(s, j + 1) <= a \/ z <= StartOf(s, j + 1))
      BY <1>4, <3>1 DEF Clear
    <3>3. CASE j < k
      BY <1>0, <1>1, <3>1, <3>2, <3>3
    <3>4. CASE k < j
      BY <1>0, <1>1, <3>1, <3>2, <3>4
    <3>5. CASE j = k
      <4>1. StartOf(t, j) = StartOf(s, j) /\ EndOf(t, j) = EndOf(s, j + 1) /\ EndOf(s, j) = StartOf(s, j + 1)
        BY <1>0, <1>1, <3>1, <3>5
      <4>2. StartOf(s, j) \in Int /\ EndOf(s, j) \in Int /\ StartOf(s, j + 1) \in Int /\ EndOf(s, j + 1) \in Int
        BY <1>0, <3>1
      <4> QED  BY <1>4, <3>2, <4>1, <4>2
    <3>6. j \in Int /\ k \in Int
      BY <1>0
    <3> QED  BY <3>3, <3>4, <3>5, <3>6
  <2> QED  BY <2>1 DEF Clear
<1>5. ASSUME NEW E, E \subseteq {k - 1, k}, GapsBut(s, E)
      PROVE  GapsBut(t, E \ {k})
  <2>1. ASSUME NEW j \in 1..Len(t) - 1, j \notin E \ {k}
        PROVE  EndOf(t, j) < StartOf(t, j + 1)
    <3>0. j \in 1..Len(s) - 1 /\ j + 1 \in 1..Len(s) - 1 /\ j \in Int
      BY <1>0, <1>1
    <3>1. CASE j < k
      <4>1. j \notin E
        BY <1>0, <2>1, <3>1
      <4>2. EndOf(s, j) < StartOf(s, j + 1)
        BY <1>5, <3>0, <4>1 DEF GapsBut
      <4> QED  BY <1>0, <1>1, <3>0, <3>1, <4>2
    <3>2. CASE ~(j < k)
      <4>1. j + 1 \notin E
        BY <1>0, <1>5, <3>0, <3>2
      <4>2. EndOf(s, j + 1) < StartOf(s, j + 1 + 1)
        BY <1>5, <3>0, <4>1 DEF GapsBut
      <4> QED  BY <1>0, <1>1, <3>0, <3>2, <4>2
    <3> QED  BY <3>1, <3>2
  <2> QED  BY <2>1 DEF GapsBut
<1> QED  BY <1>1, <1>3, <1>4, <1>5 DEF t

\* A block may be taken off the list; where it was, the list is clear.
LEMMA RemoveKeeps ==
  ASSUME NEW s, NEW lo \in Int, NEW hi \in Int, NEW k \in 1..Len(s),
         FreeList(s, lo, hi), GapsBut(s, {})
  PROVE  /\ FreeList(RemoveAt(s, k), lo, hi)
         /\ GapsBut(RemoveAt(s, k), {})
         /\ Len(RemoveAt(s, k)) = Len(s) - 1
         /\ Clear(RemoveAt(s, k), StartOf(s, k), EndOf(s, k))
         /\ \A a, z \in Int : Clear(s, a, z) => Clear(RemoveAt(s, k), a, z)
<1> DEFINE t == RemoveAt(s, k)
<1>0. /\ s \in Spans /\ Len(s) \in Nat /\ k \in Int
      /\ \A i \in 1..Len(s) : StartOf(s, i) \in Int /\ EndOf(s, i) \in Int
      /\ \A i \in 1..Len(s) : lo <= StartOf(s, i) /\ StartOf(s, i) < EndOf(s, i) /\ EndOf(s, i) <= hi
      /\ \A i, j \in 1..Len(s) : i < j => EndOf(s, i) <= StartOf(s, j)
  BY SpansHold DEF FreeList
<1>1. /\ t \in Spans /\ Len(t) = Len(s) - 1
      /\ \A j \in 1..Len(s) - 1 :
              /\ StartOf(t, j) = IF j < k THEN StartOf(s, j) ELSE StartOf(s, j + 1)
              /\ EndOf(t, j) = IF j < k THEN EndOf(s, j) ELSE EndOf(s, j + 1)
  BY <1>0, SpanRemoved
<1> HIDE DEF t
<1>2. \A j \in 1..Len(s) - 1 : j \in 1..Len(s) /\ j + 1 \in 1..Len(s)
  BY <1>0
<1>3. FreeList(t, lo, hi)
  <2>1. ASSUME NEW j \in 1..Len(t)
        PROVE  lo <= StartOf(t, j) /\ StartOf(t, j) < EndOf(t, j) /\ EndOf(t, j) <= hi
    BY <1>0, <1>1, <1>2
  <2>2. ASSUME NEW i \in 1..Len(t), NEW j \in 1..Len(t), i < j
        PROVE  EndOf(t, i) <= StartOf(t, j)
    <3>0. /\ i \in 1..Len(s) /\ i + 1 \in 1..Len(s) /\ j \in 1..Len(s) /\ j + 1 \in 1..Len(s)
          /\ i < j + 1 /\ i + 1 < j + 1 /\ i \in Int /\ j \in Int
      BY <1>0, <1>1, <1>2, <2>2
    <3>1. CASE i < k
      <4>1. EndOf(t, i) = EndOf(s, i) /\ StartOf(t, j) \in {StartOf(s, j), StartOf(s, j + 1)}
        BY <1>1, <3>1
      <4> QED  BY <1>0, <2>2, <3>0, <4>1
    <3>2. CASE ~(i < k)
      <4>1. EndOf(t, i) = EndOf(s, i + 1) /\ StartOf(t, j) = StartOf(s, j + 1)
        BY <1>0, <1>1, <2>2, <3>0, <3>2
      <4> QED  BY <1>0, <3>0, <4>1
    <3> QED  BY <3>1, <3>2
  <2> QED  BY <1>1, <2>1, <2>2 DEF FreeList
<1>4. GapsBut(t, {})
  <2>1. ASSUME NEW j \in 1..Len(t) - 1
        PROVE  EndOf(t, j) < StartOf(t, j + 1)
    <3>0. j \in 1..Len(s) - 1 /\ j + 1 \in 1..Len(s) - 1 /\ j \in Int /\ j + 1 + 1 \in 1..Len(s)
      BY <1>0, <1>1
    <3>1. EndOf(s, j) < StartOf(s, j + 1) /\ EndOf(s, j + 1) < StartOf(s, j + 1 + 1)
      BY <3>0 DEF GapsBut
    <3>2. CASE j < k
      <4>1. EndOf(t, j) = EndOf(s, j) /\ StartOf(t, j + 1) \in {StartOf(s, j + 1), StartOf(s, j + 1 + 1)}
        BY <1>1, <3>0, <3>2
      <4>2. EndOf(s, j) <= StartOf(s, j + 1 + 1) /\ StartOf(s, j + 1) < EndOf(s, j + 1)
        BY <1>0, <1>2, <3>0
      <4>3. /\ EndOf(s, j) \in Int /\ StartOf(s, j + 1) \in Int
            /\ EndOf(s, j + 1) \in Int /\ StartOf(s, j + 1 + 1) \in Int
        BY <1>0, <1>2, <3>0
      <4> QED  BY <3>1, <4>1, <4>2, <4>3
    <3>3. CASE ~(j < k)
      <4>1. ~(j + 1 < k)
        BY <1>0, <3>0, <3>3
      <4>2. EndOf(t, j) = EndOf(s, j + 1) /\ StartOf(t, j + 1) = StartOf(s, j + 1 + 1)
        BY <1>1, <3>0, <3>3, <4>1
      <4> QED  BY <3>1, <4>2
    <3> QED  BY <3>2, <3>3
  <2> QED  BY <2>1 DEF GapsBut
<1>5. Clear(t, StartOf(s, k), EndOf(s, k))
  BY <1>0, <1>1, <1>2 DEF Clear
<1>6. \A a, z \in Int : Clear(s, a, z) => Clear(t, a, z)
  BY <1>0, <1>1, <1>2 DEF Clear
<1> QED  BY <1>1, <1>3, <1>4, <1>5, <1>6 DEF t

\* A block that lies in memory the list is clear of goes to its place.  Only
\* there can blocks touch afterwards.
LEMMA InsertKeeps ==
  ASSUME NEW s, NEW lo \in Int, NEW hi \in Int, NEW e \in Span,
         FreeList(s, lo, hi), GapsBut(s, {}), Clear(s, e.at, e.at + e.size),
         lo <= e.at, e.size > 0, e.at + e.size <= hi
  PROVE  LET p == Place(s, e.at)
             t == InsertAt(s, p, e)
         IN  /\ p \in 1..Len(t)
             /\ FreeList(t, lo, hi)
             /\ GapsBut(t, {p - 1, p})
             /\ \A a, z \in Int : Clear(s, a, z) /\ (z <= e.at \/ e.at + e.size <= a) => Clear(t, a, z)
<1> DEFINE p == Place(s, e.at)
           t == InsertAt(s, p, e)
           x == e.at
           y == e.at + e.size
<1>0. /\ s \in Spans /\ Len(s) \in Nat
      /\ x \in Int /\ y \in Int /\ x < y /\ lo <= x /\ y <= hi
      /\ \A i \in 1..Len(s) : StartOf(s, i) \in Int /\ EndOf(s, i) \in Int
      /\ \A i \in 1..Len(s) : lo <= StartOf(s, i) /\ StartOf(s, i) < EndOf(s, i) /\ EndOf(s, i) <= hi
      /\ \A i, j \in 1..Len(s) : i < j => EndOf(s, i) <= StartOf(s, j)
  BY SpansHold DEF FreeList, Span
<1>1. /\ p \in 1..Len(s) + 1 /\ p \in Nat
      /\ p = Len(s) + 1 \/ StartOf(s, p) >= x
      /\ \A i \in 1..Len(s) : i < p => StartOf(s, i) < x
  <2> DEFINE Q == {i \in 1..Len(s) + 1 : i = Len(s) + 1 \/ s[i].at >= e.at}
  <2>1. Len(s) + 1 \in Q /\ \A i \in Q : i \in Nat
    BY <1>0
  <2>2. p = Min(Q)
    BY DEF Place
  <2>3. p \in Q /\ \A i \in Q : p <= i
    <3> HIDE DEF Q, p
    <3> QED  BY <2>1, <2>2, MinIs
  <2>4. ASSUME NEW i \in 1..Len(s), i < p
        PROVE  StartOf(s, i) < x
    <3>1. i \notin Q
      <4> HIDE DEF Q, p
      <4> QED  BY <1>0, <2>1, <2>3, <2>4
    <3>2. ~(s[i].at >= e.at)
      BY <1>0, <3>1
    <3>3. s[i].at \in Int /\ e.at \in Int
      BY <1>0 DEF StartOf
    <3> QED  BY <3>2, <3>3 DEF StartOf
  <2>5. p \in 1..Len(s) + 1 /\ (p = Len(s) + 1 \/ StartOf(s, p) >= x)
    BY <2>3 DEF StartOf
  <2> HIDE DEF p
  <2> QED  BY <1>0, <2>4, <2>5
<1> HIDE DEF p
<1>2. /\ t \in Spans /\ Len(t) = Len(s) + 1
      /\ \A j \in 1..Len(s) + 1 :
           /\ StartOf(t, j) = IF j < p THEN StartOf(s, j) ELSE IF j = p THEN x ELSE StartOf(s, j - 1)
           /\ EndOf(t, j) = IF j < p THEN EndOf(s, j) ELSE IF j = p THEN y ELSE EndOf(s, j - 1)
  BY <1>0, <1>1, SpanInserted
<1> HIDE DEF t
<1>3. \A i \in 1..Len(s) : EndOf(s, i) <= x \/ y <= StartOf(s, i)
  BY DEF Clear
<1> HIDE DEF x, y
<1>4. ASSUME NEW i \in 1..Len(s)
      PROVE  /\ i < p => EndOf(s, i) <= x
             /\ ~(i < p) => y <= StartOf(s, i)
  <2>1. CASE i < p
    BY <1>0, <1>1, <1>3, <2>1
  <2>2. CASE ~(i < p)
    <3>1. p \in 1..Len(s) /\ (i = p \/ p < i)
      BY <1>0, <1>1, <2>2
    <3>2. StartOf(s, i) >= x
      BY <1>0, <1>1, <3>1
    <3> QED  BY <1>0, <1>3, <2>2, <3>2
  <2> QED  BY <2>1, <2>2
<1>5. ASSUME NEW j \in 1..Len(s) + 1
      PROVE  \/ j < p /\ j \in 1..Len(s) /\ StartOf(t, j) = StartOf(s, j) /\ EndOf(t, j) = EndOf(s, j)
             \/ j = p /\ StartOf(t, j) = x /\ EndOf(t, j) = y
             \/ /\ j > p /\ j - 1 \in 1..Len(s) /\ ~(j - 1 < p)
                /\ StartOf(t, j) = StartOf(s, j - 1) /\ EndOf(t, j) = EndOf(s, j - 1)
  BY <1>0, <1>1, <1>2
<1>6. FreeList(t, lo, hi)
  <2>1. ASSUME NEW j \in 1..Len(t)
        PROVE  lo <= StartOf(t, j) /\ StartOf(t, j) < EndOf(t, j) /\ EndOf(t, j) <= hi
    BY <1>0, <1>2, <1>5
  <2>2. ASSUME NEW i \in 1..Len(t), NEW j \in 1..Len(t), i < j
        PROVE  EndOf(t, i) <= StartOf(t, j)
    <3>0. i \in 1..Len(s) + 1 /\ j \in 1..Len(s) + 1 /\ i \in Int /\ j \in Int
      BY <1>0, <1>2
    <3>1. CASE i < p
      <4>1. i \in 1..Len(s) /\ EndOf(t, i) = EndOf(s, i) /\ EndOf(s, i) <= x
        BY <1>1, <1>4, <1>5, <3>0, <3>1
      <4>2. CASE j < p
        BY <1>0, <1>1, <1>5, <2>2, <3>0, <4>1, <4>2
      <4>3. CASE ~(j < p)
        <5>1. StartOf(t, j) = x \/ (j - 1 \in 1..Len(s) /\ ~(j - 1 < p) /\ StartOf(t, j) = StartOf(s, j - 1))
          BY <1>1, <1>5, <3>0, <4>3
        <5>2. StartOf(t, j) \in Int /\ x <= StartOf(t, j)
          BY <1>0, <1>4, <5>1
        <5> QED  BY <1>0, <4>1, <5>2
      <4> QED  BY <4>2, <4>3
    <3>2. CASE i = p
      <4>1. EndOf(t, i) = y /\ j - 1 \in 1..Len(s) /\ ~(j - 1 < p) /\ StartOf(t, j) = StartOf(s, j - 1)
        BY <1>1, <1>5, <2>2, <3>0, <3>2
      <4> QED  BY <1>4, <4>1
    <3>3. CASE i > p
      <4>1. /\ i - 1 \in 1..Len(s) /\ EndOf(t, i) = EndOf(s, i - 1)
            /\ j - 1 \in 1..Len(s) /\ StartOf(t, j) = StartOf(s, j - 1)
            /\ i - 1 < j - 1
        BY <1>1, <1>5, <2>2, <3>0, <3>3
      <4> QED  BY <1>0, <4>1
    <3> QED  BY <1>1, <3>0, <3>1, <3>2, <3>3
  <2> QED  BY <1>2, <2>1, <2>2 DEF FreeList
<1>7. GapsBut(t, {p - 1, p})
  <2>1. ASSUME NEW j \in 1..Len(t) - 1, j # p - 1, j # p
        PROVE  EndOf(t, j) < StartOf(t, j + 1)
    <3>0. j \in 1..Len(s) + 1 /\ j + 1 \in 1..Len(s) + 1 /\ j \in Int
      BY <1>0, <1>2
    <3>1. CASE j < p
      <4>1. /\ j \in 1..Len(s) - 1 /\ EndOf(t, j) = EndOf(s, j) /\ StartOf(t, j + 1) = StartOf(s, j + 1)
        BY <1>0, <1>1, <1>2, <2>1, <3>0, <3>1
      <4> QED  BY <4>1 DEF GapsBut
    <3>2. CASE j > p
      <4>1. /\ j - 1 \in 1..Len(s) - 1 /\ EndOf(t, j) = EndOf(s, j - 1) /\ StartOf(t, j + 1) = StartOf(s, (j - 1) + 1)
        BY <1>0, <1>1, <1>2, <2>1, <3>0, <3>2
      <4> QED  BY <4>1 DEF GapsBut
    <3> QED  BY <1>1, <2>1, <3>0, <3>1, <3>2
  <2> QED  BY <2>1 DEF GapsBut
<1>8. ASSUME NEW a \in Int, NEW z \in Int, Clear(s, a, z), z <= x \/ y <= a
      PROVE  Clear(t, a, z)
  BY <1>2, <1>5, <1>8 DEF Clear
<1>9. p \in 1..Len(t)
  BY <1>1, <1>2
<1> QED  BY <1>6, <1>7, <1>8, <1>9 DEF p, t, x, y

\* The merge of dealloc() leaves memory between every two blocks.
LEMMA MergeKeeps ==
  ASSUME NEW s, NEW lo \in Int, NEW hi \in Int, NEW p \in 1..Len(s),
         FreeList(s, lo, hi), GapsBut(s, {p - 1, p})
  PROVE  /\ FreeList(MergeAt(s, p), lo, hi)
         /\ GapsBut(MergeAt(s, p), {})
         /\ \A a, z \in Int : a < z /\ Clear(s, a, z) => Clear(MergeAt(s, p), a, z)
<1> DEFINE up == IF Touch(s, p) THEN Join(s, p) ELSE s
           m == MergeAt(s, p)
<1>0. /\ s \in Spans /\ Len(s) \in Nat /\ p \in Int
      /\ \A i \in 1..Len(s) : StartOf(s, i) \in Int /\ EndOf(s, i) \in Int
      /\ \A i, j \in 1..Len(s) : i < j => EndOf(s, i) <= StartOf(s, j)
  BY SpansHold DEF FreeList
<1>1. /\ FreeList(up, lo, hi) /\ GapsBut(up, {p - 1})
      /\ \A a, z \in Int : a < z /\ Clear(s, a, z) => Clear(up, a, z)
      /\ Touch(s, p - 1) => Touch(up, p - 1)
      /\ ~Touch(s, p - 1) => GapsBut(up, {})
  <2>1. CASE Touch(s, p)
    <3>0. up = Join(s, p)
      BY <2>1
    <3> HIDE DEF up
    <3>1. /\ FreeList(up, lo, hi) /\ Len(up) = Len(s) - 1
          /\ \A a, z \in Int : a < z /\ Clear(s, a, z) => Clear(up, a, z)
          /\ \A E : E \subseteq {p - 1, p} /\ GapsBut(s, E) => GapsBut(up, E \ {p})
      BY <2>1, <3>0, JoinKeeps
    <3>2. {p - 1, p} \ {p} = {p - 1}
      BY <1>0
    <3>3. GapsBut(up, {p - 1})
      BY <3>1, <3>2
    <3>4. /\ p \in 1..Len(s) - 1
          /\ \A j \in 1..Len(s) - 1 :
               /\ StartOf(up, j) = IF j <= p THEN StartOf(s, j) ELSE StartOf(s, j + 1)
               /\ EndOf(up, j) = IF j < p THEN EndOf(s, j) ELSE EndOf(s, j + 1)
      BY <1>0, <2>1, <3>0, SpanJoined
    <3>5. Touch(s, p - 1) => Touch(up, p - 1)
      <4>1. SUFFICES ASSUME Touch(s, p - 1) PROVE Touch(up, p - 1)
        OBVIOUS
      <4>2. p - 1 \in 1..Len(s) - 1 /\ EndOf(s, p - 1) = StartOf(s, p - 1 + 1)
        BY <1>0, <4>1 DEF Touch, StartOf, EndOf
      <4>3. p - 1 \in 1..Len(up) - 1 /\ EndOf(up, p - 1) = EndOf(s, p - 1) /\ StartOf(up, p - 1 + 1) = StartOf(s, p - 1 + 1)
        BY <1>0, <3>1, <3>4, <4>2
      <4> QED  BY <4>2, <4>3 DEF Touch, StartOf, EndOf
    <3>6. ~Touch(s, p - 1) => GapsBut(up, {})
      <4>1. SUFFICES ASSUME ~Touch(s, p - 1), NEW k \in 1..Len(up) - 1
                     PROVE  EndOf(up, k) < StartOf(up, k + 1)
        BY DEF GapsBut
      <4>2. CASE k # p - 1
        BY <3>3, <4>2 DEF GapsBut
      <4>3. CASE k = p - 1
        <5>1. k \in 1..Len(s) - 1 /\ k \in 1..Len(s) /\ k + 1 \in 1..Len(s) /\ k + 1 = p
          BY <1>0, <3>1, <4>3
        <5>2. EndOf(s, k) # StartOf(s, k + 1)
          BY <4>1, <4>3, <5>1 DEF Touch, StartOf, EndOf
        <5>3. EndOf(s, k) < StartOf(s, k + 1)
          BY <1>0, <5>1, <5>2
        <5>4. EndOf(up, k) = EndOf(s, k) /\ StartOf(up, k + 1) = StartOf(s, k + 1)
          BY <1>0, <3>4, <5>1
        <5> QED  BY <5>3, <5>4
      <4> QED  BY <4>2, <4>3
    <3> QED  BY <3>1, <3>3, <3>5, <3>6
  <2>2. CASE ~Touch(s, p)
    <3>0. up = s
      BY <2>2
    <3> HIDE DEF up
    <3>1. ASSUME NEW k \in 1..Len(s) - 1, k # p - 1
          PROVE  EndOf(s, k) < StartOf(s, k + 1)
      <4>1. CASE k # p
        BY <3>1, <4>1 DEF GapsBut
      <4>2. CASE k = p
        <5>1. EndOf(s, k) # StartOf(s, k + 1)
          BY <2>2, <4>2 DEF Touch, StartOf, EndOf
        <5> QED  BY <1>0, <5>1
      <4> QED  BY <4>1, <4>2
    <3>2. GapsBut(up, {p - 1})
      BY <3>0, <3>1 DEF GapsBut
    <3>3. ~Touch(s, p - 1) => GapsBut(up, {})
      <4>1. SUFFICES ASSUME ~Touch(s, p - 1), NEW k \in 1..Len(s) - 1
                     PROVE  EndOf(s, k) < StartOf(s, k + 1)
        BY <3>0 DEF GapsBut
      <4>2. CASE k = p - 1
        <5>1. EndOf(s, k) # StartOf(s, k + 1)
          BY <4>1, <4>2 DEF Touch, StartOf, EndOf
        <5> QED  BY <1>0, <5>1
      <4> QED  BY <3>1, <4>2
    <3> QED  BY <3>0, <3>2, <3>3
  <2> QED  BY <2>1, <2>2
<1>2. m = IF Touch(s, p - 1) THEN Join(up, p - 1) ELSE up
  BY DEF MergeAt
<1> HIDE DEF up, m
<1>3. CASE Touch(s, p - 1)
  <2>1. /\ FreeList(Join(up, p - 1), lo, hi)
        /\ \A a, z \in Int : a < z /\ Clear(up, a, z) => Clear(Join(up, p - 1), a, z)
        /\ \A E : E \subseteq {p - 1 - 1, p - 1} /\ GapsBut(up, E) => GapsBut(Join(up, p - 1), E \ {p - 1})
    BY <1>1, <1>3, JoinKeeps
  <2>2. GapsBut(Join(up, p - 1), {p - 1} \ {p - 1})
    BY <1>1, <2>1
  <2>3. {p - 1} \ {p - 1} = {}
    OBVIOUS
  <2>4. m = Join(up, p - 1)
    BY <1>2, <1>3
  <2>5. FreeList(m, lo, hi) /\ GapsBut(m, {}) /\ \A a, z \in Int : a < z /\ Clear(s, a, z) => Clear(m, a, z)
    BY <1>1, <2>1, <2>2, <2>3, <2>4
  <2> QED  BY <2>5 DEF m
<1>4. CASE ~Touch(s, p - 1)
  <2>1. m = up
    BY <1>2, <1>4
  <2> QED  BY <1>1, <1>4, <2>1 DEF m
<1> QED  BY <1>3, <1>4

\* What is right of a large allocator: g is its free list and its bump pointer.
GoodList(g) ==
  /\ g \in [free : Spans, next : Int]
  /\ LargeStart <= g.next
  /\ FreeList(g.free, LargeStart, g.next)
  /\ GapsBut(g.free, {})

\* The memory between two addresses is in use: it lies below the bump pointer and
\* no free block has any of it.
Taken(g, a, z) == a < z /\ z <= g.next /\ Clear(g.free, a, z)

\* The slabs end where the large blocks begin.
LEMMA LargeStartIs == LargeStart \in Int
BY HeapConstants DEF LargeStart

\* One round of try_shrink_bump() gives up no memory that is in use.
LEMMA ShrinkOnceKeeps ==
  ASSUME NEW g, GoodList(g)
  PROVE  /\ GoodList(ShrinkOnce(g))
         /\ \A a, z \in Int : Taken(g, a, z) => Taken(ShrinkOnce(g), a, z)
<1> DEFINE s == g.free
           hits == {i \in DOMAIN g.free : g.free[i].at + g.free[i].size = g.next}
<1>0. /\ s \in Spans /\ Len(s) \in Nat /\ g.next \in Int /\ LargeStart \in Int
      /\ DOMAIN s = 1..Len(s)
      /\ \A i \in 1..Len(s) : StartOf(s, i) \in Int /\ EndOf(s, i) \in Int
      /\ FreeList(s, LargeStart, g.next) /\ GapsBut(s, {})
      /\ \A i \in 1..Len(s) : LargeStart <= StartOf(s, i) /\ StartOf(s, i) < EndOf(s, i) /\ EndOf(s, i) <= g.next
      /\ \A i, j \in 1..Len(s) : i < j => EndOf(s, i) <= StartOf(s, j)
  <2>1. s \in Spans /\ g.next \in Int /\ FreeList(s, LargeStart, g.next) /\ GapsBut(s, {})
    BY DEF GoodList
  <2>2. DOMAIN s = 1..Len(s)
    BY <2>1 DEF Spans
  <2> HIDE DEF s
  <2> QED  BY <2>1, <2>2, SpansHold, LargeStartIs DEF FreeList
<1>1. CASE hits = {}
  BY <1>1 DEF ShrinkOnce
<1>2. CASE hits # {}
  <2> DEFINE k == Min(hits)
             t == RemoveAt(s, k)
  <2>1. k \in 1..Len(s) /\ EndOf(s, k) = g.next
    <3>1. \A i \in hits : i \in Nat /\ i \in 1..Len(s) /\ EndOf(s, i) = g.next
      BY <1>0 DEF EndOf
    <3>2. k \in hits
      <4> HIDE DEF hits
      <4> QED  BY <1>2, <3>1, MinIs
    <3> HIDE DEF hits, k
    <3> QED  BY <3>1, <3>2
  <2>2. ShrinkOnce(g) = [free |-> t, next |-> StartOf(s, k)]
    BY <1>2 DEF ShrinkOnce, StartOf
  <2> HIDE DEF k, s, hits
  <2>3. /\ FreeList(t, LargeStart, g.next) /\ GapsBut(t, {}) /\ Len(t) = Len(s) - 1
        /\ Clear(t, StartOf(s, k), EndOf(s, k))
        /\ \A a, z \in Int : Clear(s, a, z) => Clear(t, a, z)
    BY <1>0, <2>1, RemoveKeeps
  <2> HIDE DEF t
  <2>4. t \in Spans /\ Len(t) \in Nat /\ \A i \in 1..Len(t) : StartOf(t, i) \in Int /\ EndOf(t, i) \in Int
    BY <2>3, SpansHold DEF FreeList
  <2>5. \A i \in 1..Len(t) : EndOf(t, i) <= StartOf(s, k)
    <3>1. \A i \in 1..Len(t) : EndOf(t, i) <= g.next /\ StartOf(t, i) < EndOf(t, i)
      BY <2>3 DEF FreeList
    <3>2. \A i \in 1..Len(t) : EndOf(t, i) <= StartOf(s, k) \/ g.next <= StartOf(t, i)
      BY <2>1, <2>3 DEF Clear
    <3> QED  BY <1>0, <2>1, <2>4, <3>1, <3>2
  <2>6. FreeList(t, LargeStart, StartOf(s, k))
    BY <2>3, <2>5 DEF FreeList
  <2>7. LargeStart <= StartOf(s, k) /\ StartOf(s, k) \in Int
    BY <1>0, <2>1
  <2>8. GoodList(ShrinkOnce(g))
    BY <2>2, <2>3, <2>4, <2>6, <2>7 DEF GoodList
  <2>9. ASSUME NEW a \in Int, NEW z \in Int, Taken(g, a, z)
        PROVE  Taken(ShrinkOnce(g), a, z)
    <3>1. a < z /\ z <= g.next /\ Clear(s, a, z)
      BY <2>9 DEF Taken, s
    <3>2. EndOf(s, k) <= a \/ z <= StartOf(s, k)
      BY <2>1, <3>1 DEF Clear
    <3>3. z <= StartOf(s, k)
      BY <1>0, <2>1, <3>1, <3>2
    <3>4. Clear(t, a, z)
      BY <2>3, <3>1
    <3> QED  BY <2>2, <3>1, <3>3, <3>4 DEF Taken
  <2> QED  BY <2>8, <2>9
<1> QED  BY <1>1, <1>2

\* Nor does try_shrink_bump().
LEMMA ShrinkKeeps ==
  ASSUME NEW g, GoodList(g)
  PROVE  /\ GoodList(ShrinkBump(g))
         /\ \A a, z \in Int : Taken(g, a, z) => Taken(ShrinkBump(g), a, z)
<1> DEFINE m == Len(g.free)
           S == {x \in [free : Spans, next : Int] :
                   GoodList(x) /\ \A a, z \in Int : Taken(g, a, z) => Taken(x, a, z)}
           F == [x \in S |-> ShrinkOnce(x)]
           L == CHOOSE f : f = [n \in 0..m |-> IF n = 0 THEN g ELSE ShrinkOnce(f[n - 1])]
<1>1. m \in Nat
  BY SpansHold DEF GoodList
<1>2. g \in S
  BY DEF GoodList
<1>3. \A x \in S : ShrinkOnce(x) \in S
  <2> SUFFICES ASSUME NEW x \in S PROVE ShrinkOnce(x) \in S
    OBVIOUS
  <2>1. GoodList(x) /\ \A a, z \in Int : Taken(g, a, z) => Taken(x, a, z)
    OBVIOUS
  <2>2. GoodList(ShrinkOnce(x)) /\ \A a, z \in Int : Taken(x, a, z) => Taken(ShrinkOnce(x), a, z)
    BY <2>1, ShrinkOnceKeeps
  <2>3. ShrinkOnce(x) \in [free : Spans, next : Int]
    BY <2>2 DEF GoodList
  <2> QED  BY <2>1, <2>2, <2>3
<1>4. ShrinkBump(g) = L[m]
  BY DEF ShrinkBump
<1> HIDE DEF m, S
<1>5. PICK f : Iteration(f, S, F, g, m)
  <2>1. F \in [S -> S]
    BY <1>3
  <2> HIDE DEF F
  <2> QED  BY <1>1, <1>2, <2>1, Iterates
<1>6. f = [n \in 0..m |-> IF n = 0 THEN g ELSE ShrinkOnce(f[n - 1])]
  <2>1. \A n \in 0..m : n # 0 => F[f[n - 1]] = ShrinkOnce(f[n - 1])
    <3>1. \A n \in 0..m : n # 0 => n - 1 \in 0..m
      BY <1>1
    <3>2. f \in [0..m -> S]
      BY <1>5 DEF Iteration
    <3> QED  BY <3>1, <3>2
  <2> HIDE DEF F
  <2> QED  BY <1>5, <2>1 DEF Iteration
<1>7. L = [n \in 0..m |-> IF n = 0 THEN g ELSE ShrinkOnce(L[n - 1])]
  BY <1>6
<1> HIDE DEF L
<1> DEFINE T == {n \in Nat : n <= m => L[n] \in S}
<1>8. 0 \in T
  BY <1>1, <1>2, <1>7
<1>9. ASSUME NEW n \in Nat, n \in T
      PROVE  n + 1 \in T
  <2>1. SUFFICES ASSUME n + 1 <= m PROVE L[n + 1] \in S
    OBVIOUS
  <2>2. L[n] \in S
    BY <1>1, <1>9, <2>1
  <2>3. L[n + 1] = ShrinkOnce(L[n])
    <3>1. n + 1 \in 0..m /\ n + 1 # 0 /\ (n + 1) - 1 = n
      BY <1>1, <2>1
    <3>2. L[n + 1] = ShrinkOnce(L[(n + 1) - 1])
      BY <1>7, <3>1
    <3> QED  BY <3>1, <3>2
  <2> QED  BY <1>3, <2>2, <2>3
<1>10. m \in T
  <2> HIDE DEF T
  <2> QED  BY <1>1, <1>8, <1>9, SetInduction
<1>11. L[m] \in S
  BY <1>1, <1>10
<1> QED  BY <1>4, <1>11 DEF S

-----------------------------------------------------------------------------
(* Slabs.                                                                  *)

\* The types of the constants, in the form the steps below use.
LEMMA SizesAre ==
  /\ DOMAIN SlabSizes = 1..Len(SlabSizes) /\ Len(SlabSizes) \in Nat
  /\ \A i \in DOMAIN SlabSizes : SlabSizes[i] \in Nat /\ SlabSizes[i] > 0
  /\ SlabRegion \in Nat /\ SlabRegion > 0
BY HeapConstants

\* A product grows with its first factor.
LEMMA Multiples ==
  ASSUME NEW a \in Nat, NEW b \in Nat, NEW d \in Nat
  PROVE  /\ a * d \in Nat
         /\ a < b => a * d + d <= b * d
OBVIOUS

\* The parts of the heap that slabs have lie behind each other, and the large
\* blocks behind them.
LEMMA RegionsApart ==
  ASSUME NEW i \in DOMAIN SlabSizes
  PROVE  /\ SlabStart(i) \in Nat /\ LargeStart \in Nat
         /\ SlabStart(i) + SlabRegion <= LargeStart
         /\ \A j \in DOMAIN SlabSizes : i < j => SlabStart(i) + SlabRegion <= SlabStart(j)
<1>1. i - 1 \in Nat /\ Len(SlabSizes) \in Nat /\ i - 1 < Len(SlabSizes) /\ SlabRegion \in Nat /\ i \in Nat
  BY SizesAre
<1>2. SlabStart(i) \in Nat /\ LargeStart \in Nat /\ SlabStart(i) + SlabRegion <= LargeStart
  BY <1>1, Multiples DEF SlabStart, LargeStart
<1>3. ASSUME NEW j \in DOMAIN SlabSizes, i < j
      PROVE  SlabStart(i) + SlabRegion <= SlabStart(j)
  <2>1. j - 1 \in Nat /\ i - 1 < j - 1
    BY <1>1, <1>3, SizesAre
  <2> QED  BY <1>1, <2>1, Multiples DEF SlabStart
<1> QED  BY <1>2, <1>3

\* An address where a slot of slab i can start.
Slot(i, x) == \E n \in Nat : x = SlabStart(i) + n * SlabSizes[i]

\* Slots are in their part of the heap, and two of them are one or apart.
LEMMA SlotsApart ==
  ASSUME NEW i \in DOMAIN SlabSizes, NEW x, NEW y, Slot(i, x), Slot(i, y)
  PROVE  /\ x \in Nat /\ y \in Nat /\ SlabStart(i) <= x
         /\ x = y \/ x + SlabSizes[i] <= y \/ y + SlabSizes[i] <= x
<1> DEFINE d == SlabSizes[i]
           o == SlabStart(i)
<1>1. d \in Nat /\ o \in Nat
  BY SizesAre, RegionsApart
<1>2. PICK n \in Nat : x = o + n * d
  BY DEF Slot
<1>3. PICK k \in Nat : y = o + k * d
  BY DEF Slot
<1> HIDE DEF d, o
<1>4. n * d \in Nat /\ k * d \in Nat
  BY <1>1, Multiples
<1>5. x \in Nat /\ y \in Nat /\ o <= x
  BY <1>1, <1>2, <1>3, <1>4
<1>6. x = y \/ x + d <= y \/ y + d <= x
  <2>1. CASE n = k
    BY <1>2, <1>3, <2>1
  <2>2. CASE n < k
    <3>1. n * d + d <= k * d
      BY <1>1, <2>2, Multiples
    <3> QED  BY <1>1, <1>2, <1>3, <1>4, <3>1
  <2>3. CASE k < n
    <3>1. k * d + d <= n * d
      BY <1>1, <2>3, Multiples
    <3> QED  BY <1>1, <1>2, <1>3, <1>4, <3>1
  <2> QED  BY <2>1, <2>2, <2>3
<1> QED  BY <1>5, <1>6 DEF d, o

\* A slot starts in its part of the heap.
LEMMA SlotIs ==
  ASSUME NEW i \in DOMAIN SlabSizes, NEW x, Slot(i, x)
  PROVE  x \in Nat /\ SlabStart(i) <= x
BY SlotsApart

\* The bump pointer of a slab goes from slot to slot.
LEMMA NextSlot ==
  ASSUME NEW i \in DOMAIN SlabSizes, NEW x, Slot(i, x)
  PROVE  Slot(i, x + SlabSizes[i])
<1>1. PICK n \in Nat : x = SlabStart(i) + n * SlabSizes[i]
  BY DEF Slot
<1>2. SlabSizes[i] \in Nat /\ SlabStart(i) \in Nat
  BY SizesAre, RegionsApart
<1>3. (n + 1) * SlabSizes[i] = n * SlabSizes[i] + SlabSizes[i] /\ n * SlabSizes[i] \in Nat
  BY <1>2
<1>4. x + SlabSizes[i] = SlabStart(i) + (n + 1) * SlabSizes[i]
  BY <1>1, <1>2, <1>3
<1> QED  BY <1>4 DEF Slot

\* The division of dealloc() finds the slab an address belongs to.
LEMMA WhichSlab ==
  ASSUME NEW i \in DOMAIN SlabSizes, NEW x \in Nat,
         SlabStart(i) <= x, x < SlabStart(i) + SlabRegion
  PROVE  x \div SlabRegion + 1 = i
<1>1. i - 1 \in Nat /\ SlabRegion \in Nat /\ SlabRegion > 0 /\ i \in Nat
  BY SizesAre
<1>2. SlabStart(i) = (i - 1) * SlabRegion /\ SlabStart(i) \in Nat
  BY RegionsApart DEF SlabStart
<1>3. ASSUME NEW k \in Nat, NEW d \in Nat, d > 0, NEW r \in Nat, r < d
      PROVE  (k * d + r) \div d = k
  BY <1>3
<1>4. x - SlabStart(i) \in Nat /\ x - SlabStart(i) < SlabRegion
  BY <1>1, <1>2
<1>5. x = (i - 1) * SlabRegion + (x - SlabStart(i))
  BY <1>2
<1>6. x \div SlabRegion = i - 1
  BY <1>1, <1>3, <1>4, <1>5
<1> QED  BY <1>1, <1>6

\* align_up() goes up, to a multiple.
LEMMA AlignUpIs ==
  ASSUME NEW a \in Nat, NEW d \in Nat, d > 0
  PROVE  AlignUp(a, d) \in Nat /\ AlignUp(a, d) >= a /\ \E n \in Nat : AlignUp(a, d) = n * d
<1>1. (a + d - 1) \div d \in Nat /\ ((a + d - 1) \div d) * d >= a
  OBVIOUS
<1>2. ((a + d - 1) \div d) * d \in Nat
  BY <1>1, Multiples
<1> QED  BY <1>1, <1>2 DEF AlignUp

\* A multiple of a multiple of d is a multiple of d.
LEMMA Divides ==
  ASSUME NEW n \in Nat, NEW e \in Nat, NEW d \in Nat, d > 0, e % d = 0
  PROVE  (n * e) % d = 0
<1>1. e = (e \div d) * d /\ e \div d \in Nat
  OBVIOUS
<1> DEFINE q == e \div d
<1>2. q \in Nat /\ e = q * d
  BY <1>1
<1> HIDE DEF q
<1> DEFINE r == n * q
<1>3. n * e = r * d /\ r \in Nat
  BY <1>2
<1> HIDE DEF r
<1>4. (r * d) % d = 0
  BY <1>3
<1> QED  BY <1>3, <1>4

\* So is a sum of two.
LEMMA DividesSum ==
  ASSUME NEW a \in Nat, NEW b \in Nat, NEW d \in Nat, d > 0, a % d = 0, b % d = 0
  PROVE  (a + b) % d = 0
<1> DEFINE p == a \div d
           q == b \div d
<1>1. p \in Nat /\ q \in Nat /\ a = p * d /\ b = q * d
  OBVIOUS
<1> HIDE DEF p, q
<1>2. a + b = (p + q) * d
  BY <1>1
<1>3. ASSUME NEW k \in Nat PROVE (k * d) % d = 0
  OBVIOUS
<1> QED  BY <1>1, <1>2, <1>3

-----------------------------------------------------------------------------
(* The invariant of the heap.                                              *)

Addrs == Seq(Int)
SlabState == [free : Addrs, next : Int, count : Int]
Held == [ptr : Int, size : Nat, align : Nat, block : Nat]

\* Where a block in use begins, with its header, and where it ends.
Bottom(b) == IF b.ptr < LargeStart THEN b.ptr ELSE b.ptr - Header
Top(b) == Bottom(b) + b.block

Apart(b, c) == Top(b) <= Bottom(c) \/ Top(c) <= Bottom(b)

\* The blocks in use of a slab.
InSlab(H, i) == {b \in H : b.ptr \in SlabStart(i) .. SlabStart(i) + SlabRegion - 1}

\* A block is a slot of slab i below the slab's bump pointer.
IsSmall(b, i, next) ==
  /\ b.ptr < LargeStart
  /\ Slot(i, b.ptr) /\ b.ptr + SlabSizes[i] <= next
  /\ b.block = SlabSizes[i] /\ b.size <= b.block

\* A block is in the memory for large ones.
IsLarge(b, g) ==
  /\ LargeStart <= b.ptr - Header
  /\ Header + b.size <= b.block
  /\ Taken(g, b.ptr - Header, b.ptr - Header + b.block)

\* A slab: what it has on its list are slots of its own, each once, below its bump
\* pointer, and not in use; it counts the blocks in use.
SlabOK(i, s, H) ==
  /\ Slot(i, s.next) /\ s.next <= SlabStart(i) + SlabRegion
  /\ \A j \in 1..Len(s.free) : Slot(i, s.free[j]) /\ s.free[j] + SlabSizes[i] <= s.next
  /\ \A j, k \in 1..Len(s.free) : j # k => s.free[j] # s.free[k]
  /\ \A b \in H : \A j \in 1..Len(s.free) : b.ptr # s.free[j]
  /\ s.count = Cardinality(InSlab(H, i))

BlockOK(b) == b \in Held /\ (EvenSlabs \/ b.ptr >= LargeStart => b.ptr % b.align = 0)

\* The slabs sl, the large allocator g and the blocks in use H fit.
HeapOK(sl, g, H) ==
  /\ IsFiniteSet(H)
  /\ sl \in [DOMAIN SlabSizes -> SlabState]
  /\ GoodList(g)
  /\ \A i \in DOMAIN SlabSizes : SlabOK(i, sl[i], H)
  /\ \A b \in H : BlockOK(b) /\ ((\E i \in DOMAIN SlabSizes : IsSmall(b, i, sl[i].next)) \/ IsLarge(b, g))
  /\ \A b, c \in H : b # c => Apart(b, c)

\* Where small blocks are.
LEMMA SmallBounds ==
  ASSUME NEW b \in Held, NEW i \in DOMAIN SlabSizes, NEW next \in Int,
         IsSmall(b, i, next), next <= SlabStart(i) + SlabRegion
  PROVE  /\ Bottom(b) = b.ptr /\ Top(b) = b.ptr + SlabSizes[i]
         /\ Bottom(b) \in Int /\ Top(b) \in Int /\ Bottom(b) < Top(b)
         /\ b.ptr \in Nat /\ SlabStart(i) <= b.ptr /\ b.ptr < SlabStart(i) + SlabRegion
         /\ Top(b) <= SlabStart(i) + SlabRegion /\ Top(b) <= LargeStart
<1>1. b.ptr \in Nat /\ SlabStart(i) <= b.ptr
  BY SlotsApart DEF IsSmall
<1>2. SlabSizes[i] \in Nat /\ SlabSizes[i] > 0 /\ SlabRegion \in Nat
  BY SizesAre
<1>3. SlabStart(i) \in Nat /\ LargeStart \in Nat /\ SlabStart(i) + SlabRegion <= LargeStart
  BY RegionsApart
<1>4. b.ptr < LargeStart /\ b.block = SlabSizes[i] /\ b.ptr + SlabSizes[i] <= next
  BY DEF IsSmall
<1>5. Bottom(b) = b.ptr /\ Top(b) = b.ptr + SlabSizes[i]
  BY <1>4 DEF Bottom, Top
<1> QED  BY <1>1, <1>2, <1>3, <1>4, <1>5

\* Where large blocks are.
LEMMA LargeBounds ==
  ASSUME NEW b \in Held, NEW g, GoodList(g), IsLarge(b, g)
  PROVE  /\ Bottom(b) = b.ptr - Header /\ Top(b) = b.ptr - Header + b.block
         /\ Bottom(b) \in Int /\ Top(b) \in Int /\ Bottom(b) < Top(b) /\ Header \in Nat
         /\ b.ptr \in Int /\ LargeStart \in Int /\ LargeStart < b.ptr
         /\ LargeStart <= Bottom(b) /\ Top(b) <= g.next /\ g.next \in Int
         /\ Taken(g, Bottom(b), Top(b))
<1>1. b.ptr \in Int /\ b.block \in Nat /\ Header \in Nat /\ Header > 0 /\ LargeStart \in Int /\ g.next \in Int
  BY HeapConstants, LargeStartIs DEF Held, GoodList
<1>2. LargeStart <= b.ptr - Header /\ Taken(g, b.ptr - Header, b.ptr - Header + b.block)
  BY DEF IsLarge
<1>3. Bottom(b) = b.ptr - Header /\ Top(b) = b.ptr - Header + b.block
  BY <1>1, <1>2 DEF Bottom, Top
<1>4. b.ptr - Header < b.ptr - Header + b.block /\ b.ptr - Header + b.block <= g.next
  BY <1>2 DEF Taken
<1> QED  BY <1>1, <1>2, <1>3, <1>4

\* A block in use of the heap is small or large.
LEMMA Kinds ==
  ASSUME NEW sl, NEW g, NEW H, HeapOK(sl, g, H), NEW b \in H
  PROVE  /\ b \in Held
         /\ \/ \E i \in DOMAIN SlabSizes :
                 /\ IsSmall(b, i, sl[i].next) /\ sl[i].next \in Int
                 /\ sl[i].next <= SlabStart(i) + SlabRegion
            \/ IsLarge(b, g)
<1>1. b \in Held
  BY DEF HeapOK, BlockOK
<1>2. \A i \in DOMAIN SlabSizes : sl[i].next \in Int
  BY DEF HeapOK, SlabState
<1>3. \A i \in DOMAIN SlabSizes : sl[i].next <= SlabStart(i) + SlabRegion
  BY DEF HeapOK, SlabOK
<1>4. (\E i \in DOMAIN SlabSizes : IsSmall(b, i, sl[i].next)) \/ IsLarge(b, g)
  BY DEF HeapOK
<1> QED  BY <1>1, <1>2, <1>3, <1>4

\* A block of a slab is in that slab and in no other.
LEMMA OwnSlab ==
  ASSUME NEW b \in Held, NEW i \in DOMAIN SlabSizes, NEW next \in Int,
         IsSmall(b, i, next), next <= SlabStart(i) + SlabRegion, NEW j \in DOMAIN SlabSizes
  PROVE  b.ptr \in SlabStart(j) .. SlabStart(j) + SlabRegion - 1 <=> j = i
<1>1. b.ptr \in Nat /\ SlabStart(i) <= b.ptr /\ b.ptr < SlabStart(i) + SlabRegion
  BY SmallBounds
<1>2. /\ SlabStart(i) \in Nat /\ SlabStart(j) \in Nat /\ SlabRegion \in Nat /\ i \in Nat /\ j \in Nat
      /\ i < j => SlabStart(i) + SlabRegion <= SlabStart(j)
      /\ j < i => SlabStart(j) + SlabRegion <= SlabStart(i)
  BY RegionsApart, SizesAre
<1>3. CASE j = i
  BY <1>1, <1>2, <1>3
<1>4. CASE i < j
  BY <1>1, <1>2, <1>4
<1>5. CASE j < i
  BY <1>1, <1>2, <1>5
<1> QED  BY <1>2, <1>3, <1>4, <1>5

\* A large block is in no slab, and no slot.
LEMMA NoSlab ==
  ASSUME NEW b \in Held, LargeStart <= b.ptr, NEW j \in DOMAIN SlabSizes
  PROVE  b.ptr \notin SlabStart(j) .. SlabStart(j) + SlabRegion - 1
<1>1. SlabStart(j) \in Nat /\ LargeStart \in Nat /\ SlabStart(j) + SlabRegion <= LargeStart /\ SlabRegion \in Nat
  BY RegionsApart, SizesAre
<1>2. b.ptr \in Int
  BY DEF Held
<1> QED  BY <1>1, <1>2

\* Small blocks at two addresses are apart.
LEMMA SmallApart ==
  ASSUME NEW b \in Held, NEW i \in DOMAIN SlabSizes, NEW m \in Int,
         IsSmall(b, i, m), m <= SlabStart(i) + SlabRegion,
         NEW c \in Held, NEW j \in DOMAIN SlabSizes, NEW n \in Int,
         IsSmall(c, j, n), n <= SlabStart(j) + SlabRegion, b.ptr # c.ptr
  PROVE  Apart(b, c)
<1>1. /\ Bottom(b) = b.ptr /\ Top(b) = b.ptr + SlabSizes[i] /\ SlabStart(i) <= b.ptr
      /\ Top(b) <= SlabStart(i) + SlabRegion /\ Top(b) \in Int /\ b.ptr \in Nat
  BY SmallBounds
<1>2. /\ Bottom(c) = c.ptr /\ Top(c) = c.ptr + SlabSizes[j] /\ SlabStart(j) <= c.ptr
      /\ Top(c) <= SlabStart(j) + SlabRegion /\ Top(c) \in Int /\ c.ptr \in Nat
  BY SmallBounds
<1>3. /\ SlabStart(i) \in Nat /\ SlabStart(j) \in Nat /\ SlabRegion \in Nat /\ i \in Nat /\ j \in Nat
      /\ i < j => SlabStart(i) + SlabRegion <= SlabStart(j)
      /\ j < i => SlabStart(j) + SlabRegion <= SlabStart(i)
  BY RegionsApart, SizesAre
<1>4. CASE i = j
  <2>1. Slot(i, b.ptr) /\ Slot(i, c.ptr)
    BY <1>4 DEF IsSmall
  <2>2. b.ptr + SlabSizes[i] <= c.ptr \/ c.ptr + SlabSizes[i] <= b.ptr
    BY <2>1, SlotsApart
  <2> QED  BY <1>1, <1>2, <1>4, <2>2 DEF Apart
<1>5. CASE i < j
  BY <1>1, <1>2, <1>3, <1>5 DEF Apart
<1>6. CASE j < i
  BY <1>1, <1>2, <1>3, <1>6 DEF Apart
<1> QED  BY <1>3, <1>4, <1>5, <1>6

\* A small block and a large one are apart.
LEMMA MixedApart ==
  ASSUME NEW b \in Held, NEW i \in DOMAIN SlabSizes, NEW m \in Int,
         IsSmall(b, i, m), m <= SlabStart(i) + SlabRegion,
         NEW c \in Held, NEW g, GoodList(g), IsLarge(c, g)
  PROVE  Apart(b, c) /\ Apart(c, b) /\ b.ptr # c.ptr
<1>1. Top(b) <= LargeStart /\ Top(b) \in Int /\ Bottom(b) = b.ptr /\ Bottom(b) < Top(b) /\ b.ptr \in Int
  BY SmallBounds
<1>2. LargeStart <= Bottom(c) /\ Bottom(c) \in Int /\ LargeStart \in Int /\ LargeStart < c.ptr /\ c.ptr \in Int
  BY LargeBounds
<1> QED  BY <1>1, <1>2 DEF Apart

-----------------------------------------------------------------------------
(* What the calls do to it.                                                *)

\* Slab i of sl has become slab i of sl2, which has nothing new on its list.
OneSlab(sl, sl2, i) ==
  /\ sl2 \in [DOMAIN SlabSizes -> SlabState]
  /\ \A j \in DOMAIN SlabSizes : j # i => sl2[j] = sl[j]
  /\ Slot(i, sl2[i].next) /\ sl2[i].next <= SlabStart(i) + SlabRegion /\ sl[i].next <= sl2[i].next

\* The list of slab s2 is part of that of s, without the address x.
ListLess(s, s2, x) ==
  \A j \in 1..Len(s2.free) : j \in 1..Len(s.free) /\ s2.free[j] = s.free[j] /\ s2.free[j] # x

Unheld(H, x) == \A c \in H : c.ptr # x

\* A slot of a slab may be used that no block has and that is off the list.
LEMMA AddSmall ==
  ASSUME NEW sl, NEW g, NEW H, HeapOK(sl, g, H), NEW i \in DOMAIN SlabSizes,
         NEW sl2, OneSlab(sl, sl2, i),
         NEW b, BlockOK(b), IsSmall(b, i, sl2[i].next),
         sl2[i].count = sl[i].count + 1,
         ListLess(sl[i], sl2[i], b.ptr), Unheld(H, b.ptr)
  PROVE  b \notin H /\ HeapOK(sl2, g, H \union {b})
<1> DEFINE K == H \union {b}
<1>0. /\ IsFiniteSet(H) /\ GoodList(g) /\ b \in Held
      /\ \A k \in DOMAIN SlabSizes : SlabOK(k, sl[k], H)
      /\ \A c \in H : BlockOK(c)
      /\ \A c, d \in H : c # d => Apart(c, d)
      /\ sl2 \in [DOMAIN SlabSizes -> SlabState]
      /\ \A k \in DOMAIN SlabSizes : k # i => sl2[k] = sl[k]
      /\ Slot(i, sl2[i].next) /\ sl2[i].next <= SlabStart(i) + SlabRegion /\ sl[i].next <= sl2[i].next
  BY DEF HeapOK, OneSlab, BlockOK
<1>1. b \notin H
  BY DEF Unheld
<1>2. \A k \in DOMAIN SlabSizes : sl[k].next \in Int /\ sl2[k].next \in Int
  BY DEF HeapOK, OneSlab, SlabState
<1>3. IsFiniteSet(K)
  BY <1>0, FS_AddElement
<1>4. ASSUME NEW k \in DOMAIN SlabSizes
      PROVE  SlabOK(k, sl2[k], K)
  <2>0. SlabOK(k, sl[k], H)
    BY <1>0
  <2>1. CASE k # i
    <3>1. sl2[k] = sl[k]
      BY <1>0, <2>1
    <3>2. b.ptr \notin SlabStart(k) .. SlabStart(k) + SlabRegion - 1
      BY <1>0, <1>2, <2>1, OwnSlab
    <3>3. InSlab(K, k) = InSlab(H, k)
      BY <3>2 DEF InSlab
    <3>4. ASSUME NEW j \in 1..Len(sl[k].free)
          PROVE  b.ptr # sl[k].free[j]
      <4>1. Slot(k, sl[k].free[j]) /\ sl[k].free[j] + SlabSizes[k] <= sl[k].next /\ sl[k].next <= SlabStart(k) + SlabRegion
        BY <2>0, <3>4 DEF SlabOK
      <4>2. SlabStart(k) <= sl[k].free[j] /\ sl[k].free[j] \in Nat
        BY <4>1, SlotIs
      <4>3. SlabSizes[k] \in Nat /\ SlabSizes[k] > 0 /\ SlabRegion \in Nat /\ SlabStart(k) \in Nat /\ sl[k].next \in Int
        BY <1>2, SizesAre, RegionsApart
      <4>4. sl[k].free[j] \in SlabStart(k) .. SlabStart(k) + SlabRegion - 1
        BY <4>1, <4>2, <4>3
      <4> QED  BY <3>2, <4>4
    <3> QED  BY <2>0, <3>1, <3>3, <3>4 DEF SlabOK
  <2>2. CASE k = i
    <3>1. InSlab(K, i) = InSlab(H, i) \union {b}
      <4>1. b.ptr \in SlabStart(i) .. SlabStart(i) + SlabRegion - 1
        BY <1>0, <1>2, OwnSlab
      <4> QED  BY <4>1 DEF InSlab
    <3>2. IsFiniteSet(InSlab(H, i)) /\ b \notin InSlab(H, i)
      BY <1>0, <1>1, FS_Subset DEF InSlab
    <3>3. Cardinality(InSlab(K, i)) = Cardinality(InSlab(H, i)) + 1
      BY <3>1, <3>2, FS_AddElement
    <3>4. sl2[i].count = Cardinality(InSlab(K, i))
      BY <2>0, <2>2, <3>3 DEF SlabOK
    <3>5. ASSUME NEW j \in 1..Len(sl2[i].free)
          PROVE  /\ Slot(i, sl2[i].free[j]) /\ sl2[i].free[j] + SlabSizes[i] <= sl2[i].next
                 /\ \A c \in K : c.ptr # sl2[i].free[j]
      <4>1. j \in 1..Len(sl[i].free) /\ sl2[i].free[j] = sl[i].free[j] /\ sl2[i].free[j] # b.ptr
        BY DEF ListLess
      <4>2. Slot(i, sl[i].free[j]) /\ sl[i].free[j] + SlabSizes[i] <= sl[i].next /\ \A c \in H : c.ptr # sl[i].free[j]
        BY <2>0, <2>2, <4>1 DEF SlabOK
      <4>3. sl[i].free[j] \in Nat /\ SlabSizes[i] \in Nat
        BY <4>2, SlotIs, SizesAre
      <4>4. sl[i].free[j] + SlabSizes[i] <= sl2[i].next
        BY <1>0, <1>2, <4>2, <4>3
      <4> QED  BY <4>1, <4>2, <4>4
    <3>6. ASSUME NEW j \in 1..Len(sl2[i].free), NEW n \in 1..Len(sl2[i].free), j # n
          PROVE  sl2[i].free[j] # sl2[i].free[n]
      BY <2>0, <2>2, <3>6 DEF SlabOK, ListLess
    <3> QED  BY <1>0, <2>2, <3>4, <3>5, <3>6 DEF SlabOK
  <2> QED  BY <2>1, <2>2
<1>5. ASSUME NEW c \in K
      PROVE  BlockOK(c) /\ ((\E k \in DOMAIN SlabSizes : IsSmall(c, k, sl2[k].next)) \/ IsLarge(c, g))
  <2>1. CASE c = b
    BY <2>1
  <2>2. CASE c \in H
    <3>1. CASE IsLarge(c, g)
      BY <1>0, <2>2, <3>1
    <3>2. CASE \E k \in DOMAIN SlabSizes : IsSmall(c, k, sl[k].next)
      <4>1. PICK k \in DOMAIN SlabSizes : IsSmall(c, k, sl[k].next)
        BY <3>2
      <4>2. c.ptr \in Int /\ SlabSizes[k] \in Nat
        BY <1>0, <2>2, SizesAre DEF BlockOK, Held
      <4>3. sl[k].next <= sl2[k].next
        BY <1>0, <1>2
      <4>4. IsSmall(c, k, sl2[k].next)
        BY <1>2, <4>1, <4>2, <4>3 DEF IsSmall
      <4> QED  BY <1>0, <2>2, <4>4
    <3> QED  BY <2>2, <3>1, <3>2, Kinds
  <2> QED  BY <2>1, <2>2
<1>6. ASSUME NEW c \in H
      PROVE  Apart(b, c) /\ Apart(c, b)
  <2>0. c \in Held /\ c.ptr # b.ptr
    BY Kinds DEF Unheld
  <2>1. CASE IsLarge(c, g)
    BY <1>0, <1>2, <2>0, <2>1, MixedApart
  <2>2. CASE \E k \in DOMAIN SlabSizes : IsSmall(c, k, sl[k].next) /\ sl[k].next \in Int /\ sl[k].next <= SlabStart(k) + SlabRegion
    <3>1. PICK k \in DOMAIN SlabSizes : IsSmall(c, k, sl[k].next) /\ sl[k].next \in Int /\ sl[k].next <= SlabStart(k) + SlabRegion
      BY <2>2
    <3>2. Apart(b, c)
      BY <1>0, <1>2, <2>0, <3>1, SmallApart
    <3> QED  BY <3>2 DEF Apart
  <2> QED  BY <2>1, <2>2, Kinds
<1>7. \A c, d \in K : c # d => Apart(c, d)
  BY <1>0, <1>6
<1> QED  BY <1>0, <1>1, <1>3, <1>4, <1>5, <1>7 DEF HeapOK

\* A block of a slab may be given back: its slot goes on the list.
LEMMA DropSmall ==
  ASSUME NEW sl, NEW g, NEW H, HeapOK(sl, g, H), NEW i \in DOMAIN SlabSizes,
         NEW b \in H, IsSmall(b, i, sl[i].next),
         NEW sl2 \in [DOMAIN SlabSizes -> SlabState],
         \A j \in DOMAIN SlabSizes : j # i => sl2[j] = sl[j],
         sl2[i] = [free |-> Append(sl[i].free, b.ptr), next |-> sl[i].next, count |-> sl[i].count - 1]
  PROVE  HeapOK(sl2, g, H \ {b})
<1> DEFINE K == H \ {b}
           q == Append(sl[i].free, b.ptr)
<1>0. /\ IsFiniteSet(H) /\ GoodList(g) /\ b \in Held
      /\ \A k \in DOMAIN SlabSizes : SlabOK(k, sl[k], H)
      /\ \A c \in H : BlockOK(c)
      /\ \A c, d \in H : c # d => Apart(c, d)
  BY DEF HeapOK, BlockOK
<1>1. \A k \in DOMAIN SlabSizes : sl[k].next \in Int /\ sl[k].next <= SlabStart(k) + SlabRegion /\ sl[k].free \in Addrs /\ sl[k].count \in Int
  BY DEF HeapOK, SlabOK, SlabState
<1>2. sl2[i].next = sl[i].next /\ sl2[i].free = q /\ sl2[i].count = sl[i].count - 1
  OBVIOUS
<1>3. b.ptr \in Int
  BY <1>0 DEF Held
<1>4. /\ Len(q) = Len(sl[i].free) + 1 /\ q[Len(q)] = b.ptr /\ Len(sl[i].free) \in Nat
      /\ \A j \in 1..Len(sl[i].free) : q[j] = sl[i].free[j]
  <2>1. sl[i].free \in Seq(Int)
    BY <1>1 DEF Addrs
  <2> QED  BY <1>3, <2>1, AppendProperties
<1> HIDE DEF q
<1>5. IsFiniteSet(K)
  BY <1>0, FS_RemoveElement
<1>6. ASSUME NEW c \in H, c # b
      PROVE  c.ptr # b.ptr
  <2>1. Apart(c, b) /\ c \in Held
    BY <1>0, <1>6, Kinds
  <2>2. Bottom(b) = b.ptr /\ Top(b) \in Int /\ Bottom(b) < Top(b) /\ b.ptr \in Int /\ b.ptr < LargeStart
    BY <1>0, <1>1, SmallBounds DEF IsSmall
  <2>3. CASE IsLarge(c, g)
    BY <1>0, <1>1, <2>1, <2>3, MixedApart
  <2>4. CASE \E k \in DOMAIN SlabSizes : IsSmall(c, k, sl[k].next) /\ sl[k].next \in Int /\ sl[k].next <= SlabStart(k) + SlabRegion
    <3>1. Bottom(c) = c.ptr /\ Top(c) \in Int /\ Bottom(c) < Top(c) /\ c.ptr \in Int
      BY <2>1, <2>4, SmallBounds
    <3> QED  BY <2>1, <2>2, <3>1 DEF Apart
  <2> QED  BY <2>3, <2>4, Kinds
<1>7. ASSUME NEW k \in DOMAIN SlabSizes
      PROVE  SlabOK(k, sl2[k], K)
  <2>0. SlabOK(k, sl[k], H)
    BY <1>0
  <2>1. CASE k # i
    <3>1. sl2[k] = sl[k]
      BY <2>1
    <3>2. b.ptr \notin SlabStart(k) .. SlabStart(k) + SlabRegion - 1
      BY <1>0, <1>1, <2>1, OwnSlab
    <3>3. InSlab(K, k) = InSlab(H, k)
      BY <3>2 DEF InSlab
    <3> QED  BY <2>0, <3>1, <3>3 DEF SlabOK
  <2>2. CASE k = i
    <3>1. InSlab(K, i) = InSlab(H, i) \ {b} /\ b \in InSlab(H, i)
      <4>1. b.ptr \in SlabStart(i) .. SlabStart(i) + SlabRegion - 1
        BY <1>0, <1>1, OwnSlab
      <4> QED  BY <4>1 DEF InSlab
    <3>2. IsFiniteSet(InSlab(H, i))
      BY <1>0, FS_Subset DEF InSlab
    <3>3. Cardinality(InSlab(K, i)) = Cardinality(InSlab(H, i)) - 1
      BY <3>1, <3>2, FS_RemoveElement
    <3>4. sl2[i].count = Cardinality(InSlab(K, i))
      BY <1>2, <2>0, <2>2, <3>3 DEF SlabOK
    <3>5. ASSUME NEW j \in 1..Len(q)
          PROVE  Slot(i, q[j]) /\ q[j] + SlabSizes[i] <= sl[i].next /\ \A c \in K : c.ptr # q[j]
      <4>1. CASE j = Len(q)
        BY <1>4, <1>6, <4>1 DEF IsSmall
      <4>2. CASE j # Len(q)
        <5>1. j \in 1..Len(sl[i].free)
          BY <1>4, <4>2
        <5>2. q[j] = sl[i].free[j]
          BY <1>4, <5>1
        <5> QED  BY <2>0, <2>2, <5>1, <5>2 DEF SlabOK
      <4> QED  BY <4>1, <4>2
    <3>6. ASSUME NEW j \in 1..Len(q), NEW n \in 1..Len(q), j # n
          PROVE  q[j] # q[n]
      <4>1. \A m \in 1..Len(sl[i].free) : b.ptr # sl[i].free[m]
        BY <2>0, <2>2 DEF SlabOK
      <4>2. \A m, o \in 1..Len(sl[i].free) : m # o => sl[i].free[m] # sl[i].free[o]
        BY <2>0, <2>2 DEF SlabOK
      <4>3. (j = Len(q) \/ j \in 1..Len(sl[i].free)) /\ (n = Len(q) \/ n \in 1..Len(sl[i].free))
        BY <1>4
      <4> QED  BY <1>4, <3>6, <4>1, <4>2, <4>3
    <3>7. Slot(i, sl[i].next)
      BY <2>0, <2>2 DEF SlabOK
    <3> QED  BY <1>1, <1>2, <2>2, <3>4, <3>5, <3>6, <3>7 DEF SlabOK
  <2> QED  BY <2>1, <2>2
<1>8. \A k \in DOMAIN SlabSizes : sl2[k].next = sl[k].next
  BY <1>2
<1>9. \A c \in K : BlockOK(c) /\ ((\E k \in DOMAIN SlabSizes : IsSmall(c, k, sl2[k].next)) \/ IsLarge(c, g))
  BY <1>8 DEF HeapOK
<1>10. \A c, d \in K : c # d => Apart(c, d)
  BY <1>0
<1> HIDE DEF K
<1>11. HeapOK(sl2, g, K)
  BY <1>0, <1>5, <1>7, <1>9, <1>10 DEF HeapOK
<1> QED  BY <1>11 DEF K

\* A large block may be used that is apart from the others.
LEMMA AddLarge ==
  ASSUME NEW sl, NEW g, NEW H, HeapOK(sl, g, H), NEW g2, GoodList(g2),
         \A a, z \in Int : Taken(g, a, z) => Taken(g2, a, z),
         NEW b, BlockOK(b), IsLarge(b, g2),
         \A c \in H : IsLarge(c, g) => Apart(b, c)
  PROVE  b \notin H /\ HeapOK(sl, g2, H \union {b})
<1> DEFINE K == H \union {b}
<1>0. /\ IsFiniteSet(H) /\ GoodList(g) /\ b \in Held
      /\ sl \in [DOMAIN SlabSizes -> SlabState]
      /\ \A k \in DOMAIN SlabSizes : SlabOK(k, sl[k], H)
      /\ \A c \in H : BlockOK(c)
      /\ \A c, d \in H : c # d => Apart(c, d)
  BY DEF HeapOK, BlockOK
<1>1. /\ Bottom(b) < Top(b) /\ Bottom(b) \in Int /\ Top(b) \in Int /\ LargeStart \in Int
      /\ LargeStart <= Bottom(b) /\ LargeStart < b.ptr /\ b.ptr \in Int
  BY <1>0, LargeBounds
<1>2. ASSUME NEW c \in H
      PROVE  Apart(b, c) /\ Apart(c, b)
  <2>0. c \in Held
    BY Kinds
  <2>1. CASE IsLarge(c, g)
    BY <2>1 DEF Apart
  <2>2. CASE \E k \in DOMAIN SlabSizes : IsSmall(c, k, sl[k].next) /\ sl[k].next \in Int /\ sl[k].next <= SlabStart(k) + SlabRegion
    BY <1>0, <2>0, <2>2, MixedApart
  <2> QED  BY <2>1, <2>2, Kinds
<1>3. b \notin H
  BY <1>1, <1>2 DEF Apart
<1>4. IsFiniteSet(K)
  BY <1>0, FS_AddElement
<1>5. ASSUME NEW k \in DOMAIN SlabSizes
      PROVE  SlabOK(k, sl[k], K)
  <2>0. SlabOK(k, sl[k], H)
    BY <1>0
  <2>1. b.ptr \notin SlabStart(k) .. SlabStart(k) + SlabRegion - 1
    BY <1>0, <1>1, NoSlab
  <2>2. InSlab(K, k) = InSlab(H, k)
    BY <2>1 DEF InSlab
  <2>3. ASSUME NEW j \in 1..Len(sl[k].free)
        PROVE  b.ptr # sl[k].free[j]
    <3>1. Slot(k, sl[k].free[j]) /\ sl[k].free[j] + SlabSizes[k] <= sl[k].next /\ sl[k].next <= SlabStart(k) + SlabRegion
      BY <2>0, <2>3 DEF SlabOK
    <3>2. SlabStart(k) <= sl[k].free[j] /\ sl[k].free[j] \in Nat
      BY <3>1, SlotIs
    <3>3. sl[k].next \in Int
      BY <1>0 DEF SlabState
    <3>4. SlabSizes[k] \in Nat /\ SlabSizes[k] > 0 /\ SlabRegion \in Nat /\ SlabStart(k) \in Nat
      BY SizesAre, RegionsApart
    <3>5. sl[k].free[j] \in SlabStart(k) .. SlabStart(k) + SlabRegion - 1
      <4> DEFINE x == sl[k].free[j]
      <4>1. x \in Nat /\ SlabStart(k) <= x /\ x + SlabSizes[k] <= sl[k].next
        BY <3>1, <3>2
      <4> HIDE DEF x
      <4>2. x < SlabStart(k) + SlabRegion
        BY <3>1, <3>3, <3>4, <4>1
      <4>3. x \in SlabStart(k) .. SlabStart(k) + SlabRegion - 1
        BY <3>4, <4>1, <4>2
      <4> QED  BY <4>3 DEF x
    <3> QED  BY <2>1, <3>5
  <2> QED  BY <2>0, <2>2, <2>3 DEF SlabOK
<1>6. ASSUME NEW c \in K
      PROVE  BlockOK(c) /\ ((\E k \in DOMAIN SlabSizes : IsSmall(c, k, sl[k].next)) \/ IsLarge(c, g2))
  <2>1. CASE c = b
    BY <2>1
  <2>2. CASE c \in H
    <3>1. CASE IsLarge(c, g)
      <4>1. c.ptr \in Int /\ Header \in Int /\ c.block \in Int
        BY <1>0, <2>2, HeapConstants DEF BlockOK, Held
      <4>2. c.ptr - Header \in Int /\ c.ptr - Header + c.block \in Int
        BY <4>1
      <4> QED  BY <1>0, <2>2, <3>1, <4>2 DEF IsLarge
    <3>2. CASE \E k \in DOMAIN SlabSizes : IsSmall(c, k, sl[k].next)
      BY <1>0, <2>2, <3>2
    <3> QED  BY <2>2, <3>1, <3>2, Kinds
  <2> QED  BY <2>1, <2>2
<1>7. \A c, d \in K : c # d => Apart(c, d)
  BY <1>0, <1>2
<1> QED  BY <1>0, <1>3, <1>4, <1>5, <1>6, <1>7 DEF HeapOK

\* A large block may be given back, if the others stay as they are.
LEMMA DropLarge ==
  ASSUME NEW sl, NEW g, NEW H, HeapOK(sl, g, H), NEW b \in H, IsLarge(b, g),
         NEW g2, GoodList(g2),
         \A a, z \in Int : Taken(g, a, z) /\ (z <= Bottom(b) \/ Top(b) <= a) => Taken(g2, a, z)
  PROVE  HeapOK(sl, g2, H \ {b})
<1> DEFINE K == H \ {b}
<1>0. /\ IsFiniteSet(H) /\ GoodList(g) /\ b \in Held
      /\ sl \in [DOMAIN SlabSizes -> SlabState]
      /\ \A k \in DOMAIN SlabSizes : SlabOK(k, sl[k], H)
      /\ \A c \in H : BlockOK(c)
      /\ \A c, d \in H : c # d => Apart(c, d)
  BY DEF HeapOK, BlockOK
<1>1. IsFiniteSet(K)
  BY <1>0, FS_RemoveElement
<1>2. ASSUME NEW k \in DOMAIN SlabSizes
      PROVE  SlabOK(k, sl[k], K)
  <2>0. SlabOK(k, sl[k], H)
    BY <1>0
  <2>1. b.ptr \notin SlabStart(k) .. SlabStart(k) + SlabRegion - 1
    <3>1. LargeStart < b.ptr /\ LargeStart \in Int /\ b.ptr \in Int
      BY <1>0, LargeBounds
    <3> QED  BY <1>0, <3>1, NoSlab
  <2>2. InSlab(K, k) = InSlab(H, k)
    BY <2>1 DEF InSlab
  <2> QED  BY <2>0, <2>2 DEF SlabOK
<1>3. ASSUME NEW c \in K
      PROVE  BlockOK(c) /\ ((\E k \in DOMAIN SlabSizes : IsSmall(c, k, sl[k].next)) \/ IsLarge(c, g2))
  <2>0. c \in Held /\ Apart(c, b) /\ BlockOK(c)
    BY <1>0 DEF BlockOK
  <2>1. CASE IsLarge(c, g)
    <3>1. /\ Bottom(c) = c.ptr - Header /\ Top(c) = c.ptr - Header + c.block
          /\ Bottom(c) \in Int /\ Top(c) \in Int /\ Taken(g, Bottom(c), Top(c))
      BY <1>0, <2>0, <2>1, LargeBounds
    <3>2. Taken(g2, Bottom(c), Top(c))
      BY <2>0, <3>1 DEF Apart
    <3> QED  BY <2>0, <2>1, <3>1, <3>2 DEF IsLarge
  <2>2. CASE \E k \in DOMAIN SlabSizes : IsSmall(c, k, sl[k].next)
    BY <2>0, <2>2
  <2> QED  BY <2>1, <2>2, Kinds
<1>4. \A c, d \in K : c # d => Apart(c, d)
  BY <1>0
<1> HIDE DEF K
<1>5. HeapOK(sl, g2, K)
  BY <1>0, <1>1, <1>2, <1>3, <1>4 DEF HeapOK
<1> QED  BY <1>5 DEF K

\* LargeAllocator::dealloc() as a function of the allocator and the block.
GivenBack(g, b) ==
  LET at == b.ptr - Header
      place == Place(g.free, at)
      list == InsertAt(g.free, place, [at |-> at, size |-> b.block])
  IN  ShrinkBump([free |-> MergeAt(list, place), next |-> g.next])

\* It gives back the block and nothing else.
LEMMA GivenBackKeeps ==
  ASSUME NEW g, GoodList(g), NEW b \in Held, IsLarge(b, g)
  PROVE  /\ GoodList(GivenBack(g, b))
         /\ \A a, z \in Int :
              Taken(g, a, z) /\ (z <= Bottom(b) \/ Top(b) <= a) => Taken(GivenBack(g, b), a, z)
<1> DEFINE at == b.ptr - Header
           e == [at |-> at, size |-> b.block]
           s == g.free
           p == Place(s, at)
           t == InsertAt(s, p, e)
           m == MergeAt(t, p)
           x == [free |-> m, next |-> g.next]
<1>1. /\ g.next \in Int /\ LargeStart \in Int /\ s \in Spans /\ LargeStart <= g.next
      /\ FreeList(s, LargeStart, g.next) /\ GapsBut(s, {})
  BY LargeStartIs DEF GoodList
<1>2. /\ Bottom(b) = at /\ Top(b) = at + b.block /\ at \in Int /\ b.block \in Int /\ Bottom(b) < Top(b)
      /\ LargeStart <= at /\ Top(b) <= g.next /\ Clear(s, at, at + b.block)
  <2>1. b.block \in Int
    BY DEF Held
  <2>2. /\ Bottom(b) = b.ptr - Header /\ Top(b) = b.ptr - Header + b.block /\ Bottom(b) \in Int
        /\ Bottom(b) < Top(b) /\ LargeStart <= Bottom(b) /\ Top(b) <= g.next
        /\ Taken(g, Bottom(b), Top(b))
    BY LargeBounds
  <2> QED  BY <2>1, <2>2 DEF Taken
<1> HIDE DEF at
<1>3. e \in Span /\ e.at = at /\ e.size = b.block /\ e.size > 0
  BY <1>2 DEF Span
<1>4. GivenBack(g, b) = ShrinkBump(x)
  BY DEF GivenBack, at
<1> HIDE DEF e, s
<1>5. /\ p \in 1..Len(t) /\ FreeList(t, LargeStart, g.next) /\ GapsBut(t, {p - 1, p})
      /\ \A a, z \in Int : Clear(s, a, z) /\ (z <= at \/ at + b.block <= a) => Clear(t, a, z)
  <2>1. at = e.at /\ at + b.block = e.at + e.size /\ e.at + e.size <= g.next /\ LargeStart <= e.at
    BY <1>2, <1>3
  <2>2. LET q == Place(s, e.at)
            r == InsertAt(s, q, e)
        IN  /\ q \in 1..Len(r)
            /\ FreeList(r, LargeStart, g.next)
            /\ GapsBut(r, {q - 1, q})
            /\ \A a, z \in Int : Clear(s, a, z) /\ (z <= e.at \/ e.at + e.size <= a) => Clear(r, a, z)
    BY <1>1, <1>2, <1>3, <2>1, InsertKeeps
  <2> QED  BY <2>1, <2>2
<1> HIDE DEF p, t
<1>6. /\ FreeList(m, LargeStart, g.next) /\ GapsBut(m, {})
      /\ \A a, z \in Int : a < z /\ Clear(t, a, z) => Clear(m, a, z)
  BY <1>1, <1>5, MergeKeeps
<1> HIDE DEF m
<1>7. GoodList(x)
  <2>1. m \in Spans
    BY <1>6 DEF FreeList
  <2>2. x \in [free : Spans, next : Int] /\ x.free = m /\ x.next = g.next
    BY <1>1, <2>1
  <2> QED  BY <1>1, <1>6, <2>2 DEF GoodList
<1>8. ASSUME NEW a \in Int, NEW z \in Int, Taken(g, a, z), z <= at \/ at + b.block <= a
      PROVE  Taken(x, a, z)
  <2>1. a < z /\ z <= g.next /\ Clear(s, a, z)
    BY <1>8 DEF Taken, s
  <2>2. Clear(m, a, z)
    BY <1>5, <1>6, <1>8, <2>1
  <2>3. x.free = m /\ x.next = g.next
    OBVIOUS
  <2> QED  BY <2>1, <2>2, <2>3 DEF Taken
<1> HIDE DEF x
<1>9. /\ GoodList(ShrinkBump(x))
      /\ \A a, z \in Int : Taken(x, a, z) => Taken(ShrinkBump(x), a, z)
  BY <1>7, ShrinkKeeps
<1> QED  BY <1>2, <1>4, <1>8, <1>9

\* The two allocators as the calls pass them on.
SlabStates == [DOMAIN SlabSizes -> SlabState]
LargeState == [free : Spans, next : Int]
Both == [slabs : SlabStates, large : LargeState, ptr : Int, block : Int, pad : Int]

\* What the calls need of a layout.
LEMMA LayoutsAre ==
  ASSUME NEW l \in Layouts
  PROVE  /\ l.size \in Nat /\ l.size > 0 /\ l.align \in Nat /\ l.align > 0
         /\ Header \in Nat /\ Header > 0 /\ HeaderAlign \in Nat /\ HeaderAlign > 0
         /\ \A i \in SmallSlabs(l) :
              /\ i \in DOMAIN SlabSizes /\ l.size <= SlabSizes[i] /\ SlabSizes[i] % l.align = 0
         /\ Max({l.align, HeaderAlign}) \in Nat /\ Max({l.align, HeaderAlign}) > 0
         /\ Max({l.align, HeaderAlign}) % l.align = 0
<1>1. l \in [size : Nat \ {0}, align : Nat \ {0}]
  BY HeapConstants
<1>2. l.size \in Nat /\ l.size > 0 /\ l.align \in Nat /\ l.align > 0
  BY <1>1
<1>3. Header \in Nat /\ Header > 0 /\ HeaderAlign \in Nat /\ HeaderAlign > 0
  BY HeapConstants
<1>4. ASSUME NEW i \in SmallSlabs(l)
      PROVE  i \in DOMAIN SlabSizes /\ l.size <= SlabSizes[i] /\ SlabSizes[i] % l.align = 0
  <2>1. i \in DOMAIN SlabSizes /\ Max({l.size, l.align}) <= SlabSizes[i]
    BY DEF SmallSlabs
  <2>2. l.size <= Max({l.size, l.align}) /\ Max({l.size, l.align}) \in Nat
    <3>1. \E x \in {l.size, l.align} : \A y \in {l.size, l.align} : x >= y
      BY <1>2
    <3>2. Max({l.size, l.align}) \in {l.size, l.align} /\ \A y \in {l.size, l.align} : Max({l.size, l.align}) >= y
      BY <3>1 DEF Max
    <3> QED  BY <1>2, <3>2
  <2>3. SlabSizes[i] \in Nat
    BY <2>1, SizesAre
  <2> QED  BY <1>2, <2>1, <2>2, <2>3, HeapConstants
<1>5. l.align <= HeaderAlign => HeaderAlign % l.align = 0
  BY HeapConstants
<1>6. l.align % l.align = 0
  BY <1>2
<1>7. Max({l.align, HeaderAlign}) = IF l.align <= HeaderAlign THEN HeaderAlign ELSE l.align
  BY <1>2, <1>3 DEF Max
<1> QED  BY <1>2, <1>3, <1>4, <1>5, <1>6, <1>7

\* A slot of a slab is aligned if the slab is.
LEMMA SlotAligned ==
  ASSUME NEW l \in Layouts, NEW i \in SmallSlabs(l), NEW x, Slot(i, x), EvenSlabs
  PROVE  x % l.align = 0
<1>1. l.align \in Nat /\ l.align > 0 /\ i \in DOMAIN SlabSizes /\ SlabSizes[i] % l.align = 0
  BY LayoutsAre
<1>2. SlabRegion % l.align = 0 /\ SlabRegion \in Nat
  BY SizesAre DEF EvenSlabs
<1>3. i - 1 \in Nat /\ SlabSizes[i] \in Nat
  BY <1>1, SizesAre
<1>4. PICK n \in Nat : x = SlabStart(i) + n * SlabSizes[i]
  BY DEF Slot
<1>5. ((i - 1) * SlabRegion) % l.align = 0 /\ (n * SlabSizes[i]) % l.align = 0
  BY <1>1, <1>2, <1>3, Divides
<1>6. (i - 1) * SlabRegion \in Nat /\ n * SlabSizes[i] \in Nat
  BY <1>2, <1>3, Multiples
<1>7. x = (i - 1) * SlabRegion + n * SlabSizes[i]
  BY <1>4 DEF SlabStart
<1> QED  BY <1>1, <1>5, <1>6, <1>7, DividesSum

\* An address that align_up() gave is aligned.
LEMMA PayloadAligned ==
  ASSUME NEW l \in Layouts, NEW a \in Nat
  PROVE  /\ AlignUp(a, Max({l.align, HeaderAlign})) \in Nat
         /\ AlignUp(a, Max({l.align, HeaderAlign})) >= a
         /\ AlignUp(a, Max({l.align, HeaderAlign})) % l.align = 0
<1> DEFINE d == Max({l.align, HeaderAlign})
<1>1. d \in Nat /\ d > 0 /\ d % l.align = 0 /\ l.align \in Nat /\ l.align > 0
  BY LayoutsAre
<1> HIDE DEF d
<1>2. AlignUp(a, d) \in Nat /\ AlignUp(a, d) >= a /\ \E n \in Nat : AlignUp(a, d) = n * d
  BY <1>1, AlignUpIs
<1>3. AlignUp(a, d) % l.align = 0
  <2>1. PICK n \in Nat : AlignUp(a, d) = n * d
    BY <1>2
  <2>2. (n * d) % l.align = 0
    BY <1>1, Divides
  <2> QED  BY <2>1, <2>2
<1> QED  BY <1>2, <1>3 DEF d

\* What an allocation promises: r is the heap afterwards, with the new block, unless
\* a free block was handed out from behind its start.
Served(r, H, l) ==
  /\ r \in Both /\ r.pad >= 0
  /\ r.pad = 0 => Block(r, l) \notin H /\ HeapOK(r.slabs, r.large, H \union {Block(r, l)})

\* A slab hands out the slot p and becomes s2.
Took(h, i, s2, p) == [h EXCEPT !.slabs[i] = s2, !.ptr = p, !.block = SlabSizes[i], !.pad = 0]

\* r is h with slab i changed.
OnlySlab(r, h, i) ==
  /\ r \in Both /\ r.large = h.large /\ r.slabs \in [DOMAIN SlabSizes -> SlabState]
  /\ \A j \in DOMAIN SlabSizes : j # i => r.slabs[j] = h.slabs[j]

\* What that leaves of h.
LEMMA TookIs ==
  ASSUME NEW h \in Both, NEW i \in DOMAIN SlabSizes, NEW s2 \in SlabState, NEW p \in Int
  PROVE  /\ OnlySlab(Took(h, i, s2, p), h, i)
         /\ Took(h, i, s2, p).slabs[i] = s2 /\ Took(h, i, s2, p).ptr = p
         /\ Took(h, i, s2, p).block = SlabSizes[i] /\ Took(h, i, s2, p).pad = 0
<1> DEFINE t == [h.slabs EXCEPT ![i] = s2]
           r == Took(h, i, s2, p)
<1>1. h.slabs \in SlabStates
  BY DEF Both
<1>2. t \in SlabStates /\ t[i] = s2 /\ \A j \in DOMAIN SlabSizes : j # i => t[j] = h.slabs[j]
  BY <1>1 DEF SlabStates
<1>3. r = [h EXCEPT !.slabs = t, !.ptr = p, !.block = SlabSizes[i], !.pad = 0]
  BY DEF Took
<1>4. SlabSizes[i] \in Int
  BY SizesAre
<1> HIDE DEF t, r
<1>5. r = [slabs |-> t, large |-> h.large, ptr |-> p, block |-> SlabSizes[i], pad |-> 0] /\ h.large \in LargeState
  BY <1>3 DEF Both
<1>6. r \in Both /\ r.slabs = t /\ r.pad = 0 /\ r.ptr = p /\ r.block = SlabSizes[i] /\ r.large = h.large
  BY <1>2, <1>4, <1>5 DEF Both
<1> QED  BY <1>2, <1>6 DEF r, SlabStates, OnlySlab

\* That serves a layout, if the slot was off the list or above the bump pointer.
LEMMA TookKeeps ==
  ASSUME NEW h \in Both, NEW H, HeapOK(h.slabs, h.large, H), NEW l \in Layouts,
         NEW i \in SmallSlabs(l), NEW p \in Int, NEW s2 \in SlabState,
         Slot(i, p), Slot(i, s2.next), p + SlabSizes[i] <= s2.next, h.slabs[i].next <= s2.next,
         s2.next <= SlabStart(i) + SlabRegion, s2.count = h.slabs[i].count + 1,
         ListLess(h.slabs[i], s2, p), Unheld(H, p)
  PROVE  Served(Took(h, i, s2, p), H, l)
<1> DEFINE r == Took(h, i, s2, p)
           b == Block(r, l)
<1>0. /\ i \in DOMAIN SlabSizes /\ l.size <= SlabSizes[i] /\ l.size \in Nat /\ l.align \in Nat
      /\ SlabSizes[i] \in Nat /\ SlabSizes[i] > 0
      /\ SlabStart(i) \in Nat /\ LargeStart \in Nat /\ SlabStart(i) + SlabRegion <= LargeStart /\ SlabRegion \in Nat
  BY LayoutsAre, SizesAre, RegionsApart
<1>a. OnlySlab(r, h, i) /\ r.slabs[i] = s2 /\ r.ptr = p /\ r.block = SlabSizes[i] /\ r.pad = 0
  BY <1>0, TookIs
<1> HIDE DEF r
<1>1. /\ r \in Both /\ r.pad = 0 /\ r.ptr = p /\ r.block = SlabSizes[i] /\ r.large = h.large
      /\ r.slabs \in [DOMAIN SlabSizes -> SlabState] /\ r.slabs[i] = s2
      /\ \A j \in DOMAIN SlabSizes : j # i => r.slabs[j] = h.slabs[j]
  BY <1>a DEF OnlySlab
<1>2. b \in Held /\ b.ptr = p /\ b.size = l.size /\ b.block = SlabSizes[i] /\ b.align = l.align
  BY <1>0, <1>1 DEF Block, Held
<1> HIDE DEF b
<1>4. p < LargeStart
  <2>1. s2.next \in Int
    BY DEF SlabState
  <2> QED  BY <1>0, <2>1
<1>3. BlockOK(b)
  <2>1. p < LargeStart /\ ~(p >= LargeStart)
    BY <1>0, <1>4
  <2> QED  BY <1>2, <2>1, SlotAligned DEF BlockOK
<1>5. IsSmall(b, i, r.slabs[i].next)
  BY <1>0, <1>1, <1>2, <1>4 DEF IsSmall
<1>6. OneSlab(h.slabs, r.slabs, i)
  BY <1>1 DEF OneSlab
<1>7. /\ r.slabs[i].count = h.slabs[i].count + 1
      /\ ListLess(h.slabs[i], r.slabs[i], b.ptr) /\ Unheld(H, b.ptr)
  BY <1>1, <1>2
<1>8. b \notin H /\ HeapOK(r.slabs, h.large, H \union {b})
  BY <1>0, <1>3, <1>5, <1>6, <1>7, AddSmall
<1> QED  BY <1>1, <1>8 DEF Served, b, r

\* Slab::alloc()
LEMMA SlabAllocKeeps ==
  ASSUME NEW h \in Both, NEW H, HeapOK(h.slabs, h.large, H), NEW l \in Layouts,
         NEW i \in SmallSlabs(l), SlabAlloc(h, i).ptr # -1
  PROVE  Served(SlabAlloc(h, i), H, l)
<1> DEFINE s == h.slabs[i]
           r == SlabAlloc(h, i)
<1>0. /\ i \in DOMAIN SlabSizes /\ SlabSizes[i] \in Nat /\ SlabSizes[i] > 0
      /\ SlabStart(i) \in Nat /\ LargeStart \in Nat /\ SlabStart(i) + SlabRegion <= LargeStart /\ SlabRegion \in Nat
  BY LayoutsAre, SizesAre, RegionsApart
<1>1. s \in SlabState /\ s.free \in Addrs /\ s.next \in Int /\ s.count \in Int
  BY <1>0 DEF Both, SlabStates, SlabState
<1>2. SlabOK(i, s, H)
  BY <1>0 DEF HeapOK
<1>3. s.free \in Seq(Int) /\ Len(s.free) \in Nat
  BY <1>1 DEF Addrs
<1>5. CASE s.free # <<>>
  <2> DEFINE s2 == [free |-> Front(s.free), next |-> s.next, count |-> s.count + 1]
             n == Len(s.free)
             p == s.free[n]
  <2>1. n \in 1..Len(s.free) /\ n \in Nat
    BY <1>3, <1>5
  <2>2. Front(s.free) \in Seq(Int) /\ Len(Front(s.free)) = n - 1 /\ \A j \in 1..n - 1 : Front(s.free)[j] = s.free[j]
    BY <1>3, <2>1 DEF Front
  <2>3. s2 \in SlabState
    BY <1>1, <2>2 DEF SlabState, Addrs
  <2>4. r = Took(h, i, s2, p)
    BY <1>5 DEF SlabAlloc, Last, Took
  <2>5. p \in Int /\ Slot(i, p) /\ p + SlabSizes[i] <= s.next /\ Unheld(H, p)
    <3>1. Slot(i, p) /\ p + SlabSizes[i] <= s.next /\ \A c \in H : c.ptr # p
      BY <1>2, <2>1 DEF SlabOK
    <3>2. p \in Int
      BY <1>3, <2>1
    <3> QED  BY <3>1, <3>2 DEF Unheld
  <2>6. ListLess(s, s2, p)
    <3>1. \A j \in 1..n - 1 : j \in 1..Len(s.free) /\ j # n
      BY <2>1
    <3>2. \A j \in 1..n - 1 : s.free[j] # s.free[n]
      BY <1>2, <2>1, <3>1 DEF SlabOK
    <3>3. s2.free = Front(s.free)
      OBVIOUS
    <3> QED  BY <2>2, <3>1, <3>2, <3>3 DEF ListLess
  <2>7. /\ p + SlabSizes[i] <= s2.next /\ s2.count = s.count + 1 /\ s.next <= s2.next /\ Slot(i, s2.next)
        /\ s2.next <= SlabStart(i) + SlabRegion
    BY <1>1, <1>2, <2>5 DEF SlabOK
  <2> HIDE DEF s2, p, n
  <2>8. Served(Took(h, i, s2, p), H, l)
    BY <2>3, <2>5, <2>6, <2>7, TookKeeps
  <2> QED  BY <2>4, <2>8
<1>6. CASE s.free = <<>> /\ s.next + SlabSizes[i] <= SlabStart(i) + SlabRegion
  <2> DEFINE s2 == [free |-> s.free, next |-> s.next + SlabSizes[i], count |-> s.count + 1]
             p == s.next
  <2>1. s2 \in SlabState /\ s2.next = s.next + SlabSizes[i] /\ s2.count = s.count + 1 /\ s2.free = <<>>
    BY <1>0, <1>1, <1>6 DEF SlabState
  <2>2. r = Took(h, i, s2, p)
    BY <1>6 DEF SlabAlloc, Took
  <2>3. Slot(i, p) /\ Slot(i, s2.next)
    BY <1>0, <1>2, <2>1, NextSlot DEF SlabOK
  <2>4. ListLess(s, s2, p)
    BY <2>1 DEF ListLess
  <2>5. ASSUME NEW c \in H PROVE c.ptr # p
    <3>1. c \in Held
      BY Kinds
    <3>2. CASE IsLarge(c, h.large)
      <4>1. LargeStart < c.ptr /\ c.ptr \in Int
        BY <3>1, <3>2, LargeBounds DEF HeapOK
      <4> QED  BY <1>0, <1>1, <1>6, <4>1
    <3>3. CASE \E k \in DOMAIN SlabSizes : /\ IsSmall(c, k, h.slabs[k].next) /\ h.slabs[k].next \in Int
                                           /\ h.slabs[k].next <= SlabStart(k) + SlabRegion
      <4>1. PICK k \in DOMAIN SlabSizes : /\ IsSmall(c, k, h.slabs[k].next) /\ h.slabs[k].next \in Int
                                          /\ h.slabs[k].next <= SlabStart(k) + SlabRegion
        BY <3>3
      <4>2. c.ptr \in Nat /\ SlabStart(k) <= c.ptr /\ c.ptr < SlabStart(k) + SlabRegion
        BY <3>1, <4>1, SmallBounds
      <4>3. CASE k = i
        BY <1>0, <1>1, <4>1, <4>2, <4>3 DEF IsSmall
      <4>4. CASE k # i
        <5>1. c.ptr \notin SlabStart(i) .. SlabStart(i) + SlabRegion - 1
          BY <1>0, <3>1, <4>1, <4>4, OwnSlab
        <5>2. p \in SlabStart(i) .. SlabStart(i) + SlabRegion - 1
          <6>1. SlabStart(i) <= p
            BY <1>0, <2>3, SlotsApart
          <6> QED  BY <1>0, <1>1, <1>6, <6>1
        <5> QED  BY <5>1, <5>2
      <4> QED  BY <4>3, <4>4
    <3> QED  BY <3>2, <3>3, Kinds
  <2>6. Unheld(H, p)
    BY <2>5 DEF Unheld
  <2>7. p \in Int /\ p + SlabSizes[i] <= s2.next /\ s.next <= s2.next /\ s2.next <= SlabStart(i) + SlabRegion
    BY <1>0, <1>1, <1>6, <2>1
  <2> HIDE DEF s2, p
  <2>8. Served(Took(h, i, s2, p), H, l)
    BY <2>1, <2>3, <2>4, <2>6, <2>7, TookKeeps
  <2> QED  BY <2>2, <2>8
<1>7. CASE s.free = <<>> /\ ~(s.next + SlabSizes[i] <= SlabStart(i) + SlabRegion)
  <2>1. r = [h EXCEPT !.ptr = -1]
    BY <1>7 DEF SlabAlloc
  <2>2. r.ptr = -1
    BY <2>1 DEF Both
  <2> QED  BY <2>2
<1> QED  BY <1>5, <1>6, <1>7

\* The large allocator becomes g2 and hands out the block at p, n long with its header.
Gave(h, g2, p, n, pad) == [slabs |-> h.slabs, large |-> g2, ptr |-> p, block |-> n, pad |-> pad]

\* What is in use stays in use.
Keeps(g, g2) == \A a, z \in Int : Taken(g, a, z) => Taken(g2, a, z)

\* No large block in use has memory between two addresses.
NoLargeIn(g, H, a, z) == \A c \in H : IsLarge(c, g) => z <= Bottom(c) \/ Top(c) <= a

\* That serves a layout, if no block in use has the memory.
LEMMA GaveKeeps ==
  ASSUME NEW h \in Both, NEW H, HeapOK(h.slabs, h.large, H), NEW l \in Layouts,
         NEW g2, GoodList(g2), Keeps(h.large, g2), NEW p \in Nat, NEW n \in Nat, p % l.align = 0,
         LargeStart <= p - Header, Header + l.size <= n,
         Taken(g2, p - Header, p - Header + n), NoLargeIn(h.large, H, p - Header, p - Header + n)
  PROVE  Served(Gave(h, g2, p, n, 0), H, l)
<1> DEFINE r == Gave(h, g2, p, n, 0)
           b == Block(r, l)
<1>0. l.size \in Nat /\ l.align \in Nat /\ Header \in Nat /\ Header > 0 /\ LargeStart \in Int
  BY LayoutsAre, LargeStartIs
<1>1. r.slabs = h.slabs /\ r.large = g2 /\ r.ptr = p /\ r.block = n /\ r.pad = 0
  BY DEF Gave
<1>2. r \in Both
  <2>1. h.slabs \in SlabStates
    BY DEF Both
  <2>2. g2 \in LargeState
    BY DEF GoodList, LargeState
  <2> QED  BY <2>1, <2>2 DEF Gave, Both
<1> HIDE DEF r
<1>3. b \in Held /\ b.ptr = p /\ b.size = l.size /\ b.block = n /\ b.align = l.align
  BY <1>0, <1>1 DEF Block, Held
<1> HIDE DEF b
<1>4. BlockOK(b)
  BY <1>3 DEF BlockOK
<1>5. IsLarge(b, g2)
  BY <1>3 DEF IsLarge
<1>6. Bottom(b) = p - Header /\ Top(b) = p - Header + n
  BY <1>0, <1>3, <1>5, LargeBounds
<1>7. \A c \in H : IsLarge(c, h.large) => Apart(b, c)
  BY <1>6 DEF NoLargeIn, Apart
<1>8. b \notin H /\ HeapOK(h.slabs, g2, H \union {b})
  BY <1>4, <1>5, <1>7, AddLarge DEF Keeps
<1> QED  BY <1>1, <1>2, <1>8 DEF Served, b, r

\* A block of the free list may be handed out.
LEMMA FreeBlock ==
  ASSUME NEW g, GoodList(g), NEW k \in 1..Len(g.free)
  PROVE  LET g2 == [free |-> RemoveAt(g.free, k), next |-> g.next]
         IN  /\ GoodList(g2) /\ Keeps(g, g2)
             /\ Taken(g2, StartOf(g.free, k), EndOf(g.free, k))
<1> DEFINE s == g.free
           t == RemoveAt(s, k)
           g2 == [free |-> t, next |-> g.next]
<1>0. s \in Spans /\ g.next \in Int /\ LargeStart \in Int
  BY LargeStartIs DEF GoodList
<1>1. FreeList(s, LargeStart, g.next) /\ GapsBut(s, {}) /\ LargeStart <= g.next
  BY DEF GoodList
<1>2. /\ FreeList(t, LargeStart, g.next) /\ GapsBut(t, {})
      /\ Clear(t, StartOf(s, k), EndOf(s, k))
      /\ \A a, z \in Int : Clear(s, a, z) => Clear(t, a, z)
  BY <1>0, <1>1, RemoveKeeps
<1>3. t \in Spans
  BY <1>2 DEF FreeList
<1> HIDE DEF t
<1>4. g2 \in [free : Spans, next : Int] /\ g2.free = t /\ g2.next = g.next
  BY <1>0, <1>3
<1> HIDE DEF g2
<1>5. GoodList(g2)
  BY <1>1, <1>2, <1>4 DEF GoodList
<1>6. Keeps(g, g2)
  BY <1>2, <1>4 DEF Keeps, Taken
<1>7. StartOf(s, k) < EndOf(s, k) /\ EndOf(s, k) <= g.next
  BY <1>1 DEF FreeList
<1>8. Taken(g2, StartOf(s, k), EndOf(s, k))
  BY <1>2, <1>4, <1>7 DEF Taken
<1> QED  BY <1>5, <1>6, <1>8 DEF g2, t

\* Memory above the bump pointer may be handed out.
LEMMA NewBlock ==
  ASSUME NEW g, GoodList(g), NEW a \in Int, NEW z \in Int, g.next <= a, a < z
  PROVE  LET g2 == [free |-> g.free, next |-> z]
         IN  GoodList(g2) /\ Keeps(g, g2) /\ Taken(g2, a, z)
<1> DEFINE s == g.free
           g2 == [free |-> s, next |-> z]
<1>0. /\ s \in Spans /\ g.next \in Int /\ LargeStart \in Int /\ LargeStart <= g.next
      /\ FreeList(s, LargeStart, g.next) /\ GapsBut(s, {})
  BY LargeStartIs DEF GoodList
<1>1. \A i \in 1..Len(s) : StartOf(s, i) \in Int /\ EndOf(s, i) \in Int /\ EndOf(s, i) <= g.next
  BY <1>0, SpansHold DEF FreeList
<1>2. g2 \in [free : Spans, next : Int] /\ g2.free = s /\ g2.next = z
  BY <1>0
<1> HIDE DEF g2
<1>3. \A i \in 1..Len(s) : EndOf(s, i) <= z /\ EndOf(s, i) <= a
  BY <1>0, <1>1
<1>4. FreeList(s, LargeStart, z)
  BY <1>0, <1>3 DEF FreeList
<1>5. LargeStart <= z
  BY <1>0
<1>6. GoodList(g2)
  BY <1>0, <1>2, <1>4, <1>5 DEF GoodList
<1>7. ASSUME NEW x \in Int, NEW y \in Int, Taken(g, x, y)
      PROVE  Taken(g2, x, y)
  <2>1. y <= z
    BY <1>0, <1>7 DEF Taken
  <2> QED  BY <1>2, <1>7, <2>1 DEF Taken
<1>8. Taken(g2, a, z)
  <2>1. Clear(s, a, z)
    BY <1>3 DEF Clear
  <2> QED  BY <1>2, <2>1 DEF Taken
<1> QED  BY <1>6, <1>7, <1>8 DEF g2, Keeps

\* The payload of free block k, and the free blocks that LargeAllocator::alloc() finds
\* large enough.
Payload(g, k, align) == AlignUp(g.free[k].at + Header, align)
Fitting(g, size, align) ==
  {k \in DOMAIN g.free : g.free[k].size >= Payload(g, k, align) - g.free[k].at + size}

\* The value that an allocation returns.
Changed(h, f, p, n, d) == [h EXCEPT !.large = f, !.ptr = p, !.block = n, !.pad = d]

\* It is the value that Gave names.
LEMMA ChangedIs ==
  ASSUME NEW h \in Both, NEW f, NEW p, NEW n, NEW d
  PROVE  Changed(h, f, p, n, d) = Gave(h, f, p, n, d)
<1> DEFINE r == [h EXCEPT !.large = f, !.ptr = p, !.block = n, !.pad = d]
<1>1. r = [h EXCEPT !.large = f, !.ptr = p, !.block = n, !.pad = d]
  OBVIOUS
<1> HIDE DEF r
<1>2. r = [slabs |-> h.slabs, large |-> f, ptr |-> p, block |-> n, pad |-> d]
  BY <1>1 DEF Both
<1> QED  BY <1>1, <1>2 DEF Changed, Gave

\* LargeAllocator::alloc() written with them.
LEMMA LargeAllocIs ==
  ASSUME NEW h \in Both, NEW size, NEW align
  PROVE  LET g == h.large
             fits == Fitting(g, size, align)
             k == Min(fits)
             start == AlignUp(g.next + Header, align)
         IN  LargeAlloc(h, size, align) =
               IF fits # {}
               THEN Gave(h, [free |-> RemoveAt(g.free, k), next |-> g.next], Payload(g, k, align),
                         g.free[k].size, Payload(g, k, align) - g.free[k].at - Header)
               ELSE IF start + size > HeapSize THEN [h EXCEPT !.ptr = -1]
               ELSE Gave(h, [free |-> g.free, next |-> start + size], start, Header + size, 0)
<1> DEFINE g == h.large
           fits == Fitting(g, size, align)
           start == AlignUp(g.next + Header, align)
           pay(b) == AlignUp(b.at + Header, align)
           fit == {i \in DOMAIN g.free : g.free[i].size >= pay(g.free[i]) - g.free[i].at + size}
           reuse(i) == [h EXCEPT !.large.free = RemoveAt(@, i), !.ptr = pay(g.free[i]),
                                 !.block = g.free[i].size, !.pad = pay(g.free[i]) - g.free[i].at - Header]
<1>1. g \in LargeState
  BY DEF Both
<1>2. fit = fits
  BY DEF Fitting, Payload
<1>3. ASSUME NEW i
      PROVE  reuse(i) = Gave(h, [free |-> RemoveAt(g.free, i), next |-> g.next], Payload(g, i, align),
                             g.free[i].size, Payload(g, i, align) - g.free[i].at - Header)
  <2> DEFINE t == RemoveAt(g.free, i)
             p == pay(g.free[i])
             n == g.free[i].size
             d == p - g.free[i].at - Header
  <2>1. [h EXCEPT !.large.free = t, !.ptr = p, !.block = n, !.pad = d] = Gave(h, [g EXCEPT !.free = t], p, n, d)
    <3> HIDE DEF t, p, n, d
    <3>1. [h EXCEPT !.large.free = t, !.ptr = p, !.block = n, !.pad = d] = Changed(h, [g EXCEPT !.free = t], p, n, d)
      BY DEF Changed
    <3> QED  BY <3>1, ChangedIs
  <2>2. [g EXCEPT !.free = t] = [free |-> t, next |-> g.next]
    <3> HIDE DEF t, g
    <3> QED  BY <1>1 DEF LargeState
  <2> QED  BY <2>1, <2>2 DEF Payload
<1>4. [h EXCEPT !.large.next = start + size, !.ptr = start, !.block = Header + size, !.pad = 0]
        = Gave(h, [free |-> g.free, next |-> start + size], start, Header + size, 0)
  <2> DEFINE e == start + size
             f == Header + size
  <2>1. [h EXCEPT !.large.next = e, !.ptr = start, !.block = f, !.pad = 0] = Gave(h, [g EXCEPT !.next = e], start, f, 0)
    <3> HIDE DEF e, f, start
    <3>1. [h EXCEPT !.large.next = e, !.ptr = start, !.block = f, !.pad = 0] = Changed(h, [g EXCEPT !.next = e], start, f, 0)
      BY DEF Changed
    <3> QED  BY <3>1, ChangedIs
  <2>2. [g EXCEPT !.next = e] = [free |-> g.free, next |-> e]
    <3> HIDE DEF e, g
    <3> QED  BY <1>1 DEF LargeState
  <2> QED  BY <2>1, <2>2
<1>5. LargeAlloc(h, size, align) =
        IF fit # {} THEN reuse(Min(fit))
        ELSE IF start + size > HeapSize THEN [h EXCEPT !.ptr = -1]
        ELSE [h EXCEPT !.large.next = start + size, !.ptr = start, !.block = Header + size, !.pad = 0]
  BY DEF LargeAlloc
<1> QED  BY <1>2, <1>3, <1>4, <1>5

\* LargeAllocator::alloc()
LEMMA LargeAllocKeeps ==
  ASSUME NEW h \in Both, NEW H, HeapOK(h.slabs, h.large, H), NEW l \in Layouts,
         LargeAlloc(h, l.size, Max({l.align, HeaderAlign})).ptr # -1
  PROVE  Served(LargeAlloc(h, l.size, Max({l.align, HeaderAlign})), H, l)
<1> DEFINE g == h.large
           s == g.free
           d == Max({l.align, HeaderAlign})
           r == LargeAlloc(h, l.size, d)
           fits == Fitting(g, l.size, d)
           start == AlignUp(g.next + Header, d)
<1>0. /\ l.size \in Nat /\ l.size > 0 /\ l.align \in Nat /\ Header \in Nat /\ Header > 0
      /\ LargeStart \in Nat /\ GoodList(g)
  BY LayoutsAre, RegionsApart, HeapConstants DEF HeapOK, LargeStart
<1>1. /\ s \in Spans /\ Len(s) \in Nat /\ g.next \in Int /\ LargeStart <= g.next
      /\ FreeList(s, LargeStart, g.next)
  BY <1>0, SpansHold DEF GoodList
<1>2. r = IF fits # {}
          THEN Gave(h, [free |-> RemoveAt(s, Min(fits)), next |-> g.next], Payload(g, Min(fits), d),
                    s[Min(fits)].size, Payload(g, Min(fits), d) - s[Min(fits)].at - Header)
          ELSE IF start + l.size > HeapSize THEN [h EXCEPT !.ptr = -1]
          ELSE Gave(h, [free |-> s, next |-> start + l.size], start, Header + l.size, 0)
  BY LargeAllocIs
<1>3. ASSUME NEW a \in Nat
      PROVE  AlignUp(a, d) \in Nat /\ AlignUp(a, d) >= a /\ AlignUp(a, d) % l.align = 0
  BY PayloadAligned
<1>4. r.ptr # -1
  OBVIOUS
<1> HIDE DEF d, r
<1>5. CASE fits # {}
  <2> DEFINE k == Min(fits)
             p == Payload(g, k, d)
             n == s[k].size
             at == s[k].at
             g2 == [free |-> RemoveAt(s, k), next |-> g.next]
  <2>1. k \in fits
    <3>1. \A y \in fits : y \in Nat
      BY <1>1 DEF Fitting, Spans
    <3> QED  BY <1>5, <3>1, MinIs
  <2>2. k \in 1..Len(s) /\ n >= p - at + l.size
    <3> HIDE DEF k
    <3>1. k \in DOMAIN s /\ n >= p - at + l.size
      BY <2>1 DEF Fitting
    <3>2. DOMAIN s = 1..Len(s)
      BY <1>1 DEF Spans
    <3> QED  BY <3>1, <3>2
  <2> HIDE DEF k, fits
  <2>3. StartOf(s, k) \in Int /\ EndOf(s, k) \in Int /\ s[k] \in Span /\ LargeStart <= StartOf(s, k)
    BY <1>1, <2>2, SpansHold DEF FreeList
  <2>4. at = StartOf(s, k) /\ at \in Nat /\ n \in Int /\ EndOf(s, k) = at + n
    <3>1. s[k].at \in Int /\ s[k].size \in Int
      BY <2>3 DEF Span
    <3> QED  BY <1>0, <2>3, <3>1 DEF StartOf, EndOf
  <2> HIDE DEF at, n
  <2>5. p \in Nat /\ p >= at + Header /\ p % l.align = 0
    <3>1. at + Header \in Nat
      BY <1>0, <2>4
    <3> QED  BY <1>3, <3>1 DEF Payload, at
  <2> HIDE DEF p
  <2>6. GoodList(g2) /\ Keeps(g, g2) /\ Taken(g2, StartOf(s, k), EndOf(s, k))
    BY <1>0, <2>2, FreeBlock
  <2> HIDE DEF g2
  <2>7. r = Gave(h, g2, p, n, p - at - Header)
    BY <1>2, <1>5 DEF g2, p, n, at, k
  <2>8. CASE p - at - Header = 0
    <3>1. p - Header = StartOf(s, k) /\ p - Header + n = EndOf(s, k) /\ n \in Nat /\ Header + l.size <= n
      <4>1. p = at + Header
        BY <1>0, <2>4, <2>5, <2>8
      <4>2. n >= Header + l.size
        <5>1. p - at = Header
          BY <1>0, <2>4, <4>1
        <5> QED  BY <2>2, <5>1
      <4>3. n \in Nat /\ Header + l.size <= n
        BY <1>0, <2>4, <4>2
      <4>4. p - Header = at /\ p - Header + n = at + n
        BY <1>0, <2>4, <4>1
      <4> QED  BY <2>4, <4>3, <4>4
    <3>2. NoLargeIn(g, H, StartOf(s, k), EndOf(s, k))
      <4>1. ASSUME NEW c \in H, IsLarge(c, g)
            PROVE  EndOf(s, k) <= Bottom(c) \/ Top(c) <= StartOf(s, k)
        <5>1. c \in Held
          BY Kinds
        <5>2. Taken(g, Bottom(c), Top(c))
          BY <1>0, <4>1, <5>1, LargeBounds
        <5> QED  BY <2>2, <5>2 DEF Taken, Clear
      <4> QED  BY <4>1 DEF NoLargeIn
    <3>3. LargeStart <= p - Header
      BY <2>3, <3>1
    <3>4. Taken(g2, p - Header, p - Header + n) /\ NoLargeIn(g, H, p - Header, p - Header + n)
      BY <2>6, <3>1, <3>2
    <3>5. Served(Gave(h, g2, p, n, 0), H, l)
      BY <2>5, <2>6, <3>1, <3>3, <3>4, GaveKeeps
    <3> QED  BY <2>7, <2>8, <3>5 DEF r, d
  <2>9. CASE p - at - Header # 0
    <3>1. p - at - Header > 0 /\ p - at - Header \in Int
      BY <1>0, <2>4, <2>5, <2>9
    <3>2. r.pad = p - at - Header
      BY <2>7 DEF Gave
    <3>3. r \in Both
      <4>1. h.slabs \in SlabStates
        BY DEF Both
      <4>2. g2 \in LargeState
        BY <2>6 DEF GoodList, LargeState
      <4> QED  BY <2>4, <2>5, <2>7, <3>1, <4>1, <4>2 DEF Gave, Both
    <3>4. Served(r, H, l)
      BY <3>1, <3>2, <3>3 DEF Served
    <3> QED  BY <3>4 DEF r, d
  <2> QED  BY <2>8, <2>9
<1>6. CASE fits = {} /\ ~(start + l.size > HeapSize)
  <2> DEFINE g2 == [free |-> s, next |-> start + l.size]
             n == Header + l.size
  <2>1. start \in Nat /\ start >= g.next + Header /\ start % l.align = 0
    <3>1. g.next + Header \in Nat
      BY <1>0, <1>1
    <3> QED  BY <1>3, <3>1
  <2>2. r = Gave(h, g2, start, n, 0)
    BY <1>2, <1>6
  <2> HIDE DEF start
  <2>3. /\ start - Header \in Int /\ start + l.size \in Int /\ g.next <= start - Header
        /\ start - Header < start + l.size /\ n \in Nat /\ start - Header + n = start + l.size
        /\ LargeStart <= start - Header /\ Header + l.size <= n
    <3>1. start - Header \in Int /\ start + l.size \in Int /\ g.next <= start - Header
      BY <1>0, <1>1, <2>1
    <3>2. LargeStart <= start - Header
      BY <1>0, <1>1, <3>1
    <3>3. start - Header < start + l.size /\ n \in Nat /\ start - Header + n = start + l.size /\ Header + l.size <= n
      BY <1>0, <2>1
    <3> QED  BY <3>1, <3>2, <3>3
  <2>4. GoodList(g2) /\ Keeps(g, g2) /\ Taken(g2, start - Header, start + l.size)
    BY <1>0, <2>3, NewBlock
  <2> HIDE DEF n, g2
  <2>5. NoLargeIn(g, H, start - Header, start - Header + n)
    <3>1. ASSUME NEW c \in H, IsLarge(c, g)
          PROVE  Top(c) <= start - Header
      <4>1. c \in Held
        BY Kinds
      <4>2. Top(c) <= g.next /\ Top(c) \in Int
        BY <1>0, <3>1, <4>1, LargeBounds
      <4> QED  BY <1>1, <2>3, <4>2
    <3> QED  BY <3>1 DEF NoLargeIn
  <2>6. Taken(g2, start - Header, start - Header + n)
    BY <2>3, <2>4
  <2>7. Served(Gave(h, g2, start, n, 0), H, l)
    BY <2>1, <2>3, <2>4, <2>5, <2>6, GaveKeeps
  <2> QED  BY <2>2, <2>7 DEF r, d
<1>7. CASE fits = {} /\ start + l.size > HeapSize
  <2>1. r = [h EXCEPT !.ptr = -1]
    BY <1>2, <1>7
  <2>2. r.ptr = -1
    BY <2>1 DEF Both
  <2> QED  BY <1>4, <2>2
<1> QED  BY <1>5, <1>6, <1>7

\* SlabAllocator::alloc()
LEMMA AllocInKeeps ==
  ASSUME NEW h \in Both, NEW H, HeapOK(h.slabs, h.large, H), NEW l \in Layouts, AllocIn(h, l).ptr # -1
  PROVE  Served(AllocIn(h, l), H, l)
<1>1. CASE SmallSlabs(l) # {}
  <2>1. \A i \in SmallSlabs(l) : i \in Nat
    BY SizesAre DEF SmallSlabs
  <2>2. Min(SmallSlabs(l)) \in SmallSlabs(l)
    BY <1>1, <2>1, MinIs
  <2>3. AllocIn(h, l) = SlabAlloc(h, Min(SmallSlabs(l)))
    BY <1>1 DEF AllocIn
  <2> QED  BY <2>2, <2>3, SlabAllocKeeps
<1>2. CASE SmallSlabs(l) = {}
  <2>1. AllocIn(h, l) = LargeAlloc(h, l.size, Max({l.align, HeaderAlign}))
    BY <1>2 DEF AllocIn
  <2> QED  BY <2>1, LargeAllocKeeps
<1> QED  BY <1>1, <1>2

\* Slab i takes the slot p back.
Refilled(h, i, p) ==
  [h EXCEPT !.slabs[i] = [free |-> Append(@.free, p), next |-> @.next, count |-> @.count - 1]]

\* What that leaves of h.
LEMMA RefilledIs ==
  ASSUME NEW h \in Both, NEW i \in DOMAIN SlabSizes, NEW p \in Int
  PROVE  /\ OnlySlab(Refilled(h, i, p), h, i) /\ Refilled(h, i, p).pad = h.pad
         /\ Refilled(h, i, p).slabs[i] =
              [free |-> Append(h.slabs[i].free, p), next |-> h.slabs[i].next, count |-> h.slabs[i].count - 1]
<1> DEFINE s == h.slabs[i]
           s2 == [free |-> Append(s.free, p), next |-> s.next, count |-> s.count - 1]
           t == [h.slabs EXCEPT ![i] = s2]
           r == Refilled(h, i, p)
<1>1. h.slabs \in SlabStates /\ s \in SlabState
  BY DEF Both, SlabStates
<1>2. s2 \in SlabState
  <2>1. s.free \in Seq(Int) /\ s.next \in Int /\ s.count \in Int
    BY <1>1 DEF SlabState, Addrs
  <2>2. Append(s.free, p) \in Addrs
    BY <2>1 DEF Addrs
  <2> QED  BY <2>1, <2>2 DEF SlabState
<1>3. r = [h EXCEPT !.slabs = t]
  BY DEF Refilled
<1> HIDE DEF s2
<1>4. t \in SlabStates /\ t[i] = s2 /\ \A j \in DOMAIN SlabSizes : j # i => t[j] = h.slabs[j]
  BY <1>1, <1>2 DEF SlabStates
<1> HIDE DEF t, r
<1>5. r = [slabs |-> t, large |-> h.large, ptr |-> h.ptr, block |-> h.block, pad |-> h.pad]
  BY <1>3 DEF Both
<1>6. h.large \in LargeState /\ h.ptr \in Int /\ h.block \in Int /\ h.pad \in Int
  BY DEF Both
<1>7. r \in Both /\ r.slabs = t /\ r.large = h.large /\ r.pad = h.pad
  BY <1>4, <1>5, <1>6 DEF Both
<1> QED  BY <1>4, <1>7 DEF OnlySlab, SlabStates, s2, r

\* SlabAllocator::dealloc()
LEMMA DeallocInKeeps ==
  ASSUME NEW h \in Both, NEW H, HeapOK(h.slabs, h.large, H), NEW b \in H
  PROVE  DeallocIn(h, b).pad = h.pad /\ HeapOK(DeallocIn(h, b).slabs, DeallocIn(h, b).large, H \ {b})
<1> DEFINE r == DeallocIn(h, b)
<1>0. b \in Held /\ GoodList(h.large) /\ LargeStart \in Int /\ b.ptr \in Int
  BY Kinds, LargeStartIs DEF HeapOK, Held
<1>1. CASE IsLarge(b, h.large)
  <2>1. b.ptr >= LargeStart
    BY <1>0, <1>1, LargeBounds
  <2>2. r = [h EXCEPT !.large = GivenBack(h.large, b)]
    BY <2>1 DEF DeallocIn, LargeDealloc, GivenBack
  <2>3. r.slabs = h.slabs /\ r.pad = h.pad /\ r.large = GivenBack(h.large, b)
    BY <2>2 DEF Both
  <2>4. /\ GoodList(GivenBack(h.large, b))
        /\ \A a, z \in Int :
             Taken(h.large, a, z) /\ (z <= Bottom(b) \/ Top(b) <= a) => Taken(GivenBack(h.large, b), a, z)
    BY <1>0, <1>1, GivenBackKeeps
  <2>5. HeapOK(h.slabs, GivenBack(h.large, b), H \ {b})
    BY <1>1, <2>4, DropLarge
  <2> QED  BY <2>3, <2>5
<1>2. CASE \E i \in DOMAIN SlabSizes : IsSmall(b, i, h.slabs[i].next) /\ h.slabs[i].next \in Int
                                       /\ h.slabs[i].next <= SlabStart(i) + SlabRegion
  <2>1. PICK i \in DOMAIN SlabSizes : IsSmall(b, i, h.slabs[i].next) /\ h.slabs[i].next \in Int
                                      /\ h.slabs[i].next <= SlabStart(i) + SlabRegion
    BY <1>2
  <2>2. b.ptr \in Nat /\ SlabStart(i) <= b.ptr /\ b.ptr < SlabStart(i) + SlabRegion
    BY <1>0, <2>1, SmallBounds
  <2>3. b.ptr \div SlabRegion + 1 = i
    BY <2>2, WhichSlab
  <2>4. ~(b.ptr >= LargeStart)
    BY <1>0, <2>1 DEF IsSmall
  <2>5. r = Refilled(h, i, b.ptr)
    BY <2>3, <2>4 DEF DeallocIn, Refilled
  <2>6. /\ OnlySlab(r, h, i) /\ r.pad = h.pad
        /\ r.slabs[i] =
             [free |-> Append(h.slabs[i].free, b.ptr), next |-> h.slabs[i].next, count |-> h.slabs[i].count - 1]
    BY <1>0, <2>5, RefilledIs
  <2> HIDE DEF r
  <2>7. /\ r.slabs \in [DOMAIN SlabSizes -> SlabState] /\ r.large = h.large
        /\ \A j \in DOMAIN SlabSizes : j # i => r.slabs[j] = h.slabs[j]
    BY <2>6 DEF OnlySlab
  <2>8. HeapOK(r.slabs, h.large, H \ {b})
    BY <2>1, <2>6, <2>7, DropSmall
  <2> QED  BY <2>6, <2>7, <2>8 DEF r
<1> QED  BY <1>1, <1>2, Kinds

\* try_grow_in_place()
LEMMA GrowKeeps ==
  ASSUME NEW sl, NEW g, NEW H, HeapOK(sl, g, H), NEW b \in H, NEW size \in Nat,
         size > b.size, b.ptr >= LargeStart, b.ptr + b.size = g.next
  PROVE  HeapOK(sl, [free |-> g.free, next |-> b.ptr + size],
                (H \ {b}) \union {[b EXCEPT !.size = size, !.block = Header + size]})
<1> DEFINE c == [b EXCEPT !.size = size, !.block = Header + size]
           g2 == [free |-> g.free, next |-> b.ptr + size]
           at == b.ptr - Header
<1>0. /\ b \in Held /\ GoodList(g) /\ LargeStart \in Nat /\ Header \in Nat /\ Header > 0
      /\ b.ptr \in Int /\ b.size \in Nat /\ b.block \in Nat /\ b.align \in Nat /\ BlockOK(b)
  BY Kinds, HeapConstants DEF HeapOK, Held, LargeStart
<1>1. c \in Held /\ c.ptr = b.ptr /\ c.size = size /\ c.block = Header + size /\ c.align = b.align
  <2>1. c = [b EXCEPT !.size = size, !.block = Header + size]
    OBVIOUS
  <2> HIDE DEF c
  <2>2. c = [ptr |-> b.ptr, size |-> size, align |-> b.align, block |-> Header + size]
    BY <1>0, <2>1 DEF Held
  <2>3. Header + size \in Nat
    BY <1>0
  <2> QED  BY <1>0, <2>2, <2>3 DEF Held
<1> HIDE DEF c
<1>2. IsLarge(b, g)
  <2>1. ASSUME NEW i \in DOMAIN SlabSizes, IsSmall(b, i, sl[i].next) PROVE FALSE
    BY <1>0, <2>1 DEF IsSmall
  <2> QED  BY <2>1, Kinds
<1>3. /\ Bottom(b) = at /\ Top(b) = at + b.block /\ Top(b) <= g.next /\ g.next \in Int
      /\ LargeStart <= at /\ Taken(g, Bottom(b), Top(b))
  BY <1>0, <1>2, LargeBounds
<1>4. Header + b.size <= b.block
  BY <1>2 DEF IsLarge
<1>5. Top(b) = g.next /\ at \in Int
  <2>1. at \in Int /\ b.ptr = at + Header
    BY <1>0
  <2>2. g.next = at + Header + b.size
    BY <2>1
  <2> HIDE DEF at
  <2>3. g.next <= Top(b)
    BY <1>0, <1>3, <1>4, <2>1, <2>2
  <2> QED  BY <1>0, <1>3, <2>1, <2>3
<1>6. HeapOK(sl, g, H \ {b})
  BY <1>0, <1>2, DropLarge
<1>7. /\ g.next <= g.next /\ g.next < b.ptr + size /\ b.ptr + size \in Int
  BY <1>0, <1>3
<1>8. GoodList(g2) /\ Keeps(g, g2) /\ Taken(g2, g.next, b.ptr + size)
  BY <1>0, <1>3, <1>7, NewBlock
<1>9. Taken(g2, at, at + c.block)
  <2>1. at + c.block = b.ptr + size /\ at < b.ptr + size
    BY <1>0, <1>1
  <2>2. Clear(g.free, at, g.next)
    BY <1>3, <1>5 DEF Taken
  <2>3. Clear(g.free, at, b.ptr + size)
    <3>1. /\ FreeList(g.free, LargeStart, g.next) /\ g.free \in Spans
      BY <1>0 DEF GoodList
    <3>2. \A k \in 1..Len(g.free) : /\ EndOf(g.free, k) \in Int /\ StartOf(g.free, k) \in Int
                                    /\ StartOf(g.free, k) < EndOf(g.free, k) /\ EndOf(g.free, k) <= g.next
      BY <3>1, SpansHold DEF FreeList
    <3>3. \A k \in 1..Len(g.free) : EndOf(g.free, k) <= at
      BY <1>3, <2>2, <3>2 DEF Clear
    <3> QED  BY <3>3 DEF Clear
  <2>4. g2.free = g.free /\ g2.next = b.ptr + size
    OBVIOUS
  <2> HIDE DEF g2, at
  <2>5. b.ptr + size <= b.ptr + size
    BY <1>7
  <2> QED  BY <2>1, <2>3, <2>4, <2>5 DEF Taken
<1> HIDE DEF g2
<1>10. IsLarge(c, g2) /\ BlockOK(c)
  <2>1. Header + c.size <= c.block
    BY <1>0, <1>1
  <2> QED  BY <1>0, <1>1, <1>3, <1>9, <2>1 DEF IsLarge, BlockOK
<1>11. Bottom(c) = at /\ Top(c) \in Int
  BY <1>1, <1>8, <1>10, LargeBounds
<1>12. ASSUME NEW e \in H \ {b}, IsLarge(e, g)
       PROVE  Apart(c, e)
  <2>1. Apart(b, e) /\ e \in Held
    BY Kinds DEF HeapOK
  <2>2. Top(e) <= g.next /\ Bottom(e) < Top(e) /\ Top(e) \in Int /\ Bottom(e) \in Int
    BY <1>0, <1>12, <2>1, LargeBounds
  <2>3. Top(e) <= at
    BY <1>3, <1>5, <2>1, <2>2 DEF Apart
  <2> QED  BY <1>11, <2>3 DEF Apart
<1>13. HeapOK(sl, g2, (H \ {b}) \union {c})
  BY <1>6, <1>8, <1>10, <1>12, AddLarge DEF Keeps
<1> QED  BY <1>13 DEF g2, c

-----------------------------------------------------------------------------
(* The invariant of the specification.                                     *)

\* The heap fits together until a free block is handed out from behind its start.
HeapInv == padded \in BOOLEAN /\ (~padded => HeapOK(slabs, large, live))

\* The allocators as a call finds them.
LEMMA CurrentIs ==
  ASSUME HeapOK(slabs, large, live)
  PROVE  Current \in Both /\ Current.slabs = slabs /\ Current.large = large /\ Current.pad = 0
<1>1. slabs \in SlabStates
  BY DEF HeapOK, SlabStates
<1>2. large \in LargeState
  BY DEF HeapOK, GoodList, LargeState
<1> QED  BY <1>1, <1>2 DEF Current, Both

\* The heap starts empty.
LEMMA HeapStarts == HeapInit => HeapInv
<1> SUFFICES ASSUME HeapInit PROVE HeapOK(slabs, large, live) /\ padded = FALSE
  BY DEF HeapInv
<1>1. /\ slabs = [i \in DOMAIN SlabSizes |-> [free |-> <<>>, next |-> SlabStart(i), count |-> 0]]
      /\ large = [free |-> <<>>, next |-> LargeStart] /\ live = {} /\ padded = FALSE
  BY DEF HeapInit
<1>2. LargeStart \in Int
  BY LargeStartIs
<1>3. ASSUME NEW i \in DOMAIN SlabSizes
      PROVE  slabs[i] \in SlabState /\ SlabOK(i, slabs[i], live)
  <2>1. SlabStart(i) \in Nat /\ SlabRegion \in Nat /\ SlabSizes[i] \in Nat
    BY RegionsApart, SizesAre
  <2>2. slabs[i].free = <<>> /\ slabs[i].next = SlabStart(i) /\ slabs[i].count = 0
    BY <1>1
  <2>3. slabs[i] \in SlabState
    BY <1>1, <2>1 DEF SlabState, Addrs
  <2>4. Slot(i, SlabStart(i))
    <3>1. SlabStart(i) = SlabStart(i) + 0 * SlabSizes[i]
      BY <2>1
    <3> QED  BY <3>1 DEF Slot
  <2>5. SlabStart(i) <= SlabStart(i) + SlabRegion
    BY <2>1
  <2>6. Cardinality(InSlab(live, i)) = 0
    <3>1. InSlab(live, i) = {}
      BY <1>1 DEF InSlab
    <3> QED  BY <3>1, FS_EmptySet
  <2>7. \A j \in 1..Len(slabs[i].free) : FALSE
    BY <2>2
  <2> QED  BY <1>1, <2>2, <2>3, <2>4, <2>5, <2>6, <2>7 DEF SlabOK
<1>4. slabs \in [DOMAIN SlabSizes -> SlabState]
  BY <1>1, <1>3
<1>5. GoodList(large)
  <2>1. large.free = <<>> /\ large.next = LargeStart /\ large.free \in Spans
    BY <1>1 DEF Spans
  <2>2. large \in [free : Spans, next : Int]
    BY <1>1, <1>2, <2>1
  <2>3. FreeList(large.free, LargeStart, large.next) /\ GapsBut(large.free, {})
    BY <2>1 DEF FreeList, GapsBut
  <2> QED  BY <1>2, <2>1, <2>2, <2>3 DEF GoodList
<1>6. IsFiniteSet(live)
  BY <1>1, FS_EmptySet
<1> QED  BY <1>1, <1>3, <1>4, <1>5, <1>6 DEF HeapOK

\* A call that ends with the allocators h and the blocks H in use keeps the
\* invariant, if it handed out no block from behind its start or the heap fits.
LEMMA UpdateKeeps ==
  ASSUME ~padded, NEW h, NEW H, Update(h, H), h.pad \in Int,
         ~(h.pad > 0) => HeapOK(h.slabs, h.large, H)
  PROVE  HeapInv'
<1>1. slabs' = h.slabs /\ large' = h.large /\ live' = H /\ padded' = (h.pad > 0)
  BY DEF Update
<1>2. CASE h.pad > 0
  BY <1>1, <1>2 DEF HeapInv
<1>3. CASE ~(h.pad > 0)
  BY <1>1, <1>3 DEF HeapInv
<1> QED  BY <1>2, <1>3

\* GlobalAlloc::alloc()
LEMMA AllocStep ==
  ASSUME HeapInv, NEW l \in Layouts, Alloc(l)
  PROVE  HeapInv'
<1>1. ~padded /\ HeapOK(slabs, large, live)
  BY DEF Alloc, Call, HeapInv
<1>2. Current \in Both /\ Current.slabs = slabs /\ Current.large = large
  BY <1>1, CurrentIs
<1> DEFINE h == AllocIn(Current, l)
<1>3. CASE h.ptr # -1 /\ Update(h, live \union {Block(h, l)})
  <2>1. Served(h, live, l)
    BY <1>1, <1>2, <1>3, AllocInKeeps
  <2> HIDE DEF h
  <2>2. h.pad \in Int /\ h.pad >= 0
    BY <2>1 DEF Served, Both
  <2>3. ~(h.pad > 0) => HeapOK(h.slabs, h.large, live \union {Block(h, l)})
    <3>1. ~(h.pad > 0) => h.pad = 0
      BY <2>2
    <3> QED  BY <2>1, <3>1 DEF Served
  <2> QED  BY <1>1, <1>3, <2>2, <2>3, UpdateKeeps
<1>4. CASE UNCHANGED <<slabs, large, live, padded>>
  BY <1>4 DEF HeapInv
<1>5. \/ h.ptr # -1 /\ Update(h, live \union {Block(h, l)})
      \/ UNCHANGED <<slabs, large, live, padded>>
  BY DEF Alloc
<1> QED  BY <1>3, <1>4, <1>5

\* GlobalAlloc::dealloc()
LEMMA DeallocStep ==
  ASSUME HeapInv, NEW b \in live, Dealloc(b)
  PROVE  HeapInv'
<1>1. ~padded /\ HeapOK(slabs, large, live)
  BY DEF Dealloc, Call, HeapInv
<1>2. Current \in Both /\ Current.slabs = slabs /\ Current.large = large /\ Current.pad = 0
  BY <1>1, CurrentIs
<1> DEFINE h == DeallocIn(Current, b)
<1>3. h.pad = 0 /\ HeapOK(h.slabs, h.large, live \ {b})
  BY <1>1, <1>2, DeallocInKeeps
<1>4. Update(h, live \ {b})
  BY DEF Dealloc
<1> HIDE DEF h
<1>5. h.pad \in Int
  BY <1>3
<1> QED  BY <1>1, <1>3, <1>4, <1>5, UpdateKeeps

\* A call to dealloc() does not hide that a block was handed out from behind its start.
LEMMA DeallocPad ==
  ASSUME NEW h \in Both, NEW b
  PROVE  DeallocIn(h, b).pad = h.pad
<1>1. ASSUME NEW g PROVE [h EXCEPT !.large = g].pad = h.pad
  BY DEF Both
<1>2. ASSUME NEW t PROVE [h EXCEPT !.slabs = t].pad = h.pad
  BY DEF Both
<1>3. CASE b.ptr >= LargeStart
  <2>1. DeallocIn(h, b) = [h EXCEPT !.large = GivenBack(h.large, b)]
    BY <1>3 DEF DeallocIn, LargeDealloc, GivenBack
  <2> QED  BY <1>1, <2>1
<1>4. CASE ~(b.ptr >= LargeStart)
  <2> DEFINE i == b.ptr \div SlabRegion + 1
             s == h.slabs[i]
             t == [h.slabs EXCEPT ![i] = [free |-> Append(s.free, b.ptr), next |-> s.next, count |-> s.count - 1]]
  <2>1. DeallocIn(h, b) = [h EXCEPT !.slabs = t]
    BY <1>4 DEF DeallocIn
  <2> QED  BY <1>2, <2>1
<1> QED  BY <1>3, <1>4

\* GlobalAlloc::realloc()
LEMMA ReallocStep ==
  ASSUME HeapInv, NEW b \in live, NEW l \in Layouts, l.align = b.align, Realloc(b, l.size)
  PROVE  HeapInv'
<1>1. ~padded /\ HeapOK(slabs, large, live)
  BY DEF Realloc, Call, HeapInv
<1>2. Current \in Both /\ Current.slabs = slabs /\ Current.large = large /\ Current.pad = 0
  BY <1>1, CurrentIs
<1>3. l = [size |-> l.size, align |-> b.align] /\ l.size \in Nat
  <2>1. l \in [size : Nat \ {0}, align : Nat \ {0}]
    BY HeapConstants
  <2> QED  BY <2>1
<1> DEFINE h == AllocIn(Current, l)
           n == Block(h, l)
           g == [Current EXCEPT !.large.next = b.ptr + l.size]
           c == [b EXCEPT !.size = l.size, !.block = Header + l.size]
<1>4. \/ CanGrow(b, l.size) /\ Update(g, (live \ {b}) \union {c})
      \/ h.ptr # -1 /\ Update(DeallocIn(h, b), (live \ {b}) \union {n})
      \/ UNCHANGED <<slabs, large, live, padded>>
  BY <1>3 DEF Realloc
<1>5. CASE CanGrow(b, l.size) /\ Update(g, (live \ {b}) \union {c})
  <2>1. l.size > b.size /\ b.ptr >= LargeStart /\ b.ptr + b.size = large.next
    BY <1>5 DEF CanGrow
  <2>2. HeapOK(slabs, [free |-> large.free, next |-> b.ptr + l.size], (live \ {b}) \union {c})
    BY <1>1, <1>3, <2>1, GrowKeeps
  <2>3. g.slabs = slabs /\ g.pad = 0 /\ g.large = [free |-> large.free, next |-> b.ptr + l.size]
    <3> DEFINE e == b.ptr + l.size
               x == [large EXCEPT !.next = e]
    <3>1. g = [Current EXCEPT !.large = x]
      BY <1>2
    <3>2. x = [free |-> large.free, next |-> e]
      <4>1. large \in LargeState
        BY <1>1 DEF HeapOK, GoodList, LargeState
      <4> HIDE DEF e
      <4> QED  BY <4>1 DEF LargeState
    <3> HIDE DEF x, g
    <3>3. g.slabs = slabs /\ g.pad = 0 /\ g.large = x
      BY <1>2, <3>1 DEF Both
    <3> QED  BY <3>2, <3>3
  <2> HIDE DEF g, c
  <2> QED  BY <1>1, <1>5, <2>2, <2>3, UpdateKeeps
<1>6. CASE h.ptr # -1 /\ Update(DeallocIn(h, b), (live \ {b}) \union {n})
  <2> DEFINE r == DeallocIn(h, b)
  <2>1. Served(h, live, l)
    BY <1>1, <1>2, <1>6, AllocInKeeps
  <2> HIDE DEF h
  <2>2. h \in Both /\ h.pad \in Int /\ h.pad >= 0
    BY <2>1 DEF Served, Both
  <2>3. r.pad = h.pad
    BY <2>2, DeallocPad
  <2>4. ~(r.pad > 0) => HeapOK(r.slabs, r.large, (live \ {b}) \union {n})
    <3> SUFFICES ASSUME ~(r.pad > 0) PROVE HeapOK(r.slabs, r.large, (live \ {b}) \union {n})
      OBVIOUS
    <3>1. h.pad = 0
      BY <2>2, <2>3
    <3>2. n \notin live /\ HeapOK(h.slabs, h.large, live \union {n})
      BY <2>1, <3>1 DEF Served
    <3> HIDE DEF n
    <3>3. HeapOK(r.slabs, r.large, (live \union {n}) \ {b})
      BY <2>2, <3>2, DeallocInKeeps
    <3>4. (live \union {n}) \ {b} = (live \ {b}) \union {n}
      BY <3>2
    <3> QED  BY <3>3, <3>4
  <2> HIDE DEF r, n
  <2>5. Update(r, (live \ {b}) \union {n}) /\ r.pad \in Int
    BY <1>6, <2>2, <2>3 DEF r, n
  <2> QED  BY <1>1, <2>4, <2>5, UpdateKeeps
<1>7. CASE UNCHANGED <<slabs, large, live, padded>>
  BY <1>7 DEF HeapInv
<1> QED  BY <1>4, <1>5, <1>6, <1>7

-----------------------------------------------------------------------------
(* The theorems.                                                           *)

\* Whatever the kernel asks of the heap and gives back to it, in whatever order, the
\* lists of the slabs and of the large allocator and the blocks in use fit together
\* (SlabAllocator::alloc(), dealloc() and realloc()).
THEOREM HeapInvariant == Spec => []HeapInv
<1>1. Init => HeapInv
  BY HeapStarts DEF Init
<1>2. HeapInv /\ [Next]_vars => HeapInv'
  <2> SUFFICES ASSUME HeapInv, [Next]_vars PROVE HeapInv'
    OBVIOUS
  <2>1. CASE HeapStep
    <3>1. ASSUME NEW l \in Layouts, Alloc(l) PROVE HeapInv'
      BY <3>1, AllocStep
    <3>2. ASSUME NEW b \in live, Dealloc(b) PROVE HeapInv'
      BY <3>2, DeallocStep
    <3>3. ASSUME NEW b \in live, NEW l \in Layouts, l.align = b.align, Realloc(b, l.size) PROVE HeapInv'
      BY <3>3, ReallocStep
    <3> QED  BY <2>1, <3>1, <3>2, <3>3 DEF HeapStep
  <2>2. CASE UNCHANGED heapVars
    BY <2>2 DEF heapVars, HeapInv
  <2> QED  BY <2>1, <2>2 DEF Next, vars
<1> QED  BY <1>1, <1>2, PTL DEF Spec

\* The extent of a block of the heap goes from its bottom to its top.
LEMMA Extents ==
  ASSUME HeapOK(slabs, large, live), NEW b \in live
  PROVE  /\ Extent(b) = Bottom(b) .. Top(b) - 1 /\ Bottom(b) \in Int /\ Top(b) \in Int
         /\ Bottom(b) <= b.ptr /\ b.ptr + b.size <= Top(b) /\ b.ptr \in Int /\ b.size \in Nat
         /\ b.ptr < LargeStart => Top(b) <= LargeStart
         /\ b.ptr >= LargeStart => /\ LargeStart <= Bottom(b) /\ Top(b) <= large.next
                                   /\ Taken(large, Bottom(b), Top(b))
<1>0. /\ b \in Held /\ GoodList(large) /\ LargeStart \in Int /\ Header \in Nat
      /\ b.ptr \in Int /\ b.size \in Nat /\ b.block \in Nat
  BY Kinds, LargeStartIs, HeapConstants DEF HeapOK, Held
<1>1. CASE IsLarge(b, large)
  <2>1. /\ Bottom(b) = b.ptr - Header /\ Top(b) = b.ptr - Header + b.block /\ LargeStart < b.ptr
        /\ LargeStart <= Bottom(b) /\ Top(b) <= large.next /\ Taken(large, Bottom(b), Top(b))
    BY <1>0, <1>1, LargeBounds
  <2>2. Header + b.size <= b.block
    BY <1>1 DEF IsLarge
  <2>3. ~(b.ptr < LargeStart)
    BY <1>0, <2>1
  <2>4. Extent(b) = Bottom(b) .. Top(b) - 1
    BY <1>0, <2>1, <2>3 DEF Extent
  <2> QED  BY <1>0, <2>1, <2>2, <2>3, <2>4
<1>2. CASE \E i \in DOMAIN SlabSizes : IsSmall(b, i, slabs[i].next) /\ slabs[i].next \in Int
                                       /\ slabs[i].next <= SlabStart(i) + SlabRegion
  <2>1. PICK i \in DOMAIN SlabSizes : IsSmall(b, i, slabs[i].next) /\ slabs[i].next \in Int
                                      /\ slabs[i].next <= SlabStart(i) + SlabRegion
    BY <1>2
  <2>2. Bottom(b) = b.ptr /\ Top(b) <= LargeStart
    BY <1>0, <2>1, SmallBounds
  <2>3. b.ptr < LargeStart /\ b.size <= b.block
    BY <2>1 DEF IsSmall
  <2>4. Top(b) = b.ptr + b.block
    BY <2>2 DEF Top
  <2>5. Extent(b) = Bottom(b) .. Top(b) - 1
    BY <1>0, <2>2, <2>3, <2>4 DEF Extent
  <2> QED  BY <1>0, <2>2, <2>3, <2>4, <2>5
<1> QED  BY <1>1, <1>2, Kinds

\* The invariant says what HeapSound says.
LEMMA SoundIfOK ==
  ASSUME HeapInv
  PROVE  HeapSound
<1> SUFFICES ASSUME ~padded
             PROVE  HeapSound
  BY DEF HeapSound
<1>1. HeapOK(slabs, large, live)
  BY DEF HeapInv
<1>2. /\ GoodList(large) /\ large.free \in Spans /\ Len(large.free) \in Nat /\ LargeStart \in Int
      /\ large.next \in Int /\ FreeList(large.free, LargeStart, large.next) /\ GapsBut(large.free, {})
  BY <1>1, LargeStartIs, SpansHold DEF HeapOK, GoodList
<1>3. Aligned
  BY <1>1 DEF HeapOK, BlockOK, Aligned
<1>4. ASSUME NEW b \in live
      PROVE  /\ b.ptr .. b.ptr + b.size - 1 \subseteq Extent(b)
             /\ b.ptr >= LargeStart => \A x \in Extent(b) : x >= LargeStart /\ x < large.next
  <2>1. /\ Extent(b) = Bottom(b) .. Top(b) - 1 /\ Bottom(b) \in Int /\ Top(b) \in Int
        /\ Bottom(b) <= b.ptr /\ b.ptr + b.size <= Top(b) /\ b.ptr \in Int /\ b.size \in Nat
        /\ b.ptr >= LargeStart => LargeStart <= Bottom(b) /\ Top(b) <= large.next
    BY <1>1, Extents
  <2>2. b.ptr .. b.ptr + b.size - 1 \subseteq Extent(b)
    BY <2>1
  <2>3. b.ptr >= LargeStart => \A x \in Extent(b) : x >= LargeStart /\ x < large.next
    BY <1>2, <2>1
  <2> QED  BY <2>2, <2>3
<1>5. ASSUME NEW b \in live, NEW c \in live, b # c
      PROVE  Extent(b) \cap Extent(c) = {}
  <2>1. Extent(b) = Bottom(b) .. Top(b) - 1 /\ Bottom(b) \in Int /\ Top(b) \in Int
    BY <1>1, Extents
  <2>2. Extent(c) = Bottom(c) .. Top(c) - 1 /\ Bottom(c) \in Int /\ Top(c) \in Int
    BY <1>1, Extents
  <2>3. Top(b) <= Bottom(c) \/ Top(c) <= Bottom(b)
    BY <1>1, <1>5 DEF HeapOK, Apart
  <2> QED  BY <2>1, <2>2, <2>3
<1>6. ASSUME NEW b \in live, NEW f \in Range(large.free)
      PROVE  (f.at .. f.at + f.size - 1) \cap Extent(b) = {}
  <2>1. /\ Extent(b) = Bottom(b) .. Top(b) - 1 /\ Bottom(b) \in Int /\ Top(b) \in Int /\ b.ptr \in Int
        /\ b.ptr < LargeStart => Top(b) <= LargeStart
        /\ b.ptr >= LargeStart => Taken(large, Bottom(b), Top(b))
    BY <1>1, Extents
  <2>2. PICK k \in 1..Len(large.free) : f = large.free[k]
    <3>1. DOMAIN large.free = 1..Len(large.free)
      BY <1>2 DEF Spans
    <3> QED  BY <1>6, <3>1 DEF Range
  <2> DEFINE u == StartOf(large.free, k)
             v == EndOf(large.free, k)
  <2>3. u \in Int /\ v \in Int /\ f.at = u /\ f.at + f.size = v /\ LargeStart <= u
    <3>1. u \in Int /\ v \in Int
      BY <1>2, <2>2, SpansHold
    <3>2. LargeStart <= u
      BY <1>2, <2>2 DEF FreeList
    <3>3. f.at = u /\ f.at + f.size = v
      BY <2>2 DEF StartOf, EndOf
    <3> QED  BY <3>1, <3>2, <3>3
  <2>4. v <= Bottom(b) \/ Top(b) <= u
    <3>1. CASE b.ptr < LargeStart
      BY <1>2, <2>1, <2>3, <3>1
    <3>2. CASE b.ptr >= LargeStart
      BY <2>1, <2>2, <3>2 DEF Taken, Clear
    <3> QED  BY <1>2, <2>1, <3>1, <3>2
  <2> HIDE DEF u, v
  <2>5. (u .. v - 1) \cap (Bottom(b) .. Top(b) - 1) = {}
    BY <2>1, <2>3, <2>4
  <2>6. f.at .. f.at + f.size - 1 = u .. v - 1
    <3>1. f \in Span
      BY <1>2, <2>2, SpansHold
    <3>2. f.at \in Int /\ f.size \in Int
      BY <3>1 DEF Span
    <3> QED  BY <2>3, <3>2
  <2> QED  BY <2>1, <2>5, <2>6
<1>7. DOMAIN slabs = DOMAIN SlabSizes
  BY <1>1 DEF HeapOK
<1>8. ASSUME NEW b \in live, NEW s \in Range(slabs)
      PROVE  b.ptr \notin Range(s.free)
  <2>1. PICK i \in DOMAIN SlabSizes : s = slabs[i]
    BY <1>7, <1>8 DEF Range
  <2>2. s \in SlabState /\ SlabOK(i, s, live)
    BY <1>1, <2>1 DEF HeapOK
  <2>3. DOMAIN s.free = 1..Len(s.free)
    BY <2>2 DEF SlabState, Addrs
  <2> QED  BY <2>2, <2>3 DEF Range, SlabOK
<1>9. ASSUME NEW i \in 1 .. Len(large.free) - 1
      PROVE  large.free[i].at + large.free[i].size < large.free[i + 1].at
  BY <1>2 DEF GapsBut, StartOf, EndOf
<1>10. ASSUME NEW i \in DOMAIN slabs
       PROVE  slabs[i].count = Cardinality({b \in live : b.ptr \in SlabStart(i) .. SlabStart(i) + SlabRegion - 1})
  BY <1>1, <1>7 DEF HeapOK, SlabOK, InSlab
<1> QED  BY <1>3, <1>4, <1>5, <1>6, <1>8, <1>9, <1>10 DEF HeapSound

\* As long as no free block is handed out from behind its start, no two blocks of the
\* kernel heap share memory, each is as large as asked for and aligned (a small one if
\* heap_size / 64 is a multiple of the alignment), none is on a free list, and the
\* free lists stay sorted and merged, whatever calls GlobalAlloc gets.
THEOREM HeapIsSound == Spec => []HeapSound
<1>1. HeapInv => HeapSound
  BY SoundIfOK
<1> QED  BY <1>1, HeapInvariant, PTL

-----------------------------------------------------------------------------
(* The frame allocator.                                                    *)

\* What a recursive function is, when it iterates.
LEMMA BlockSizeIs ==
  /\ BlockSize \in [0..MaxOrder -> Nat \ {0}]
  /\ \A o \in 0..MaxOrder : BlockSize[o] = IF o = 0 THEN 1 ELSE 2 * BlockSize[o - 1]
<1> DEFINE F == [x \in Nat \ {0} |-> 2 * x]
<1>0. MaxOrder \in Nat
  BY BuddyConstants
<1>1. PICK f : Iteration(f, Nat \ {0}, F, 1, MaxOrder)
  <2>1. F \in [Nat \ {0} -> Nat \ {0}] /\ 1 \in Nat \ {0}
    OBVIOUS
  <2> HIDE DEF F
  <2> QED  BY <1>0, <2>1, Iterates
<1>2. f \in [0..MaxOrder -> Nat \ {0}] /\ \A o \in 0..MaxOrder : f[o] = IF o = 0 THEN 1 ELSE F[f[o - 1]]
  BY <1>1 DEF Iteration
<1>3. \A o \in 0..MaxOrder : f[o] = IF o = 0 THEN 1 ELSE 2 * f[o - 1]
  <2>1. \A o \in 0..MaxOrder : o # 0 => o - 1 \in 0..MaxOrder
    BY <1>0
  <2> QED  BY <1>2, <2>1
<1>4. f = [o \in 0..MaxOrder |-> IF o = 0 THEN 1 ELSE 2 * f[o - 1]]
  BY <1>2, <1>3
<1> DEFINE P(g) == g = [o \in 0..MaxOrder |-> IF o = 0 THEN 1 ELSE 2 * g[o - 1]]
<1>5. BlockSize = CHOOSE g : P(g)
  BY DEF BlockSize
<1>6. P(BlockSize)
  <2>1. P(f)
    BY <1>4
  <2> HIDE DEF P
  <2> QED  BY <1>5, <2>1
<1>7. \A o \in 0..MaxOrder : BlockSize[o] = IF o = 0 THEN 1 ELSE 2 * BlockSize[o - 1]
  BY <1>6, Zenon
<1> DEFINE T == {n \in Nat : n <= MaxOrder => BlockSize[n] \in Nat \ {0}}
<1>8. 0 \in T
  BY <1>0, <1>7
<1>9. \A n \in Nat : n \in T => n + 1 \in T
  BY <1>0, <1>7
<1>10. \A n \in Nat : n \in T
  <2> HIDE DEF T
  <2> QED  BY <1>8, <1>9, SetInduction
<1>11. BlockSize = [o \in 0..MaxOrder |-> BlockSize[o]]
  BY <1>6, Zenon
<1>12. \A o \in 0..MaxOrder : BlockSize[o] \in Nat \ {0}
  BY <1>0, <1>10
<1> QED  BY <1>7, <1>11, <1>12

\* A block is twice the block of the order below, and the blocks of lower orders
\* divide it.
LEMMA BlockSizes ==
  /\ MaxOrder \in Nat /\ 0 \in 0..MaxOrder /\ BlockSize[0] = 1
  /\ \A o \in 0..MaxOrder : BlockSize[o] \in Nat /\ BlockSize[o] > 0
  /\ \A o \in 0..MaxOrder : o < MaxOrder => o + 1 \in 0..MaxOrder /\ BlockSize[o + 1] = 2 * BlockSize[o]
<1>0. MaxOrder \in Nat
  BY BuddyConstants
<1>1. \A o \in 0..MaxOrder : o < MaxOrder => o + 1 \in 0..MaxOrder /\ o + 1 # 0 /\ (o + 1) - 1 = o
  BY <1>0
<1> QED  BY <1>0, <1>1, BlockSizeIs


\* The lists L part the offsets in S into blocks: the blocks are aligned, hold
\* offsets in S only, all of them, and each of them once.
Parts(L, S) ==
  /\ L \in [0..MaxOrder -> Seq(Nat)]
  /\ \A o \in 0..MaxOrder : \A i \in 1..Len(L[o]) :
       L[o][i] % BlockSize[o] = 0 /\ \A x \in Offsets(L[o][i], o) : x \in S
  /\ \A x \in S : \E o \in 0..MaxOrder : \E i \in 1..Len(L[o]) : x \in Offsets(L[o][i], o)
  /\ \A o, c \in 0..MaxOrder : \A i \in 1..Len(L[o]), j \in 1..Len(L[c]) :
       o # c \/ i # j => \A x \in Offsets(L[o][i], o) : x \notin Offsets(L[c][j], c)

\* An item more in a sequence: position k, or, from a position of the longer
\* sequence, the position in the shorter one.
More(k, i) == IF i < k THEN i ELSE i - 1

\* A block is put on a list, at the end or in front.
LEMMA PushParts ==
  ASSUME NEW L, NEW S, Parts(L, S), NEW o \in 0..MaxOrder, NEW at \in Nat,
         at % BlockSize[o] = 0, \A x \in Offsets(at, o) : x \notin S,
         NEW q \in Seq(Nat), Len(q) = Len(L[o]) + 1, NEW k \in 1..Len(q), q[k] = at,
         \A i \in 1..Len(q) : i # k => q[i] = L[o][More(k, i)]
  PROVE  Parts([L EXCEPT ![o] = q], S \union Offsets(at, o))
<1> DEFINE M == [L EXCEPT ![o] = q]
           T == S \union Offsets(at, o)
<1>1. /\ L \in [0..MaxOrder -> Seq(Nat)]
      /\ M \in [0..MaxOrder -> Seq(Nat)] /\ M[o] = q
      /\ \A c \in 0..MaxOrder : c # o => M[c] = L[c]
  <2>1. L \in [0..MaxOrder -> Seq(Nat)]
    BY DEF Parts
  <2> QED  BY <2>1
<1>2. /\ \A c \in 0..MaxOrder : Len(L[c]) \in Nat /\ Len(M[c]) \in Nat
      /\ k \in Nat /\ Len(q) \in Nat
  BY <1>1
<1>3. \A i \in 1..Len(q) : i # k => More(k, i) \in 1..Len(L[o])
  <2>1. Len(L[o]) \in Nat /\ Len(q) = Len(L[o]) + 1 /\ k \in 1..Len(q)
    BY <1>2
  <2>2. ASSUME NEW z \in Nat, NEW j \in 1..z + 1, NEW i \in 1..z + 1, i # j PROVE More(j, i) \in 1..z
    BY <2>2 DEF More
  <2> QED  BY <2>1, <2>2
<1>4. \A i, j \in 1..Len(q) : i # k /\ j # k /\ i # j => More(k, i) # More(k, j)
  BY <1>2 DEF More
<1>5. \A j \in 1..Len(L[o]) : \E i \in 1..Len(q) : i # k /\ More(k, i) = j
  <2> TAKE j \in 1..Len(L[o])
  <2>1. CASE j < k
    BY <1>2, <2>1 DEF More
  <2>2. CASE j >= k
    <3>1. j + 1 \in 1..Len(q) /\ j + 1 # k /\ More(k, j + 1) = j
      BY <1>2, <2>2 DEF More
    <3> QED  BY <3>1
  <2> QED  BY <1>2, <2>1, <2>2
<1> HIDE DEF M
<1>6. /\ \A c \in 0..MaxOrder : \A i \in 1..Len(L[c]) :
           L[c][i] % BlockSize[c] = 0 /\ \A x \in Offsets(L[c][i], c) : x \in S
      /\ \A x \in S : \E c \in 0..MaxOrder : \E i \in 1..Len(L[c]) : x \in Offsets(L[c][i], c)
      /\ \A b, c \in 0..MaxOrder : \A i \in 1..Len(L[b]), j \in 1..Len(L[c]) :
           b # c \/ i # j => \A x \in Offsets(L[b][i], b) : x \notin Offsets(L[c][j], c)
  BY Zenon DEF Parts
<1>7. ASSUME NEW c \in 0..MaxOrder, NEW i \in 1..Len(M[c]), c # o \/ i # k
      PROVE  \E j \in 1..Len(L[c]) : M[c][i] = L[c][j] /\ (c # o => j = i) /\ (c = o => j = More(k, i))
  <2>1. CASE c # o
    BY <1>1, <2>1
  <2>2. CASE c = o
    BY <1>1, <1>3, <1>7, <2>2
  <2> QED  BY <2>1, <2>2
<1>8. ASSUME NEW c \in 0..MaxOrder, NEW i \in 1..Len(M[c])
      PROVE  M[c][i] % BlockSize[c] = 0 /\ \A x \in Offsets(M[c][i], c) : x \in T
  <2>1. CASE c = o /\ i = k
    BY <1>1, <2>1
  <2>2. CASE c # o \/ i # k
    BY <1>6, <1>7, <2>2
  <2> QED  BY <2>1, <2>2
<1>9. ASSUME NEW x \in T
      PROVE  \E c \in 0..MaxOrder : \E i \in 1..Len(M[c]) : x \in Offsets(M[c][i], c)
  <2>1. CASE x \in S
    <3>0. PICK c \in 0..MaxOrder : \E j \in 1..Len(L[c]) : x \in Offsets(L[c][j], c)
      BY <1>6, <2>1
    <3>1. PICK j \in 1..Len(L[c]) : x \in Offsets(L[c][j], c)
      BY <3>0
    <3>2. CASE c # o
      BY <1>1, <3>1, <3>2
    <3>3. CASE c = o
      <4>1. PICK i \in 1..Len(q) : i # k /\ More(k, i) = j
        BY <1>5, <3>3
      <4>2. i \in 1..Len(M[c]) /\ M[c][i] = L[c][j]
        BY <1>1, <3>3, <4>1
      <4> QED  BY <3>1, <4>2
    <3> QED  BY <3>2, <3>3
  <2>2. CASE x \in Offsets(at, o)
    BY <1>1, <2>2
  <2> QED  BY <2>1, <2>2
<1>10. ASSUME NEW b \in 0..MaxOrder, NEW c \in 0..MaxOrder, NEW i \in 1..Len(M[b]), NEW j \in 1..Len(M[c]),
              b # c \/ i # j, NEW x \in Offsets(M[b][i], b)
       PROVE  x \notin Offsets(M[c][j], c)
  <2>1. CASE b = o /\ i = k
    <3>1. c # o \/ j # k
      BY <1>10, <2>1
    <3>2. PICK v \in 1..Len(L[c]) : M[c][j] = L[c][v] /\ (c # o => v = j) /\ (c = o => v = More(k, j))
      BY <1>7, <3>1
    <3>3. \A y \in Offsets(M[c][j], c) : y \in S
      BY <1>6, <3>2
    <3> QED  BY <1>1, <1>10, <2>1, <3>3
  <2>2. CASE c = o /\ j = k
    <3>1. b # o \/ i # k
      BY <1>10, <2>2
    <3>2. PICK u \in 1..Len(L[b]) : M[b][i] = L[b][u] /\ (b # o => u = i) /\ (b = o => u = More(k, i))
      BY <1>7, <3>1
    <3>3. x \in S
      BY <1>6, <1>10, <3>2
    <3> QED  BY <1>1, <2>2, <3>3
  <2>3. CASE (b # o \/ i # k) /\ (c # o \/ j # k)
    <3>1. PICK u \in 1..Len(L[b]) : M[b][i] = L[b][u] /\ (b # o => u = i) /\ (b = o => u = More(k, i))
      BY <1>7, <2>3
    <3>2. PICK v \in 1..Len(L[c]) : M[c][j] = L[c][v] /\ (c # o => v = j) /\ (c = o => v = More(k, j))
      BY <1>7, <2>3
    <3>3. b # c \/ u # v
      BY <1>1, <1>4, <1>10, <2>3, <3>1, <3>2
    <3>4. \A y \in Offsets(L[b][u], b) : y \notin Offsets(L[c][v], c)
      BY <1>6, <3>3
    <3> QED  BY <1>10, <3>1, <3>2, <3>4
  <2> QED  BY <2>1, <2>2, <2>3
<1> HIDE DEF T
<1>11. Parts(M, T)
  BY <1>1, <1>8, <1>9, <1>10 DEF Parts
<1> QED  BY <1>11 DEF M, T

\* Vec::push()
LEMMA AppendParts ==
  ASSUME NEW L, NEW S, Parts(L, S), NEW o \in 0..MaxOrder, NEW at \in Nat,
         at % BlockSize[o] = 0, \A x \in Offsets(at, o) : x \notin S
  PROVE  Parts([L EXCEPT ![o] = Append(@, at)], S \union Offsets(at, o))
<1> DEFINE q == Append(L[o], at)
           k == Len(L[o]) + 1
<1>0. L \in [0..MaxOrder -> Seq(Nat)] /\ L[o] \in Seq(Nat) /\ Len(L[o]) \in Nat
  BY DEF Parts
<1>1. /\ q \in Seq(Nat) /\ Len(q) = Len(L[o]) + 1 /\ k \in 1..Len(q) /\ q[k] = at
      /\ \A i \in 1..Len(q) : i # k => q[i] = L[o][More(k, i)]
  BY <1>0 DEF More
<1>2. [L EXCEPT ![o] = Append(@, at)] = [L EXCEPT ![o] = q]
  BY <1>0
<1> HIDE DEF q, k
<1> QED  BY <1>1, <1>2, PushParts

\* The same in front.
LEMMA PrependParts ==
  ASSUME NEW L, NEW S, Parts(L, S), NEW o \in 0..MaxOrder, NEW at \in Nat,
         at % BlockSize[o] = 0, \A x \in Offsets(at, o) : x \notin S
  PROVE  Parts([L EXCEPT ![o] = <<at>> \o @], S \union Offsets(at, o))
<1> DEFINE q == <<at>> \o L[o]
<1>0. L \in [0..MaxOrder -> Seq(Nat)] /\ L[o] \in Seq(Nat) /\ Len(L[o]) \in Nat
  BY DEF Parts
<1>1. /\ q \in Seq(Nat) /\ Len(q) = Len(L[o]) + 1 /\ 1 \in 1..Len(q) /\ q[1] = at
      /\ \A i \in 1..Len(q) : i # 1 => q[i] = L[o][More(1, i)]
  BY <1>0 DEF More
<1>2. [L EXCEPT ![o] = <<at>> \o @] = [L EXCEPT ![o] = q]
  BY <1>0
<1> DEFINE k == 1
<1> HIDE DEF q
<1>3. k \in 1..Len(q) /\ q[k] = at /\ \A i \in 1..Len(q) : i # k => q[i] = L[o][More(k, i)]
  BY <1>1
<1> HIDE DEF k
<1>4. Parts([L EXCEPT ![o] = q], S \union Offsets(at, o))
  BY <1>1, <1>3, PushParts
<1> QED  BY <1>2, <1>4

\* What Vec::swap_remove() leaves.
LEMMA SwapRemoveIs ==
  ASSUME NEW s \in Seq(Nat), NEW i \in 1..Len(s)
  PROVE  /\ SwapRemove(s, i) \in Seq(Nat) /\ Len(SwapRemove(s, i)) = Len(s) - 1
         /\ \A j \in 1..Len(s) - 1 : SwapRemove(s, i)[j] = IF j = i THEN s[Len(s)] ELSE s[j]
<1> DEFINE e == [s EXCEPT ![i] = Last(s)]
<1>1. Len(s) \in Nat /\ i \in Nat /\ Len(s) >= 1 /\ Last(s) = s[Len(s)] /\ Last(s) \in Nat
  BY DEF Last
<1>2. /\ e \in Seq(Nat) /\ Len(e) = Len(s)
      /\ \A j \in 1..Len(s) : e[j] = IF j = i THEN s[Len(s)] ELSE s[j]
  BY <1>1
<1> HIDE DEF e
<1>3. SwapRemove(s, i) = Front(e)
  BY DEF SwapRemove, e
<1> DEFINE n == Len(s) - 1
<1>4. n \in Nat /\ n <= Len(e) /\ Front(e) = SubSeq(e, 1, n)
  BY <1>1, <1>2 DEF Front
<1>5. SubSeq(e, 1, n) \in Seq(Nat) /\ Len(SubSeq(e, 1, n)) = n /\ \A j \in 1..n : SubSeq(e, 1, n)[j] = e[j]
  <2> HIDE DEF n
  <2> QED  BY <1>2, <1>4
<1>6. \A j \in 1..n : j \in 1..Len(s)
  BY <1>1
<1> QED  BY <1>2, <1>3, <1>4, <1>5, <1>6

\* A block is taken off a list.
LEMMA RemoveParts ==
  ASSUME NEW L, NEW S, Parts(L, S), NEW o \in 0..MaxOrder, NEW k \in 1..Len(L[o])
  PROVE  /\ Parts([L EXCEPT ![o] = SwapRemove(@, k)], S \ Offsets(L[o][k], o))
         /\ L[o][k] \in Nat /\ L[o][k] % BlockSize[o] = 0 /\ \A x \in Offsets(L[o][k], o) : x \in S
<1> DEFINE q == SwapRemove(L[o], k)
           M == [L EXCEPT ![o] = q]
           T == S \ Offsets(L[o][k], o)
           was(i) == IF i = k THEN Len(L[o]) ELSE i
<1>0. L \in [0..MaxOrder -> Seq(Nat)] /\ L[o] \in Seq(Nat) /\ Len(L[o]) \in Nat /\ L[o][k] \in Nat /\ k \in Nat
  BY DEF Parts
<1>1. /\ q \in Seq(Nat) /\ Len(q) = Len(L[o]) - 1
      /\ \A i \in 1..Len(q) : q[i] = L[o][was(i)] /\ was(i) \in 1..Len(L[o]) /\ was(i) # k
  <2>1. /\ q \in Seq(Nat) /\ Len(q) = Len(L[o]) - 1
        /\ \A j \in 1..Len(L[o]) - 1 : q[j] = IF j = k THEN L[o][Len(L[o])] ELSE L[o][j]
    BY <1>0, SwapRemoveIs
  <2> HIDE DEF q
  <2>2. ASSUME NEW i \in 1..Len(q) PROVE was(i) \in 1..Len(L[o]) /\ was(i) # k
    BY <1>0, <2>1
  <2>3. ASSUME NEW i \in 1..Len(q) PROVE q[i] = L[o][was(i)]
    BY <1>0, <2>1
  <2> QED  BY <2>1, <2>2, <2>3
<1> HIDE DEF q
<1>2. \A i, j \in 1..Len(q) : i # j => was(i) # was(j)
  <2>1. \A i \in 1..Len(q) : i \in Nat /\ i < Len(L[o])
    BY <1>0, <1>1
  <2> QED  BY <1>0, <2>1
<1>3. \A j \in 1..Len(L[o]) : j # k => \E i \in 1..Len(q) : was(i) = j
  <2> TAKE j \in 1..Len(L[o])
  <2> HAVE j # k
  <2>1. CASE j = Len(L[o])
    <3>1. k \in 1..Len(q) /\ was(k) = j
      BY <1>0, <1>1, <2>1
    <3> QED  BY <3>1
  <2>2. CASE j # Len(L[o])
    <3>0. Len(q) = Len(L[o]) - 1
      BY <1>1
    <3>1. j \in 1..Len(q)
      BY <1>0, <3>0, <2>2
    <3>2. was(j) = j
      OBVIOUS
    <3> QED  BY <3>1, <3>2
  <2> QED  BY <2>1, <2>2
<1>4. /\ M \in [0..MaxOrder -> Seq(Nat)] /\ M[o] = q
      /\ \A c \in 0..MaxOrder : c # o => M[c] = L[c]
  BY <1>0, <1>1
<1>5. [L EXCEPT ![o] = SwapRemove(@, k)] = M
  BY <1>0 DEF q
<1> HIDE DEF M, was
<1>6. /\ \A c \in 0..MaxOrder : \A i \in 1..Len(L[c]) :
           L[c][i] % BlockSize[c] = 0 /\ \A x \in Offsets(L[c][i], c) : x \in S
      /\ \A x \in S : \E c \in 0..MaxOrder : \E i \in 1..Len(L[c]) : x \in Offsets(L[c][i], c)
      /\ \A b, c \in 0..MaxOrder : \A i \in 1..Len(L[b]), j \in 1..Len(L[c]) :
           b # c \/ i # j => \A x \in Offsets(L[b][i], b) : x \notin Offsets(L[c][j], c)
  BY Zenon DEF Parts
<1>7. ASSUME NEW c \in 0..MaxOrder, NEW i \in 1..Len(M[c])
      PROVE  \E j \in 1..Len(L[c]) : M[c][i] = L[c][j] /\ (c # o => j = i) /\ (c = o => j = was(i) /\ j # k)
  <2>1. CASE c # o
    BY <1>4, <2>1
  <2>2. CASE c = o
    BY <1>1, <1>4, <2>2
  <2> QED  BY <2>1, <2>2
<1>8. ASSUME NEW c \in 0..MaxOrder, NEW i \in 1..Len(M[c])
      PROVE  M[c][i] % BlockSize[c] = 0 /\ \A x \in Offsets(M[c][i], c) : x \in T
  <2>1. PICK j \in 1..Len(L[c]) : M[c][i] = L[c][j] /\ (c # o \/ j # k)
    BY <1>7
  <2>2. \A x \in Offsets(L[c][j], c) : x \notin Offsets(L[o][k], o)
    BY <1>6, <2>1
  <2> QED  BY <1>6, <2>1, <2>2
<1>9. ASSUME NEW x \in T
      PROVE  \E c \in 0..MaxOrder : \E i \in 1..Len(M[c]) : x \in Offsets(M[c][i], c)
  <2>0. PICK c \in 0..MaxOrder : \E j \in 1..Len(L[c]) : x \in Offsets(L[c][j], c)
    BY <1>6
  <2>1. PICK j \in 1..Len(L[c]) : x \in Offsets(L[c][j], c)
    BY <2>0
  <2>2. c # o \/ j # k
    BY <2>1
  <2>3. CASE c # o
    BY <1>4, <2>1, <2>3
  <2>4. CASE c = o
    <3>1. PICK i \in 1..Len(q) : was(i) = j
      BY <1>3, <2>2, <2>4
    <3>2. i \in 1..Len(M[c]) /\ M[c][i] = L[c][j]
      BY <1>1, <1>4, <2>4, <3>1
    <3> QED  BY <2>1, <3>2
  <2> QED  BY <2>3, <2>4
<1>10. ASSUME NEW b \in 0..MaxOrder, NEW c \in 0..MaxOrder, NEW i \in 1..Len(M[b]), NEW j \in 1..Len(M[c]),
              b # c \/ i # j, NEW x \in Offsets(M[b][i], b)
       PROVE  x \notin Offsets(M[c][j], c)
  <2>1. PICK u \in 1..Len(L[b]) : M[b][i] = L[b][u] /\ (b # o => u = i) /\ (b = o => u = was(i))
    BY <1>7
  <2>2. PICK v \in 1..Len(L[c]) : M[c][j] = L[c][v] /\ (c # o => v = j) /\ (c = o => v = was(j))
    BY <1>7
  <2>3. b # c \/ u # v
    BY <1>2, <1>4, <1>10, <2>1, <2>2
  <2> QED  BY <1>6, <2>1, <2>2, <2>3
<1> HIDE DEF T
<1>11. Parts(M, T)
  BY <1>4, <1>8, <1>9, <1>10 DEF Parts
<1>12. L[o][k] % BlockSize[o] = 0 /\ \A x \in Offsets(L[o][k], o) : x \in S
  BY <1>6
<1> QED  BY <1>0, <1>5, <1>11, <1>12 DEF T

\* The two halves of an aligned block are aligned.
LEMMA Halves ==
  ASSUME NEW a \in Nat, NEW d \in Nat, d > 0, a % (2 * d) = 0
  PROVE  a % d = 0 /\ (a + d) % d = 0
<1>0. ASSUME NEW k \in Nat PROVE (k * d) % d = 0
  OBVIOUS
<1>1. PICK q \in Nat : a = q * (2 * d)
  <2> DEFINE e == 2 * d
  <2>1. e \in Nat /\ e > 0 /\ a % e = 0
    OBVIOUS
  <2> HIDE DEF e
  <2>2. a = (a \div e) * e /\ a \div e \in Nat
    BY <2>1
  <2> QED  BY <2>2 DEF e
<1>2. a = (2 * q) * d /\ a + d = (2 * q + 1) * d /\ 2 * q \in Nat /\ 2 * q + 1 \in Nat
  BY <1>1
<1> QED  BY <1>0, <1>2

\* A block and its buddy make an aligned block of twice the size.
LEMMA Buddies ==
  ASSUME NEW a \in Nat, NEW d \in Nat, d > 0, a % d = 0
  PROVE  /\ (a \div d) % 2 = 0 => a % (2 * d) = 0
         /\ (a \div d) % 2 # 0 => a - d \in Nat /\ (a - d) % (2 * d) = 0 /\ (a - d) % d = 0
<1>0. ASSUME NEW k \in Nat PROVE (k * (2 * d)) % (2 * d) = 0
  <2> DEFINE e == 2 * d
  <2>1. e \in Nat /\ e > 0
    OBVIOUS
  <2> HIDE DEF e
  <2>2. (k * e) % e = 0
    BY <2>1
  <2> QED  BY <2>2 DEF e
<1> DEFINE q == a \div d
<1>1. q \in Nat /\ a = q * d
  OBVIOUS
<1> HIDE DEF q
<1>2. CASE q % 2 = 0
  <2> DEFINE h == q \div 2
  <2>1. h \in Nat /\ q = 2 * h
    BY <1>1, <1>2
  <2> HIDE DEF h
  <2>2. a = h * (2 * d)
    BY <1>1, <2>1
  <2>3. a % (2 * d) = 0
    BY <1>0, <2>1, <2>2
  <2> QED  BY <1>2, <2>3 DEF q
<1>3. CASE q % 2 # 0
  <2> DEFINE h == q \div 2
  <2>1. h \in Nat /\ q = 2 * h + 1
    BY <1>1, <1>3
  <2> HIDE DEF h
  <2>2. h * (2 * d) \in Nat
    BY <2>1
  <2>3. a = h * (2 * d) + d
    BY <1>1, <2>1
  <2>4. a - d = h * (2 * d)
    BY <2>2, <2>3
  <2>5. a - d \in Nat /\ (a - d) % (2 * d) = 0
    BY <1>0, <2>1, <2>2, <2>4
  <2>6. (a - d) % d = 0
    BY <2>5, Halves
  <2> QED  BY <1>3, <2>5, <2>6 DEF q
<1> QED  BY <1>2, <1>3

\* What a block holds.
LEMMA OffsetsAre ==
  ASSUME NEW at \in Nat, NEW o \in 0..MaxOrder
  PROVE  /\ at \in Offsets(at, o)
         /\ \A x : x \in Offsets(at, o) <=> x \in Nat /\ at <= x /\ x < at + BlockSize[o]
         /\ o = 0 => Offsets(at, o) = {at}
         /\ o < MaxOrder => Offsets(at, o + 1) = Offsets(at, o) \union Offsets(at + BlockSize[o], o)
         /\ o < MaxOrder => \A x \in Offsets(at, o) : x \notin Offsets(at + BlockSize[o], o)
<1> DEFINE d == BlockSize[o]
<1>1. d \in Nat /\ d > 0 /\ o \in Nat /\ (o = 0 => d = 1) /\ (o < MaxOrder => BlockSize[o + 1] = 2 * d)
  BY BlockSizes
<1>2. Offsets(at, o) = at .. at + d - 1 /\ Offsets(at + BlockSize[o], o) = at + d .. at + d + d - 1
  BY DEF Offsets
<1> HIDE DEF d
<1>3. /\ at \in Offsets(at, o)
      /\ \A x : x \in Offsets(at, o) <=> x \in Nat /\ at <= x /\ x < at + d
      /\ o = 0 => Offsets(at, o) = {at}
  BY <1>1, <1>2
<1>4. o < MaxOrder => Offsets(at, o + 1) = at .. at + 2 * d - 1
  BY <1>1 DEF Offsets
<1>5. at .. at + 2 * d - 1 = (at .. at + d - 1) \union (at + d .. at + d + d - 1)
  BY <1>1
<1>6. \A x \in at .. at + d - 1 : x \notin at + d .. at + d + d - 1
  BY <1>1
<1>7. o < MaxOrder => Offsets(at, o + 1) = Offsets(at, o) \union Offsets(at + BlockSize[o], o)
  BY <1>2, <1>4, <1>5
<1>8. \A x \in Offsets(at, o) : x \notin Offsets(at + BlockSize[o], o)
  BY <1>2, <1>6
<1> QED  BY <1>3, <1>7, <1>8 DEF d

\* RegionBuddyAllocator::allocate() of one frame: the lists lose just that frame.
LEMMA SplitParts ==
  ASSUME NEW L, NEW S, Parts(L, S), NEW from \in 0..MaxOrder, L[from] # <<>>
  PROVE  /\ Last(L[from]) \in S /\ Last(L[from]) \in Nat
         /\ Parts([o \in 0..MaxOrder |->
                     CASE o = from -> Front(L[o])
                       [] o \in 0..from - 1 -> Append(L[o], Last(L[from]) + BlockSize[o])
                       [] OTHER -> L[o]], S \ {Last(L[from])})
<1> DEFINE a == Last(L[from])
           k == Len(L[from])
           G(n) == [o \in 0..MaxOrder |->
                      IF o = from THEN Front(L[o])
                      ELSE IF n <= o /\ o < from THEN Append(L[o], a + BlockSize[o])
                      ELSE L[o]]
<1>0. /\ L \in [0..MaxOrder -> Seq(Nat)] /\ L[from] \in Seq(Nat) /\ k \in 1..Len(L[from]) /\ a = L[from][k]
      /\ MaxOrder \in Nat /\ from \in Nat
  <2>1. L \in [0..MaxOrder -> Seq(Nat)] /\ L[from] \in Seq(Nat) /\ MaxOrder \in Nat
    BY BlockSizes DEF Parts
  <2>2. Len(L[from]) \in Nat /\ Len(L[from]) # 0
    BY <2>1
  <2> QED  BY <2>1, <2>2 DEF Last
<1>1. SwapRemove(L[from], k) = Front(L[from])
  <2>1. [L[from] EXCEPT ![k] = Last(L[from])] = L[from]
    BY <1>0
  <2> QED  BY <2>1 DEF SwapRemove
<1>2. /\ Parts([L EXCEPT ![from] = Front(@)], S \ Offsets(a, from))
      /\ a \in Nat /\ a % BlockSize[from] = 0 /\ \A x \in Offsets(a, from) : x \in S
  <2>1. [L EXCEPT ![from] = SwapRemove(@, k)] = [L EXCEPT ![from] = Front(@)]
    BY <1>1
  <2>2. /\ Parts([L EXCEPT ![from] = SwapRemove(@, k)], S \ Offsets(L[from][k], from))
        /\ L[from][k] \in Nat /\ L[from][k] % BlockSize[from] = 0
        /\ \A x \in Offsets(L[from][k], from) : x \in S
    <3> HIDE DEF k
    <3> QED  BY <1>0, RemoveParts
  <2> QED  BY <1>0, <2>1, <2>2
<1>3. Front(L[from]) \in Seq(Nat)
  <2>1. [L EXCEPT ![from] = Front(@)] \in [0..MaxOrder -> Seq(Nat)]
    BY <1>2 DEF Parts
  <2>2. [L EXCEPT ![from] = Front(@)][from] = Front(L[from])
    BY <1>0
  <2> QED  BY <2>1, <2>2
<1> HIDE DEF a, k
<1> DEFINE Good(n) == Parts(G(n), S \ Offsets(a, n)) /\ a % BlockSize[n] = 0
           T == {j \in Nat : j <= from => Good(from - j)}
<1>4. 0 \in T
  <2>1. G(from) = [L EXCEPT ![from] = Front(@)]
    <3>1. \A o \in 0..MaxOrder : ~(from <= o /\ o < from)
      BY <1>0
    <3>2. G(from) = [o \in 0..MaxOrder |-> IF o = from THEN Front(L[o]) ELSE L[o]]
      BY <3>1
    <3> QED  BY <1>0, <3>2
  <2>2. from - 0 = from /\ 0 \in Nat
    BY <1>0
  <2> HIDE DEF G
  <2> QED  BY <1>2, <2>1, <2>2
<1>5. ASSUME NEW j \in Nat, j \in T
      PROVE  j + 1 \in T
  <2> SUFFICES ASSUME j + 1 <= from PROVE Good(from - (j + 1))
    <3> HIDE DEF Good
    <3> QED  OBVIOUS
  <2> DEFINE n == from - (j + 1)
  <2>1. n \in 0..MaxOrder /\ n < MaxOrder /\ n + 1 = from - j /\ n < from /\ j <= from /\ n \in Nat
    BY <1>0
  <2>2. Good(n + 1)
    BY <1>5, <2>1
  <2> HIDE DEF n
  <2>3. BlockSize[n] \in Nat /\ BlockSize[n] > 0 /\ BlockSize[n + 1] = 2 * BlockSize[n]
    BY <2>1, BlockSizes
  <2>4. a % BlockSize[n] = 0 /\ (a + BlockSize[n]) % BlockSize[n] = 0 /\ a + BlockSize[n] \in Nat
    <3> HIDE DEF G
    <3>1. a % (2 * BlockSize[n]) = 0
      BY <2>2, <2>3
    <3> QED  BY <1>2, <2>3, <3>1, Halves
  <2>5. /\ Offsets(a, n + 1) = Offsets(a, n) \union Offsets(a + BlockSize[n], n)
        /\ \A x \in Offsets(a, n) : x \notin Offsets(a + BlockSize[n], n)
    BY <1>2, <2>1, OffsetsAre
  <2>6. Parts([G(n + 1) EXCEPT ![n] = Append(@, a + BlockSize[n])],
              (S \ Offsets(a, n + 1)) \union Offsets(a + BlockSize[n], n))
    <3> HIDE DEF G
    <3> QED  BY <2>1, <2>2, <2>4, <2>5, AppendParts
  <2>7. [G(n + 1) EXCEPT ![n] = Append(@, a + BlockSize[n])] = G(n)
    <3> DEFINE H == [G(n + 1) EXCEPT ![n] = Append(@, a + BlockSize[n])]
    <3>1. H = [o \in 0..MaxOrder |-> H[o]] /\ G(n) = [o \in 0..MaxOrder |-> G(n)[o]]
      OBVIOUS
    <3>2. ASSUME NEW o \in 0..MaxOrder PROVE H[o] = G(n)[o]
      <4>1. CASE o = n
        <5>1. G(n + 1)[o] = L[o] /\ G(n)[o] = Append(L[o], a + BlockSize[o])
          BY <2>1, <4>1
        <5> QED  BY <2>1, <4>1, <5>1
      <4>2. CASE o # n
        <5>1. H[o] = G(n + 1)[o]
          BY <2>1, <4>2
        <5>2. n <= o <=> n + 1 <= o
          BY <2>1, <4>2
        <5> QED  BY <5>1, <5>2
      <4> QED  BY <4>1, <4>2
    <3> DEFINE Q == G(n)
    <3>3. H = [o \in 0..MaxOrder |-> H[o]] /\ Q = [o \in 0..MaxOrder |-> Q[o]] /\ \A o \in 0..MaxOrder : H[o] = Q[o]
      BY <3>1, <3>2
    <3> HIDE DEF H, Q
    <3>4. H = Q
      BY <3>3
    <3> QED  BY <3>4 DEF H, Q
  <2>8. (S \ Offsets(a, n + 1)) \union Offsets(a + BlockSize[n], n) = S \ Offsets(a, n)
    <3>1. \A x \in Offsets(a + BlockSize[n], n) : x \in S
      <4>1. ASSUME NEW i \in Nat, i <= from
            PROVE  \A x \in Offsets(a, i) : x \in Offsets(a, from)
        <5> DEFINE U == {m \in Nat : m <= from => \A x \in Offsets(a, from - m) : x \in Offsets(a, from)}
        <5>1. 0 \in U
          BY <1>0
        <5>2. \A m \in Nat : m \in U => m + 1 \in U
          <6> SUFFICES ASSUME NEW m \in Nat, m \in U, m + 1 <= from
                       PROVE  \A x \in Offsets(a, from - (m + 1)) : x \in Offsets(a, from)
            OBVIOUS
          <6> DEFINE c == from - (m + 1)
          <6>1. c \in 0..MaxOrder /\ c < MaxOrder /\ c + 1 = from - m /\ m <= from
            BY <1>0
          <6> HIDE DEF c
          <6>2. \A x \in Offsets(a, c) : x \in Offsets(a, c + 1)
            BY <1>2, <6>1, OffsetsAre
          <6>3. \A x \in Offsets(a, c + 1) : x \in Offsets(a, from)
            BY <6>1
          <6> QED  BY <6>2, <6>3 DEF c
        <5>3. \A m \in Nat : m \in U
          <6> HIDE DEF U
          <6> QED  BY <5>1, <5>2, SetInduction
        <5>4. from - i \in Nat /\ from - i <= from /\ from - (from - i) = i
          BY <1>0, <4>1
        <5> QED  BY <5>3, <5>4
      <4>2. n + 1 \in Nat /\ n + 1 <= from
        BY <2>1
      <4> QED  BY <1>2, <2>5, <4>1, <4>2
    <3> QED  BY <2>5, <3>1
  <2>9. Good(n)
    <3> HIDE DEF G
    <3> QED  BY <2>4, <2>6, <2>7, <2>8
  <2> HIDE DEF Good, G
  <2> QED  BY <2>9 DEF n
<1>6. \A j \in Nat : j \in T
  <2> HIDE DEF T
  <2> QED  BY <1>4, <1>5, SetInduction
<1>7. Good(0)
  <2> HIDE DEF Good, G
  <2>1. from \in T /\ from - from = 0
    <3> HIDE DEF T
    <3> QED  BY <1>0, <1>6
  <2> QED  BY <1>0, <2>1
<1>8. Offsets(a, 0) = {a} /\ a \in Offsets(a, from)
  BY <1>0, <1>2, OffsetsAre
<1>9. G(0) = [o \in 0..MaxOrder |->
                CASE o = from -> Front(L[o])
                  [] o \in 0..from - 1 -> Append(L[o], a + BlockSize[o])
                  [] OTHER -> L[o]]
  <2>1. ASSUME NEW o \in 0..MaxOrder
        PROVE  (IF o = from THEN Front(L[o])
                ELSE IF 0 <= o /\ o < from THEN Append(L[o], a + BlockSize[o]) ELSE L[o])
             = CASE o = from -> Front(L[o])
                 [] o \in 0..from - 1 -> Append(L[o], a + BlockSize[o])
                 [] OTHER -> L[o]
    <3>1. (0 <= o /\ o < from) <=> o \in 0..from - 1
      BY <1>0
    <3>2. o = from => o \notin 0..from - 1
      BY <1>0
    <3> QED  BY <3>1, <3>2
  <2> QED  BY <2>1
<1> HIDE DEF G
<1> QED  BY <1>2, <1>7, <1>8, <1>9 DEF a

\* What deallocate() has on the way: the lists, and a block that is on none of them.
Carries(m, S) ==
  /\ m = [lists |-> m.lists, at |-> m.at, order |-> m.order]
  /\ m.order \in 0..MaxOrder /\ m.at \in Nat /\ m.at % BlockSize[m.order] = 0
  /\ \A x \in Offsets(m.at, m.order) : x \in S
  /\ Parts(m.lists, S \ Offsets(m.at, m.order))

\* A step of the merging loop.
LEMMA MergeStepCarries ==
  ASSUME NEW reg, NEW m, NEW S, Carries(m, S)
  PROVE  Carries(MergeStep(reg, m), S)
<1> DEFINE b == BuddyOf(m.at, m.order)
           o == m.order
           hits == {i \in DOMAIN m.lists[m.order] : m.lists[m.order][i] = b}
           d == BlockSize[o]
<1>1. CASE m.order = MaxOrder \/ b + BlockSize[m.order] > reg.pages \/ hits = {}
  <2>1. MergeStep(reg, m) = m
    BY <1>1, Zenon DEF MergeStep
  <2> QED  BY <2>1
<1>2. CASE ~(m.order = MaxOrder \/ b + BlockSize[m.order] > reg.pages \/ hits = {})
  <2>1. MergeStep(reg, m) = [lists |-> [m.lists EXCEPT ![m.order] = SwapRemove(@, Min(hits))],
                             at |-> Min({m.at, b}), order |-> m.order + 1]
    BY <1>2, Zenon DEF MergeStep
  <2>2. /\ o \in 0..MaxOrder /\ o < MaxOrder /\ m.at \in Nat /\ m.at % d = 0
        /\ \A x \in Offsets(m.at, o) : x \in S
        /\ Parts(m.lists, S \ Offsets(m.at, o))
        /\ hits # {}
    <3>1. /\ o \in 0..MaxOrder /\ m.at \in Nat /\ m.at % d = 0
          /\ \A x \in Offsets(m.at, o) : x \in S
          /\ Parts(m.lists, S \ Offsets(m.at, o))
      BY DEF Carries
    <3> QED  BY <1>2, <3>1, BlockSizes
  <2>3. m.lists[o] \in Seq(Nat)
    BY <2>2 DEF Parts
  <2> DEFINE k == Min(hits)
  <2>4. k \in 1..Len(m.lists[o]) /\ m.lists[o][k] = b
    <3>1. \A i \in hits : i \in Nat
      BY <2>3
    <3>2. k \in hits
      <4> HIDE DEF hits
      <4> QED  BY <2>2, <3>1, MinIs
    <3> QED  BY <2>3, <3>2
  <2> HIDE DEF k, hits
  <2>5. /\ Parts([m.lists EXCEPT ![o] = SwapRemove(@, k)], (S \ Offsets(m.at, o)) \ Offsets(b, o))
        /\ b \in Nat /\ b % d = 0 /\ \A x \in Offsets(b, o) : x \in S \ Offsets(m.at, o)
    <3>1. /\ Parts([m.lists EXCEPT ![o] = SwapRemove(@, k)],
                   (S \ Offsets(m.at, o)) \ Offsets(m.lists[o][k], o))
          /\ m.lists[o][k] \in Nat /\ m.lists[o][k] % d = 0
          /\ \A x \in Offsets(m.lists[o][k], o) : x \in S \ Offsets(m.at, o)
      <4> HIDE DEF o
      <4> QED  BY <2>2, <2>4, RemoveParts
    <3> QED  BY <2>4, <3>1
  <2>6. d \in Nat /\ d > 0 /\ o + 1 \in 0..MaxOrder /\ BlockSize[o + 1] = 2 * d
    BY <2>2, BlockSizes
  <2> DEFINE a == Min({m.at, b})
  <2>7. /\ a \in Nat /\ a % (2 * d) = 0
        /\ Offsets(a, o + 1) = Offsets(m.at, o) \union Offsets(b, o)
    <3>1. CASE (m.at \div d) % 2 = 0
      <4>1. b = m.at + d
        BY <3>1 DEF BuddyOf
      <4>2. m.at % (2 * d) = 0
        <5> HIDE DEF d
        <5> QED  BY <2>2, <2>6, <3>1, Buddies
      <4>3. a = m.at
        <5>1. {m.at, b} # {} /\ \A y \in {m.at, b} : y \in Nat
          BY <2>2, <2>5
        <5>2. a \in {m.at, b} /\ \A y \in {m.at, b} : a <= y
          BY <5>1, MinIs
        <5> HIDE DEF a
        <5> QED  BY <2>2, <2>6, <4>1, <5>2
      <4>4. Offsets(m.at, o + 1) = Offsets(m.at, o) \union Offsets(b, o)
        <5> HIDE DEF o, b
        <5> QED  BY <2>2, <4>1, OffsetsAre
      <4> QED  BY <2>2, <4>2, <4>3, <4>4
    <3>2. CASE (m.at \div d) % 2 # 0
      <4>1. b = m.at - d /\ m.at = b + d
        <5>1. b = m.at - d
          BY <3>2 DEF BuddyOf
        <5> QED  BY <2>2, <2>6, <5>1
      <4>2. (m.at - d) % (2 * d) = 0
        <5> HIDE DEF d
        <5> QED  BY <2>2, <2>6, <3>2, Buddies
      <4>3. a = b
        <5>1. {m.at, b} # {} /\ \A y \in {m.at, b} : y \in Nat
          BY <2>2, <2>5
        <5>2. a \in {m.at, b} /\ \A y \in {m.at, b} : a <= y
          BY <5>1, MinIs
        <5> HIDE DEF a, b
        <5> QED  BY <2>2, <2>5, <2>6, <4>1, <5>2
      <4>4. Offsets(b, o + 1) = Offsets(b, o) \union Offsets(m.at, o)
        <5> HIDE DEF o, b
        <5> QED  BY <2>2, <2>5, <4>1, OffsetsAre
      <4> QED  BY <2>5, <4>1, <4>2, <4>3, <4>4
    <3> QED  BY <3>1, <3>2
  <2> HIDE DEF a, b
  <2>8. (S \ Offsets(m.at, o)) \ Offsets(b, o) = S \ Offsets(a, o + 1)
    BY <2>7
  <2>9. \A x \in Offsets(a, o + 1) : x \in S
    BY <2>2, <2>5, <2>7
  <2> DEFINE n == [lists |-> [m.lists EXCEPT ![o] = SwapRemove(@, k)], at |-> a, order |-> o + 1]
  <2>10. MergeStep(reg, m) = n
    BY <2>1 DEF a, k, hits, b
  <2>11. Carries(n, S)
    <3>1. n.lists = [m.lists EXCEPT ![o] = SwapRemove(@, k)] /\ n.at = a /\ n.order = o + 1
          /\ n = [lists |-> n.lists, at |-> n.at, order |-> n.order]
      OBVIOUS
    <3> HIDE DEF n
    <3>2. Parts(n.lists, S \ Offsets(n.at, n.order))
      BY <2>5, <2>8, <3>1
    <3> QED  BY <2>6, <2>7, <2>9, <3>1, <3>2 DEF Carries
  <2> QED  BY <2>10, <2>11
<1> QED  BY <1>1, <1>2

\* The states of the merging loop.
Carriers(S) ==
  {m \in [lists : [0..MaxOrder -> Seq(Nat)], at : Nat, order : 0..MaxOrder] : Carries(m, S)}

\* Membership in that set is the predicate.
LEMMA CarriersAre ==
  ASSUME NEW S, NEW m
  PROVE  m \in Carriers(S) <=> Carries(m, S)
<1> SUFFICES ASSUME Carries(m, S)
             PROVE  m \in [lists : [0..MaxOrder -> Seq(Nat)], at : Nat, order : 0..MaxOrder]
  BY DEF Carriers
<1>1. /\ m = [lists |-> m.lists, at |-> m.at, order |-> m.order]
      /\ m.order \in 0..MaxOrder /\ m.at \in Nat /\ m.lists \in [0..MaxOrder -> Seq(Nat)]
  BY DEF Carries, Parts
<1> QED  BY <1>1

\* The loop ends with a block that is on no list.
LEMMA MergeCarries ==
  ASSUME NEW reg, NEW S, NEW at, NEW order,
         Carries([lists |-> reg.lists, at |-> at, order |-> order], S)
  PROVE  Carries(Merge(reg, at, order), S)
<1> DEFINE g == [lists |-> reg.lists, at |-> at, order |-> order]
           F == [m \in Carriers(S) |-> MergeStep(reg, m)]
           P(f) == f = [n \in 0..MaxOrder |-> IF n = 0 THEN g ELSE MergeStep(reg, f[n - 1])]
<1>0. MaxOrder \in Nat /\ MaxOrder \in 0..MaxOrder
  BY BlockSizes
<1>1. g \in Carriers(S)
  BY CarriersAre
<1>2. F \in [Carriers(S) -> Carriers(S)]
  BY CarriersAre, MergeStepCarries
<1> HIDE DEF g
<1>3. PICK f : Iteration(f, Carriers(S), F, g, MaxOrder)
  <2> HIDE DEF F
  <2> QED  BY <1>0, <1>1, <1>2, Iterates
<1>4. /\ f \in [0..MaxOrder -> Carriers(S)]
      /\ \A n \in 0..MaxOrder : f[n] = IF n = 0 THEN g ELSE F[f[n - 1]]
  BY <1>3 DEF Iteration
<1>5. \A n \in 0..MaxOrder : n # 0 => n - 1 \in 0..MaxOrder
  BY <1>0
<1>6. \A n \in 0..MaxOrder : f[n] = IF n = 0 THEN g ELSE MergeStep(reg, f[n - 1])
  BY <1>4, <1>5
<1>7. P(f)
  BY <1>4, <1>6
<1> DEFINE h == CHOOSE x : P(x)
<1>8. Merge(reg, at, order) = h[MaxOrder]
  BY DEF Merge, g
<1>9. P(h)
  <2> HIDE DEF P
  <2> QED  BY <1>7
<1> HIDE DEF h
<1>10. \A n \in 0..MaxOrder : h[n] = IF n = 0 THEN g ELSE MergeStep(reg, h[n - 1])
  BY <1>9, Zenon
<1> DEFINE T == {n \in Nat : n <= MaxOrder => h[n] \in Carriers(S)}
<1>11. 0 \in T
  BY <1>0, <1>1, <1>10
<1>12. \A n \in Nat : n \in T => n + 1 \in T
  <2> SUFFICES ASSUME NEW n \in Nat, n \in T, n + 1 <= MaxOrder PROVE h[n + 1] \in Carriers(S)
    OBVIOUS
  <2>1. n + 1 \in 0..MaxOrder /\ n + 1 # 0 /\ (n + 1) - 1 = n /\ n <= MaxOrder
    BY <1>0
  <2>2. h[n + 1] = MergeStep(reg, h[n]) /\ h[n] \in Carriers(S)
    BY <1>10, <2>1
  <2> QED  BY <2>2, CarriersAre, MergeStepCarries
<1>13. \A n \in Nat : n \in T
  <2> HIDE DEF T
  <2> QED  BY <1>11, <1>12, SetInduction
<1>14. h[MaxOrder] \in Carriers(S)
  BY <1>0, <1>13
<1> QED  BY <1>8, <1>14, CarriersAre

-----------------------------------------------------------------------------
(* One region.                                                             *)

Whole(reg) == 0..reg.pages - 1

\* The lists of a region hold exactly the frames whose bit is clear.
RegionOK(r, reg) ==
  /\ reg = [start |-> reg.start, pages |-> reg.pages, lists |-> reg.lists, bits |-> reg.bits]
  /\ reg.start = Regions[r].start /\ reg.pages = Regions[r].pages
  /\ reg.bits \subseteq Whole(reg)
  /\ Parts(reg.lists, Whole(reg) \ reg.bits)

\* The firmware's regions have natural numbers for bounds.
LEMMA RegionsAre ==
  ASSUME NEW r \in DOMAIN Regions
  PROVE  Regions[r].start \in Nat /\ Regions[r].pages \in Nat
<1> DEFINE R == [start : Nat, pages : Nat]
<1>1. Regions \in Seq(R)
  BY BuddyConstants
<1>2. Regions[r] \in R
  <2> HIDE DEF R
  <2>1. DOMAIN Regions = 1..Len(Regions)
    BY <1>1
  <2> QED  BY <1>1, <2>1
<1> QED  BY <1>2

\* allocate() takes a frame that was free, and sets its bit.
LEMMA AllocateInOK ==
  ASSUME NEW r \in DOMAIN Regions, NEW reg, RegionOK(r, reg),
         NEW from \in 0..MaxOrder, reg.lists[from] # <<>>
  PROVE  /\ RegionOK(r, AllocateIn(reg, 0, from))
         /\ Last(reg.lists[from]) \in Whole(reg) \ reg.bits
         /\ AllocateIn(reg, 0, from).bits = reg.bits \union {Last(reg.lists[from])}
<1> DEFINE a == Last(reg.lists[from])
           M == [o \in 0..MaxOrder |->
                   CASE o = from -> Front(reg.lists[o])
                     [] o \in 0..from - 1 -> Append(reg.lists[o], a + BlockSize[o])
                     [] OTHER -> reg.lists[o]]
           n == [start |-> reg.start, pages |-> reg.pages, lists |-> M, bits |-> reg.bits \union {a}]
<1>1. /\ reg = [start |-> reg.start, pages |-> reg.pages, lists |-> reg.lists, bits |-> reg.bits]
      /\ reg.start = Regions[r].start /\ reg.pages = Regions[r].pages
      /\ reg.bits \subseteq Whole(reg)
      /\ Parts(reg.lists, Whole(reg) \ reg.bits)
  BY DEF RegionOK
<1>2. a \in Whole(reg) \ reg.bits /\ a \in Nat /\ Parts(M, (Whole(reg) \ reg.bits) \ {a})
  BY <1>1, SplitParts
<1>3. Offsets(a, 0) = {a}
  BY <1>2, BlockSizes, OffsetsAre
<1>4. AllocateIn(reg, 0, from) = n
  <2>1. AllocateIn(reg, 0, from) = [reg EXCEPT !.lists = M, !.bits = reg.bits \union Offsets(a, 0)]
    BY DEF AllocateIn
  <2> HIDE DEF M
  <2> QED  BY <1>1, <1>3, <2>1
<1> HIDE DEF M, a
<1>5. n.start = reg.start /\ n.pages = reg.pages /\ n.lists = M /\ n.bits = reg.bits \union {a}
      /\ n = [start |-> n.start, pages |-> n.pages, lists |-> n.lists, bits |-> n.bits]
  OBVIOUS
<1> HIDE DEF n
<1>6. Whole(n) = Whole(reg) /\ Whole(n) \ n.bits = (Whole(reg) \ reg.bits) \ {a}
  BY <1>5 DEF Whole
<1>7. RegionOK(r, n)
  BY <1>1, <1>2, <1>5, <1>6 DEF RegionOK
<1> QED  BY <1>2, <1>4, <1>5, <1>7 DEF a

\* deallocate() of a frame whose bit is set clears it.
LEMMA DeallocateInOK ==
  ASSUME NEW r \in DOMAIN Regions, NEW reg, RegionOK(r, reg), NEW at \in reg.bits
  PROVE  /\ RegionOK(r, DeallocateIn(reg, at, 0))
         /\ DeallocateIn(reg, at, 0).bits = reg.bits \ {at}
<1> DEFINE g == [lists |-> reg.lists, at |-> at, order |-> 0]
           m == Merge(reg, at, 0)
           S == (Whole(reg) \ reg.bits) \union {at}
           M == [m.lists EXCEPT ![m.order] = Append(@, m.at)]
           n == [start |-> reg.start, pages |-> reg.pages, lists |-> M, bits |-> reg.bits \ {at}]
<1>1. /\ reg = [start |-> reg.start, pages |-> reg.pages, lists |-> reg.lists, bits |-> reg.bits]
      /\ reg.start = Regions[r].start /\ reg.pages = Regions[r].pages
      /\ reg.bits \subseteq Whole(reg)
      /\ Parts(reg.lists, Whole(reg) \ reg.bits)
  BY DEF RegionOK
<1>2. at \in Whole(reg) /\ at \in Nat
  BY <1>1, RegionsAre DEF Whole
<1>3. 0 \in 0..MaxOrder /\ BlockSize[0] = 1 /\ Offsets(at, 0) = {at}
  BY <1>2, BlockSizes, OffsetsAre
<1>4. Carries(g, S)
  <2>1. g.lists = reg.lists /\ g.at = at /\ g.order = 0 /\ g = [lists |-> g.lists, at |-> g.at, order |-> g.order]
    OBVIOUS
  <2>2. S \ {at} = Whole(reg) \ reg.bits
    BY <1>2
  <2>3. at % 1 = 0
    BY <1>2
  <2> HIDE DEF g, S
  <2>4. Parts(g.lists, S \ Offsets(g.at, g.order)) /\ \A x \in Offsets(g.at, g.order) : x \in S
    BY <1>1, <1>3, <2>1, <2>2 DEF S
  <2> QED  BY <1>2, <1>3, <2>1, <2>3, <2>4 DEF Carries
<1>5. Carries(m, S)
  BY <1>4, MergeCarries
<1> HIDE DEF m, S
<1>6. Parts(M, S)
  <2>1. /\ m.order \in 0..MaxOrder /\ m.at \in Nat /\ m.at % BlockSize[m.order] = 0
        /\ \A x \in Offsets(m.at, m.order) : x \in S
        /\ Parts(m.lists, S \ Offsets(m.at, m.order))
    BY <1>5 DEF Carries
  <2>2. Parts(M, (S \ Offsets(m.at, m.order)) \union Offsets(m.at, m.order))
    BY <2>1, AppendParts
  <2>3. (S \ Offsets(m.at, m.order)) \union Offsets(m.at, m.order) = S
    BY <2>1
  <2> QED  BY <2>2, <2>3
<1>7. DeallocateIn(reg, at, 0) = n
  <2>1. DeallocateIn(reg, at, 0) = [reg EXCEPT !.lists = M, !.bits = reg.bits \ Offsets(at, 0)]
    BY DEF DeallocateIn, m
  <2> HIDE DEF M
  <2> QED  BY <1>1, <1>3, <2>1
<1> HIDE DEF M
<1>8. n.start = reg.start /\ n.pages = reg.pages /\ n.lists = M /\ n.bits = reg.bits \ {at}
      /\ n = [start |-> n.start, pages |-> n.pages, lists |-> n.lists, bits |-> n.bits]
  OBVIOUS
<1> HIDE DEF n
<1>9. Whole(n) = Whole(reg) /\ Whole(n) \ n.bits = S
  BY <1>1, <1>2, <1>8 DEF Whole, S
<1>10. RegionOK(r, n)
  BY <1>1, <1>6, <1>8, <1>9 DEF RegionOK
<1> QED  BY <1>7, <1>8, <1>10

\* What max_free_order_at() finds: an aligned free block.
LEMMA MaxFreeOrderIs ==
  ASSUME NEW reg, reg.pages \in Nat, NEW at \in Nat, at < reg.pages, at \notin reg.bits
  PROVE  LET o == MaxFreeOrder(reg, at)
         IN  /\ o \in 0..MaxOrder /\ at % BlockSize[o] = 0 /\ at + BlockSize[o] <= reg.pages
             /\ \A x \in Offsets(at, o) : x \notin reg.bits
<1> DEFINE fits(o) == /\ at % BlockSize[o] = 0
                      /\ at + BlockSize[o] <= reg.pages
                      /\ Offsets(at, o) \cap reg.bits = {}
           U == {o \in 0 .. MaxOrder : o = MaxOrder \/ ~fits(o + 1)}
           o == Min(U)
<1>1. MaxFreeOrder(reg, at) = o
  BY DEF MaxFreeOrder
<1>2. o \in U /\ \A y \in U : o <= y
  <2>1. MaxOrder \in U /\ \A y \in U : y \in Nat
    BY BlockSizes
  <2> HIDE DEF U
  <2> QED  BY <2>1, MinIs
<1>3. o \in 0..MaxOrder
  BY <1>2
<1>4. fits(o)
  <2>1. CASE o = 0
    <3>1. BlockSize[0] = 1 /\ 0 \in 0..MaxOrder
      BY BlockSizes
    <3>2. Offsets(at, 0) = {at}
      BY <3>1, OffsetsAre
    <3>3. at % 1 = 0 /\ at + 1 <= reg.pages
      OBVIOUS
    <3> HIDE DEF o
    <3> QED  BY <2>1, <3>1, <3>2, <3>3
  <2>2. CASE o # 0
    <3>1. o - 1 \in 0..MaxOrder /\ o - 1 < o /\ o - 1 # MaxOrder /\ (o - 1) + 1 = o
      BY <1>3, <2>2, BlockSizes
    <3> HIDE DEF o
    <3>2. o - 1 \notin U
      <4> HIDE DEF U
      <4>1. o - 1 \in U => o <= o - 1
        BY <1>2
      <4> QED  BY <1>3, <3>1, <4>1
    <3>3. fits((o - 1) + 1)
      <4> HIDE DEF fits
      <4> QED  BY <3>1, <3>2
    <3> QED  BY <3>1, <3>3
  <2> QED  BY <2>1, <2>2
<1> HIDE DEF o
<1> QED  BY <1>1, <1>3, <1>4

\* What build_free_lists() has on the way: the blocks below an offset.
Scanned(reg, s) ==
  /\ s = [lists |-> s.lists, at |-> s.at]
  /\ s.at \in 0..reg.pages
  /\ Parts(s.lists, (0..s.at - 1) \ reg.bits)

\* A step of build_free_lists() goes on until the end of the region.
LEMMA ScanStepOK ==
  ASSUME NEW reg, reg.pages \in Nat, NEW s, Scanned(reg, s)
  PROVE  /\ Scanned(reg, ScanStep(reg, s))
         /\ ScanStep(reg, s).at = reg.pages \/ ScanStep(reg, s).at > s.at
<1> DEFINE o == MaxFreeOrder(reg, s.at)
           d == BlockSize[o]
<1>1. /\ s = [lists |-> s.lists, at |-> s.at] /\ s.at \in 0..reg.pages /\ s.at \in Nat /\ s.at <= reg.pages
      /\ Parts(s.lists, (0..s.at - 1) \ reg.bits)
  BY DEF Scanned
<1>2. CASE s.at >= reg.pages
  <2>1. ScanStep(reg, s) = s
    BY <1>2 DEF ScanStep
  <2> QED  BY <1>1, <1>2, <2>1
<1>3. CASE s.at < reg.pages /\ s.at \in reg.bits
  <2> DEFINE n == [lists |-> s.lists, at |-> s.at + 1]
  <2>1. ScanStep(reg, s) = n
    BY <1>1, <1>3 DEF ScanStep
  <2>2. (0..(s.at + 1) - 1) \ reg.bits = (0..s.at - 1) \ reg.bits
    BY <1>1, <1>3
  <2>3. n = [lists |-> n.lists, at |-> n.at] /\ n.lists = s.lists /\ n.at = s.at + 1
    OBVIOUS
  <2> HIDE DEF n
  <2>4. n.at \in 0..reg.pages
    BY <1>1, <1>3, <2>3
  <2>5. Parts(n.lists, (0..n.at - 1) \ reg.bits)
    BY <1>1, <2>2, <2>3
  <2>6. Scanned(reg, n)
    BY <2>3, <2>4, <2>5 DEF Scanned
  <2> QED  BY <1>1, <2>1, <2>3, <2>6
<1>4. CASE s.at < reg.pages /\ s.at \notin reg.bits
  <2> DEFINE M == [s.lists EXCEPT ![o] = <<s.at>> \o @]
             n == [lists |-> M, at |-> s.at + d]
  <2>1. ScanStep(reg, s) = n
    BY <1>1, <1>4 DEF ScanStep
  <2>2. /\ o \in 0..MaxOrder /\ s.at % d = 0 /\ s.at + d <= reg.pages
        /\ \A x \in Offsets(s.at, o) : x \notin reg.bits
    BY <1>1, <1>4, MaxFreeOrderIs
  <2>3. d \in Nat /\ d > 0
    BY <2>2, BlockSizes
  <2> HIDE DEF o
  <2>4. Offsets(s.at, o) = s.at .. s.at + d - 1
    BY DEF Offsets
  <2>5. \A x \in Offsets(s.at, o) : x \notin (0..s.at - 1) \ reg.bits
    BY <1>1, <2>3, <2>4
  <2>6. Parts(M, ((0..s.at - 1) \ reg.bits) \union Offsets(s.at, o))
    <3> HIDE DEF d
    <3> QED  BY <1>1, <2>2, <2>5, PrependParts DEF d
  <2> HIDE DEF d, M
  <2>7. 0..(s.at + d) - 1 = (0..s.at - 1) \union (s.at .. s.at + d - 1)
    BY <1>1, <2>3
  <2>8. ((0..s.at - 1) \ reg.bits) \union Offsets(s.at, o) = (0..(s.at + d) - 1) \ reg.bits
    BY <2>2, <2>4, <2>7
  <2>9. n = [lists |-> n.lists, at |-> n.at] /\ n.lists = M /\ n.at = s.at + d
    OBVIOUS
  <2> HIDE DEF n
  <2>10. n.at \in 0..reg.pages /\ n.at > s.at
    BY <1>1, <2>2, <2>3, <2>9
  <2>11. Scanned(reg, n)
    BY <2>6, <2>8, <2>9, <2>10 DEF Scanned
  <2> QED  BY <2>1, <2>10, <2>11
<1> QED  BY <1>1, <1>2, <1>3, <1>4

\* The states of the scan.
Scans(reg) == {s \in [lists : [0..MaxOrder -> Seq(Nat)], at : Nat] : Scanned(reg, s)}

\* Membership in that set is the predicate.
LEMMA ScansAre ==
  ASSUME NEW reg, reg.pages \in Nat, NEW s
  PROVE  s \in Scans(reg) <=> Scanned(reg, s)
<1> SUFFICES ASSUME Scanned(reg, s)
             PROVE  s \in [lists : [0..MaxOrder -> Seq(Nat)], at : Nat]
  BY DEF Scans
<1>1. s = [lists |-> s.lists, at |-> s.at] /\ s.at \in Nat /\ s.lists \in [0..MaxOrder -> Seq(Nat)]
  BY DEF Scanned, Parts
<1> QED  BY <1>1

\* build_free_lists() puts every free frame on a list.
LEMMA BuildOK ==
  ASSUME NEW r \in DOMAIN Regions, NEW bits, bits \subseteq 0..Regions[r].pages - 1,
         NEW any
  PROVE  LET reg == [start |-> Regions[r].start, pages |-> Regions[r].pages, lists |-> any, bits |-> bits]
         IN  RegionOK(r, BuildFreeLists(reg)) /\ BuildFreeLists(reg).bits = bits
<1> DEFINE reg == [start |-> Regions[r].start, pages |-> Regions[r].pages, lists |-> any, bits |-> bits]
           g == [lists |-> [o \in 0 .. MaxOrder |-> <<>>], at |-> 0]
           F == [s \in Scans(reg) |-> ScanStep(reg, s)]
           N == reg.pages
           P(f) == f = [n \in 0..reg.pages |-> IF n = 0 THEN g ELSE ScanStep(reg, f[n - 1])]
<1>0. reg.pages \in Nat /\ reg.pages = Regions[r].pages /\ reg.start = Regions[r].start /\ reg.bits = bits
  BY RegionsAre
<1>1. Scanned(reg, g)
  <2>1. g = [lists |-> g.lists, at |-> g.at] /\ g.at = 0 /\ g.lists = [o \in 0 .. MaxOrder |-> <<>>]
    OBVIOUS
  <2>2. (0..0 - 1) \ reg.bits = {}
    OBVIOUS
  <2>3. Parts([o \in 0 .. MaxOrder |-> <<>>], {})
    BY DEF Parts
  <2> HIDE DEF g
  <2> QED  BY <1>0, <2>1, <2>2, <2>3 DEF Scanned
<1> HIDE DEF g, reg
<1>2. F \in [Scans(reg) -> Scans(reg)] /\ g \in Scans(reg)
  BY <1>0, <1>1, ScansAre, ScanStepOK
<1>3. PICK f : Iteration(f, Scans(reg), F, g, N)
  <2> HIDE DEF F, N
  <2> QED  BY <1>0, <1>2, Iterates DEF N
<1>4. /\ f \in [0..N -> Scans(reg)]
      /\ \A n \in 0..N : f[n] = IF n = 0 THEN g ELSE F[f[n - 1]]
  BY <1>3 DEF Iteration
<1>5. \A n \in 0..N : n # 0 => n - 1 \in 0..N
  BY <1>0
<1>6. \A n \in 0..N : f[n] = IF n = 0 THEN g ELSE ScanStep(reg, f[n - 1])
  BY <1>4, <1>5
<1>7. P(f)
  BY <1>4, <1>6
<1> DEFINE h == CHOOSE x : P(x)
<1>8. BuildFreeLists(reg) = [reg EXCEPT !.lists = h[reg.pages].lists]
  BY DEF BuildFreeLists, g
<1>9. P(h)
  <2> HIDE DEF P
  <2> QED  BY <1>7
<1> HIDE DEF h
<1>10. \A n \in 0..N : h[n] = IF n = 0 THEN g ELSE ScanStep(reg, h[n - 1])
  BY <1>9, Zenon
<1> DEFINE T == {n \in Nat : n <= N => Scanned(reg, h[n]) /\ (h[n].at = N \/ h[n].at >= n)}
<1>11. 0 \in T
  <2>0. g.at >= 0
    BY DEF g
  <2>1. h[0] = g /\ g.at >= 0
    BY <1>0, <1>10, <2>0
  <2> QED  BY <1>1, <2>1
<1>12. \A n \in Nat : n \in T => n + 1 \in T
  <2> SUFFICES ASSUME NEW n \in Nat, n \in T, n + 1 <= N
               PROVE  Scanned(reg, h[n + 1]) /\ (h[n + 1].at = N \/ h[n + 1].at >= n + 1)
    OBVIOUS
  <2>1. n + 1 \in 0..N /\ n + 1 # 0 /\ (n + 1) - 1 = n /\ n <= N
    BY <1>0
  <2>2. h[n + 1] = ScanStep(reg, h[n]) /\ Scanned(reg, h[n]) /\ (h[n].at = N \/ h[n].at >= n)
    BY <1>10, <2>1
  <2>3. /\ Scanned(reg, h[n + 1])
        /\ h[n + 1].at = N \/ h[n + 1].at > h[n].at
    BY <1>0, <2>2, ScanStepOK
  <2>4. h[n].at \in Nat /\ h[n + 1].at \in Nat /\ h[n + 1].at <= N
    BY <1>0, <2>2, <2>3 DEF Scanned
  <2> QED  BY <1>0, <2>2, <2>3, <2>4
<1>13. \A n \in Nat : n \in T
  <2> HIDE DEF T
  <2> QED  BY <1>11, <1>12, SetInduction
<1>14. Scanned(reg, h[N]) /\ h[N].at = N
  <2>1. Scanned(reg, h[N]) /\ (h[N].at = N \/ h[N].at >= N)
    BY <1>0, <1>13
  <2> QED  BY <1>0, <2>1 DEF Scanned
<1> DEFINE n == [start |-> reg.start, pages |-> reg.pages, lists |-> h[N].lists, bits |-> reg.bits]
<1>15. BuildFreeLists(reg) = n
  BY <1>8 DEF reg
<1>16. n = [start |-> n.start, pages |-> n.pages, lists |-> n.lists, bits |-> n.bits]
       /\ n.start = reg.start /\ n.pages = reg.pages /\ n.lists = h[N].lists /\ n.bits = reg.bits
  OBVIOUS
<1> HIDE DEF n
<1>17. Whole(n) = 0..N - 1
  BY <1>16 DEF Whole
<1>18. Parts(n.lists, Whole(n) \ n.bits)
  BY <1>14, <1>16, <1>17 DEF Scanned
<1>19. n.bits \subseteq Whole(n)
  BY <1>0, <1>16, <1>17
<1>20. RegionOK(r, n) /\ n.bits = bits
  BY <1>0, <1>16, <1>18, <1>19 DEF RegionOK
<1> QED  BY <1>15, <1>20 DEF reg

-----------------------------------------------------------------------------
(* The allocator.                                                          *)

Used(f) == UNION {FramesOf(f.regions[r], f.regions[r].bits) : r \in DOMAIN f.regions}

\* Each region is in order.
RegionsOK(f) ==
  /\ f = [regions |-> f.regions, count |-> f.count]
  /\ f.regions = [r \in DOMAIN Regions |-> f.regions[r]]
  /\ \A r \in DOMAIN Regions : RegionOK(r, f.regions[r])

\* The counter is right, too.
AllocOK(f) ==
  /\ RegionsOK(f)
  /\ IsFiniteSet(Used(f))
  /\ f.count = Cardinality(Used(f))

\* What is a used frame.
LEMMA UsedIs ==
  ASSUME NEW f, RegionsOK(f), NEW x
  PROVE  x \in Used(f) <=> \E r \in DOMAIN Regions : \E a \in f.regions[r].bits : x = Regions[r].start + a
<1>1. DOMAIN f.regions = DOMAIN Regions
  BY DEF RegionsOK
<1>2. \A r \in DOMAIN Regions : f.regions[r].start = Regions[r].start
  BY DEF RegionsOK, RegionOK
<1>3. x \in Used(f) <=> \E r \in DOMAIN f.regions : x \in FramesOf(f.regions[r], f.regions[r].bits)
  BY Zenon DEF Used
<1>4. \A r \in DOMAIN Regions : x \in FramesOf(f.regions[r], f.regions[r].bits)
                                <=> \E a \in f.regions[r].bits : x = Regions[r].start + a
  BY <1>2 DEF FramesOf
<1> QED  BY <1>1, <1>3, <1>4

\* A frame is in one region at most.
LEMMA OneRegion ==
  ASSUME NEW r \in DOMAIN Regions, NEW s \in DOMAIN Regions,
         NEW a \in 0..Regions[r].pages - 1, NEW b \in 0..Regions[s].pages - 1,
         Regions[r].start + a = Regions[s].start + b
  PROVE  r = s /\ a = b
<1>1. /\ Regions[r].start \in Nat /\ Regions[r].pages \in Nat
      /\ Regions[s].start \in Nat /\ Regions[s].pages \in Nat
  BY RegionsAre
<1>2. r # s => \/ Regions[r].start + Regions[r].pages <= Regions[s].start
               \/ Regions[s].start + Regions[s].pages <= Regions[r].start
  BY BuddyConstants
<1>3. r = s
  BY <1>1, <1>2
<1> QED  BY <1>1, <1>3

\* The bits of a region are about its frames.
LEMMA BitsAre ==
  ASSUME NEW f, RegionsOK(f), NEW r \in DOMAIN Regions
  PROVE  /\ f.regions[r].bits \subseteq 0..Regions[r].pages - 1
         /\ f.regions[r].pages = Regions[r].pages /\ f.regions[r].start = Regions[r].start
         /\ \A a \in 0..Regions[r].pages - 1 :
              Regions[r].start + a \in Used(f) <=> a \in f.regions[r].bits
<1>1. \A s \in DOMAIN Regions : /\ f.regions[s].bits \subseteq 0..Regions[s].pages - 1
                                /\ f.regions[s].pages = Regions[s].pages /\ f.regions[s].start = Regions[s].start
  BY DEF RegionsOK, RegionOK, Whole
<1>2. ASSUME NEW a \in 0..Regions[r].pages - 1
      PROVE  Regions[r].start + a \in Used(f) <=> a \in f.regions[r].bits
  <2>1. a \in f.regions[r].bits => Regions[r].start + a \in Used(f)
    BY UsedIs
  <2>2. ASSUME Regions[r].start + a \in Used(f) PROVE a \in f.regions[r].bits
    <3>1. PICK s \in DOMAIN Regions : \E b \in f.regions[s].bits : Regions[r].start + a = Regions[s].start + b
      BY <2>2, UsedIs
    <3>2. PICK b \in f.regions[s].bits : Regions[r].start + a = Regions[s].start + b
      BY <3>1
    <3>3. b \in 0..Regions[s].pages - 1
      BY <1>1
    <3>4. r = s /\ a = b
      BY <3>2, <3>3, OneRegion
    <3> QED  BY <3>4
  <2> QED  BY <2>1, <2>2
<1> QED  BY <1>1, <1>2

\* One region is changed.
LEMMA RegionChanged ==
  ASSUME NEW f, RegionsOK(f), NEW r \in DOMAIN Regions, NEW n, RegionOK(r, n), NEW c
  PROVE  LET g == [regions |-> [f.regions EXCEPT ![r] = n], count |-> c]
         IN  /\ RegionsOK(g) /\ g.count = c
             /\ \A x : x \in Used(g) <=>
                  \/ \E a \in n.bits : x = Regions[r].start + a
                  \/ x \in Used(f) /\ ~\E a \in 0..Regions[r].pages - 1 : x = Regions[r].start + a
<1> DEFINE g == [regions |-> [f.regions EXCEPT ![r] = n], count |-> c]
<1>1. /\ f.regions = [s \in DOMAIN Regions |-> f.regions[s]]
      /\ \A s \in DOMAIN Regions : RegionOK(s, f.regions[s])
  BY DEF RegionsOK
<1>2. /\ g = [regions |-> g.regions, count |-> g.count] /\ g.count = c
      /\ g.regions = [s \in DOMAIN Regions |-> g.regions[s]]
      /\ g.regions[r] = n /\ \A s \in DOMAIN Regions : s # r => g.regions[s] = f.regions[s]
  <2>1. DOMAIN f.regions = DOMAIN Regions
    BY <1>1
  <2>2. g.regions = [f.regions EXCEPT ![r] = n]
    OBVIOUS
  <2> QED  BY <2>1, <2>2
<1> HIDE DEF g
<1>3. RegionsOK(g)
  <2>1. ASSUME NEW s \in DOMAIN Regions PROVE RegionOK(s, g.regions[s])
    <3>1. CASE s = r
      BY <1>2, <3>1
    <3>2. CASE s # r
      BY <1>1, <1>2, <3>2
    <3> QED  BY <3>1, <3>2
  <2> QED  BY <1>2, <2>1 DEF RegionsOK
<1>4. ASSUME NEW x
      PROVE  x \in Used(g) <=>
                  \/ \E a \in n.bits : x = Regions[r].start + a
                  \/ x \in Used(f) /\ ~\E a \in 0..Regions[r].pages - 1 : x = Regions[r].start + a
  <2>1. ASSUME x \in Used(g), ~\E a \in n.bits : x = Regions[r].start + a
        PROVE  x \in Used(f) /\ ~\E a \in 0..Regions[r].pages - 1 : x = Regions[r].start + a
    <3>1. PICK s \in DOMAIN Regions : \E b \in g.regions[s].bits : x = Regions[s].start + b
      BY <1>3, <2>1, UsedIs
    <3>2. PICK b \in g.regions[s].bits : x = Regions[s].start + b
      BY <3>1
    <3>3. s # r
      BY <1>2, <2>1, <3>2
    <3>4. b \in f.regions[s].bits
      BY <1>2, <3>3
    <3>5. b \in 0..Regions[s].pages - 1
      BY <3>4, BitsAre
    <3>6. x \in Used(f)
      BY <3>2, <3>4, UsedIs
    <3>7. ASSUME NEW a \in 0..Regions[r].pages - 1, x = Regions[r].start + a PROVE FALSE
      BY <3>2, <3>3, <3>5, <3>7, OneRegion
    <3> QED  BY <3>6, <3>7
  <2>2. ASSUME NEW a \in n.bits, x = Regions[r].start + a
        PROVE  x \in Used(g)
    BY <1>2, <1>3, <2>2, UsedIs
  <2>3. ASSUME x \in Used(f), ~\E a \in 0..Regions[r].pages - 1 : x = Regions[r].start + a
        PROVE  x \in Used(g)
    <3>1. PICK s \in DOMAIN Regions : \E b \in f.regions[s].bits : x = Regions[s].start + b
      BY <2>3, UsedIs
    <3>2. PICK b \in f.regions[s].bits : x = Regions[s].start + b
      BY <3>1
    <3>3. b \in 0..Regions[s].pages - 1
      BY BitsAre
    <3>4. s # r
      BY <2>3, <3>2, <3>3
    <3>5. b \in g.regions[s].bits
      BY <1>2, <3>4
    <3> QED  BY <1>3, <3>2, <3>5, UsedIs
  <2> QED  BY <2>1, <2>2, <2>3
<1> QED  BY <1>2, <1>3, <1>4 DEF g

\* allocate_frame(): no frame is left, or it gives one that was free.
LEMMA AllocateOK ==
  ASSUME NEW f, AllocOK(f)
  PROVE  LET a == Allocate(f, 0)
         IN  \/ a.frame = -1 /\ a.fa = f
             \/ /\ a.frame \in RamFrames /\ a.frame \in Nat /\ a.frame \notin Used(f)
                /\ AllocOK(a.fa) /\ Used(a.fa) = Used(f) \union {a.frame}
<1> DEFINE able == {r \in DOMAIN f.regions : Sources(f.regions[r], 0) # {}}
           from(r, o) == [fa |-> [regions |-> [f.regions EXCEPT ![r] = AllocateIn(@, 0, o)],
                                  count |-> f.count + BlockSize[0]],
                          frame |-> f.regions[r].start + Last(f.regions[r].lists[o])]
           in(r) == from(r, Min(Sources(f.regions[r], 0)))
           a == Allocate(f, 0)
<1>0. /\ RegionsOK(f) /\ IsFiniteSet(Used(f)) /\ f.count = Cardinality(Used(f))
      /\ DOMAIN f.regions = DOMAIN Regions
      /\ \A r \in DOMAIN Regions : RegionOK(r, f.regions[r]) /\ r \in Nat
  <2>1. DOMAIN Regions \subseteq Nat
    BY BuddyConstants
  <2> QED  BY <2>1 DEF AllocOK, RegionsOK
<1>1. a = IF able = {} THEN [fa |-> f, frame |-> -1] ELSE in(Min(able))
  BY DEF Allocate
<1>2. CASE able = {}
  <2>1. a = [fa |-> f, frame |-> -1]
    BY <1>1, <1>2
  <2> HIDE DEF a
  <2>2. a.fa = f /\ a.frame = -1
    BY <2>1
  <2> QED  BY <2>2 DEF a
<1>3. CASE able # {}
  <2> DEFINE r == Min(able)
             o == Min(Sources(f.regions[r], 0))
             n == AllocateIn(f.regions[r], 0, o)
             at == Last(f.regions[r].lists[o])
             g == [regions |-> [f.regions EXCEPT ![r] = n], count |-> f.count + 1]
  <2>1. r \in DOMAIN Regions /\ Sources(f.regions[r], 0) # {}
    <3>1. \A y \in able : y \in Nat
      BY <1>0
    <3>2. r \in able
      <4> HIDE DEF able
      <4> QED  BY <1>3, <3>1, MinIs
    <3> HIDE DEF r
    <3> QED  BY <1>0, <3>2
  <2> HIDE DEF r
  <2>2. o \in 0..MaxOrder /\ f.regions[r].lists[o] # <<>>
    <3>1. \A y \in Sources(f.regions[r], 0) : y \in Nat
      BY DEF Sources
    <3>2. o \in Sources(f.regions[r], 0)
      BY <2>1, <3>1, MinIs
    <3> HIDE DEF o
    <3> QED  BY <3>2 DEF Sources
  <2>3. a = [fa |-> g, frame |-> f.regions[r].start + at]
    <3>1. a = in(r)
      BY <1>1, <1>3 DEF r
    <3>2. BlockSize[0] = 1
      BY BlockSizes
    <3> QED  BY <3>1, <3>2
  <2> HIDE DEF o, a
  <2>4. RegionOK(r, n) /\ at \in Whole(f.regions[r]) \ f.regions[r].bits /\ n.bits = f.regions[r].bits \union {at}
    BY <1>0, <2>1, <2>2, AllocateInOK
  <2> HIDE DEF n, at
  <2>5. /\ f.regions[r].bits \subseteq 0..Regions[r].pages - 1
        /\ f.regions[r].pages = Regions[r].pages /\ f.regions[r].start = Regions[r].start
        /\ \A b \in 0..Regions[r].pages - 1 :
             Regions[r].start + b \in Used(f) <=> b \in f.regions[r].bits
    BY <1>0, <2>1, BitsAre
  <2>6. at \in 0..Regions[r].pages - 1 /\ at \notin f.regions[r].bits
    BY <2>4, <2>5 DEF Whole
  <2> DEFINE x == Regions[r].start + at
  <2>7. a.frame = x /\ a.fa = g
    BY <2>3, <2>5
  <2>8. x \in Nat /\ x \notin Used(f) /\ x \in RamFrames
    <3>1. Regions[r].start \in Nat /\ Regions[r].pages \in Nat
      BY <2>1, RegionsAre
    <3>2. x \in Regions[r].start .. Regions[r].start + Regions[r].pages - 1
      BY <2>6, <3>1
    <3> QED  BY <2>1, <2>5, <2>6, <3>1, <3>2 DEF RamFrames
  <2>9. /\ RegionsOK(g) /\ g.count = f.count + 1
        /\ \A y : y \in Used(g) <=>
             \/ \E b \in n.bits : y = Regions[r].start + b
             \/ y \in Used(f) /\ ~\E b \in 0..Regions[r].pages - 1 : y = Regions[r].start + b
    BY <1>0, <2>1, <2>4, RegionChanged
  <2> HIDE DEF g
  <2>10. Used(g) = Used(f) \union {x}
    <3>1. ASSUME NEW y \in Used(g) PROVE y \in Used(f) \union {x}
      <4>1. CASE \E b \in n.bits : y = Regions[r].start + b
        <5>1. PICK b \in n.bits : y = Regions[r].start + b
          BY <4>1
        <5>2. CASE b = at
          BY <5>1, <5>2
        <5>3. CASE b # at
          <6>1. b \in f.regions[r].bits
            BY <2>4, <5>3
          <6> QED  BY <2>5, <5>1, <6>1
        <5> QED  BY <5>2, <5>3
      <4>2. CASE y \in Used(f)
        BY <4>2
      <4> QED  BY <2>9, <3>1, <4>1, <4>2
    <3>2. ASSUME NEW y \in Used(f) PROVE y \in Used(g)
      <4>1. CASE \E b \in 0..Regions[r].pages - 1 : y = Regions[r].start + b
        <5>1. PICK b \in 0..Regions[r].pages - 1 : y = Regions[r].start + b
          BY <4>1
        <5>2. b \in n.bits
          BY <2>4, <2>5, <3>2, <5>1
        <5> QED  BY <2>9, <5>1, <5>2
      <4>2. CASE ~\E b \in 0..Regions[r].pages - 1 : y = Regions[r].start + b
        BY <2>9, <3>2, <4>2
      <4> QED  BY <4>1, <4>2
    <3>3. x \in Used(g)
      BY <2>4, <2>9
    <3> HIDE DEF x
    <3> QED  BY <3>1, <3>2, <3>3
  <2> HIDE DEF x
  <2>11. IsFiniteSet(Used(g)) /\ Cardinality(Used(g)) = Cardinality(Used(f)) + 1
    BY <1>0, <2>8, <2>10, FS_AddElement
  <2>12. AllocOK(g)
    BY <1>0, <2>9, <2>11 DEF AllocOK
  <2> QED  BY <2>7, <2>8, <2>10, <2>12 DEF a
<1> QED  BY <1>2, <1>3

\* deallocate_frame() accepts exactly the frames in use.
LEMMA AcceptsIs ==
  ASSUME NEW f, AllocOK(f), NEW x \in Int
  PROVE  Accepts(f, x) <=> x \in Used(f)
<1>0. RegionsOK(f) /\ DOMAIN f.regions = DOMAIN Regions
  BY DEF AllocOK, RegionsOK
<1>1. ASSUME NEW r \in DOMAIN Regions
      PROVE  /\ f.regions[r].start = Regions[r].start /\ f.regions[r].pages = Regions[r].pages
             /\ f.regions[r].bits \subseteq 0..Regions[r].pages - 1
             /\ Regions[r].start \in Nat
  BY <1>0, BitsAre, RegionsAre
<1>2. ASSUME Accepts(f, x) PROVE x \in Used(f)
  <2>1. PICK r \in DOMAIN Regions : x - f.regions[r].start \in f.regions[r].bits
    BY <1>0, <1>2 DEF Accepts
  <2>2. x = Regions[r].start + (x - Regions[r].start)
    BY <1>1
  <2> QED  BY <1>0, <1>1, <2>1, <2>2, UsedIs
<1>3. ASSUME x \in Used(f) PROVE Accepts(f, x)
  <2>1. PICK r \in DOMAIN Regions : \E a \in f.regions[r].bits : x = Regions[r].start + a
    BY <1>0, <1>3, UsedIs
  <2>2. PICK a \in f.regions[r].bits : x = Regions[r].start + a
    BY <2>1
  <2>3. a \in 0..f.regions[r].pages - 1 /\ x - f.regions[r].start = a
    BY <1>1, <2>2
  <2> QED  BY <1>0, <2>3 DEF Accepts
<1> QED  BY <1>2, <1>3

\* deallocate_frame() of a frame in use makes it free.
LEMMA DeallocateOK ==
  ASSUME NEW f, AllocOK(f), NEW x \in Used(f)
  PROVE  AllocOK(Deallocate(f, x, 0)) /\ Used(Deallocate(f, x, 0)) = Used(f) \ {x}
<1>0. /\ RegionsOK(f) /\ IsFiniteSet(Used(f)) /\ f.count = Cardinality(Used(f))
      /\ DOMAIN f.regions = DOMAIN Regions
      /\ \A r \in DOMAIN Regions : RegionOK(r, f.regions[r])
  BY DEF AllocOK, RegionsOK
<1>1. ASSUME NEW r \in DOMAIN Regions
      PROVE  /\ f.regions[r].start = Regions[r].start /\ f.regions[r].pages = Regions[r].pages
             /\ f.regions[r].bits \subseteq 0..Regions[r].pages - 1
             /\ Regions[r].start \in Nat
             /\ \A b \in 0..Regions[r].pages - 1 :
                  Regions[r].start + b \in Used(f) <=> b \in f.regions[r].bits
  BY <1>0, BitsAre, RegionsAre
<1>2. PICK s \in DOMAIN Regions : \E a \in f.regions[s].bits : x = Regions[s].start + a
  BY <1>0, UsedIs
<1>3. PICK b \in f.regions[s].bits : x = Regions[s].start + b
  BY <1>2
<1> DEFINE r == CHOOSE i \in DOMAIN f.regions : x - f.regions[i].start \in 0 .. f.regions[i].pages - 1
           at == x - f.regions[r].start
           n == DeallocateIn(f.regions[r], at, 0)
           g == [regions |-> [f.regions EXCEPT ![r] = n], count |-> f.count - 1]
<1>4. Deallocate(f, x, 0) = g
  <2>1. BlockSize[0] = 1
    BY BlockSizes
  <2> QED  BY <2>1 DEF Deallocate
<1>5. r \in DOMAIN Regions /\ at \in 0..Regions[r].pages - 1 /\ x = Regions[r].start + at
  <2>1. b \in 0..f.regions[s].pages - 1 /\ x - f.regions[s].start = b
    BY <1>1, <1>3
  <2>2. r \in DOMAIN f.regions /\ at \in 0 .. f.regions[r].pages - 1
    BY <1>0, <2>1
  <2>3. x \in Int
    BY <1>1, <1>3
  <2> HIDE DEF r
  <2> QED  BY <1>0, <1>1, <2>2, <2>3
<1> HIDE DEF r, at
<1>6. at \in f.regions[r].bits
  BY <1>1, <1>5
<1>7. RegionOK(r, n) /\ n.bits = f.regions[r].bits \ {at}
  BY <1>0, <1>5, <1>6, DeallocateInOK
<1> HIDE DEF n
<1>8. /\ RegionsOK(g) /\ g.count = f.count - 1
      /\ \A y : y \in Used(g) <=>
           \/ \E c \in n.bits : y = Regions[r].start + c
           \/ y \in Used(f) /\ ~\E c \in 0..Regions[r].pages - 1 : y = Regions[r].start + c
  BY <1>0, <1>5, <1>7, RegionChanged
<1> HIDE DEF g
<1>9. Used(g) = Used(f) \ {x}
  <2>1. ASSUME NEW y \in Used(g) PROVE y \in Used(f) /\ y # x
    <3>1. CASE \E c \in n.bits : y = Regions[r].start + c
      <4>1. PICK c \in n.bits : y = Regions[r].start + c
        BY <3>1
      <4>2. c \in f.regions[r].bits /\ c # at /\ c \in 0..Regions[r].pages - 1 /\ Regions[r].start \in Nat
        BY <1>1, <1>5, <1>7
      <4> QED  BY <1>1, <1>5, <4>1, <4>2
    <3>2. CASE y \in Used(f) /\ ~\E c \in 0..Regions[r].pages - 1 : y = Regions[r].start + c
      BY <1>5, <3>2
    <3> QED  BY <1>8, <2>1, <3>1, <3>2
  <2>2. ASSUME NEW y \in Used(f), y # x PROVE y \in Used(g)
    <3>1. CASE \E c \in 0..Regions[r].pages - 1 : y = Regions[r].start + c
      <4>1. PICK c \in 0..Regions[r].pages - 1 : y = Regions[r].start + c
        BY <3>1
      <4>2. c \in f.regions[r].bits /\ c # at
        BY <1>1, <1>5, <2>2, <4>1
      <4> QED  BY <1>7, <1>8, <4>1, <4>2
    <3>2. CASE ~\E c \in 0..Regions[r].pages - 1 : y = Regions[r].start + c
      BY <1>8, <2>2, <3>2
    <3> QED  BY <3>1, <3>2
  <2> QED  BY <2>1, <2>2
<1>10. IsFiniteSet(Used(g)) /\ Cardinality(Used(g)) = Cardinality(Used(f)) - 1
  BY <1>0, <1>9, FS_RemoveElement
<1>11. AllocOK(g)
  BY <1>0, <1>8, <1>10 DEF AllocOK
<1> QED  BY <1>4, <1>9, <1>11

\* At boot the heap is reserved and everything else is free.
LEMMA BootOK ==
  AllocOK(BootAllocator) /\ Used(BootAllocator) = Reserved
<1> DEFINE f == BootAllocator
           none == [o \in 0 .. MaxOrder |-> <<>>]
           bits(r) == {x - Regions[r].start : x \in Reserved} \cap (0 .. Regions[r].pages - 1)
           reg(r) == [start |-> Regions[r].start, pages |-> Regions[r].pages, lists |-> none, bits |-> bits(r)]
<1>1. f = [regions |-> f.regions, count |-> f.count] /\ f.count = Cardinality(Reserved)
      /\ f.regions = [r \in DOMAIN Regions |-> BuildFreeLists(reg(r))]
  <2>1. ASSUME NEW r \in DOMAIN Regions
        PROVE  Reserve([start |-> Regions[r].start, pages |-> Regions[r].pages, lists |-> none, bits |-> {}])
             = BuildFreeLists(reg(r))
    <3> DEFINE z == [start |-> Regions[r].start, pages |-> Regions[r].pages, lists |-> none, bits |-> {}]
    <3>1. z.start = Regions[r].start /\ z.pages = Regions[r].pages
      OBVIOUS
    <3>2. [z EXCEPT !.bits = bits(r)] = reg(r)
      <4> HIDE DEF none
      <4> QED  OBVIOUS
    <3>3. Reserve(z) = BuildFreeLists([z EXCEPT !.bits = {x - z.start : x \in Reserved} \cap (0 .. z.pages - 1)])
      BY DEF Reserve
    <3> HIDE DEF z
    <3>4. Reserve(z) = BuildFreeLists(reg(r))
      BY <3>1, <3>2, <3>3
    <3> QED  BY <3>4 DEF z
  <2>2. f = [regions |-> [r \in DOMAIN Regions |->
              Reserve([start |-> Regions[r].start, pages |-> Regions[r].pages, lists |-> none, bits |-> {}])],
             count |-> Cardinality(Reserved)]
    BY DEF BootAllocator
  <2>3. f = [regions |-> [r \in DOMAIN Regions |-> BuildFreeLists(reg(r))], count |-> Cardinality(Reserved)]
    <3> HIDE DEF f, none, reg
    <3> QED  BY <2>1, <2>2
  <2> HIDE DEF f, reg
  <2> QED  BY <2>3
<1> HIDE DEF f
<1>2. ASSUME NEW r \in DOMAIN Regions
      PROVE  RegionOK(r, f.regions[r]) /\ f.regions[r].bits = bits(r)
  <2>1. bits(r) \subseteq 0..Regions[r].pages - 1
    OBVIOUS
  <2> DEFINE B == bits(r)
  <2>2. f.regions[r] = BuildFreeLists([start |-> Regions[r].start, pages |-> Regions[r].pages, lists |-> none, bits |-> B])
    BY <1>1
  <2> HIDE DEF none, B
  <2>3. B \subseteq 0..Regions[r].pages - 1
    BY <2>1 DEF B
  <2>4. RegionOK(r, f.regions[r]) /\ f.regions[r].bits = B
    BY <2>2, <2>3, BuildOK
  <2> QED  BY <2>4 DEF B
<1>3. RegionsOK(f)
  <2>1. f.regions = [r \in DOMAIN Regions |-> f.regions[r]]
    <3> HIDE DEF reg
    <3> QED  BY <1>1
  <2> QED  BY <1>1, <1>2, <2>1 DEF RegionsOK
<1>4. ASSUME NEW x \in Reserved
      PROVE  x \in Used(f)
  <2>1. PICK r \in DOMAIN Regions : x \in Regions[r].start .. Regions[r].start + Regions[r].pages - 1
    BY BuddyConstants DEF RamFrames
  <2>2. Regions[r].start \in Nat /\ Regions[r].pages \in Nat
    BY RegionsAre
  <2>3. x - Regions[r].start \in 0..Regions[r].pages - 1 /\ x = Regions[r].start + (x - Regions[r].start)
    BY <2>1, <2>2
  <2>4. x - Regions[r].start \in bits(r)
    BY <2>3
  <2> QED  BY <1>2, <1>3, <2>3, <2>4, UsedIs
<1>5. ASSUME NEW x \in Used(f)
      PROVE  x \in Reserved
  <2>1. PICK r \in DOMAIN Regions : \E a \in f.regions[r].bits : x = Regions[r].start + a
    BY <1>3, UsedIs
  <2>2. PICK a \in bits(r) : x = Regions[r].start + a
    BY <1>2, <2>1
  <2>3. PICK y \in Reserved : a = y - Regions[r].start
    OBVIOUS
  <2>4. y \in Int
    <3>1. PICK s \in DOMAIN Regions : y \in Regions[s].start .. Regions[s].start + Regions[s].pages - 1
      BY BuddyConstants DEF RamFrames
    <3> QED  BY <3>1, RegionsAre
  <2>5. x = y
    BY <2>2, <2>3, <2>4, RegionsAre
  <2> QED  BY <2>5
<1>6. Used(f) = Reserved
  BY <1>4, <1>5
<1> QED  BY <1>1, <1>3, <1>6, BuddyConstants DEF AllocOK, f

\* The allocator in order is what ListsExact says.
LEMMA ExactIfOK ==
  AllocOK(fa) => ListsExact
<1> SUFFICES ASSUME AllocOK(fa) PROVE ListsExact
  OBVIOUS
<1>1. fa.count = Cardinality(UsedFrames)
  BY DEF AllocOK, Used, UsedFrames
<1>2. ASSUME NEW r \in DOMAIN fa.regions
      PROVE  LET reg == fa.regions[r]
                 blocks == UNION {{<<o, i>> : i \in DOMAIN reg.lists[o]} : o \in 0 .. MaxOrder}
                 held(b) == Offsets(reg.lists[b[1]][b[2]], b[1])
             IN  /\ \A b \in blocks : reg.lists[b[1]][b[2]] % BlockSize[b[1]] = 0
                 /\ \A b, c \in blocks : b # c => held(b) \cap held(c) = {}
                 /\ UNION {held(b) : b \in blocks} = (0 .. reg.pages - 1) \ reg.bits
  <2> DEFINE reg == fa.regions[r]
             L == reg.lists
             S == Whole(reg) \ reg.bits
             blocks == UNION {{<<o, i>> : i \in DOMAIN reg.lists[o]} : o \in 0 .. MaxOrder}
             held(b) == Offsets(reg.lists[b[1]][b[2]], b[1])
  <2>1. Parts(L, S)
    BY DEF AllocOK, RegionsOK, RegionOK
  <2> HIDE DEF L, S, reg
  <2>2. /\ L \in [0..MaxOrder -> Seq(Nat)]
        /\ \A o \in 0..MaxOrder : \A i \in 1..Len(L[o]) :
             L[o][i] % BlockSize[o] = 0 /\ \A x \in Offsets(L[o][i], o) : x \in S
        /\ \A x \in S : \E o \in 0..MaxOrder : \E i \in 1..Len(L[o]) : x \in Offsets(L[o][i], o)
        /\ \A o, c \in 0..MaxOrder : \A i \in 1..Len(L[o]), j \in 1..Len(L[c]) :
             o # c \/ i # j => \A x \in Offsets(L[o][i], o) : x \notin Offsets(L[c][j], c)
    BY <2>1, Zenon DEF Parts
  <2>3. \A o \in 0..MaxOrder : DOMAIN L[o] = 1..Len(L[o])
    BY <2>2
  <2>4. ASSUME NEW b \in blocks
        PROVE  b[1] \in 0..MaxOrder /\ b[2] \in 1..Len(L[b[1]]) /\ b = <<b[1], b[2]>>
    <3>1. PICK o \in 0..MaxOrder : b \in {<<o, i>> : i \in DOMAIN L[o]}
      BY DEF L
    <3>2. PICK i \in DOMAIN L[o] : b = <<o, i>>
      BY <3>1
    <3> QED  BY <2>3, <3>2
  <2>5. ASSUME NEW o \in 0..MaxOrder, NEW i \in 1..Len(L[o])
        PROVE  <<o, i>> \in blocks
    BY <2>3 DEF L
  <2>6. \A b : held(b) = Offsets(L[b[1]][b[2]], b[1])
    BY DEF L
  <2> HIDE DEF blocks, held
  <2>7. \A b \in blocks : L[b[1]][b[2]] % BlockSize[b[1]] = 0
    BY <2>2, <2>4
  <2>8. ASSUME NEW b \in blocks, NEW c \in blocks, b # c
        PROVE  held(b) \cap held(c) = {}
    <3>1. b[1] # c[1] \/ b[2] # c[2]
      BY <2>4, <2>8
    <3>2. \A x \in Offsets(L[b[1]][b[2]], b[1]) : x \notin Offsets(L[c[1]][c[2]], c[1])
      BY <2>2, <2>4, <3>1
    <3> QED  BY <2>6, <3>2
  <2>9. UNION {held(b) : b \in blocks} = S
    <3>1. ASSUME NEW b \in blocks, NEW x \in held(b) PROVE x \in S
      BY <2>2, <2>4, <2>6, <3>1
    <3>2. ASSUME NEW x \in S PROVE \E b \in blocks : x \in held(b)
      <4>1. PICK o \in 0..MaxOrder : \E i \in 1..Len(L[o]) : x \in Offsets(L[o][i], o)
        BY <2>2
      <4>2. PICK i \in 1..Len(L[o]) : x \in Offsets(L[o][i], o)
        BY <4>1
      <4>3. x \in held(<<o, i>>)
        BY <2>6, <4>2
      <4> QED  BY <2>5, <4>3
    <3> QED  BY <3>1, <3>2
  <2>10. S = (0 .. reg.pages - 1) \ reg.bits
    BY DEF S, Whole
  <2> QED  BY <2>7, <2>8, <2>9, <2>10 DEF L, reg, blocks, held
<1> QED  BY <1>1, <1>2 DEF ListsExact
=============================================================================
