--------------------------- MODULE StorageProofs ---------------------------
(***************************************************************************)
(* Proofs about the file system: the FAT32 volume and the handles over it, *)
(* for any volume, any size of directories, any names, paths and data, and *)
(* any number of requests, failing sectors and power losses.               *)
(***************************************************************************)
EXTENDS FileHandles, FiniteSetTheorems, SequenceTheorems, TLAPS

-----------------------------------------------------------------------------
(* Numbers, recursion and sequences.                                       *)

\* A set of natural numbers that is not empty has a least element.
LEMMA LeastOf ==
  ASSUME NEW S \in SUBSET Nat, S # {}
  PROVE  \E x \in S : \A y \in S : x <= y
<1> DEFINE R == {ss \in Nat \X Nat : ss[1] < ss[2]}
<1>1. IsWellFoundedOn(R, Nat)
  BY NatLessThanWellFounded DEF OpToRel
<1> HIDE DEF R
<1>2. PICK x \in S : \A y \in S : ~(<<y, x>> \in R)
  BY <1>1, WFMin
<1>3. ASSUME NEW y \in S PROVE x <= y
  <2>1. <<y, x>> \in R <=> y < x
    BY DEF R
  <2> QED  BY <1>2, <2>1
<1> QED  BY <1>3

\* Induction, with a set for the predicate.
LEMMA UpInduction ==
  ASSUME NEW n \in Nat, NEW P, 0 \in P, \A k \in 1..n : k - 1 \in P => k \in P
  PROVE  \A k \in 0..n : k \in P
<1> DEFINE Bad == {k \in 0..n : k \notin P}
<1> SUFFICES ASSUME Bad # {} PROVE FALSE
  OBVIOUS
<1>1. Bad \in SUBSET Nat
  OBVIOUS
<1>2. PICK k \in Bad : \A m \in Bad : k <= m
  <2> HIDE DEF Bad
  <2> QED  BY <1>1, LeastOf
<1>3. k \in 1..n /\ k - 1 \in 0..n /\ k \notin P
  OBVIOUS
<1>4. k - 1 \in P
  BY <1>2, <1>3
<1> QED  BY <1>3, <1>4

\* u is defined by recursion: from g, step i takes u[i - 1] to G[i][u[i - 1]].
Recursive(u, g, G, n) == u[0] = g /\ \A i \in 1..n : u[i] = G[i][u[i - 1]]

\* Such a function exists.
LEMMA Recursion ==
  ASSUME NEW S, NEW g \in S, NEW n \in Nat, NEW G \in [1..n -> [S -> S]]
  PROVE  \E u \in [0..n -> S] : Recursive(u, g, G, n)
<1> DEFINE Good(m, u) == u[0] = g /\ \A i \in 1..m : u[i] = G[i][u[i - 1]]
           P == {m \in 0..n : \E u \in [0..m -> S] : Good(m, u)}
<1>1. 0 \in P
  <2>1. [i \in 0..0 |-> g] \in [0..0 -> S] /\ Good(0, [i \in 0..0 |-> g])
    OBVIOUS
  <2>2. 0 \in 0..n
    OBVIOUS
  <2> QED  BY <2>1, <2>2
<1>2. ASSUME NEW m \in 1..n, m - 1 \in P PROVE m \in P
  <2>1. PICK u \in [0..(m - 1) -> S] : Good(m - 1, u)
    BY <1>2
  <2>2. m - 1 \in 0..(m - 1) /\ m \in 0..m /\ m \notin 0..(m - 1)
    OBVIOUS
  <2>3. u[m - 1] \in S
    BY <2>1, <2>2
  <2>4. G[m][u[m - 1]] \in S
    <3>1. G[m] \in [S -> S]
      OBVIOUS
    <3> QED  BY <2>3, <3>1
  <2> DEFINE w == [i \in 0..m |-> IF i = m THEN G[m][u[m - 1]] ELSE u[i]]
  <2>5. w \in [0..m -> S]
    <3>1. ASSUME NEW i \in 0..m PROVE (IF i = m THEN G[m][u[m - 1]] ELSE u[i]) \in S
      <4>1. CASE i = m
        BY <2>4, <4>1
      <4>2. CASE i # m
        <5>1. i \in 0..(m - 1)
          BY <4>2
        <5> QED  BY <2>1, <4>2, <5>1
      <4> QED  BY <4>1, <4>2
    <3> QED  BY <3>1
  <2>6. \A i \in 0..m : w[i] = IF i = m THEN G[m][u[m - 1]] ELSE u[i]
    OBVIOUS
  <2> HIDE DEF w
  <2>7. w[0] = g
    BY <2>1, <2>6
  <2>8. ASSUME NEW i \in 1..m PROVE w[i] = G[i][w[i - 1]]
    <3>1. i - 1 \in 0..m /\ i - 1 # m /\ i \in 0..m
      OBVIOUS
    <3>2. w[i - 1] = u[i - 1]
      BY <2>6, <3>1
    <3>3. CASE i = m
      BY <2>6, <3>1, <3>2, <3>3
    <3>4. CASE i # m
      <4>1. i \in 1..(m - 1)
        BY <3>4
      <4>2. u[i] = G[i][u[i - 1]]
        BY <2>1, <4>1
      <4>3. w[i] = u[i]
        BY <2>6, <3>1, <3>4
      <4> QED  BY <3>2, <4>2, <4>3
    <3> QED  BY <3>3, <3>4
  <2>9. Good(m, w)
    BY <2>7, <2>8
  <2>10. m \in 0..n
    OBVIOUS
  <2> QED  BY <2>5, <2>9, <2>10
<1>3. n \in P
  <2> HIDE DEF P
  <2>1. \A k \in 1..n : k - 1 \in P => k \in P
    BY <1>2
  <2>2. \A k \in 0..n : k \in P
    BY <1>1, <2>1, UpInduction
  <2> QED  BY <2>2
<1> QED  BY <1>3 DEF Recursive

\* n sequences, and u, in which they are laid one behind the other.
Pieces(ss, n, S) == n \in Nat /\ ss \in [1..n -> Seq(S)]
Laid(u, ss, n, S) ==
  /\ u \in [0..n -> Seq(S)]
  /\ u[0] = << >>
  /\ \A i \in 1..n : u[i] = u[i - 1] \o ss[i]
  /\ FlattenSeq(ss) = u[n]

\* FlattenSeq puts the sequences one behind the other.
LEMMA FlattenIs ==
  ASSUME NEW S, NEW n, NEW ss, Pieces(ss, n, S)
  PROVE  \E u : Laid(u, ss, n, S)
<1> USE DEF Pieces
<1> DEFINE U == Seq(S)
           G == [i \in 1..n |-> [s \in U |-> s \o ss[i]]]
<1>0. Len(ss) = n
  OBVIOUS
<1>1. << >> \in U /\ G \in [1..n -> [U -> U]]
  OBVIOUS
<1>2. PICK u \in [0..n -> Seq(S)] : Recursive(u, << >>, G, n)
  <2> HIDE DEF G, U
  <2>1. \E u \in [0..n -> U] : Recursive(u, << >>, G, n)
    BY <1>1, Recursion
  <2> QED  BY <2>1 DEF U
<1>3. u[0] = << >> /\ \A i \in 1..n : u[i] = G[i][u[i - 1]]
  BY <1>2 DEF Recursive
<1>4. \A i \in 1..n : u[i] = u[i - 1] \o ss[i]
  <2> TAKE i \in 1..n
  <2>1. i - 1 \in 0..n
    OBVIOUS
  <2>2. u[i - 1] \in U
    BY <1>2, <2>1
  <2>3. G[i][u[i - 1]] = u[i - 1] \o ss[i]
    BY <2>2
  <2> QED  BY <1>3, <2>3
<1> HIDE DEF G
<1>5. FlattenSeq(ss) = u[n]
  <2>1. CASE n = 0
    BY <1>0, <1>3, <2>1 DEF FlattenSeq
  <2>2. CASE n # 0
    <3> DEFINE Eq(f) == f = [i \in 1..n |-> IF i = 1 THEN ss[i] ELSE f[i - 1] \o ss[i]]
               w == [i \in 1..n |-> u[i]]
               f == CHOOSE f : Eq(f)
    <3>1. ASSUME NEW i \in 1..n PROVE w[i] = IF i = 1 THEN ss[i] ELSE w[i - 1] \o ss[i]
      <4>1. CASE i = 1
        <5>0. 1 \in 1..n /\ 1 - 1 = 0
          BY <4>1
        <5>1. u[1] = u[0] \o ss[1] /\ ss[1] \in Seq(S)
          BY <1>4, <5>0
        <5> QED  BY <1>3, <4>1, <5>1
      <4>2. CASE i # 1
        <5>1. i - 1 \in 1..n
          BY <4>2
        <5> QED  BY <1>4, <4>2, <5>1
      <4> QED  BY <4>1, <4>2
    <3>2. Eq(w)
      <4>1. w = [i \in 1..n |-> w[i]]
        OBVIOUS
      <4> HIDE DEF w
      <4> QED  BY <3>1, <4>1
    <3>3. Eq(f)
      <4> HIDE DEF Eq, w
      <4> QED  BY <3>2
    <3>4. FlattenSeq(ss) = f[n]
      BY <1>0, <2>2 DEF FlattenSeq
    <3> HIDE DEF f
    <3> DEFINE P == {k \in 0..n : k # 0 => f[k] = u[k]}
    <3>5. 0 \in P
      OBVIOUS
    <3>6. ASSUME NEW k \in 1..n, k - 1 \in P PROVE k \in P
      <4>1. f[k] = IF k = 1 THEN ss[k] ELSE f[k - 1] \o ss[k]
        BY <3>3
      <4>2. CASE k = 1
        <5>0. 1 \in 1..n /\ 1 - 1 = 0
          BY <4>2
        <5>1. u[1] = u[0] \o ss[1] /\ ss[1] \in Seq(S)
          BY <1>4, <5>0
        <5> QED  BY <1>3, <4>1, <4>2, <5>1
      <4>3. CASE k # 1
        <5>1. f[k - 1] = u[k - 1]
          BY <3>6, <4>3
        <5>2. f[k] = u[k - 1] \o ss[k]
          BY <4>1, <4>3, <5>1
        <5>3. f[k] = u[k] /\ k \in 0..n
          BY <1>4, <5>2
        <5> QED  BY <5>3
      <4> QED  BY <4>2, <4>3
    <3>7. n \in P
      <4> HIDE DEF P
      <4>1. \A k \in 1..n : k - 1 \in P => k \in P
        BY <3>6
      <4>2. \A k \in 0..n : k \in P
        BY <3>5, <4>1, UpInduction
      <4> QED  BY <4>2
    <3> QED  BY <2>2, <3>4, <3>7
  <2> QED  BY <2>1, <2>2
<1> QED  BY <1>2, <1>3, <1>4, <1>5 DEF Laid

\* One round of Vec::retain: element i, after the elements before it gave v.
Round(s, K, v, i) ==
  IF i = 0 THEN << >> ELSE IF i \in K THEN Append(v, s[i]) ELSE v

\* What is kept of each beginning of s: the recursive function of Picked.
UpTo(s, K) == CHOOSE u : u = [i \in 0..Len(s) |-> Round(s, K, u[i - 1], i)]

\* The recursion has a solution.
LEMMA UpToExists ==
  ASSUME NEW s, Len(s) \in Nat, NEW K
  PROVE  UpTo(s, K) = [i \in 0..Len(s) |-> Round(s, K, UpTo(s, K)[i - 1], i)]
<1> DEFINE Solved(n) == \E g : g = [i \in 0..n |-> Round(s, K, g[i - 1], i)]
           Bad == {n \in Nat : ~Solved(n)}
<1>1. Solved(0)
  <2> DEFINE g == [i \in 0..0 |-> << >>]
  <2>1. \A i \in 0..0 : Round(s, K, g[i - 1], i) = << >>
    BY DEF Round
  <2>2. g = [i \in 0..0 |-> Round(s, K, g[i - 1], i)]
    BY <2>1
  <2> QED  BY <2>2
<1>2. ASSUME NEW n \in Nat, n # 0, Solved(n - 1) PROVE Solved(n)
  <2>1. PICK g : g = [i \in 0..(n - 1) |-> Round(s, K, g[i - 1], i)]
    BY <1>2
  <2> DEFINE h == [i \in 0..n |-> IF i = n THEN Round(s, K, g[n - 1], n) ELSE g[i]]
  <2>2. ASSUME NEW i \in 0..n PROVE h[i] = Round(s, K, h[i - 1], i)
    <3>1. CASE i = 0
      <4>1. h[i] = g[i] /\ i \in 0..(n - 1)
        BY <1>2, <3>1
      <4>2. g[i] = Round(s, K, g[i - 1], i)
        BY <2>1, <4>1
      <4> QED  BY <3>1, <4>1, <4>2 DEF Round
    <3>2. CASE i # 0 /\ i # n
      <4>1. i - 1 \in 0..n /\ i - 1 # n /\ i \in 0..(n - 1)
        BY <3>2
      <4>2. h[i] = g[i] /\ h[i - 1] = g[i - 1]
        BY <3>2, <4>1
      <4>3. g[i] = Round(s, K, g[i - 1], i)
        BY <2>1, <4>1
      <4> QED  BY <4>2, <4>3
    <3>3. CASE i = n
      <4>1. n - 1 \in 0..n /\ n - 1 # n
        BY <1>2
      <4> QED  BY <3>3, <4>1
    <3> QED  BY <3>1, <3>2, <3>3
  <2>3. h = [i \in 0..n |-> Round(s, K, h[i - 1], i)]
    <3>1. h = [i \in 0..n |-> h[i]]
      OBVIOUS
    <3> HIDE DEF h
    <3> QED  BY <2>2, <3>1
  <2> QED  BY <2>3
<1> HIDE DEF Solved
<1>3. Bad = {}
  <2> SUFFICES ASSUME Bad # {} PROVE FALSE
    OBVIOUS
  <2>1. PICK n \in Bad : \A m \in Bad : n <= m
    BY LeastOf
  <2>2. n # 0 /\ n \in Nat /\ ~Solved(n)
    BY <1>1
  <2>3. n - 1 \in Nat /\ n - 1 \notin Bad
    BY <2>1, <2>2
  <2> QED  BY <1>2, <2>2, <2>3
<1>4. Solved(Len(s))
  BY <1>3
<1> QED  BY <1>4, Zenon DEF Solved, UpTo

\* f tells where the elements of r stood in s: at the positions of D, in order.
Traced(s, r, D, f) ==
  /\ f \in [1..Len(r) -> D]
  /\ \A i, j \in 1..Len(r) : i < j => f[i] < f[j]
  /\ \A k \in D : \E i \in 1..Len(r) : f[i] = k
  /\ \A i \in 1..Len(r) : r[i] = s[f[i]]

\* Vec::retain: the elements at the positions of K and no others, in their order.
LEMMA PickedIs ==
  ASSUME NEW S, NEW s \in Seq(S), NEW K \in SUBSET (1..Len(s))
  PROVE  Picked(s, K) \in Seq(S) /\ \E f : Traced(s, Picked(s, K), K, f)
<1> DEFINE u == UpTo(s, K)
           Right(n) == u[n] \in Seq(S) /\ \E f : Traced(s, u[n], K \cap (1..n), f)
           Bad == {n \in 0..Len(s) : ~Right(n)}
<1>0. Len(s) \in Nat /\ \A i \in 1..Len(s) : s[i] \in S
  OBVIOUS
<1>1. Picked(s, K) = u[Len(s)]
  BY DEF Picked, UpTo, Round
<1>2. \A i \in 0..Len(s) : u[i] = Round(s, K, u[i - 1], i)
  <2>1. u = [i \in 0..Len(s) |-> Round(s, K, u[i - 1], i)]
    BY <1>0, UpToExists
  <2> HIDE DEF u
  <2> QED  BY <2>1
<1> HIDE DEF u
<1>3. Right(0)
  <2>1. u[0] = << >>
    BY <1>0, <1>2 DEF Round
  <2>2. Traced(s, << >>, K \cap (1..0), << >>)
    BY DEF Traced
  <2> QED  BY <2>1, <2>2
<1>4. ASSUME NEW n \in 1..Len(s), Right(n - 1) PROVE Right(n)
  <2> DEFINE r == u[n - 1]
             D == K \cap (1..(n - 1))
  <2>1. r \in Seq(S)
    BY <1>4
  <2>2. PICK f : Traced(s, r, D, f)
    BY <1>4
  <2>3. u[n] = IF n \in K THEN Append(r, s[n]) ELSE r
    BY <1>0, <1>2 DEF Round
  <2>4. CASE n \notin K
    <3>1. K \cap (1..n) = D
      BY <1>0, <2>4
    <3> QED  BY <2>1, <2>2, <2>3, <2>4, <3>1
  <2>5. CASE n \in K
    <3>1. u[n] = Append(r, s[n])
      BY <2>3, <2>5
    <3> DEFINE q == Append(r, s[n])
               g == [i \in 1..Len(q) |-> IF i = Len(q) THEN n ELSE f[i]]
    <3>2. /\ q \in Seq(S) /\ Len(q) = Len(r) + 1 /\ q[Len(q)] = s[n]
          /\ \A i \in 1..Len(r) : q[i] = r[i]
      BY <1>0, <2>1
    <3>3. Len(r) \in Nat
      BY <2>1
    <3> HIDE DEF q, r
    <3>4. \A i \in 1..Len(q) : g[i] = IF i = Len(q) THEN n ELSE f[i]
      OBVIOUS
    <3>5. g \in [1..Len(q) -> K \cap (1..n)]
      <4>1. ASSUME NEW i \in 1..Len(q) PROVE (IF i = Len(q) THEN n ELSE f[i]) \in K \cap (1..n)
        <5>1. CASE i = Len(q)
          BY <1>0, <2>5, <5>1
        <5>2. CASE i # Len(q)
          <6>1. i \in 1..Len(r)
            BY <3>2, <3>3, <5>2
          <6>2. f[i] \in D
            BY <2>2, <6>1 DEF Traced
          <6> QED  BY <5>2, <6>2
        <5> QED  BY <5>1, <5>2
      <4> QED  BY <4>1
    <3> HIDE DEF g
    <3>6. \A i \in 1..Len(q) : i # Len(q) => i \in 1..Len(r) /\ g[i] = f[i] /\ f[i] \in D
      BY <2>2, <3>2, <3>3, <3>4 DEF Traced
    <3>7. g[Len(q)] = n
      BY <3>2, <3>3, <3>4
    <3>8. ASSUME NEW i \in 1..Len(q), NEW j \in 1..Len(q), i < j PROVE g[i] < g[j]
      <4>1. i # Len(q) /\ i \in 1..Len(r) /\ f[i] \in D /\ g[i] = f[i]
        BY <3>2, <3>3, <3>6, <3>8
      <4>2. CASE j = Len(q)
        BY <3>7, <4>1, <4>2
      <4>3. CASE j # Len(q)
        BY <2>2, <3>6, <3>8, <4>1, <4>3 DEF Traced
      <4> QED  BY <4>2, <4>3
    <3>9. ASSUME NEW k \in K \cap (1..n) PROVE \E i \in 1..Len(q) : g[i] = k
      <4>1. CASE k = n
        BY <3>2, <3>3, <3>7, <4>1
      <4>2. CASE k # n
        <5>1. k \in D
          BY <4>2
        <5>2. PICK i \in 1..Len(r) : f[i] = k
          BY <2>2, <5>1 DEF Traced
        <5>3. i \in 1..Len(q) /\ i # Len(q)
          BY <3>2, <3>3
        <5> QED  BY <3>6, <5>2, <5>3
      <4> QED  BY <4>1, <4>2
    <3>10. ASSUME NEW i \in 1..Len(q) PROVE q[i] = s[g[i]]
      BY <2>2, <3>2, <3>6, <3>7 DEF Traced
    <3>11. Traced(s, q, K \cap (1..n), g)
      BY <3>5, <3>8, <3>9, <3>10 DEF Traced
    <3> QED  BY <3>1, <3>2, <3>11 DEF q, r
  <2> QED  BY <2>4, <2>5
<1> HIDE DEF Right
<1>5. Bad = {}
  <2> SUFFICES ASSUME Bad # {} PROVE FALSE
    OBVIOUS
  <2>0. Bad \in SUBSET Nat
    BY <1>0
  <2>1. PICK n \in Bad : \A m \in Bad : n <= m
    <3> HIDE DEF Bad
    <3> QED  BY <2>0, LeastOf
  <2>2. n \in 1..Len(s) /\ ~Right(n)
    BY <1>0, <1>3
  <2>3. n - 1 \in 0..Len(s) /\ ~(n <= n - 1)
    BY <1>0, <2>2
  <2>4. Right(n - 1)
    BY <2>1, <2>3
  <2> QED  BY <1>4, <2>2, <2>4
<1>6. Right(Len(s)) /\ K \cap (1..Len(s)) = K
  <2>1. Len(s) \in 0..Len(s)
    BY <1>0
  <2>2. Right(Len(s))
    BY <1>5, <2>1
  <2> QED  BY <2>2
<1> QED  BY <1>1, <1>6 DEF Right

\* r has what the first n of the sequences ss have, and nothing else.
Gathers(r, ss, n) ==
  /\ \A k \in 1..Len(r) : \E i \in 1..n : \E l \in 1..Len(ss[i]) : ss[i][l] = r[k]
  /\ \A i \in 1..n : \A l \in 1..Len(ss[i]) : \E k \in 1..Len(r) : ss[i][l] = r[k]

\* What is in a concatenation is in one of its parts, and the other way round.
LEMMA FlattenMembers ==
  ASSUME NEW S, NEW n, NEW ss, Pieces(ss, n, S)
  PROVE  FlattenSeq(ss) \in Seq(S) /\ Gathers(FlattenSeq(ss), ss, n)
<1>0. PICK u : Laid(u, ss, n, S)
  BY FlattenIs
<1> USE DEF Pieces
<1>1. /\ u \in [0..n -> Seq(S)]
      /\ u[0] = << >>
      /\ \A i \in 1..n : u[i] = u[i - 1] \o ss[i]
      /\ FlattenSeq(ss) = u[n]
  BY <1>0 DEF Laid
<1> DEFINE P == {m \in 0..n : Gathers(u[m], ss, m)}
<1>2. 0 \in P
  <2>1. Len(u[0]) = 0 /\ 0 \in 0..n
    BY <1>1
  <2>2. Gathers(u[0], ss, 0)
    BY <2>1 DEF Gathers
  <2> QED  BY <2>1, <2>2
<1>3. ASSUME NEW m \in 1..n, m - 1 \in P PROVE m \in P
  <2> DEFINE a == u[m - 1]
             b == ss[m]
             r == u[m]
  <2>0. Gathers(u[m - 1], ss, m - 1)
    BY <1>3
  <2>1. m - 1 \in 0..n /\ m \in 0..n
    OBVIOUS
  <2>2. a \in Seq(S) /\ b \in Seq(S) /\ r = a \o b
    BY <1>1, <2>1
  <2>3. /\ Len(r) = Len(a) + Len(b) /\ Len(a) \in Nat /\ Len(b) \in Nat
        /\ \A k \in 1..Len(r) : r[k] = IF k <= Len(a) THEN a[k] ELSE b[k - Len(a)]
    BY <2>2, ConcatProperties
  <2> HIDE DEF a, r
  <2>4. ASSUME NEW k \in 1..Len(r) PROVE \E i \in 1..m : \E l \in 1..Len(ss[i]) : ss[i][l] = r[k]
    <3>1. CASE k <= Len(a)
      <4>1. k \in 1..Len(a) /\ r[k] = a[k]
        BY <2>3, <3>1
      <4>2. PICK i \in 1..m - 1 : \E l \in 1..Len(ss[i]) : ss[i][l] = a[k]
        BY <2>0, <4>1 DEF Gathers, a
      <4>3. i \in 1..m
        OBVIOUS
      <4> QED  BY <4>1, <4>2, <4>3
    <3>2. CASE k > Len(a)
      <4> DEFINE l == k - Len(a)
      <4>1. l \in 1..Len(b) /\ m \in 1..m /\ r[k] = b[l]
        BY <2>3, <3>2
      <4> HIDE DEF l
      <4> QED  BY <4>1
    <3> QED  BY <2>3, <3>1, <3>2
  <2>5. ASSUME NEW i \in 1..m, NEW l \in 1..Len(ss[i]) PROVE \E k \in 1..Len(r) : ss[i][l] = r[k]
    <3>1. CASE i = m
      <4>1. Len(a) + l \in 1..Len(r) /\ ~(Len(a) + l <= Len(a)) /\ (Len(a) + l) - Len(a) = l
        BY <2>3, <3>1
      <4> QED  BY <2>3, <3>1, <4>1
    <3>2. CASE i # m
      <4>1. i \in 1..m - 1
        BY <3>2
      <4>2. PICK k \in 1..Len(a) : ss[i][l] = a[k]
        BY <2>0, <4>1 DEF Gathers, a
      <4>3. k \in 1..Len(r) /\ k <= Len(a)
        BY <2>3
      <4> QED  BY <2>3, <4>2, <4>3
    <3> QED  BY <3>1, <3>2
  <2>6. Gathers(u[m], ss, m)
    BY <2>4, <2>5 DEF Gathers, r
  <2> QED  BY <2>1, <2>6
<1>4. n \in P
  <2> HIDE DEF P
  <2>1. \A k \in 1..n : k - 1 \in P => k \in P
    BY <1>3
  <2>2. \A k \in 0..n : k \in P
    BY <1>2, <2>1, UpInduction
  <2> QED  BY <2>2
<1> QED  BY <1>1, <1>4

-----------------------------------------------------------------------------
(* Chains of clusters.                                                     *)

USE DEF Root, Eoc, Unknown

FatOK(F) == F \in [Clusters -> 0..FatEnd]

\* s is the chain that begins at cluster c.
ChainFrom(F, c, s) ==
  /\ s \in Seq(Clusters) /\ Len(s) \in 1..FatEnd
  /\ s[1] = c
  /\ \A k \in 1..Len(s) - 1 : F[s[k]] = s[k + 1]
  /\ Len(s) < FatEnd => F[s[Len(s)]] \notin Clusters

\* The walk along the FAT gives the chain.
LEMMA ChainIs ==
  ASSUME NEW v, FatOK(v.fat), NEW c \in Clusters
  PROVE  ChainFrom(v.fat, c, Chain(v, c))
<1> DEFINE F == v.fat
           W == {s \in Seq(Clusters) : Len(s) >= 1}
           Go(s) == IF F[Last(s)] \in Clusters THEN Append(s, F[Last(s)]) ELSE s
           m == FatEnd - 1
           G == [i \in 1..m |-> [s \in W |-> Go(s)]]
<1>0. FatEnd \in Nat /\ m \in Nat /\ m + 1 = FatEnd /\ F \in [Clusters -> 0..FatEnd]
  BY Fat32Assumption DEF FatOK
<1>1. <<c>> \in W
  OBVIOUS
<1>2. \A s \in W : Go(s) \in W
  BY DEF Last
<1>3. G \in [1..m -> [W -> W]]
  BY <1>2
<1>4. PICK u \in [0..m -> W] : Recursive(u, <<c>>, G, m)
  <2> HIDE DEF G, W, m
  <2> QED  BY <1>0, <1>1, <1>3, Recursion
<1>5. u[0] = <<c>> /\ \A i \in 1..m : u[i] = Go(u[i - 1])
  <2>1. u[0] = <<c>> /\ \A i \in 1..m : u[i] = G[i][u[i - 1]]
    BY <1>4 DEF Recursive
  <2>2. \A i \in 1..m : i - 1 \in 0..m /\ u[i - 1] \in W
    BY <1>0
  <2>3. \A i \in 1..m : G[i][u[i - 1]] = Go(u[i - 1])
    BY <2>2
  <2> QED  BY <2>1, <2>3
<1>6. Chain(v, c) = u[m]
  <2> DEFINE Eq(f) == f = [n \in 1..FatEnd |-> IF n = 1 THEN <<c>> ELSE Go(f[n - 1])]
             w == [n \in 1..FatEnd |-> u[n - 1]]
             f == CHOOSE f : Eq(f)
  <2>1. ASSUME NEW n \in 1..FatEnd PROVE w[n] = IF n = 1 THEN <<c>> ELSE Go(w[n - 1])
    <3>1. CASE n = 1
      BY <1>5, <3>1
    <3>2. CASE n # 1
      <4>1. n - 1 \in 1..m /\ n - 1 \in 1..FatEnd
        BY <1>0, <3>2
      <4>2. u[n - 1] = Go(u[(n - 1) - 1])
        BY <1>5, <4>1
      <4>3. w[n] = u[n - 1] /\ w[n - 1] = u[(n - 1) - 1]
        BY <4>1
      <4> HIDE DEF w, Go
      <4> QED  BY <3>2, <4>2, <4>3
    <3> QED  BY <3>1, <3>2
  <2>2. Eq(w)
    <3>1. w = [n \in 1..FatEnd |-> w[n]]
      OBVIOUS
    <3> HIDE DEF w, Go
    <3> QED  BY <2>1, <3>1
  <2>3. Eq(f)
    <3> HIDE DEF Eq, w
    <3> QED  BY <2>2
  <2>4. Chain(v, c) = f[FatEnd]
    BY DEF Chain
  <2> HIDE DEF f, w
  <2> DEFINE P == {k \in 0..m : f[k + 1] = u[k]}
  <2>5. 0 \in P
    BY <1>0, <1>5, <2>3
  <2>6. ASSUME NEW k \in 1..m, k - 1 \in P PROVE k \in P
    <3>1. k + 1 \in 1..FatEnd /\ k + 1 # 1 /\ (k + 1) - 1 = k /\ (k - 1) + 1 = k
      BY <1>0
    <3>2. f[k + 1] = Go(f[k])
      <4> HIDE DEF Go
      <4> QED  BY <2>3, <3>1
    <3>3. f[k] = u[k - 1]
      BY <2>6, <3>1
    <3>4. u[k] = Go(u[k - 1])
      BY <1>5
    <3>5. f[k + 1] = u[k]
      <4> HIDE DEF Go
      <4> QED  BY <3>2, <3>3, <3>4
    <3> QED  BY <3>5
  <2>7. m \in P
    <3> HIDE DEF P, m
    <3>1. \A k \in 1..m : k - 1 \in P => k \in P
      BY <2>6
    <3>2. \A k \in 0..m : k \in P
      BY <1>0, <2>5, <3>1, UpInduction
    <3> QED  BY <1>0, <3>2
  <2> QED  BY <1>0, <2>4, <2>7
<1> HIDE DEF G
<1> DEFINE Part(s, k) == /\ Len(s) <= k + 1
                         /\ s[1] = c
                         /\ \A i \in 1..Len(s) - 1 : F[s[i]] = s[i + 1]
                         /\ Len(s) < k + 1 => F[s[Len(s)]] \notin Clusters
           P == {k \in 0..m : Part(u[k], k)}
<1>7. 0 \in P
  <2>1. Part(<<c>>, 0)
    OBVIOUS
  <2>2. 0 \in 0..m
    BY <1>0
  <2> QED  BY <1>5, <2>1, <2>2
<1>8. ASSUME NEW k \in 1..m, k - 1 \in P PROVE k \in P
  <2> DEFINE s == u[k - 1]
             t == u[k]
  <2>1. k - 1 \in 0..m /\ (k - 1) + 1 = k
    BY <1>0
  <2>2. s \in Seq(Clusters) /\ Len(s) >= 1 /\ Part(s, k - 1) /\ Len(s) \in Nat
    BY <1>4, <1>8, <2>1
  <2>3. t = IF F[s[Len(s)]] \in Clusters THEN Append(s, F[s[Len(s)]]) ELSE s
    BY <1>5 DEF Last
  <2> HIDE DEF s, t, m
  <2>4. CASE F[s[Len(s)]] \in Clusters
    <3>1. t = Append(s, F[s[Len(s)]]) /\ Len(t) = Len(s) + 1 /\ t[Len(t)] = F[s[Len(s)]]
          /\ \A i \in 1..Len(s) : t[i] = s[i]
      BY <2>2, <2>3, <2>4
    <3>2. Len(s) = k
      BY <2>1, <2>2, <2>4
    <3>3. ASSUME NEW i \in 1..Len(t) - 1 PROVE F[t[i]] = t[i + 1]
      <4>1. CASE i = Len(s)
        BY <2>2, <3>1, <4>1
      <4>2. CASE i # Len(s)
        <5>1. i \in 1..Len(s) - 1 /\ i + 1 \in 1..Len(s) /\ i \in 1..Len(s)
          BY <2>2, <3>1, <4>2
        <5> QED  BY <2>2, <3>1, <5>1
      <4> QED  BY <4>1, <4>2
    <3>4. Part(t, k)
      BY <2>2, <3>1, <3>2, <3>3
    <3> QED  BY <3>4 DEF t, m
  <2>5. CASE F[s[Len(s)]] \notin Clusters
    <3>1. t = s
      BY <2>3, <2>5
    <3>2. Part(t, k)
      BY <2>1, <2>2, <2>5, <3>1
    <3> QED  BY <3>2 DEF t, m
  <2> QED  BY <2>4, <2>5
<1>9. m \in P
  <2> HIDE DEF P, m
  <2>1. \A k \in 1..m : k - 1 \in P => k \in P
    BY <1>8
  <2>2. \A k \in 0..m : k \in P
    BY <1>0, <1>7, <2>1, UpInduction
  <2> QED  BY <1>0, <2>2
<1>10. u[m] \in Seq(Clusters) /\ Len(u[m]) >= 1 /\ Part(u[m], m)
  BY <1>0, <1>4, <1>9
<1> QED  BY <1>0, <1>6, <1>10 DEF ChainFrom

\* The links of a chain lead to a cluster from at most one other.
Tied(F) == \A d, e \in Clusters : F[d] = F[e] /\ F[d] \in Clusters => d = e

\* No link leads to cluster c.
Loose(F, c) == \A d \in Clusters : F[d] # c

\* A chain whose first cluster has no link to it visits no cluster twice.
LEMMA ChainInjective ==
  ASSUME NEW F, FatOK(F), Tied(F), NEW c \in Clusters, Loose(F, c), NEW s, ChainFrom(F, c, s)
  PROVE  \A i, j \in 1..Len(s) : s[i] = s[j] => i = j
<1> DEFINE Bad == {i \in 1..Len(s) : \E j \in 1..Len(s) : j > i /\ s[i] = s[j]}
<1>0. Len(s) \in Nat /\ \A i \in 1..Len(s) : s[i] \in Clusters
  BY DEF ChainFrom
<1>1. Bad = {}
  <2> SUFFICES ASSUME Bad # {} PROVE FALSE
    OBVIOUS
  <2>1. Bad \in SUBSET Nat
    OBVIOUS
  <2>2. PICK i \in Bad : \A k \in Bad : i <= k
    <3> HIDE DEF Bad
    <3> QED  BY <2>1, LeastOf
  <2>3. PICK j \in 1..Len(s) : j > i /\ s[i] = s[j]
    OBVIOUS
  <2>4. j - 1 \in 1..Len(s) - 1 /\ (j - 1) + 1 = j /\ j - 1 \in 1..Len(s) /\ i \in 1..Len(s)
    BY <1>0, <2>3
  <2>5. F[s[j - 1]] = s[j] /\ s[j - 1] \in Clusters
    BY <1>0, <2>4 DEF ChainFrom
  <2>6. CASE i = 1
    BY <2>3, <2>5, <2>6 DEF ChainFrom, Loose
  <2>7. CASE i # 1
    <3>1. i - 1 \in 1..Len(s) - 1 /\ (i - 1) + 1 = i /\ i - 1 \in 1..Len(s) /\ j - 1 > i - 1
      BY <1>0, <2>3, <2>4, <2>7
    <3>2. F[s[i - 1]] = s[i] /\ s[i - 1] \in Clusters
      BY <1>0, <3>1 DEF ChainFrom
    <3>3. s[i - 1] = s[j - 1]
      BY <1>0, <2>3, <2>4, <2>5, <3>2 DEF Tied
    <3>4. i - 1 \in Bad
      BY <2>4, <3>1, <3>3
    <3> QED  BY <2>2, <3>1, <3>4
  <2> QED  BY <2>6, <2>7
<1>2. ASSUME NEW i \in 1..Len(s), NEW j \in 1..Len(s), s[i] = s[j] PROVE i = j
  <2>1. ~(i < j) /\ ~(j < i)
    BY <1>1, <1>2
  <2> QED  BY <1>0, <2>1
<1> QED  BY <1>2

\* Such a chain ends: it is shorter than the FAT.
LEMMA ChainEnds ==
  ASSUME NEW F, FatOK(F), Tied(F), NEW c \in Clusters, Loose(F, c), NEW s, ChainFrom(F, c, s)
  PROVE  F[s[Len(s)]] \notin Clusters
<1>0. Len(s) \in 1..FatEnd /\ FatEnd \in Nat /\ \A i \in 1..Len(s) : s[i] \in Clusters
  BY Fat32Assumption DEF ChainFrom
<1>1. \A i, j \in 1..Len(s) : s[i] = s[j] => i = j
  BY ChainInjective
<1> SUFFICES ASSUME Len(s) = FatEnd PROVE FALSE
  BY <1>0 DEF ChainFrom
<1>2. IsFiniteSet(Clusters) /\ Cardinality(Clusters) = FatEnd - 1
  <2>1. 2 \in Int /\ FatEnd \in Int /\ FatEnd >= 2
    BY <1>0, Fat32Assumption
  <2> QED  BY <2>1, FS_Interval DEF Clusters
<1>3. IsFiniteSet(1..FatEnd) /\ Cardinality(1..FatEnd) = FatEnd
  BY <1>0, FS_Interval
<1> DEFINE f == [i \in 1..FatEnd |-> s[i]]
<1>4. f \in [1..FatEnd -> Clusters]
  BY <1>0
<1>5. Cardinality(Clusters) < Cardinality(1..FatEnd)
  BY <1>0, <1>2, <1>3
<1>6. \E i, j \in 1..FatEnd : i # j /\ f[i] = f[j]
  <2> HIDE DEF f
  <2> QED  BY <1>2, <1>3, <1>4, <1>5, FS_PigeonHole
<1> QED  BY <1>0, <1>1, <1>6

\* Two chains whose first clusters have no link to them share no cluster.
LEMMA ChainsDisjoint ==
  ASSUME NEW F, FatOK(F), Tied(F), NEW c \in Clusters, NEW d \in Clusters, c # d,
         Loose(F, c), Loose(F, d), NEW s, NEW t, ChainFrom(F, c, s), ChainFrom(F, d, t)
  PROVE  \A i \in 1..Len(s), j \in 1..Len(t) : s[i] # t[j]
<1> DEFINE Bad == {i \in 1..Len(s) : \E j \in 1..Len(t) : s[i] = t[j]}
<1>0. /\ Len(s) \in Nat /\ \A i \in 1..Len(s) : s[i] \in Clusters
      /\ Len(t) \in Nat /\ \A i \in 1..Len(t) : t[i] \in Clusters
  BY DEF ChainFrom
<1> SUFFICES ASSUME Bad # {} PROVE FALSE
  OBVIOUS
<1>1. Bad \in SUBSET Nat
  OBVIOUS
<1>2. PICK i \in Bad : \A k \in Bad : i <= k
  <2> HIDE DEF Bad
  <2> QED  BY <1>1, LeastOf
<1>3. PICK j \in 1..Len(t) : s[i] = t[j]
  OBVIOUS
<1>4. i \in 1..Len(s)
  OBVIOUS
<1>5. i # 1 => i - 1 \in 1..Len(s) - 1 /\ (i - 1) + 1 = i /\ i - 1 \in 1..Len(s)
  BY <1>0, <1>4
<1>6. j # 1 => j - 1 \in 1..Len(t) - 1 /\ (j - 1) + 1 = j /\ j - 1 \in 1..Len(t)
  BY <1>0
<1>7. i # 1 => F[s[i - 1]] = s[i] /\ s[i - 1] \in Clusters
  BY <1>0, <1>5 DEF ChainFrom
<1>8. j # 1 => F[t[j - 1]] = t[j] /\ t[j - 1] \in Clusters
  BY <1>0, <1>6 DEF ChainFrom
<1>9. CASE i = 1
  BY <1>3, <1>8, <1>9 DEF ChainFrom, Loose
<1>10. CASE j = 1
  BY <1>3, <1>7, <1>10 DEF ChainFrom, Loose
<1>11. CASE i # 1 /\ j # 1
  <2>1. s[i - 1] = t[j - 1]
    BY <1>0, <1>3, <1>4, <1>7, <1>8, <1>11 DEF Tied
  <2>2. i - 1 \in Bad
    BY <1>5, <1>6, <1>11, <2>1
  <2> QED  BY <1>2, <1>4, <2>2
<1> QED  BY <1>9, <1>10, <1>11

-----------------------------------------------------------------------------
(* What is on the disk and what a phase still has to write.                *)

ShortNames == {Short[n] : n \in Names} \union {".", "..", "blank"}

Slot ==
  {Free, Lfn}
  \union [name : Names \union {".", ".."}, short : ShortNames \X (0..9), dir : {TRUE},
          first : Clusters, size : Nat]
  \union [name : Names \union {".", ".."}, short : ShortNames \X (0..9), dir : {FALSE},
          first : Clusters \union {0}, size : Nat]

Sector ==
  [dir : {TRUE}, slots : [1..Slots -> Slot], unit : {0}]
  \union [dir : {FALSE}, slots : {<< >>}, unit : Units \union {0}]

\* A volume without FSInfo has no count.
InfoSector ==
  [on : {TRUE}, free : Nat \union {Unknown}, next : (Root..FatEnd + 1) \union {Unknown}]
  \union [on : {FALSE}, free : {Unknown}, next : {Unknown}]

SectorWrite ==
  [k : {"fat"}, c : Clusters, v : 0..FatEnd]
  \union [k : {"disk"}, c : Clusters, v : Sector]
  \union [k : {"info"}, c : {0}, v : InfoSector]

DiskOK(D) == D \in [Clusters -> Sector]

\* Entry i of a directory sector names a file or a directory that begins at c.
Points(s, i, c) == i \in DOMAIN s.slots /\ s.slots[i].name \in Names /\ s.slots[i].first = c

\* A reference to a cluster stands at a place: entry 0 of cluster x is its entry in
\* the FAT, the others are those of the directory in its sector.
Now(F, D, x, i, c) ==
  \/ i = 0 /\ F[x] = c
  \/ i # 0 /\ Points(D[x], i, c)

\* The write w will make place i of x refer to c.
Will(w, x, i, c) ==
  /\ w.c = x
  /\ \/ w.k = "fat" /\ i = 0 /\ w.v = c
     \/ w.k = "disk" /\ i # 0 /\ Points(w.v, i, c)

\* The write w replaces what is at place i of x.
Replaces(w, x, i) ==
  /\ w.c = x
  /\ \/ w.k = "fat" /\ (i = 0 \/ w.v = 0)
     \/ w.k = "disk" /\ i # 0

Refers(F, D, T, x, i, c) == Now(F, D, x, i, c) \/ \E j \in 1..Len(T) : Will(T[j], x, i, c)

\* Every cluster is referred to from one place at most, the root from none, now
\* and by what is to be written.
OnePlace(F, D, T) ==
  \A c \in Clusters, x \in Clusters, i \in 0..Slots :
    Refers(F, D, T, x, i, c) =>
      /\ c # Root
      /\ \A y \in Clusters, k \in 0..Slots : Refers(F, D, T, y, k, c) => x = y /\ i = k

\* What is referred to is allocated.
Allocated(F, D) ==
  /\ F[Root] # 0
  /\ \A c \in Clusters, x \in Clusters, i \in 0..Slots : Now(F, D, x, i, c) => F[c] # 0

\* What will be referred to is allocated before.
Ordered(F, T) ==
  \A j \in 1..Len(T) : \A c \in Clusters, x \in Clusters, i \in 0..Slots :
    Will(T[j], x, i, c) => F[c] # 0 \/ \E l \in 1..j - 1 : T[l].k = "fat" /\ T[l].c = c

Frees(w) == w.k = "fat" /\ w.v = 0

\* What is freed is not referred to any more when its turn comes.
Released(F, D, T) ==
  \A j \in 1..Len(T) : Frees(T[j]) =>
    /\ T[j].c # Root
    /\ \A l \in 1..Len(T) : T[l].k = "fat" /\ T[l].c = T[j].c => T[l].v = 0
    /\ \A x \in Clusters, i \in 0..Slots :
         /\ \A l \in 1..Len(T) : ~Will(T[l], x, i, T[j].c)
         /\ Now(F, D, x, i, T[j].c) => \E l \in 1..j - 1 : Replaces(T[l], x, i)

Sound(F, D, T) == OnePlace(F, D, T) /\ Allocated(F, D) /\ Ordered(F, T) /\ Released(F, D, T)

\* The volume after a write.
FatAfter(F, w) == IF w.k = "fat" THEN [F EXCEPT ![w.c] = w.v] ELSE F
DiskAfter(D, w) ==
  IF w.k = "disk" THEN [D EXCEPT ![w.c] = w.v]
  ELSE IF Frees(w) THEN [D EXCEPT ![w.c] = Junk] ELSE D

LEMMA JunkIs == Junk \in Sector /\ Junk.slots = << >> /\ ~Junk.dir /\ Junk.unit = 0
BY DEF Junk, Sector

\* The sectors of directories.
DirSectors == [dir : {TRUE}, slots : [1..Slots -> Slot], unit : {0}]

\* The kinds of write.
LEMMA WriteKinds ==
  ASSUME NEW w \in SectorWrite
  PROVE  /\ w.k \in {"fat", "disk", "info"}
         /\ w.k = "fat" => w.c \in Clusters /\ w.v \in 0..FatEnd
         /\ w.k = "disk" => w.c \in Clusters /\ w.v \in Sector
         /\ w.k = "info" => w.c = 0 /\ w.v \in InfoSector
BY DEF SectorWrite

LEMMA AfterTyped ==
  ASSUME NEW F, FatOK(F), NEW D, DiskOK(D), NEW w \in SectorWrite
  PROVE  FatOK(FatAfter(F, w)) /\ DiskOK(DiskAfter(D, w))
BY JunkIs, WriteKinds DEF FatOK, DiskOK, FatAfter, DiskAfter, Frees

\* What is at a place after a write was put there by it, or was there before.
LEMMA NowAfter ==
  ASSUME NEW F, FatOK(F), NEW D, DiskOK(D), NEW w \in SectorWrite,
         NEW x \in Clusters, NEW i \in 0..Slots, NEW c \in Clusters,
         Now(FatAfter(F, w), DiskAfter(D, w), x, i, c)
  PROVE  Will(w, x, i, c) \/ (Now(F, D, x, i, c) /\ ~Replaces(w, x, i))
<1>1. CASE i = 0
  <2>1. FatAfter(F, w)[x] = c
    BY <1>1 DEF Now
  <2>2. CASE w.k = "fat" /\ w.c = x
    BY <1>1, <2>1, <2>2 DEF Will, FatAfter, FatOK
  <2>3. CASE ~(w.k = "fat" /\ w.c = x)
    <3>1. F[x] = c
      BY <2>1, <2>3, WriteKinds DEF FatAfter, FatOK
    <3> QED  BY <1>1, <2>3, <3>1, WriteKinds DEF Now, Replaces
  <2> QED  BY <2>2, <2>3
<1>2. CASE i # 0
  <2>1. Points(DiskAfter(D, w)[x], i, c)
    BY <1>2 DEF Now
  <2>2. CASE w.k = "disk" /\ w.c = x
    BY <1>2, <2>1, <2>2 DEF Will, DiskAfter, DiskOK
  <2>3. CASE Frees(w) /\ w.c = x
    <3>1. DiskAfter(D, w)[x] = Junk
      BY <2>3 DEF DiskAfter, DiskOK, Frees
    <3>2. DOMAIN << >> = {}
      OBVIOUS
    <3> QED  BY <2>1, <3>1, <3>2, JunkIs DEF Points
  <2>4. CASE ~(w.k = "disk" /\ w.c = x) /\ ~(Frees(w) /\ w.c = x)
    <3>1. DiskAfter(D, w)[x] = D[x]
      BY <2>4, WriteKinds DEF DiskAfter, DiskOK, Frees
    <3> QED  BY <1>2, <2>1, <2>4, <3>1, WriteKinds DEF Now, Replaces, Frees
  <2> QED  BY <2>2, <2>3, <2>4
<1> QED  BY <1>1, <1>2

\* The next write keeps the volume sound.
LEMMA SoundStep ==
  ASSUME NEW F, FatOK(F), NEW D, DiskOK(D), NEW T \in Seq(SectorWrite), T # << >>,
         Sound(F, D, T)
  PROVE  Sound(FatAfter(F, Head(T)), DiskAfter(D, Head(T)), Tail(T))
<1> DEFINE w == T[1]
           G == FatAfter(F, w)
           E == DiskAfter(D, w)
           R == Tail(T)
<1>0. /\ Len(T) \in Nat /\ Len(T) >= 1 /\ Head(T) = w /\ w \in SectorWrite
      /\ Len(R) = Len(T) - 1 /\ \A j \in 1..Len(R) : R[j] = T[j + 1] /\ j + 1 \in 1..Len(T)
      /\ \A j \in 1..Len(T) : T[j] \in SectorWrite
  OBVIOUS
<1>1. \A x \in Clusters, i \in 0..Slots, c \in Clusters :
        Now(G, E, x, i, c) => Will(w, x, i, c) \/ (Now(F, D, x, i, c) /\ ~Replaces(w, x, i))
  BY <1>0, NowAfter
<1>2. \A c \in Clusters : c # w.c \/ w.k # "fat" => G[c] = F[c]
  BY <1>0 DEF FatAfter, FatOK
<1>3. w.k = "fat" => G[w.c] = w.v
  BY <1>0, WriteKinds DEF FatAfter, FatOK
<1> HIDE DEF w, G, E, R
<1>4. 1 \in 1..Len(T) /\ T[1] = w
  BY <1>0 DEF w
<1>5. \A x \in Clusters, i \in 0..Slots, c \in Clusters :
        Refers(G, E, R, x, i, c) => Refers(F, D, T, x, i, c)
  BY <1>0, <1>1, <1>4 DEF Refers
<1>6. OnePlace(G, E, R)
  BY <1>5 DEF OnePlace, Sound
<1>7. Allocated(G, E)
  <2>1. G[Root] # 0
    <3>1. Root \in Clusters
      BY Fat32Assumption DEF Clusters
    <3>2. CASE w.k = "fat" /\ w.c = Root
      BY <1>3, <1>4, <3>2 DEF Sound, Released, Frees
    <3>3. CASE ~(w.k = "fat" /\ w.c = Root)
      BY <1>2, <3>1, <3>3 DEF Sound, Allocated
    <3> QED  BY <3>2, <3>3
  <2>2. ASSUME NEW c \in Clusters, NEW x \in Clusters, NEW i \in 0..Slots, Now(G, E, x, i, c)
        PROVE  G[c] # 0
    <3>0. \A l \in 1..1 - 1 : FALSE
      OBVIOUS
    <3>1. CASE Will(w, x, i, c)
      <4>1. F[c] # 0
        BY <1>4, <3>0, <3>1 DEF Sound, Ordered
      <4>2. ~(Frees(w) /\ w.c = c)
        BY <1>4, <3>1 DEF Sound, Released
      <4> QED  BY <1>2, <1>3, <4>1, <4>2 DEF Frees
    <3>2. CASE Now(F, D, x, i, c) /\ ~Will(w, x, i, c)
      <4>1. F[c] # 0
        BY <3>2 DEF Sound, Allocated
      <4>2. ~(Frees(w) /\ w.c = c)
        BY <1>4, <3>0, <3>2 DEF Sound, Released
      <4> QED  BY <1>2, <1>3, <4>1, <4>2 DEF Frees
    <3> QED  BY <1>1, <2>2, <3>1, <3>2
  <2> QED  BY <2>1, <2>2 DEF Allocated
<1>8. Ordered(G, R)
  <2> SUFFICES ASSUME NEW j \in 1..Len(R), NEW c \in Clusters, NEW x \in Clusters, NEW i \in 0..Slots,
                      Will(R[j], x, i, c)
               PROVE  G[c] # 0 \/ \E l \in 1..j - 1 : R[l].k = "fat" /\ R[l].c = c
    BY DEF Ordered
  <2>1. j + 1 \in 1..Len(T) /\ Will(T[j + 1], x, i, c) /\ (j + 1) - 1 = j
    BY <1>0
  <2>2. ~(Frees(w) /\ w.c = c)
    BY <1>4, <2>1 DEF Sound, Released
  <2>3. CASE F[c] # 0 \/ (w.k = "fat" /\ w.c = c)
    BY <1>2, <1>3, <2>2, <2>3 DEF Frees
  <2>4. CASE ~(F[c] # 0) /\ ~(w.k = "fat" /\ w.c = c)
    <3>1. PICK l \in 1..j : T[l].k = "fat" /\ T[l].c = c
      BY <2>1, <2>4 DEF Sound, Ordered
    <3>2. l # 1
      BY <1>4, <2>4, <3>1
    <3>3. l - 1 \in 1..j - 1 /\ (l - 1) + 1 = l /\ l - 1 \in 1..Len(R)
      BY <1>0, <3>2
    <3> QED  BY <1>0, <3>1, <3>3
  <2> QED  BY <2>3, <2>4
<1>9. Released(G, E, R)
  <2> SUFFICES ASSUME NEW j \in 1..Len(R), Frees(R[j])
               PROVE  /\ R[j].c # Root
                      /\ \A l \in 1..Len(R) : R[l].k = "fat" /\ R[l].c = R[j].c => R[l].v = 0
                      /\ \A x \in Clusters, i \in 0..Slots :
                           /\ \A l \in 1..Len(R) : ~Will(R[l], x, i, R[j].c)
                           /\ Now(G, E, x, i, R[j].c) => \E l \in 1..j - 1 : Replaces(R[l], x, i)
    BY DEF Released
  <2>1. j + 1 \in 1..Len(T) /\ R[j] = T[j + 1] /\ Frees(T[j + 1]) /\ (j + 1) - 1 = j
    BY <1>0
  <2>2. R[j].c \in Clusters
    BY <1>0, <2>1, WriteKinds DEF Frees
  <2>3. R[j].c # Root /\ \A l \in 1..Len(R) : R[l].k = "fat" /\ R[l].c = R[j].c => R[l].v = 0
    BY <1>0, <2>1 DEF Sound, Released
  <2>4. ASSUME NEW x \in Clusters, NEW i \in 0..Slots
        PROVE  /\ \A l \in 1..Len(R) : ~Will(R[l], x, i, R[j].c)
               /\ Now(G, E, x, i, R[j].c) => \E l \in 1..j - 1 : Replaces(R[l], x, i)
    <3>1. \A l \in 1..Len(T) : ~Will(T[l], x, i, R[j].c)
      BY <2>1 DEF Sound, Released
    <3>2. ASSUME Now(G, E, x, i, R[j].c) PROVE \E l \in 1..j - 1 : Replaces(R[l], x, i)
      <4>1. Now(F, D, x, i, R[j].c) /\ ~Replaces(w, x, i)
        BY <1>1, <1>4, <2>2, <3>1, <3>2
      <4>2. PICK l \in 1..j : Replaces(T[l], x, i)
        BY <2>1, <4>1 DEF Sound, Released
      <4>3. l # 1
        BY <1>4, <4>1, <4>2
      <4>4. l - 1 \in 1..j - 1 /\ (l - 1) + 1 = l /\ l - 1 \in 1..Len(R)
        BY <1>0, <4>3
      <4> QED  BY <1>0, <4>2, <4>4
    <3> QED  BY <1>0, <3>1, <3>2
  <2> QED  BY <2>3, <2>4
<1> QED  BY <1>0, <1>6, <1>7, <1>8, <1>9 DEF Sound, G, E, R

\* A phase that is cut short leaves the volume sound.
LEMMA SoundCut ==
  ASSUME NEW F, NEW D, NEW T, Sound(F, D, T)
  PROVE  Sound(F, D, << >>)
<1>0. Len(<< >>) = 0 /\ \A j \in 1..0 : FALSE
  OBVIOUS
<1>1. \A x, i, c : Refers(F, D, << >>, x, i, c) => Refers(F, D, T, x, i, c)
  BY <1>0 DEF Refers
<1>2. OnePlace(F, D, << >>)
  BY <1>1 DEF Sound, OnePlace
<1> QED  BY <1>0, <1>2 DEF Sound, Ordered, Released

\* So does one that is cut short and leaves a directory that shows no more than before.
LEMMA SoundLess ==
  ASSUME NEW F, NEW D, NEW E, NEW T, Sound(F, D, T),
         \A x \in Clusters, i \in 0..Slots, c \in Clusters : Now(F, E, x, i, c) => Now(F, D, x, i, c)
  PROVE  Sound(F, E, << >>)
<1>0. Len(<< >>) = 0 /\ \A j \in 1..0 : FALSE
  OBVIOUS
<1>1. \A x \in Clusters, i \in 0..Slots, c \in Clusters :
        Refers(F, E, << >>, x, i, c) => Refers(F, D, T, x, i, c)
  BY <1>0 DEF Refers
<1>2. OnePlace(F, E, << >>)
  BY <1>1 DEF Sound, OnePlace
<1>3. Allocated(F, E)
  BY DEF Sound, Allocated
<1> QED  BY <1>0, <1>2, <1>3 DEF Sound, Ordered, Released

-----------------------------------------------------------------------------
(* Directories and chains of a sound volume.                               *)

Valid == Slot \ {Free, Lfn}

\* The slots of a sector.
LEMMA SectorSlots ==
  ASSUME NEW D, DiskOK(D), NEW c \in Clusters
  PROVE  /\ D[c].slots \in Seq(Slot)
         /\ DOMAIN D[c].slots = 1..Len(D[c].slots)
         /\ DOMAIN D[c].slots \subseteq 1..Slots
         /\ D[c].dir => DOMAIN D[c].slots = 1..Slots /\ Len(D[c].slots) = Slots
         /\ ~D[c].dir => D[c].slots = << >>
         /\ D[c].dir \in BOOLEAN
<1>0. Slots \in Nat
  BY Fat32Assumption
<1>1. D[c] \in Sector
  BY DEF DiskOK
<1>2. CASE D[c] \in [dir : {TRUE}, slots : [1..Slots -> Slot], unit : {0}]
  <2>1. D[c].slots \in [1..Slots -> Slot] /\ D[c].dir /\ D[c].dir \in BOOLEAN
    BY <1>2
  <2> DEFINE q == D[c].slots
  <2>2. q \in Seq(Slot) /\ DOMAIN q = 1..Len(q) /\ Len(q) = Slots /\ DOMAIN q = 1..Slots
    BY <1>0, <2>1
  <2> QED  BY <2>1, <2>2
<1>3. CASE D[c] \in [dir : {FALSE}, slots : {<< >>}, unit : Units \union {0}]
  <2>1. D[c].slots = << >> /\ ~D[c].dir /\ D[c].dir \in BOOLEAN
    BY <1>3
  <2>2. << >> \in Seq(Slot) /\ DOMAIN << >> = {} /\ Len(<< >>) = 0 /\ 1..0 = {}
    OBVIOUS
  <2> QED  BY <2>1, <2>2
<1> QED  BY <1>1, <1>2, <1>3 DEF Sector

\* r lists what is in the slots of a sector that is neither free nor part of a long name.
Lists(r, slots) ==
  /\ \A k \in 1..Len(r) : \E i \in DOMAIN slots : r[k] = slots[i]
  /\ \A i \in DOMAIN slots : slots[i] \in Valid => \E k \in 1..Len(r) : r[k] = slots[i]

\* parse_dir_entries()
LEMMA EntriesIs ==
  ASSUME NEW v, DiskOK(v.disk), NEW c \in Clusters
  PROVE  EntriesOf(v, c) \in Seq(Valid) /\ Lists(EntriesOf(v, c), v.disk[c].slots)
<1> DEFINE s == v.disk[c].slots
           K == {i \in DOMAIN s : s[i] \notin {Free, Lfn}}
           r == EntriesOf(v, c)
<1>0. s \in Seq(Slot) /\ DOMAIN s = 1..Len(s) /\ Len(s) \in Nat /\ \A i \in DOMAIN s : s[i] \in Slot
  BY SectorSlots
<1>1. r = Picked(s, K)
  BY DEF EntriesOf
<1>2. K \in SUBSET (1..Len(s))
  BY <1>0
<1> HIDE DEF s, K, r
<1>3. r \in Seq(Slot) /\ \E f : Traced(s, r, K, f)
  BY <1>0, <1>1, <1>2, PickedIs
<1>4. PICK f : Traced(s, r, K, f)
  BY <1>3
<1>5. Len(r) \in Nat /\ \A k \in 1..Len(r) : f[k] \in K /\ r[k] = s[f[k]]
  BY <1>3, <1>4 DEF Traced
<1>6. \A i \in K : i \in DOMAIN s /\ s[i] \in Valid
  BY <1>0 DEF K, Valid
<1>7. \A k \in 1..Len(r) : r[k] \in Valid
  BY <1>5, <1>6
<1>8. r \in Seq(Valid)
  BY <1>3, <1>7
<1>9. \A i \in DOMAIN s : s[i] \in Valid => i \in K
  BY DEF K, Valid
<1>10. \A i \in DOMAIN s : s[i] \in Valid => \E k \in 1..Len(r) : r[k] = s[i]
  BY <1>4, <1>9 DEF Traced
<1> QED  BY <1>5, <1>6, <1>8, <1>10 DEF r, s, Lists

\* The entries of a list of clusters, as list_dir_cluster() and create_entry() collect them.
EntriesAlong(v, chain) == FlattenSeq([i \in DOMAIN chain |-> EntriesOf(v, chain[i])])

\* r lists what is in the sectors of a list of clusters.
ListsAll(r, D, chain) ==
  /\ \A k \in 1..Len(r) : \E n \in 1..Len(chain) : \E i \in DOMAIN D[chain[n]].slots :
       r[k] = D[chain[n]].slots[i]
  /\ \A n \in 1..Len(chain) : \A i \in DOMAIN D[chain[n]].slots :
       D[chain[n]].slots[i] \in Valid => \E k \in 1..Len(r) : r[k] = D[chain[n]].slots[i]

LEMMA EntriesAlongIs ==
  ASSUME NEW v, DiskOK(v.disk), NEW chain \in Seq(Clusters)
  PROVE  EntriesAlong(v, chain) \in Seq(Valid) /\ ListsAll(EntriesAlong(v, chain), v.disk, chain)
<1> DEFINE ss == [i \in DOMAIN chain |-> EntriesOf(v, chain[i])]
           m == Len(chain)
           r == FlattenSeq(ss)
<1>0. m \in Nat /\ DOMAIN chain = 1..m /\ \A n \in 1..m : chain[n] \in Clusters
  OBVIOUS
<1>1. ss \in [1..m -> Seq(Valid)] /\ \A n \in 1..m : ss[n] = EntriesOf(v, chain[n])
  BY <1>0, EntriesIs
<1>2. EntriesAlong(v, chain) = r /\ Pieces(ss, m, Valid)
  BY <1>0, <1>1 DEF EntriesAlong, Pieces
<1> HIDE DEF ss, m
<1>3. r \in Seq(Valid) /\ Gathers(r, ss, m)
  BY <1>2, FlattenMembers
<1>4. \A n \in 1..m : Lists(ss[n], v.disk[chain[n]].slots)
  BY <1>0, <1>1, EntriesIs
<1> HIDE DEF r
<1>5. ASSUME NEW k \in 1..Len(r)
      PROVE  \E n \in 1..m : \E i \in DOMAIN v.disk[chain[n]].slots : r[k] = v.disk[chain[n]].slots[i]
  <2>1. PICK n \in 1..m : \E l \in 1..Len(ss[n]) : ss[n][l] = r[k]
    BY <1>3 DEF Gathers
  <2>2. PICK l \in 1..Len(ss[n]) : ss[n][l] = r[k]
    BY <2>1
  <2>3. \E i \in DOMAIN v.disk[chain[n]].slots : ss[n][l] = v.disk[chain[n]].slots[i]
    BY <1>4 DEF Lists
  <2> QED  BY <2>2, <2>3
<1>6. ASSUME NEW n \in 1..m, NEW i \in DOMAIN v.disk[chain[n]].slots, v.disk[chain[n]].slots[i] \in Valid
      PROVE  \E k \in 1..Len(r) : r[k] = v.disk[chain[n]].slots[i]
  <2>1. PICK l \in 1..Len(ss[n]) : ss[n][l] = v.disk[chain[n]].slots[i]
    BY <1>4, <1>6 DEF Lists
  <2> QED  BY <1>3, <2>1 DEF Gathers
<1>7. ListsAll(r, v.disk, chain)
  BY <1>5, <1>6 DEF ListsAll, m
<1> QED  BY <1>2, <1>3, <1>7

\* list_dir_cluster() gives the entries of the chain, or nothing where it fails.
LEMMA ListIs ==
  ASSUME NEW v, NEW c
  PROVE  ListDir(v, c) \in {EntriesAlong(v, Chain(v, c)), << >>}
BY DEF ListDir, EntriesAlong

\* In a sound volume a chain is tied together, and nothing links to the first
\* cluster of a file, of a directory or of the root.
LEMMA SoundChains ==
  ASSUME NEW F, FatOK(F), NEW D, DiskOK(D), Sound(F, D, << >>)
  PROVE  /\ Tied(F)
         /\ Loose(F, Root)
         /\ \A x \in Clusters, i \in 1..Slots, c \in Clusters : Points(D[x], i, c) => Loose(F, c)
         /\ \A c \in Clusters : F[c] \in Clusters => F[F[c]] # 0
<1>0. Slots \in Nat /\ 0 \in 0..Slots /\ \A i \in 1..Slots : i \in 0..Slots /\ i # 0
  BY Fat32Assumption
<1>1. \A x \in Clusters, i \in 0..Slots : \A c : Now(F, D, x, i, c) => Refers(F, D, << >>, x, i, c)
  BY DEF Refers
<1>2. \A x \in Clusters : Now(F, D, x, 0, F[x])
  BY DEF Now
<1>3. Tied(F)
  BY <1>0, <1>1, <1>2 DEF Tied, Sound, OnePlace
<1>4. Loose(F, Root)
  <2>1. Root \in Clusters
    BY Fat32Assumption DEF Clusters
  <2> QED  BY <1>0, <1>1, <1>2, <2>1 DEF Loose, Sound, OnePlace
<1>5. ASSUME NEW x \in Clusters, NEW i \in 1..Slots, NEW c \in Clusters, Points(D[x], i, c)
      PROVE  Loose(F, c)
  <2>1. Now(F, D, x, i, c)
    BY <1>0, <1>5 DEF Now
  <2> QED  BY <1>0, <1>1, <1>2, <2>1 DEF Loose, Sound, OnePlace
<1>6. \A c \in Clusters : F[c] \in Clusters => F[F[c]] # 0
  BY <1>0, <1>2 DEF Sound, Allocated
<1> QED  BY <1>3, <1>4, <1>5, <1>6

\* A chain of a sound volume that begins in an allocated cluster is allocated.
LEMMA ChainAllocated ==
  ASSUME NEW F, FatOK(F), NEW D, DiskOK(D), Sound(F, D, << >>),
         NEW c \in Clusters, F[c] # 0, NEW s, ChainFrom(F, c, s)
  PROVE  \A k \in 1..Len(s) : s[k] \in Clusters /\ F[s[k]] # 0
<1>1. \A k \in 1..Len(s) : s[k] \in Clusters
  BY DEF ChainFrom
<1>2. Len(s) \in Nat /\ s[1] = c
  BY DEF ChainFrom
<1>3. ASSUME NEW k \in 1..Len(s) PROVE F[s[k]] # 0
  <2>1. CASE k = 1
    BY <1>2, <2>1
  <2>2. CASE k # 1
    <3>1. k - 1 \in 1..Len(s) - 1 /\ k - 1 \in 1..Len(s) /\ (k - 1) + 1 = k
      BY <1>2, <2>2
    <3>2. F[s[k - 1]] = s[k]
      BY <3>1 DEF ChainFrom
    <3> QED  BY <1>1, <3>1, <3>2, SoundChains
  <2> QED  BY <2>1, <2>2
<1> QED  BY <1>1, <1>3

\* The least element, as Min gives it.
LEMMA MinIs ==
  ASSUME NEW S \in SUBSET Nat, S # {}
  PROVE  Min(S) \in S /\ \A y \in S : Min(S) <= y
BY LeastOf DEF Min

\* The clusters a directory may begin at: allocated, and nothing links to them.
Heads(F) == {c \in Clusters : F[c] # 0 /\ Loose(F, c)}

\* A named entry of a sound volume refers to nothing or to such a cluster.
LEMMA EntryHeads ==
  ASSUME NEW F, FatOK(F), NEW D, DiskOK(D), Sound(F, D, << >>),
         NEW x \in Clusters, NEW i \in DOMAIN D[x].slots, D[x].slots[i].name \in Names
  PROVE  /\ D[x].slots[i].first \in Heads(F) \union {0}
         /\ D[x].slots[i].dir => D[x].slots[i].first \in Heads(F)
         /\ D[x].slots[i].first # Root
         /\ D[x].slots[i].dir \in BOOLEAN
<1> DEFINE e == D[x].slots[i]
           c == e.first
<1>0. i \in 1..Slots /\ e \in Slot /\ Slots \in Nat
  BY SectorSlots, Fat32Assumption
<1>1. e # Free /\ e # Lfn
  BY Fat32Assumption DEF Free, Lfn
<1>2. c \in Clusters \union {0} /\ (e.dir => c \in Clusters) /\ e.dir \in BOOLEAN
  BY <1>0, <1>1 DEF Slot
<1>3. 0 \notin Clusters /\ Root \in Clusters
  BY Fat32Assumption DEF Clusters
<1>4. CASE c \in Clusters
  <2>1. Points(D[x], i, c)
    BY DEF Points
  <2>2. Now(F, D, x, i, c) /\ i \in 0..Slots /\ i # 0
    BY <1>0, <2>1 DEF Now
  <2>3. F[c] # 0
    BY <1>4, <2>2 DEF Sound, Allocated
  <2>4. Loose(F, c)
    BY <1>0, <1>4, <2>1, SoundChains
  <2>5. c # Root
    BY <1>4, <2>2 DEF Sound, OnePlace, Refers
  <2> HIDE DEF c
  <2> QED  BY <1>2, <1>4, <2>3, <2>4, <2>5 DEF Heads, c
<1> QED  BY <1>2, <1>3, <1>4

\* The root is such a cluster.
LEMMA RootHead ==
  ASSUME NEW F, FatOK(F), NEW D, DiskOK(D), Sound(F, D, << >>)
  PROVE  Root \in Heads(F) /\ Root \in Clusters /\ 0 \notin Clusters
<1>1. Root \in Clusters /\ 0 \notin Clusters
  BY Fat32Assumption DEF Clusters
<1> QED  BY <1>1, SoundChains DEF Heads, Sound, Allocated

\* What list_dir_cluster() gives, found where it stands.
LEMMA ListedAt ==
  ASSUME NEW v, FatOK(v.fat), DiskOK(v.disk), NEW c \in Clusters, NEW k \in 1..Len(ListDir(v, c))
  PROVE  /\ ListDir(v, c) \in Seq(Valid)
         /\ \E x \in Clusters : \E i \in DOMAIN v.disk[x].slots :
              ListDir(v, c)[k] = v.disk[x].slots[i]
<1> DEFINE s == Chain(v, c)
<1>1. s \in Seq(Clusters)
  BY ChainIs DEF ChainFrom
<1>2. ListDir(v, c) = EntriesAlong(v, s)
  <2>1. ListDir(v, c) # << >>
    <3>1. Len(<< >>) = 0 /\ 1..0 = {}
      OBVIOUS
    <3> QED  BY <3>1
  <2> QED  BY <2>1, ListIs
<1> HIDE DEF s
<1>3. EntriesAlong(v, s) \in Seq(Valid) /\ ListsAll(EntriesAlong(v, s), v.disk, s)
  BY <1>1, EntriesAlongIs
<1> DEFINE r == ListDir(v, c)
<1> HIDE DEF r
<1>4. PICK n \in 1..Len(s) : \E i \in DOMAIN v.disk[s[n]].slots : r[k] = v.disk[s[n]].slots[i]
  <2>1. r = EntriesAlong(v, s) /\ k \in 1..Len(r)
    BY <1>2 DEF r
  <2>2. ListsAll(r, v.disk, s)
    BY <1>3, <2>1
  <2> QED  BY <2>1, <2>2 DEF ListsAll
<1>5. s[n] \in Clusters
  BY <1>1
<1> QED  BY <1>2, <1>3, <1>4, <1>5 DEF r

\* One component of find_dir_cluster().
SubDir(v, c, name) ==
  LET into(e) == IF e # Free /\ e.dir THEN e.first ELSE 0
  IN  IF c = 0 THEN 0 ELSE into(FirstOf(ListDir(v, c), LAMBDA x : Matches(x, name)))

LEMMA SubDirIs ==
  ASSUME NEW v, FatOK(v.fat), DiskOK(v.disk), Sound(v.fat, v.disk, << >>),
         NEW c \in Heads(v.fat) \union {0}, NEW name
  PROVE  SubDir(v, c, name) \in Heads(v.fat) \union {0}
<1> DEFINE list == ListDir(v, c)
           hits == {i \in DOMAIN list : Matches(list[i], name)}
           e == IF hits = {} THEN Free ELSE list[Min(hits)]
<1>1. CASE c = 0
  BY <1>1 DEF SubDir
<1>2. CASE c # 0
  <2>0. c \in Clusters
    BY <1>2 DEF Heads
  <2>1. SubDir(v, c, name) = IF e # Free /\ e.dir THEN e.first ELSE 0
    BY <1>2 DEF SubDir, FirstOf
  <2>2. CASE hits = {}
    BY <2>1, <2>2
  <2>3. CASE hits # {}
    <3> DEFINE k == Min(hits)
    <3>1. list \in Seq(Valid)
      <4>1. Chain(v, c) \in Seq(Clusters)
        BY <2>0, ChainIs DEF ChainFrom
      <4>2. EntriesAlong(v, Chain(v, c)) \in Seq(Valid) /\ << >> \in Seq(Valid)
        BY <4>1, EntriesAlongIs
      <4> QED  BY <4>2, ListIs
    <3>2. k \in 1..Len(list) /\ Matches(list[k], name)
      <4>1. hits \in SUBSET Nat /\ \A i \in hits : i \in 1..Len(list) /\ Matches(list[i], name)
        BY <3>1
      <4> HIDE DEF hits
      <4> QED  BY <2>3, <4>1, MinIs
    <3> HIDE DEF k, list
    <3>3. PICK x \in Clusters : \E i \in DOMAIN v.disk[x].slots : list[k] = v.disk[x].slots[i]
      BY <2>0, <3>2, ListedAt DEF list
    <3>4. PICK i \in DOMAIN v.disk[x].slots : list[k] = v.disk[x].slots[i]
      BY <3>3
    <3>5. v.disk[x].slots[i].name \in Names
      BY <3>2, <3>4 DEF Matches
    <3>6. list[k].dir => list[k].first \in Heads(v.fat)
      BY <3>4, <3>5, EntryHeads
    <3>7. e = list[k]
      BY <2>3 DEF list, k
    <3> HIDE DEF hits
    <3> QED  BY <2>1, <3>6, <3>7
  <2> QED  BY <2>2, <2>3
<1> QED  BY <1>1, <1>2

\* The clusters find_dir_cluster() comes through.
Walked(u, v, path) ==
  /\ u \in [0..Len(path) -> Heads(v.fat) \union {0}]
  /\ u[0] = Root
  /\ \A n \in 1..Len(path) : u[n] = SubDir(v, u[n - 1], path[n])
  /\ DirCluster(v, path) = u[Len(path)]

\* find_dir_cluster() walks down from the root.
LEMMA DirClusterIs ==
  ASSUME NEW v, FatOK(v.fat), DiskOK(v.disk), Sound(v.fat, v.disk, << >>),
         NEW path, Len(path) \in Nat
  PROVE  \E u : Walked(u, v, path)
<1> DEFINE S == Heads(v.fat) \union {0}
           m == Len(path)
           G == [n \in 1..m |-> [c \in S |-> SubDir(v, c, path[n])]]
<1>0. m \in Nat /\ Root \in S
  BY RootHead
<1>1. G \in [1..m -> [S -> S]]
  BY SubDirIs
<1>2. PICK u \in [0..m -> S] : Recursive(u, Root, G, m)
  <2> HIDE DEF G, S, m
  <2> QED  BY <1>0, <1>1, Recursion
<1>3. u[0] = Root /\ \A n \in 1..m : u[n] = SubDir(v, u[n - 1], path[n])
  <2>1. u[0] = Root /\ \A n \in 1..m : u[n] = G[n][u[n - 1]]
    BY <1>2 DEF Recursive
  <2>2. \A n \in 1..m : n - 1 \in 0..m /\ u[n - 1] \in S
    BY <1>0, <1>2
  <2>3. \A n \in 1..m : G[n][u[n - 1]] = SubDir(v, u[n - 1], path[n])
    BY <2>2
  <2> QED  BY <2>1, <2>3
<1> HIDE DEF G
<1>4. DirCluster(v, path) = u[m]
  <2> DEFINE Eq(f) == f = [n \in 0..m |-> IF n = 0 THEN Root ELSE SubDir(v, f[n - 1], path[n])]
             f == CHOOSE f : Eq(f)
  <2>1. \A n \in 0..m : u[n] = IF n = 0 THEN Root ELSE SubDir(v, u[n - 1], path[n])
    <3>1. \A n \in 0..m : n # 0 => n \in 1..m
      BY <1>0
    <3> QED  BY <1>3, <3>1
  <2>2. u = [n \in 0..m |-> u[n]]
    BY <1>2
  <2>3. Eq(u)
    BY <2>1, <2>2
  <2>4. Eq(f)
    <3> HIDE DEF Eq
    <3> QED  BY <2>3
  <2>5. DirCluster(v, path) = f[m]
    BY DEF DirCluster, SubDir
  <2> HIDE DEF f
  <2> DEFINE P == {k \in 0..m : f[k] = u[k]}
  <2>6. 0 \in P
    BY <1>0, <1>3, <2>4
  <2>7. ASSUME NEW k \in 1..m, k - 1 \in P PROVE k \in P
    <3>1. f[k] = SubDir(v, f[k - 1], path[k]) /\ k \in 0..m
      BY <1>0, <2>4
    <3>2. f[k - 1] = u[k - 1]
      BY <2>7
    <3>3. f[k] = u[k]
      BY <1>3, <3>1, <3>2
    <3> QED  BY <3>1, <3>3
  <2>8. m \in P
    <3> HIDE DEF P, m
    <3>1. \A k \in 1..m : k - 1 \in P => k \in P
      BY <2>7
    <3>2. \A k \in 0..m : k \in P
      BY <1>0, <2>6, <3>1, UpInduction
    <3> QED  BY <1>0, <3>2
  <2> QED  BY <2>5, <2>8
<1> QED  BY <1>2, <1>3, <1>4 DEF Walked

\* A directory that is found begins at an allocated cluster nothing links to.
LEMMA DirFound ==
  ASSUME NEW v, FatOK(v.fat), DiskOK(v.disk), Sound(v.fat, v.disk, << >>),
         NEW path, Len(path) \in Nat
  PROVE  DirCluster(v, path) \in Heads(v.fat) \union {0}
<1>1. PICK u : Walked(u, v, path)
  BY DirClusterIs
<1>2. Len(path) \in 0..Len(path)
  OBVIOUS
<1> QED  BY <1>1, <1>2 DEF Walked

\* The directories of the tree begin at clusters.
LEMMA LiveDirsIs ==
  ASSUME FatOK(fat), DiskOK(disk), Sound(fat, disk, << >>)
  PROVE  LiveDirs \in SUBSET Heads(fat)
<1> DEFINE below(c) == {e.first : e \in {x \in Range(ListDir(Volume, c)) : x.dir /\ x.name \in Names}}
           S == SUBSET Heads(fat)
           m == Depth
           Go(K) == K \union UNION {below(c) : c \in K}
           G == [n \in 1..m |-> [K \in S |-> Go(K)]]
<1>0. m \in Nat /\ {Root} \in S /\ Volume.fat = fat /\ Volume.disk = disk
  BY RootHead, Fat32Assumption DEF Volume
<1>1. \A c \in Heads(fat) : below(c) \in S
  <2> SUFFICES ASSUME NEW c \in Heads(fat), NEW e \in Range(ListDir(Volume, c)), e.dir, e.name \in Names
               PROVE  e.first \in Heads(fat)
    OBVIOUS
  <2>1. c \in Clusters
    BY DEF Heads
  <2>2. ListDir(Volume, c) \in Seq(Valid)
    <3>1. Chain(Volume, c) \in Seq(Clusters)
      BY <1>0, <2>1, ChainIs DEF ChainFrom
    <3>2. EntriesAlong(Volume, Chain(Volume, c)) \in Seq(Valid) /\ << >> \in Seq(Valid)
      BY <1>0, <3>1, EntriesAlongIs
    <3> QED  BY <3>2, ListIs
  <2>3. PICK k \in 1..Len(ListDir(Volume, c)) : e = ListDir(Volume, c)[k]
    BY <2>2 DEF Range
  <2>4. PICK x \in Clusters : \E i \in DOMAIN disk[x].slots : e = disk[x].slots[i]
    BY <1>0, <2>1, <2>3, ListedAt
  <2>5. PICK i \in DOMAIN disk[x].slots : e = disk[x].slots[i]
    BY <2>4
  <2> QED  BY <2>5, EntryHeads
<1>2. \A K \in S : Go(K) \in S
  <2> HIDE DEF below
  <2> QED  BY <1>1
<1>3. G \in [1..m -> [S -> S]]
  <2> HIDE DEF Go, S
  <2> QED  BY <1>2
<1>4. PICK u \in [0..m -> S] : Recursive(u, {Root}, G, m)
  <2> HIDE DEF G, S, m
  <2> QED  BY <1>0, <1>3, Recursion
<1>5. u[0] = {Root} /\ \A n \in 1..m : u[n] = Go(u[n - 1])
  <2> HIDE DEF Go, S
  <2>1. u[0] = {Root} /\ \A n \in 1..m : u[n] = G[n][u[n - 1]]
    BY <1>4 DEF Recursive
  <2>2. \A n \in 1..m : n - 1 \in 0..m /\ u[n - 1] \in S
    BY <1>0, <1>4
  <2>3. \A n \in 1..m : G[n][u[n - 1]] = Go(u[n - 1])
    BY <2>2
  <2> QED  BY <2>1, <2>3
<1> HIDE DEF G
<1>6. LiveDirs = u[m]
  <2> DEFINE Eq(f) == f = [n \in 0..m |-> IF n = 0 THEN {Root} ELSE Go(f[n - 1])]
             f == CHOOSE f : Eq(f)
  <2>1. LiveDirs = f[m]
    BY DEF LiveDirs
  <2> HIDE DEF Go, S
  <2>2. \A n \in 0..m : u[n] = IF n = 0 THEN {Root} ELSE Go(u[n - 1])
    <3>1. \A n \in 0..m : n # 0 => n \in 1..m
      BY <1>0
    <3> QED  BY <1>5, <3>1
  <2>3. u = [n \in 0..m |-> u[n]]
    BY <1>4
  <2>4. Eq(u)
    BY <2>2, <2>3
  <2>5. Eq(f)
    <3> HIDE DEF Eq
    <3> QED  BY <2>4
  <2> HIDE DEF f
  <2> DEFINE P == {k \in 0..m : f[k] = u[k]}
  <2>6. 0 \in P
    BY <1>0, <1>5, <2>5
  <2>7. ASSUME NEW k \in 1..m, k - 1 \in P PROVE k \in P
    <3>0. k \in 0..m /\ k # 0
      BY <1>0
    <3>1. f[k] = Go(f[k - 1])
      <4> HIDE DEF m
      <4> QED  BY <2>5, <3>0
    <3>2. f[k - 1] = u[k - 1]
      BY <2>7
    <3>3. f[k] = u[k]
      BY <1>5, <3>1, <3>2
    <3> QED  BY <3>0, <3>3
  <2>8. m \in P
    <3> HIDE DEF P, m
    <3>1. \A k \in 1..m : k - 1 \in P => k \in P
      BY <2>7
    <3>2. \A k \in 0..m : k \in P
      BY <1>0, <2>6, <3>1, UpInduction
    <3> QED  BY <1>0, <3>2
  <2> QED  BY <2>1, <2>8
<1>7. m \in 0..m
  BY <1>0
<1> QED  BY <1>4, <1>6, <1>7

\* The live entries are named entries of directory sectors.
LEMMA LiveEntriesAre ==
  ASSUME FatOK(fat), DiskOK(disk), Sound(fat, disk, << >>), NEW p \in LiveEntries
  PROVE  /\ p[1] \in Clusters /\ p[2] \in DOMAIN disk[p[1]].slots /\ p[2] \in 1..Slots
         /\ p = <<p[1], p[2]>>
         /\ disk[p[1]].slots[p[2]].name \in Names
<1>1. Volume.fat = fat
  BY DEF Volume
<1>2. \A d \in LiveDirs : Range(Chain(Volume, d)) \subseteq Clusters
  <2> TAKE d \in LiveDirs
  <2>1. d \in Clusters
    BY LiveDirsIs DEF Heads
  <2>2. Chain(Volume, d) \in Seq(Clusters)
    BY <1>1, <2>1, ChainIs DEF ChainFrom
  <2> QED  BY <2>2 DEF Range
<1>3. p \in Clusters \X (1..Slots) /\ disk[p[1]].dir /\ disk[p[1]].slots[p[2]].name \in Names
  BY <1>2 DEF LiveEntries
<1>4. p[1] \in Clusters /\ p[2] \in 1..Slots /\ p = <<p[1], p[2]>>
  BY <1>3
<1> QED  BY <1>3, <1>4, SectorSlots

\* On a sound volume the chains of the entries are allocated, end and are disjoint.
LEMMA SoundSuffices ==
  ASSUME FatOK(fat), DiskOK(disk), Sound(fat, disk, << >>)
  PROVE  ChainsSound
<1> DEFINE first(p) == disk[p[1]].slots[p[2]].first
           chain(c) == Chain(Volume, c)
           owned(p) == IF first(p) = 0 THEN {} ELSE Range(chain(first(p)))
<1>0. Volume.fat = fat /\ Root \in Heads(fat) /\ Tied(fat) /\ 0 \notin Clusters
  BY RootHead, SoundChains DEF Volume
<1>1. \A c \in Heads(fat) : ChainFrom(fat, c, chain(c)) /\ c \in Clusters /\ Loose(fat, c) /\ fat[c] # 0
  BY <1>0, ChainIs DEF Heads
<1>2. \A c \in Heads(fat) : Range(chain(c)) = {chain(c)[k] : k \in 1..Len(chain(c))}
  BY <1>1 DEF ChainFrom, Range
<1>3. \A c, d \in Heads(fat) : c # d => Range(chain(c)) \cap Range(chain(d)) = {}
  <2> TAKE c, d \in Heads(fat)
  <2> HAVE c # d
  <2>1. \A i \in 1..Len(chain(c)), j \in 1..Len(chain(d)) : chain(c)[i] # chain(d)[j]
    <3> DEFINE s == chain(c)
               t == chain(d)
    <3> HIDE DEF s, t
    <3>1. ChainFrom(fat, c, s) /\ ChainFrom(fat, d, t)
      BY <1>1 DEF s, t
    <3>2. \A i \in 1..Len(s), j \in 1..Len(t) : s[i] # t[j]
      BY <1>0, <1>1, <3>1, ChainsDisjoint
    <3> QED  BY <3>2 DEF s, t
  <2> QED  BY <1>2, <2>1
<1>4. ASSUME NEW c \in Heads(fat)
      PROVE  /\ \A d \in Range(chain(c)) : fat[d] # 0
             /\ fat[Last(chain(c))] = Eoc
  <2> DEFINE s == chain(c)
  <2>1. ChainFrom(fat, c, s) /\ Range(s) = {s[k] : k \in 1..Len(s)}
    BY <1>1, <1>2
  <2> HIDE DEF s
  <2>2. \A k \in 1..Len(s) : s[k] \in Clusters /\ fat[s[k]] # 0
    BY <1>1, <2>1, ChainAllocated
  <2>3. fat[s[Len(s)]] \notin Clusters
    BY <1>0, <1>1, <2>1, ChainEnds
  <2>4. Len(s) \in 1..Len(s)
    BY <2>1 DEF ChainFrom
  <2>5. fat[s[Len(s)]] \in 0..FatEnd /\ fat[s[Len(s)]] # 0
    BY <2>2, <2>4 DEF FatOK
  <2>6. fat[s[Len(s)]] = Eoc
    BY <2>3, <2>5 DEF Clusters
  <2> QED  BY <2>1, <2>2, <2>6 DEF s, Last
<1>5. \A p \in LiveEntries : first(p) \in Heads(fat) \union {0} /\ first(p) # Root
  BY LiveEntriesAre, EntryHeads
<1>6. \A p, q \in LiveEntries : p # q /\ first(p) # 0 => first(p) # first(q)
  <2> TAKE p, q \in LiveEntries
  <2> HAVE p # q /\ first(p) # 0
  <2> SUFFICES ASSUME first(p) = first(q) PROVE FALSE
    OBVIOUS
  <2>1. first(p) \in Clusters
    BY <1>1, <1>5
  <2>2. /\ p[1] \in Clusters /\ p[2] \in 0..Slots /\ p[2] # 0 /\ Points(disk[p[1]], p[2], first(p))
        /\ q[1] \in Clusters /\ q[2] \in 0..Slots /\ q[2] # 0 /\ Points(disk[q[1]], q[2], first(p))
    BY LiveEntriesAre DEF Points
  <2>3. p[1] = q[1] /\ p[2] = q[2]
    BY <2>1, <2>2 DEF Sound, OnePlace, Refers, Now
  <2>4. p = <<p[1], p[2]>> /\ q = <<q[1], q[2]>>
    BY LiveEntriesAre
  <2> QED  BY <2>3, <2>4
<1>7. ASSUME NEW p \in LiveEntries, first(p) # 0
      PROVE  /\ \A c \in owned(p) : fat[c] # 0
             /\ fat[Last(chain(first(p)))] = Eoc
             /\ owned(p) \cap Range(chain(Root)) = {}
  <2>1. first(p) \in Heads(fat) /\ first(p) # Root
    BY <1>5, <1>7
  <2> QED  BY <1>0, <1>3, <1>4, <1>7, <2>1
<1>8. ASSUME NEW p \in LiveEntries, NEW q \in LiveEntries, p # q
      PROVE  owned(p) \cap owned(q) = {}
  BY <1>3, <1>5, <1>6, <1>8
<1> HIDE DEF owned, chain
<1> QED  BY <1>7, <1>8 DEF ChainsSound, owned, chain

-----------------------------------------------------------------------------
(* The clusters that are handed out.                                       *)

\* free lists clusters that are free, each once.
Fresh(F, free) ==
  /\ free \in Seq(Clusters)
  /\ \A i \in 1..Len(free) : F[free[i]] = 0
  /\ \A i, j \in 1..Len(free) : free[i] = free[j] => i = j

\* alloc_cluster() hands out free clusters, none of them twice.
LEMMA FreeOrderIs ==
  ASSUME FatOK(fat), NEW fs \in InfoSector
  PROVE  Fresh(fat, FreeOrder(fs))
<1> DEFINE start == IF fs.on /\ fs.next # Unknown THEN fs.next ELSE Root
           a == [i \in 1..FatEnd + 1 - start |-> start + i - 1]
           b == [i \in 1..start - Root |-> Root + i - 1]
           scan == a \o b
           K == {i \in DOMAIN scan : scan[i] \in Clusters /\ fat[scan[i]] = 0}
<1>0. FatEnd \in Nat /\ Root <= FatEnd
  BY Fat32Assumption
<1>1. start \in Root..FatEnd + 1
  <2>1. fs.next \in (Root..FatEnd + 1) \union {Unknown}
    BY DEF InfoSector
  <2>2. Root \in Root..FatEnd + 1
    BY <1>0
  <2> QED  BY <2>1, <2>2
<1>2. FreeOrder(fs) = Picked(scan, K)
  BY DEF FreeOrder
<1> HIDE DEF start
<1>3. a \in Seq(Int) /\ b \in Seq(Int) /\ Len(a) = FatEnd + 1 - start /\ Len(b) = start - Root
  BY <1>0, <1>1
<1>4. /\ \A i \in 1..Len(a) : a[i] = start + i - 1
      /\ \A i \in 1..Len(b) : b[i] = Root + i - 1
  BY <1>3
<1> HIDE DEF a, b
<1>5. /\ scan \in Seq(Int) /\ Len(scan) = Len(a) + Len(b)
      /\ \A i \in 1..Len(scan) : scan[i] = IF i <= Len(a) THEN a[i] ELSE b[i - Len(a)]
  <2>1. Len(scan) = Len(a) + Len(b) /\ \A i \in 1..Len(a) + Len(b) : scan[i] = IF i <= Len(a) THEN a[i] ELSE b[i - Len(a)]
    BY <1>3, ConcatProperties
  <2>2. scan \in Seq(Int)
    BY <1>3
  <2> QED  BY <2>1, <2>2
<1>6. ASSUME NEW i \in 1..Len(scan), NEW j \in 1..Len(scan), scan[i] = scan[j] PROVE i = j
  <2>1. ASSUME NEW n \in 1..Len(scan)
        PROVE  scan[n] = IF n <= FatEnd + 1 - start THEN start + n - 1 ELSE n - (FatEnd + 1 - start) + 1
    <3>1. CASE n <= Len(a)
      BY <1>3, <1>4, <1>5, <3>1
    <3>2. CASE ~(n <= Len(a))
      <4>1. n - Len(a) \in 1..Len(b)
        BY <1>1, <1>3, <1>5, <3>2
      <4> QED  BY <1>1, <1>3, <1>4, <1>5, <3>2, <4>1
    <3> QED  BY <3>1, <3>2
  <2>2. Len(scan) = FatEnd - 1 /\ start \in Int
    BY <1>0, <1>1, <1>3, <1>5
  <2>3. /\ scan[i] = IF i <= FatEnd + 1 - start THEN start + i - 1 ELSE i - (FatEnd + 1 - start) + 1
        /\ scan[j] = IF j <= FatEnd + 1 - start THEN start + j - 1 ELSE j - (FatEnd + 1 - start) + 1
    BY <2>1
  <2>4. /\ i \in 1..FatEnd - 1 /\ j \in 1..FatEnd - 1
        /\ (IF i <= FatEnd + 1 - start THEN start + i - 1 ELSE i - (FatEnd + 1 - start) + 1)
            = IF j <= FatEnd + 1 - start THEN start + j - 1 ELSE j - (FatEnd + 1 - start) + 1
    BY <1>6, <2>2, <2>3
  <2> HIDE DEF scan
  <2> QED  BY <1>0, <1>1, <2>4
<1> HIDE DEF scan
<1>7. K \in SUBSET (1..Len(scan)) /\ \A i \in K : scan[i] \in Clusters /\ fat[scan[i]] = 0
  BY <1>5
<1> HIDE DEF K
<1> DEFINE r == FreeOrder(fs)
<1>8. r \in Seq(Int) /\ \E f : Traced(scan, r, K, f)
  BY <1>2, <1>5, <1>7, PickedIs
<1> HIDE DEF r
<1>9. PICK f : Traced(scan, r, K, f)
  BY <1>8
<1>10. Len(r) \in Nat /\ \A i \in 1..Len(r) : f[i] \in K /\ r[i] = scan[f[i]]
  BY <1>8, <1>9 DEF Traced
<1>11. \A i \in 1..Len(r) : r[i] \in Clusters /\ fat[r[i]] = 0
  BY <1>7, <1>10
<1>12. r \in Seq(Clusters)
  BY <1>8, <1>11
<1>13. ASSUME NEW i \in 1..Len(r), NEW j \in 1..Len(r), r[i] = r[j] PROVE i = j
  <2>0. f[i] \in 1..Len(scan) /\ f[j] \in 1..Len(scan) /\ scan[f[i]] = scan[f[j]]
    BY <1>7, <1>10, <1>13
  <2>1. f[i] = f[j] /\ f[i] \in Nat
    BY <1>6, <2>0
  <2>2. ~(i < j) /\ ~(j < i)
    BY <1>9, <2>1 DEF Traced
  <2> QED  BY <1>10, <2>2
<1> QED  BY <1>11, <1>12, <1>13 DEF Fresh, r

-----------------------------------------------------------------------------
(* What a list of writes does, put together from its parts.                *)

\* T makes a write of kind k to cluster c.
Touches(T, k, c) == \E j \in 1..Len(T) : T[j].k = k /\ T[j].c = c

\* FSInfo is v before the writes T and w after them.
Leaves(T, v, w) ==
  \/ w = v /\ \A j \in 1..Len(T) : T[j].k # "info"
  \/ \E j \in 1..Len(T) : /\ T[j].k = "info" /\ w = T[j].v
                          /\ \A l \in 1..Len(T) : T[l].k = "info" => l <= j

\* T frees nothing and adds references to free clusters only: to c from the place
\* at[c], once c is in K or T has allocated it.
Careful(F, D, at, K, T) ==
  \A j \in 1..Len(T) :
    /\ ~Frees(T[j])
    /\ \A x \in Clusters, i \in 0..Slots, c \in Clusters : Will(T[j], x, i, c) =>
         \/ Now(F, D, x, i, c)
         \/ /\ F[c] = 0 /\ at[c] = <<x, i>>
            /\ c \in K \/ \E l \in 1..j - 1 : T[l].k = "fat" /\ T[l].c = c

\* T is careful, writes the FAT entries of A and the sectors of B and takes FSInfo
\* from v to w.
Does(F, D, at, K, T, A, B, v, w) ==
  /\ T \in Seq(SectorWrite)
  /\ Careful(F, D, at, K, T)
  /\ \A c \in Clusters : (Touches(T, "fat", c) <=> c \in A) /\ (Touches(T, "disk", c) <=> c \in B)
  /\ Leaves(T, v, w)

LEMMA TouchesBoth ==
  ASSUME NEW a \in Seq(SectorWrite), NEW b \in Seq(SectorWrite), NEW k, NEW c
  PROVE  Touches(a \o b, k, c) <=> Touches(a, k, c) \/ Touches(b, k, c)
<1> DEFINE r == a \o b
<1>1. /\ Len(r) = Len(a) + Len(b) /\ Len(a) \in Nat /\ Len(b) \in Nat
      /\ \A i \in 1..Len(a) + Len(b) : r[i] = IF i <= Len(a) THEN a[i] ELSE b[i - Len(a)]
  BY ConcatProperties
<1> HIDE DEF r
<1>2. \A i \in 1..Len(a) : i \in 1..Len(r) /\ r[i] = a[i]
  BY <1>1
<1>3. \A i \in 1..Len(b) : Len(a) + i \in 1..Len(r) /\ r[Len(a) + i] = b[i]
  <2> TAKE i \in 1..Len(b)
  <2>1. Len(a) + i \in 1..Len(a) + Len(b) /\ ~(Len(a) + i <= Len(a)) /\ (Len(a) + i) - Len(a) = i
    BY <1>1
  <2> QED  BY <1>1, <2>1
<1>4. \A i \in 1..Len(r) : (i \in 1..Len(a) /\ r[i] = a[i])
                           \/ (i - Len(a) \in 1..Len(b) /\ r[i] = b[i - Len(a)])
  BY <1>1
<1>5. ASSUME Touches(r, k, c) PROVE Touches(a, k, c) \/ Touches(b, k, c)
  BY <1>4, <1>5 DEF Touches
<1>6. ASSUME Touches(a, k, c) \/ Touches(b, k, c) PROVE Touches(r, k, c)
  BY <1>2, <1>3, <1>6 DEF Touches
<1> QED  BY <1>5, <1>6 DEF r

\* One list of writes after the other.
LEMMA DoesBoth ==
  ASSUME NEW F, NEW D, NEW at, NEW K, NEW L, NEW a, NEW b, NEW A, NEW B, NEW A2, NEW B2,
         NEW v, NEW w, NEW z,
         Does(F, D, at, K, a, A, B, v, w), Does(F, D, at, L, b, A2, B2, w, z), L \subseteq K \union A
  PROVE  Does(F, D, at, K, a \o b, A \union A2, B \union B2, v, z)
<1> DEFINE r == a \o b
<1>0. a \in Seq(SectorWrite) /\ b \in Seq(SectorWrite)
  BY DEF Does
<1>1. /\ r \in Seq(SectorWrite)
      /\ Len(r) = Len(a) + Len(b) /\ Len(a) \in Nat /\ Len(b) \in Nat
      /\ \A i \in 1..Len(a) + Len(b) : r[i] = IF i <= Len(a) THEN a[i] ELSE b[i - Len(a)]
  BY <1>0, ConcatProperties
<1>2. \A c \in Clusters : /\ Touches(r, "fat", c) <=> c \in A \union A2
                          /\ Touches(r, "disk", c) <=> c \in B \union B2
  <2>1. \A c \in Clusters : /\ Touches(r, "fat", c) <=> Touches(a, "fat", c) \/ Touches(b, "fat", c)
                            /\ Touches(r, "disk", c) <=> Touches(a, "disk", c) \/ Touches(b, "disk", c)
    BY <1>0, TouchesBoth
  <2> HIDE DEF r
  <2> QED  BY <2>1 DEF Does
<1> HIDE DEF r
<1>3. \A i \in 1..Len(a) : i \in 1..Len(r) /\ r[i] = a[i]
  BY <1>1
<1>4. \A i \in 1..Len(b) : Len(a) + i \in 1..Len(r) /\ r[Len(a) + i] = b[i]
  <2> TAKE i \in 1..Len(b)
  <2>1. Len(a) + i \in 1..Len(a) + Len(b) /\ ~(Len(a) + i <= Len(a)) /\ (Len(a) + i) - Len(a) = i
    BY <1>1
  <2> QED  BY <1>1, <2>1
<1>5. \A i \in 1..Len(r) : (i \in 1..Len(a) /\ r[i] = a[i])
                           \/ (i - Len(a) \in 1..Len(b) /\ r[i] = b[i - Len(a)])
  BY <1>1
<1>6. Leaves(r, v, z)
  <2>1. Leaves(a, v, w) /\ Leaves(b, w, z)
    BY DEF Does
  <2>2. CASE z = w /\ \A j \in 1..Len(b) : b[j].k # "info"
    <3>1. \A j \in 1..Len(r) : r[j].k = "info" => j \in 1..Len(a) /\ r[j] = a[j]
      BY <1>5, <2>2
    <3>2. CASE w = v /\ \A j \in 1..Len(a) : a[j].k # "info"
      BY <2>2, <3>1, <3>2 DEF Leaves
    <3>3. ASSUME NEW j \in 1..Len(a), a[j].k = "info", w = a[j].v,
                 \A l \in 1..Len(a) : a[l].k = "info" => l <= j
          PROVE  Leaves(r, v, z)
      <4>1. j \in 1..Len(r) /\ r[j].k = "info" /\ z = r[j].v
        BY <1>3, <2>2, <3>3
      <4>2. \A l \in 1..Len(r) : r[l].k = "info" => l <= j
        BY <3>1, <3>3
      <4> QED  BY <4>1, <4>2 DEF Leaves
    <3> QED  BY <2>1, <3>2, <3>3 DEF Leaves
  <2>3. ASSUME NEW j \in 1..Len(b), b[j].k = "info", z = b[j].v,
               \A l \in 1..Len(b) : b[l].k = "info" => l <= j
        PROVE  Leaves(r, v, z)
    <3> DEFINE m == Len(a) + j
    <3>1. m \in 1..Len(r) /\ r[m] = b[j] /\ m \in Nat
      BY <1>1, <1>4
    <3>2. ASSUME NEW l \in 1..Len(r), r[l].k = "info" PROVE l <= m
      <4>1. CASE l \in 1..Len(a)
        BY <1>1, <4>1
      <4>2. CASE l - Len(a) \in 1..Len(b) /\ r[l] = b[l - Len(a)]
        <5>1. l - Len(a) <= j
          BY <2>3, <3>2, <4>2
        <5> QED  BY <1>1, <5>1
      <4> QED  BY <1>5, <4>1, <4>2
    <3> HIDE DEF m
    <3> QED  BY <2>3, <3>1, <3>2 DEF Leaves
  <2> QED  BY <2>1, <2>2, <2>3 DEF Leaves
<1>7. Careful(F, D, at, K, r)
  <2> SUFFICES ASSUME NEW j \in 1..Len(r)
               PROVE  /\ ~Frees(r[j])
                      /\ \A x \in Clusters, i \in 0..Slots, c \in Clusters : Will(r[j], x, i, c) =>
                           \/ Now(F, D, x, i, c)
                           \/ /\ F[c] = 0 /\ at[c] = <<x, i>>
                              /\ c \in K \/ \E l \in 1..j - 1 : r[l].k = "fat" /\ r[l].c = c
    BY DEF Careful
  <2>0. Careful(F, D, at, K, a) /\ Careful(F, D, at, L, b)
    BY DEF Does
  <2>1. CASE j \in 1..Len(a) /\ r[j] = a[j]
    <3>0. \A l \in 1..j - 1 : r[l] = a[l]
      BY <1>1, <1>3, <2>1
    <3> QED  BY <2>0, <2>1, <3>0 DEF Careful
  <2>2. CASE j - Len(a) \in 1..Len(b) /\ r[j] = b[j - Len(a)]
    <3>1. ~Frees(r[j])
      BY <2>0, <2>2 DEF Careful
    <3>2. ASSUME NEW x \in Clusters, NEW i \in 0..Slots, NEW c \in Clusters, Will(r[j], x, i, c),
                 ~Now(F, D, x, i, c)
          PROVE  /\ F[c] = 0 /\ at[c] = <<x, i>>
                 /\ c \in K \/ \E l \in 1..j - 1 : r[l].k = "fat" /\ r[l].c = c
      <4>1. /\ F[c] = 0 /\ at[c] = <<x, i>>
            /\ c \in L \/ \E l \in 1..(j - Len(a)) - 1 : b[l].k = "fat" /\ b[l].c = c
        BY <2>0, <2>2, <3>2 DEF Careful
      <4>2. CASE c \in L /\ c \notin K
        <5>1. Touches(a, "fat", c)
          BY <4>2 DEF Does
        <5>2. PICK l \in 1..Len(a) : a[l].k = "fat" /\ a[l].c = c
          BY <5>1 DEF Touches
        <5>3. l \in 1..j - 1
          BY <1>1, <2>2
        <5> QED  BY <1>3, <4>1, <5>2, <5>3
      <4>3. ASSUME NEW l \in 1..(j - Len(a)) - 1, b[l].k = "fat" /\ b[l].c = c
            PROVE  \E q \in 1..j - 1 : r[q].k = "fat" /\ r[q].c = c
        <5>1. l \in 1..Len(b) /\ Len(a) + l \in 1..j - 1
          BY <1>1, <2>2
        <5> QED  BY <1>4, <4>3, <5>1
      <4> QED  BY <4>1, <4>2, <4>3
    <3> QED  BY <3>1, <3>2
  <2> QED  BY <1>5, <2>1, <2>2
<1> QED  BY <1>1, <1>2, <1>6, <1>7 DEF Does, r

\* No write at all.
LEMMA DoesNothing ==
  ASSUME NEW F, NEW D, NEW at, NEW K, NEW v
  PROVE  Does(F, D, at, K, << >>, {}, {}, v, v)
<1>1. Len(<< >>) = 0 /\ \A j \in 1..0 : FALSE
  OBVIOUS
<1> QED  BY <1>1 DEF Does, Careful, Touches, Leaves

\* One write.
LEMMA DoesOne ==
  ASSUME NEW F, NEW D, NEW at, NEW K, NEW w \in SectorWrite, ~Frees(w),
         \A x \in Clusters, i \in 0..Slots, c \in Clusters : Will(w, x, i, c) =>
           Now(F, D, x, i, c) \/ (F[c] = 0 /\ at[c] = <<x, i>> /\ c \in K),
         NEW v
  PROVE  Does(F, D, at, K, <<w>>, IF w.k = "fat" THEN {w.c} ELSE {},
              IF w.k = "disk" THEN {w.c} ELSE {}, v, IF w.k = "info" THEN w.v ELSE v)
<1> DEFINE T == <<w>>
<1>1. Len(T) = 1 /\ T[1] = w /\ T \in Seq(SectorWrite)
  OBVIOUS
<1> HIDE DEF T
<1>2. \A j \in 1..Len(T) : j = 1 /\ T[j] = w
  BY <1>1
<1>3. 1 \in 1..Len(T)
  BY <1>1
<1>4. \A k, c : Touches(T, k, c) <=> w.k = k /\ w.c = c
  BY <1>1, <1>2, <1>3 DEF Touches
<1>5. Leaves(T, v, IF w.k = "info" THEN w.v ELSE v)
  <2>1. CASE w.k = "info"
    BY <1>1, <1>2, <1>3, <2>1 DEF Leaves
  <2>2. CASE w.k # "info"
    BY <1>2, <2>2 DEF Leaves
  <2> QED  BY <2>1, <2>2
<1>6. Careful(F, D, at, K, T)
  BY <1>2 DEF Careful
<1>7. \A c \in Clusters : /\ Touches(T, "fat", c) <=> c \in (IF w.k = "fat" THEN {w.c} ELSE {})
                          /\ Touches(T, "disk", c) <=> c \in (IF w.k = "disk" THEN {w.c} ELSE {})
  BY <1>4
<1> QED  BY <1>1, <1>5, <1>6, <1>7 DEF Does, T

\* A FAT entry that ends a chain, or links to a cluster that is known.
LEMMA DoesFat ==
  ASSUME NEW F, NEW D, NEW at, NEW K, NEW v, NEW c \in Clusters, NEW y \in 0..FatEnd, y # 0,
         y \in Clusters => F[y] = 0 /\ at[y] = <<c, 0>> /\ y \in K
  PROVE  Does(F, D, at, K, <<FatWrite(c, y)>>, {c}, {}, v, v)
<1> DEFINE w == FatWrite(c, y)
<1>1. w \in SectorWrite /\ w.k = "fat" /\ w.c = c /\ w.v = y
  BY DEF FatWrite, SectorWrite
<1> HIDE DEF w
<1>2. ~Frees(w) /\ \A x \in Clusters, i \in 0..Slots, d \in Clusters :
        Will(w, x, i, d) => F[d] = 0 /\ at[d] = <<x, i>> /\ d \in K
  BY <1>1 DEF Frees, Will
<1>3. Does(F, D, at, K, <<w>>, IF w.k = "fat" THEN {w.c} ELSE {},
           IF w.k = "disk" THEN {w.c} ELSE {}, v, IF w.k = "info" THEN w.v ELSE v)
  BY <1>1, <1>2, DoesOne
<1> QED  BY <1>1, <1>3 DEF w

\* A sector whose new references are to known clusters.
LEMMA DoesDisk ==
  ASSUME NEW F, NEW D, NEW at, NEW K, NEW v, NEW c \in Clusters, NEW s \in Sector,
         \A i \in 1..Slots, d \in Clusters : Points(s, i, d) =>
           Points(D[c], i, d) \/ (F[d] = 0 /\ at[d] = <<c, i>> /\ d \in K)
  PROVE  Does(F, D, at, K, <<DiskWrite(c, s)>>, {}, {c}, v, v)
<1> DEFINE w == DiskWrite(c, s)
<1>1. w \in SectorWrite /\ w.k = "disk" /\ w.c = c /\ w.v = s
  BY DEF DiskWrite, SectorWrite
<1> HIDE DEF w
<1>2. ~Frees(w)
  BY <1>1 DEF Frees
<1>3. \A x \in Clusters, i \in 0..Slots, d \in Clusters : Will(w, x, i, d) =>
        Now(F, D, x, i, d) \/ (F[d] = 0 /\ at[d] = <<x, i>> /\ d \in K)
  <2>1. \A i \in 0..Slots : i # 0 => i \in 1..Slots
    BY Fat32Assumption
  <2> QED  BY <1>1, <2>1 DEF Will, Now
<1>4. Does(F, D, at, K, <<w>>, IF w.k = "fat" THEN {w.c} ELSE {},
           IF w.k = "disk" THEN {w.c} ELSE {}, v, IF w.k = "info" THEN w.v ELSE v)
  BY <1>1, <1>2, <1>3, DoesOne
<1> QED  BY <1>1, <1>4 DEF w

LEMMA DoesInfo ==
  ASSUME NEW F, NEW D, NEW at, NEW K, NEW v, NEW z \in InfoSector
  PROVE  Does(F, D, at, K, <<InfoWrite(z)>>, {}, {}, v, z)
<1> DEFINE w == InfoWrite(z)
<1>1. w \in SectorWrite /\ w.k = "info" /\ w.v = z
  BY DEF InfoWrite, SectorWrite
<1> HIDE DEF w
<1>2. ~Frees(w) /\ \A x, i, d : ~Will(w, x, i, d)
  BY <1>1 DEF Frees, Will
<1>3. Does(F, D, at, K, <<w>>, IF w.k = "fat" THEN {w.c} ELSE {},
           IF w.k = "disk" THEN {w.c} ELSE {}, v, IF w.k = "info" THEN w.v ELSE v)
  BY <1>1, <1>2, DoesOne
<1> QED  BY <1>1, <1>3 DEF w

\* A careful list of writes is sound.
LEMMA CarefulSound ==
  ASSUME NEW F, FatOK(F), NEW D, DiskOK(D), Sound(F, D, << >>), NEW at, NEW T,
         Careful(F, D, at, {}, T)
  PROVE  Sound(F, D, T)
<1>0. Len(<< >>) = 0 /\ \A j \in 1..0 : FALSE
  OBVIOUS
<1>1. \A x \in Clusters, i \in 0..Slots, c \in Clusters : Refers(F, D, T, x, i, c) =>
        Now(F, D, x, i, c) \/ (F[c] = 0 /\ at[c] = <<x, i>>)
  BY DEF Refers, Careful
<1>2. \A x \in Clusters, i \in 0..Slots, c \in Clusters :
        Now(F, D, x, i, c) => F[c] # 0 /\ Refers(F, D, << >>, x, i, c)
  BY DEF Sound, Allocated, Refers
<1>3. F[Root] # 0
  BY DEF Sound, Allocated
<1>4. OnePlace(F, D, T)
  <2> SUFFICES ASSUME NEW c \in Clusters, NEW x \in Clusters, NEW i \in 0..Slots, Refers(F, D, T, x, i, c)
               PROVE  /\ c # Root
                      /\ \A y \in Clusters, k \in 0..Slots : Refers(F, D, T, y, k, c) => x = y /\ i = k
    BY DEF OnePlace
  <2>1. CASE F[c] = 0
    <3>1. \A y \in Clusters, k \in 0..Slots : Refers(F, D, T, y, k, c) => at[c] = <<y, k>>
      BY <1>1, <1>2, <2>1
    <3>2. at[c] = <<x, i>>
      BY <3>1
    <3>3. \A y, k : <<x, i>> = <<y, k>> => x = y /\ i = k
      OBVIOUS
    <3> QED  BY <1>3, <2>1, <3>1, <3>2, <3>3
  <2>2. CASE F[c] # 0
    <3>1. \A y \in Clusters, k \in 0..Slots : Refers(F, D, T, y, k, c) => Refers(F, D, << >>, y, k, c)
      BY <1>1, <1>2, <2>2
    <3> QED  BY <3>1 DEF Sound, OnePlace
  <2> QED  BY <2>1, <2>2
<1>5. Ordered(F, T)
  BY <1>2 DEF Ordered, Careful
<1>6. Released(F, D, T)
  BY DEF Released, Careful
<1> QED  BY <1>4, <1>5, <1>6 DEF Sound

-----------------------------------------------------------------------------
(* The writes of create_entry().                                           *)

\* FSInfo once n clusters of free have been handed out.
InfoAt(fs, free, n) ==
  IF fs.on /\ n # 0 THEN [fs EXCEPT !.free = FreeAfter(fs, -n), !.next = free[n] + 1] ELSE fs

LEMMA MaxIs ==
  ASSUME NEW a \in Int, NEW b \in Int
  PROVE  /\ Max({a, b}) \in {a, b} /\ Max({a, b}) >= a /\ Max({a, b}) >= b
         /\ Min({a, b}) \in {a, b} /\ Min({a, b}) <= a /\ Min({a, b}) <= b
<1>1. \E x \in {a, b} : \A y \in {a, b} : x >= y
  OBVIOUS
<1>2. \E x \in {a, b} : \A y \in {a, b} : x <= y
  OBVIOUS
<1>3. Max({a, b}) \in {a, b} /\ \A y \in {a, b} : Max({a, b}) >= y
  BY <1>1 DEF Max
<1>4. Min({a, b}) \in {a, b} /\ \A y \in {a, b} : Min({a, b}) <= y
  BY <1>2 DEF Min
<1> QED  BY <1>3, <1>4

LEMMA FreeAfterIs ==
  ASSUME NEW fs \in InfoSector, NEW d \in Int
  PROVE  /\ FreeAfter(fs, d) \in Nat \union {Unknown}
         /\ fs.free = Unknown => FreeAfter(fs, d) = Unknown
         /\ fs.free # Unknown /\ fs.free + d >= 0 => FreeAfter(fs, d) = fs.free + d
         /\ fs.free \in Nat \union {Unknown}
<1>1. fs.free \in Nat \union {Unknown}
  BY DEF InfoSector
<1>2. CASE fs.free = Unknown
  BY <1>2 DEF FreeAfter
<1>3. CASE fs.free # Unknown
  <2> DEFINE a == fs.free + d
  <2>1. fs.free \in Nat /\ a \in Int /\ FreeAfter(fs, d) = Max({0, a})
    BY <1>1, <1>3 DEF FreeAfter
  <2> HIDE DEF a
  <2>2. Max({0, a}) \in {0, a} /\ Max({0, a}) >= 0 /\ Max({0, a}) >= a
    <3> DEFINE z == 0
    <3>1. z \in Int
      OBVIOUS
    <3> HIDE DEF z
    <3>2. Max({z, a}) \in {z, a} /\ Max({z, a}) >= z /\ Max({z, a}) >= a
      BY <2>1, <3>1, MaxIs
    <3> QED  BY <3>2 DEF z
  <2>3. a >= 0 => Max({0, a}) = a
    BY <2>1, <2>2
  <2>4. Max({0, a}) \in Nat
    BY <2>1, <2>2
  <2> QED  BY <1>3, <2>1, <2>3, <2>4 DEF a
<1> QED  BY <1>1, <1>2, <1>3

LEMMA InfoAtTyped ==
  ASSUME NEW fs \in InfoSector, NEW free \in Seq(Clusters), NEW n \in 0..Len(free)
  PROVE  InfoAt(fs, free, n) \in InfoSector
<1>1. CASE ~(fs.on /\ n # 0)
  BY <1>1 DEF InfoAt
<1>2. CASE fs.on /\ n # 0
  <2>1. free[n] \in Clusters /\ n \in Int /\ -n \in Int
    BY <1>2
  <2>2. free[n] + 1 \in Root..FatEnd + 1
    BY <2>1, Fat32Assumption DEF Clusters
  <2>3. FreeAfter(fs, -n) \in Nat \union {Unknown}
    BY <2>1, FreeAfterIs
  <2>4. fs \in [on : {TRUE}, free : Nat \union {Unknown}, next : (Root..FatEnd + 1) \union {Unknown}]
    BY <1>2 DEF InfoSector
  <2> DEFINE y == FreeAfter(fs, -n)
             z == free[n] + 1
  <2>5. InfoAt(fs, free, n) = [fs EXCEPT !.free = y, !.next = z]
    BY <1>2 DEF InfoAt
  <2> HIDE DEF y, z
  <2>6. y \in Nat \union {Unknown} /\ z \in (Root..FatEnd + 1) \union {Unknown}
    BY <2>2, <2>3 DEF y, z
  <2>7. [fs EXCEPT !.free = y, !.next = z]
          \in [on : {TRUE}, free : Nat \union {Unknown}, next : (Root..FatEnd + 1) \union {Unknown}]
    BY <2>4, <2>6
  <2> QED  BY <2>5, <2>7 DEF InfoSector
<1> QED  BY <1>1, <1>2

\* alloc_cluster()
LEMMA DoesAlloc ==
  ASSUME NEW fs \in InfoSector, NEW F, NEW D, NEW at, NEW K,
         NEW free \in Seq(Clusters), NEW i \in 1..Len(free)
  PROVE  Does(F, D, at, K, AllocWrites(fs, free, i), {free[i]}, {}, InfoAt(fs, free, i - 1), InfoAt(fs, free, i))
<1> DEFINE v == InfoAt(fs, free, i - 1)
           z == InfoAt(fs, free, i)
           a == <<FatWrite(free[i], Eoc)>>
<1>0. free[i] \in Clusters /\ Eoc \in 0..FatEnd /\ Eoc # 0 /\ Eoc \notin Clusters /\ i # 0
      /\ Len(free) \in Nat /\ i \in 0..Len(free) /\ i - 1 \in 0..Len(free)
  BY Fat32Assumption DEF Clusters
<1>1. Does(F, D, at, K, a, {free[i]}, {}, v, v)
  <2> HIDE DEF v
  <2> QED  BY <1>0, DoesFat
<1>2. z \in InfoSector
  BY <1>0, InfoAtTyped
<1>3. CASE fs.on
  <2>1. AllocWrites(fs, free, i) = a \o <<InfoWrite(z)>>
    BY <1>0, <1>3 DEF AllocWrites, InfoAt
  <2> HIDE DEF a, z, v
  <2>2. Does(F, D, at, {}, <<InfoWrite(z)>>, {}, {}, v, z)
    BY <1>2, DoesInfo
  <2>3. Does(F, D, at, K, a \o <<InfoWrite(z)>>, {free[i]} \union {}, {} \union {}, v, z)
    BY <1>1, <2>2, DoesBoth
  <2> QED  BY <2>1, <2>3 DEF v, z
<1>4. CASE ~fs.on
  <2>1. AllocWrites(fs, free, i) = a \o << >>
    BY <1>4 DEF AllocWrites
  <2>2. v = fs /\ z = fs
    BY <1>4 DEF InfoAt
  <2> HIDE DEF a, z, v
  <2>3. Does(F, D, at, {}, << >>, {}, {}, v, v)
    BY DoesNothing
  <2>4. Does(F, D, at, K, a \o << >>, {free[i]} \union {}, {} \union {}, v, v)
    BY <1>1, <2>3, DoesBoth
  <2> QED  BY <2>1, <2>2, <2>4 DEF v, z
<1> QED  BY <1>3, <1>4

\* The first n of the clusters.
First(free, n) == {free[j] : j \in 1..n}

\* One unit of write_file_data().
UnitWrites(fs, free, data, i) ==
  AllocWrites(fs, free, i)
  \o (IF i > 1 THEN <<FatWrite(free[i - 1], free[i])>> ELSE <<>>)
  \o <<DiskWrite(free[i], [Junk EXCEPT !.unit = data[i]])>>

LEMMA DoesUnit ==
  ASSUME NEW fs \in InfoSector, NEW F, NEW D, NEW at, NEW free, Fresh(F, free), NEW i \in 1..Len(free),
         NEW data, data[i] \in Units \union {0},
         i > 1 => at[free[i]] = <<free[i - 1], 0>>
  PROVE  Does(F, D, at, {}, UnitWrites(fs, free, data, i),
              {free[i]} \union (IF i > 1 THEN {free[i - 1]} ELSE {}), {free[i]},
              InfoAt(fs, free, i - 1), InfoAt(fs, free, i))
<1> DEFINE a == AllocWrites(fs, free, i)
           b == IF i > 1 THEN <<FatWrite(free[i - 1], free[i])>> ELSE <<>>
           s == [Junk EXCEPT !.unit = data[i]]
           c == <<DiskWrite(free[i], s)>>
           v == InfoAt(fs, free, i - 1)
           z == InfoAt(fs, free, i)
           L == {free[i]}
           B == IF i > 1 THEN {free[i - 1]} ELSE {}
<1>0. free \in Seq(Clusters) /\ Len(free) \in Nat /\ free[i] \in Clusters /\ free[i] \in 0..FatEnd
      /\ free[i] # 0 /\ F[free[i]] = 0
  BY Fat32Assumption DEF Fresh, Clusters
<1>1. Does(F, D, at, {}, a, L, {}, v, z)
  BY <1>0, DoesAlloc
<1>2. Does(F, D, at, L, b, B, {}, z, z)
  <2>1. CASE i > 1
    <3>1. free[i - 1] \in Clusters
      BY <1>0, <2>1
    <3> HIDE DEF z
    <3>2. Does(F, D, at, L, <<FatWrite(free[i - 1], free[i])>>, {free[i - 1]}, {}, z, z)
      BY <1>0, <2>1, <3>1, DoesFat
    <3> QED  BY <2>1, <3>2
  <2>2. CASE ~(i > 1)
    <3> HIDE DEF z, L
    <3>1. Does(F, D, at, L, <<>>, {}, {}, z, z)
      BY DoesNothing
    <3> QED  BY <2>2, <3>1
  <2> QED  BY <2>1, <2>2
<1>3. Does(F, D, at, {}, c, {}, {free[i]}, z, z)
  <2>1. s \in Sector /\ s.slots = << >>
    BY DEF Junk, Sector
  <2>2. \A j, d : ~Points(s, j, d)
    <3>1. DOMAIN << >> = {}
      OBVIOUS
    <3> QED  BY <2>1, <3>1 DEF Points
  <2> HIDE DEF s, z
  <2> QED  BY <1>0, <2>1, <2>2, DoesDisk
<1>4. UnitWrites(fs, free, data, i) = (a \o b) \o c
  BY DEF UnitWrites
<1> HIDE DEF a, b, c, v, z, B, L
<1>5. Does(F, D, at, {}, a \o b, L \union B, {} \union {}, v, z)
  BY <1>1, <1>2, DoesBoth
<1>6. Does(F, D, at, {}, (a \o b) \o c, (L \union B) \union {}, ({} \union {}) \union {free[i]}, v, z)
  BY <1>3, <1>5, DoesBoth
<1>7. (L \union B) \union {} = L \union B /\ ({} \union {}) \union {free[i]} = {free[i]}
  OBVIOUS
<1> QED  BY <1>4, <1>6, <1>7 DEF v, z, L, B

\* write_file_data(): the first n units, each cluster linked from the one before it.
LEMMA DoesData ==
  ASSUME NEW fs \in InfoSector, NEW F, NEW D, NEW at, NEW free, Fresh(F, free),
         NEW n \in 0..Len(free), NEW data \in Seq(Units \union {0}), n <= Len(data),
         \A i \in 2..n : at[free[i]] = <<free[i - 1], 0>>
  PROVE  Does(F, D, at, {}, DataWrites(fs, free, data, n), First(free, n), First(free, n),
              fs, InfoAt(fs, free, n))
<1> DEFINE ss == [i \in 1..n |-> UnitWrites(fs, free, data, i)]
<1>0. n \in Nat /\ Len(free) \in Nat /\ free \in Seq(Clusters) /\ Len(data) \in Nat
  BY DEF Fresh
<1>1. ASSUME NEW i \in 1..n
      PROVE  Does(F, D, at, {}, UnitWrites(fs, free, data, i),
                  {free[i]} \union (IF i > 1 THEN {free[i - 1]} ELSE {}), {free[i]},
                  InfoAt(fs, free, i - 1), InfoAt(fs, free, i))
  <2>1. i \in 1..Len(free) /\ data[i] \in Units \union {0} /\ (i > 1 => i \in 2..n)
    BY <1>0
  <2> QED  BY <2>1, DoesUnit
<1>2. Pieces(ss, n, SectorWrite) /\ \A i \in 1..n : ss[i] = UnitWrites(fs, free, data, i)
  <2>1. \A i \in 1..n : UnitWrites(fs, free, data, i) \in Seq(SectorWrite)
    BY <1>1 DEF Does
  <2> QED  BY <1>0, <2>1 DEF Pieces
<1>3. PICK u : Laid(u, ss, n, SectorWrite)
  <2> HIDE DEF ss
  <2> QED  BY <1>2, FlattenIs
<1>4. u[0] = << >> /\ (\A i \in 1..n : u[i] = u[i - 1] \o ss[i]) /\ FlattenSeq(ss) = u[n]
  BY <1>3 DEF Laid
<1> DEFINE P == {k \in 0..n : Does(F, D, at, {}, u[k], First(free, k), First(free, k), fs, InfoAt(fs, free, k))}
<1>5. 0 \in P
  <2>1. First(free, 0) = {} /\ InfoAt(fs, free, 0) = fs
    BY DEF First, InfoAt
  <2>2. 0 \in 0..n
    BY <1>0
  <2>3. Does(F, D, at, {}, << >>, {}, {}, fs, fs)
    BY DoesNothing
  <2> QED  BY <1>4, <2>1, <2>2, <2>3
<1>6. ASSUME NEW k \in 1..n, k - 1 \in P PROVE k \in P
  <2> DEFINE A == First(free, k - 1)
             A2 == {free[k]} \union (IF k > 1 THEN {free[k - 1]} ELSE {})
             w == InfoAt(fs, free, k - 1)
             z == InfoAt(fs, free, k)
             b == UnitWrites(fs, free, data, k)
             a == u[k - 1]
  <2>1. Does(F, D, at, {}, a, A, A, fs, w)
    BY <1>6
  <2>2. Does(F, D, at, {}, b, A2, {free[k]}, w, z)
    BY <1>1
  <2>3. A \union A2 = First(free, k) /\ A \union {free[k]} = First(free, k)
    <3>1. 1..k = (1..k - 1) \union {k} /\ (k > 1 => k - 1 \in 1..k - 1)
      BY <1>0
    <3> QED  BY <3>1 DEF First
  <2>4. u[k] = a \o b
    BY <1>2, <1>4
  <2>5. Does(F, D, at, {}, a \o b, A \union A2, A \union {free[k]}, fs, z)
    <3> HIDE DEF A, A2, w, z, b, a
    <3> QED  BY <2>1, <2>2, DoesBoth
  <2>6. k \in 0..n
    BY <1>0
  <2> HIDE DEF A, A2, a, b
  <2> QED  BY <2>3, <2>4, <2>5, <2>6
<1>7. n \in P
  <2> HIDE DEF P
  <2>1. \A k \in 1..n : k - 1 \in P => k \in P
    BY <1>6
  <2>2. \A k \in 0..n : k \in P
    BY <1>0, <1>5, <2>1, UpInduction
  <2> QED  BY <1>0, <2>2
<1> DEFINE a == FlattenSeq(ss)
           b == IF n = Len(data) /\ n > 0 THEN <<FatWrite(free[n], Eoc)>> ELSE <<>>
           B == IF n = Len(data) /\ n > 0 THEN {free[n]} ELSE {}
           z == InfoAt(fs, free, n)
           A == First(free, n)
<1>8. DataWrites(fs, free, data, n) = a \o b
  BY DEF DataWrites, UnitWrites
<1>9. Does(F, D, at, {}, a, A, A, fs, z)
  BY <1>4, <1>7
<1>10. Does(F, D, at, {}, b, B, {}, z, z)
  <2> HIDE DEF z
  <2>1. CASE n = Len(data) /\ n > 0
    <3>1. free[n] \in Clusters /\ Eoc \in 0..FatEnd /\ Eoc # 0 /\ Eoc \notin Clusters
      BY <1>0, <2>1, Fat32Assumption DEF Clusters
    <3>2. Does(F, D, at, {}, <<FatWrite(free[n], Eoc)>>, {free[n]}, {}, z, z)
      BY <3>1, DoesFat
    <3> QED  BY <2>1, <3>2
  <2>2. CASE ~(n = Len(data) /\ n > 0)
    <3>1. Does(F, D, at, {}, <<>>, {}, {}, z, z)
      BY DoesNothing
    <3> QED  BY <2>2, <3>1
  <2> QED  BY <2>1, <2>2
<1>11. B \subseteq A
  <2>1. n > 0 => n \in 1..n
    BY <1>0
  <2> QED  BY <2>1 DEF First
<1> HIDE DEF a, b, A, B, z
<1>12. Does(F, D, at, {}, a \o b, A \union B, A \union {}, fs, z)
  BY <1>9, <1>10, DoesBoth
<1>13. A \union B = A /\ A \union {} = A
  BY <1>11
<1> QED  BY <1>8, <1>12, <1>13 DEF A, z

\* An entry takes two slots at least, and a directory cluster holds every entry.
LEMMA Widths ==
  /\ Slots \in Nat /\ Slots >= 2
  /\ \A n \in Names : Width[n] \in 2..Slots
BY Fat32Assumption

LEMMA EmptyDirIs ==
  /\ EmptyDir \in [dir : {TRUE}, slots : [1..Slots -> Slot], unit : {0}]
  /\ EmptyDir.slots = [i \in 1..Slots |-> Free]
BY DEF EmptyDir, Slot

LEMMA DirSector ==
  ASSUME NEW q \in [1..Slots -> Slot]
  PROVE  /\ [EmptyDir EXCEPT !.slots = q] \in Sector
         /\ [EmptyDir EXCEPT !.slots = q].slots = q
<1> DEFINE d == EmptyDir
<1>1. d \in [dir : {TRUE}, slots : [1..Slots -> Slot], unit : {0}]
  BY EmptyDirIs
<1> HIDE DEF d
<1>2. [d EXCEPT !.slots = q] \in [dir : {TRUE}, slots : [1..Slots -> Slot], unit : {0}]
  BY <1>1
<1>3. [d EXCEPT !.slots = q].slots = q
  BY <1>1
<1> QED  BY <1>2, <1>3 DEF d, Sector

\* init_dir_cluster(): a directory that names nothing.
LEMMA InitDirIs ==
  ASSUME NEW c \in Clusters, NEW parent \in Clusters
  PROVE  /\ InitDir(c, parent) \in Sector /\ InitDir(c, parent).dir
         /\ \A i, d : ~Points(InitDir(c, parent), i, d)
<1> DEFINE e1 == [name |-> ".", short |-> <<".", 0>>, dir |-> TRUE, first |-> c, size |-> 0]
           e2 == [name |-> "..", short |-> <<"..", 0>>, dir |-> TRUE, first |-> parent, size |-> 0]
           s == EmptyDir.slots
           q == [[s EXCEPT ![1] = e1] EXCEPT ![2] = e2]
           r == InitDir(c, parent)
<1>1. e1 \in Slot /\ e2 \in Slot /\ e1.name = "." /\ e2.name = ".."
  <2>0. "." \in ShortNames /\ ".." \in ShortNames
    BY DEF ShortNames
  <2>1. <<".", 0>> \in ShortNames \X (0..9) /\ <<"..", 0>> \in ShortNames \X (0..9)
    BY <2>0
  <2>2. e1.name = "." /\ e2.name = ".."
    OBVIOUS
  <2> DEFINE R == [name : Names \union {".", ".."}, short : ShortNames \X (0..9), dir : {TRUE},
                   first : Clusters, size : Nat]
  <2>3. e1 \in R /\ e2 \in R
    BY <2>1
  <2> HIDE DEF R, e1, e2
  <2>4. R \subseteq Slot
    BY DEF R, Slot
  <2> QED  BY <2>2, <2>3, <2>4
<1>2. s \in [1..Slots -> Slot] /\ \A i \in 1..Slots : s[i].name = "free"
  BY EmptyDirIs DEF Free
<1>3. r = [dir |-> TRUE, slots |-> q, unit |-> 0]
  <2>1. EmptyDir = [dir |-> TRUE, slots |-> s, unit |-> 0]
    BY DEF EmptyDir
  <2>2. r = [EmptyDir EXCEPT !.slots[1] = e1, !.slots[2] = e2]
    BY DEF InitDir
  <2> HIDE DEF e1, e2, s, r
  <2>3. r = [[dir |-> TRUE, slots |-> s, unit |-> 0] EXCEPT !.slots[1] = e1, !.slots[2] = e2]
    BY <2>1, <2>2
  <2> QED  BY <2>3
<1> HIDE DEF e1, e2, s, r
<1>4. q \in [1..Slots -> Slot] /\ \A i \in 1..Slots : q[i].name \in {"free", ".", ".."}
  BY <1>1, <1>2, Widths
<1> HIDE DEF q
<1>5. r \in [dir : {TRUE}, slots : [1..Slots -> Slot], unit : {0}] /\ r.slots = q /\ r.dir
  BY <1>3, <1>4
<1>6. r \in Sector
  BY <1>5 DEF Sector
<1>7. \A i \in DOMAIN r.slots : r.slots[i].name \notin Names
  BY <1>4, <1>5, Fat32Assumption
<1> QED  BY <1>5, <1>6, <1>7 DEF r, Points

\* A name that is written: what create_entry() puts into a directory.
Named == {e \in Slot : e.name \in Names}

\* The slots after an entry was put there.
LEMMA PutEntryIs ==
  ASSUME NEW slots \in [1..Slots -> Slot], NEW at \in Nat, NEW e \in Named
  PROVE  /\ PutEntry(slots, at, e) \in [1..Slots -> Slot]
         /\ \A j \in 1..Slots : PutEntry(slots, at, e)[j].name \in Names =>
              \/ j = at + Width[e.name] - 1 /\ PutEntry(slots, at, e)[j] = e
              \/ PutEntry(slots, at, e)[j] = slots[j]
<1> DEFINE w == Width[e.name]
           r == PutEntry(slots, at, e)
<1>0. w \in Nat /\ e \in Slot /\ Lfn \in Slot /\ Lfn.name \notin Names
  <2>1. w \in Nat /\ e \in Slot
    BY Widths DEF Named
  <2>2. Lfn.name \notin Names
    BY Fat32Assumption DEF Lfn
  <2>3. Lfn \in Slot
    BY DEF Slot
  <2> QED  BY <2>1, <2>2, <2>3
<1>1. r = [j \in 1..Slots |-> IF j = at + w - 1 THEN e
                              ELSE IF j \in at .. at + w - 2 THEN Lfn ELSE slots[j]]
  BY DEF PutEntry
<1> HIDE DEF w, r
<1>2. \A j \in 1..Slots : r[j] = IF j = at + w - 1 THEN e
                                 ELSE IF j \in at .. at + w - 2 THEN Lfn ELSE slots[j]
  BY <1>1
<1>3. r \in [1..Slots -> Slot]
  BY <1>0, <1>1
<1> QED  BY <1>0, <1>2, <1>3 DEF r, w

\* The slot an entry takes among these.
SlotOf(slots, e) == Min(RoomAt(slots, Width[e.name])) + Width[e.name] - 1

LEMMA SlotOfIs ==
  ASSUME NEW slots \in [1..Slots -> Slot], NEW e \in Named, RoomAt(slots, Width[e.name]) # {}
  PROVE  /\ SlotOf(slots, e) \in 1..Slots
         /\ Min(RoomAt(slots, Width[e.name])) \in RoomAt(slots, Width[e.name])
         /\ Min(RoomAt(slots, Width[e.name])) \in Nat
<1> DEFINE w == Width[e.name]
           R == RoomAt(slots, w)
<1>0. w \in 2..Slots /\ Slots \in Nat /\ Len(slots) = Slots
  BY Widths DEF Named
<1>1. R \in SUBSET (1..Slots + 1 - w)
  BY <1>0 DEF RoomAt
<1> HIDE DEF R, w
<1>2. R \in SUBSET Nat /\ R # {}
  BY <1>0, <1>1 DEF R, w
<1>3. Min(R) \in R
  BY <1>2, MinIs
<1>4. Min(R) \in 1..Slots + 1 - w
  BY <1>1, <1>3
<1>5. Min(R) + w - 1 \in 1..Slots /\ Min(R) \in Nat
  BY <1>0, <1>4
<1> QED  BY <1>3, <1>5 DEF SlotOf, R, w

\* An empty directory has room for any entry.
LEMMA RoomInEmpty ==
  ASSUME NEW e \in Named
  PROVE  RoomAt(EmptyDir.slots, Width[e.name]) # {}
<1> DEFINE w == Width[e.name]
           s == EmptyDir.slots
<1>0. w \in 2..Slots /\ Slots \in Nat /\ Len(s) = Slots /\ s = [i \in 1..Slots |-> Free]
  BY Widths, EmptyDirIs DEF Named
<1> HIDE DEF w, s
<1>1. 1 \in 1..Len(s) + 1 - w /\ \A j \in 1..1 + w - 1 : j \in 1..Slots
  BY <1>0
<1>2. \A j \in 1..1 + w - 1 : s[j] = Free
  BY <1>0, <1>1
<1> QED  BY <1>1, <1>2 DEF RoomAt, w, s

\* add_dir_entries() into one sector.
LEMMA DoesEntry ==
  ASSUME NEW F, NEW D, NEW at, NEW K, NEW v, NEW c \in Clusters, NEW slots \in [1..Slots -> Slot],
         NEW e \in Named, RoomAt(slots, Width[e.name]) # {},
         \A i \in 1..Slots, d \in Clusters :
           slots[i].name \in Names /\ slots[i].first = d => Points(D[c], i, d),
         e.first \in Clusters =>
           F[e.first] = 0 /\ at[e.first] = <<c, SlotOf(slots, e)>> /\ e.first \in K
  PROVE  Does(F, D, at, K, EntryWrite(c, slots, e), {}, {c}, v, v)
<1> DEFINE m == Min(RoomAt(slots, Width[e.name]))
           q == PutEntry(slots, m, e)
           s == [EmptyDir EXCEPT !.slots = q]
<1>1. m \in Nat /\ m + Width[e.name] - 1 = SlotOf(slots, e)
  BY SlotOfIs DEF SlotOf
<1>2. EntryWrite(c, slots, e) = <<DiskWrite(c, s)>>
  BY DEF EntryWrite
<1> HIDE DEF m
<1>3. /\ q \in [1..Slots -> Slot]
      /\ \A j \in 1..Slots : q[j].name \in Names =>
           (j = m + Width[e.name] - 1 /\ q[j] = e) \/ q[j] = slots[j]
  BY <1>1, PutEntryIs
<1> HIDE DEF q
<1>4. s \in Sector /\ s.slots = q
  BY <1>3, DirSector
<1> HIDE DEF s
<1>5. ASSUME NEW i \in 1..Slots, NEW d \in Clusters, Points(s, i, d)
      PROVE  Points(D[c], i, d) \/ (F[d] = 0 /\ at[d] = <<c, i>> /\ d \in K)
  <2>1. q[i].name \in Names /\ q[i].first = d
    BY <1>4, <1>5 DEF Points
  <2>2. CASE i = SlotOf(slots, e) /\ q[i] = e
    BY <2>1, <2>2
  <2>3. CASE q[i] = slots[i]
    BY <2>1, <2>3
  <2> QED  BY <1>1, <1>3, <2>1, <2>2, <2>3
<1>6. Does(F, D, at, K, <<DiskWrite(c, s)>>, {}, {c}, v, v)
  BY <1>4, <1>5, DoesDisk
<1> QED  BY <1>2, <1>6

\* A list of clusters a directory can be: it has a first one.
Chained(chain) == chain \in Seq(Clusters) /\ Len(chain) >= 1

\* The cluster add_dir_entries() chooses.
LEMMA RoomyIs ==
  ASSUME DiskOK(disk), NEW chain, Chained(chain), NEW e \in Named,
         Roomy(chain, Width[e.name]) # {}
  PROVE  LET x == chain[Min(Roomy(chain, Width[e.name]))]
         IN  /\ x \in Clusters /\ disk[x].dir /\ disk[x].slots \in [1..Slots -> Slot]
             /\ RoomAt(disk[x].slots, Width[e.name]) # {}
             /\ Min(Roomy(chain, Width[e.name])) \in 1..Len(chain)
<1> DEFINE w == Width[e.name]
           R == Roomy(chain, w)
           m == Min(R)
           x == chain[m]
<1>0. w \in 2..Slots /\ Slots \in Nat
  BY Widths DEF Named
<1>1. R \in SUBSET (1..Len(chain)) /\ \A i \in R : RoomAt(disk[chain[i]].slots, w) # {}
  BY DEF Roomy, Chained
<1>2. R \in SUBSET Nat /\ R # {}
  BY <1>1
<1> HIDE DEF R, w
<1>3. m \in R
  BY <1>2, MinIs
<1> HIDE DEF m
<1>4. x \in Clusters /\ RoomAt(disk[x].slots, w) # {} /\ m \in 1..Len(chain)
  BY <1>1, <1>3 DEF Chained
<1> HIDE DEF x
<1>5. disk[x].dir
  <2> SUFFICES ASSUME ~disk[x].dir PROVE FALSE
    OBVIOUS
  <2>1. disk[x].slots = << >> /\ Len(<< >>) = 0
    BY <1>4, SectorSlots
  <2>2. 1..0 + 1 - w = {}
    BY <1>0
  <2> QED  BY <1>4, <2>1, <2>2 DEF RoomAt
<1>6. disk[x].slots \in [1..Slots -> Slot]
  BY <1>4, <1>5, SectorSlots
<1> QED  BY <1>4, <1>5, <1>6 DEF x, m, R, w

\* Where the name of a new entry will stand.
EntryPlace(free, chain, e, n) ==
  LET roomy == Roomy(chain, Width[e.name])
  IN  IF roomy # {} THEN <<chain[Min(roomy)], SlotOf(disk[chain[Min(roomy)]].slots, e)>>
      ELSE <<free[n + 1], SlotOf(EmptyDir.slots, e)>>

\* add_dir_entries()
LEMMA DoesEntries ==
  ASSUME NEW fs \in InfoSector, DiskOK(disk), NEW F, NEW at, NEW K, NEW free, Fresh(F, free),
         NEW chain, Chained(chain), NEW e \in Named, NEW n \in 0..Len(free), NEW roomy,
         roomy = Roomy(chain, Width[e.name]),
         e.first \in Clusters =>
           F[e.first] = 0 /\ at[e.first] = EntryPlace(free, chain, e, n) /\ e.first \in K,
         roomy = {} => n < Len(free) /\ at[free[n + 1]] = <<Last(chain), 0>>
  PROVE  Does(F, disk, at, K, EntryWrites(fs, free, chain, roomy, e, n),
              IF roomy = {} THEN {free[n + 1], Last(chain)} ELSE {},
              IF roomy = {} THEN {free[n + 1]} ELSE {chain[Min(roomy)]},
              InfoAt(fs, free, n), InfoAt(fs, free, IF roomy = {} THEN n + 1 ELSE n))
<1>1. CASE roomy # {}
  <2> DEFINE x == chain[Min(roomy)]
             s == disk[x].slots
             v == InfoAt(fs, free, n)
  <2>1. x \in Clusters /\ s \in [1..Slots -> Slot] /\ RoomAt(s, Width[e.name]) # {}
    BY <1>1, RoomyIs
  <2>2. e.first \in Clusters => F[e.first] = 0 /\ at[e.first] = <<x, SlotOf(s, e)>> /\ e.first \in K
    BY <1>1 DEF EntryPlace
  <2>3. EntryWrites(fs, free, chain, roomy, e, n) = EntryWrite(x, s, e)
    BY <1>1 DEF EntryWrites
  <2>4. \A i \in 1..Slots, d \in Clusters : s[i].name \in Names /\ s[i].first = d => Points(disk[x], i, d)
    BY <2>1 DEF Points
  <2> HIDE DEF x, s, v
  <2>5. Does(F, disk, at, K, EntryWrite(x, s, e), {}, {x}, v, v)
    BY <2>1, <2>2, <2>4, DoesEntry
  <2> QED  BY <1>1, <2>3, <2>5 DEF x, v
<1>2. CASE roomy = {}
  <2> DEFINE c == free[n + 1]
             l == Last(chain)
             v == InfoAt(fs, free, n)
             z == InfoAt(fs, free, n + 1)
             a == AllocWrites(fs, free, n + 1)
             b1 == <<FatWrite(l, c)>>
             b2 == <<FatWrite(c, Eoc)>>
             b3 == <<DiskWrite(c, EmptyDir)>>
             d == EntryWrite(c, EmptyDir.slots, e)
             L == {c}
  <2>0. n + 1 \in 1..Len(free) /\ (n + 1) - 1 = n /\ free \in Seq(Clusters)
    BY <1>2 DEF Fresh
  <2>1. c \in Clusters /\ F[c] = 0 /\ c \in 0..FatEnd /\ c # 0 /\ l \in Clusters
        /\ Eoc \in 0..FatEnd /\ Eoc # 0 /\ Eoc \notin Clusters /\ at[c] = <<l, 0>>
    BY <1>2, <2>0, Fat32Assumption DEF Fresh, Clusters, Chained, Last
  <2>2. EntryWrites(fs, free, chain, roomy, e, n)
          = (a \o <<FatWrite(l, c), FatWrite(c, Eoc), DiskWrite(c, EmptyDir)>>) \o d
    BY <1>2 DEF EntryWrites
  <2>3. <<FatWrite(l, c), FatWrite(c, Eoc), DiskWrite(c, EmptyDir)>> = (b1 \o b2) \o b3
    OBVIOUS
  <2>4. Does(F, disk, at, K, a, {c}, {}, v, z)
    <3>1. Does(F, disk, at, K, AllocWrites(fs, free, n + 1), {free[n + 1]}, {},
               InfoAt(fs, free, (n + 1) - 1), InfoAt(fs, free, n + 1))
      BY <2>0, DoesAlloc
    <3> QED  BY <2>0, <3>1
  <2>5. Does(F, disk, at, L, b1, {l}, {}, z, z)
    <3>1. c \in L
      OBVIOUS
    <3> HIDE DEF z, c, l, L
    <3> QED  BY <2>1, <3>1, DoesFat
  <2>6. Does(F, disk, at, {}, b2, {c}, {}, z, z)
    <3> HIDE DEF z, c, l
    <3> QED  BY <2>1, DoesFat
  <2>7. Does(F, disk, at, {}, b3, {}, {c}, z, z)
    <3> DEFINE q == EmptyDir
    <3>1. q \in Sector /\ \A i, y : ~Points(q, i, y)
      <4>1. q.slots = [i \in 1..Slots |-> Free] /\ q \in Sector
        BY EmptyDirIs DEF Sector
      <4>2. \A i \in 1..Slots : q.slots[i].name \notin Names
        BY <4>1, Fat32Assumption DEF Free
      <4> QED  BY <4>1, <4>2 DEF Points
    <3> HIDE DEF z, c, l
    <3> QED  BY <2>1, <3>1, DoesDisk
  <2>8. Does(F, disk, at, K, d, {}, {c}, z, z)
    <3> DEFINE s == EmptyDir.slots
    <3>1. s \in [1..Slots -> Slot] /\ RoomAt(s, Width[e.name]) # {} /\ \A i \in 1..Slots : s[i].name \notin Names
      BY EmptyDirIs, RoomInEmpty, Fat32Assumption DEF Free
    <3>2. e.first \in Clusters => F[e.first] = 0 /\ at[e.first] = <<c, SlotOf(s, e)>> /\ e.first \in K
      BY <1>2 DEF EntryPlace
    <3> HIDE DEF z, c, l, s
    <3> QED  BY <2>1, <3>1, <3>2, DoesEntry DEF s
  <2> HIDE DEF a, b1, b2, b3, d, v, z, c, l
  <2>9. Does(F, disk, at, {c}, b1 \o b2, {l} \union {c}, {} \union {}, z, z)
    BY <2>5, <2>6, DoesBoth
  <2>10. Does(F, disk, at, {c}, (b1 \o b2) \o b3, ({l} \union {c}) \union {}, ({} \union {}) \union {c}, z, z)
    BY <2>7, <2>9, DoesBoth
  <2>11. Does(F, disk, at, K, a \o ((b1 \o b2) \o b3), {c} \union (({l} \union {c}) \union {}),
              {} \union (({} \union {}) \union {c}), v, z)
    BY <2>4, <2>10, DoesBoth
  <2>12. Does(F, disk, at, K, (a \o ((b1 \o b2) \o b3)) \o d, ({c} \union (({l} \union {c}) \union {})) \union {},
              ({} \union (({} \union {}) \union {c})) \union {c}, v, z)
    BY <2>8, <2>11, DoesBoth
  <2>13. /\ ({c} \union (({l} \union {c}) \union {})) \union {} = {c, l}
         /\ ({} \union (({} \union {}) \union {c})) \union {c} = {c}
    OBVIOUS
  <2>14. Does(F, disk, at, K, EntryWrites(fs, free, chain, roomy, e, n), {c, l}, {c}, v, z)
    BY <2>2, <2>3, <2>12, <2>13
  <2> QED  BY <1>2, <2>14 DEF c, l, v, z
<1> QED  BY <1>1, <1>2

-----------------------------------------------------------------------------
(* The count of free clusters.                                             *)

\* Cluster c is free once T is written.
Zeroed(F, T, c) ==
  \/ F[c] = 0 /\ \A j \in 1..Len(T) : T[j].k = "fat" /\ T[j].c = c => T[j].v = 0
  \/ \E j \in 1..Len(T) : T[j].k = "fat" /\ T[j].c = c /\ T[j].v = 0

FreeIn(F, T) == {c \in Root..LastData : Zeroed(F, T, c)}

InRange(T) == \A j \in 1..Len(T) : ~OutOfRange(T[j])

\* Unless T is going to fail, nothing behind the data area is or will be allocated,
\* and T leaves in FSInfo, which is v now, the number of free clusters.
Counts(F, v, T) ==
  InRange(T) =>
    /\ \A c \in Clusters : c > LastData => F[c] = 0 /\ ~Touches(T, "fat", c)
    /\ \E w : Leaves(T, v, w) /\ (w.free # Unknown => w.free = Cardinality(FreeIn(F, T)))

\* A list of writes that is planned from the volume as it is.
Proper(F, D, v, T) ==
  /\ T \in Seq(SectorWrite)
  /\ Sound(F, D, T)
  /\ Counts(F, v, << >>) => Counts(F, v, T)

LEMMA Area == /\ LastData \in Nat /\ FatEnd \in Nat /\ Root..LastData \subseteq Clusters
              /\ IsFiniteSet(Root..LastData)
              /\ \A c \in Clusters : c \in Root..LastData <=> ~(c > LastData)
<1>1. LastData \in Nat /\ FatEnd \in Nat /\ LastData <= FatEnd /\ Root <= LastData
  BY Fat32Assumption
<1>2. IsFiniteSet(Root..LastData)
  BY <1>1, FS_Interval
<1> QED  BY <1>1, <1>2 DEF Clusters

\* With nothing to write.
LEMMA CountsNow ==
  ASSUME NEW F, NEW v
  PROVE  /\ FreeIn(F, << >>) = {c \in Root..LastData : F[c] = 0}
         /\ Counts(F, v, << >>) <=>
              /\ \A c \in Clusters : c > LastData => F[c] = 0
              /\ v.free # Unknown => v.free = Cardinality(FreeIn(F, << >>))
<1>0. Len(<< >>) = 0 /\ \A j \in 1..0 : FALSE
  OBVIOUS
<1>1. \A c : Zeroed(F, << >>, c) <=> F[c] = 0
  BY <1>0 DEF Zeroed
<1>2. FreeIn(F, << >>) = {c \in Root..LastData : F[c] = 0}
  BY <1>1 DEF FreeIn
<1>3. InRange(<< >>) /\ \A c : ~Touches(<< >>, "fat", c)
  BY <1>0 DEF InRange, Touches
<1>4. \A w : Leaves(<< >>, v, w) <=> w = v
  BY <1>0 DEF Leaves
<1> QED  BY <1>2, <1>3, <1>4 DEF Counts

LEMMA CountTo ==
  ASSUME NEW m \in Nat
  PROVE  IsFiniteSet(1..m) /\ Cardinality(1..m) = m
BY FS_Interval

\* The clusters that are handed out are as many as their number.
LEMMA FirstIs ==
  ASSUME NEW F, NEW free, Fresh(F, free), NEW m \in 0..Len(free)
  PROVE  /\ IsFiniteSet(First(free, m)) /\ Cardinality(First(free, m)) = m
         /\ First(free, m) \subseteq Clusters /\ \A c \in First(free, m) : F[c] = 0
<1>0. Len(free) \in Nat /\ m \in Nat /\ free \in Seq(Clusters) /\ \A i \in 1..m : i \in 1..Len(free)
  BY DEF Fresh
<1>1. IsFiniteSet(1..m) /\ Cardinality(1..m) = m
  BY <1>0, FS_Interval
<1> DEFINE f == [i \in 1..m |-> free[i]]
           S == First(free, m)
<1>2. f \in Bijection(1..m, S)
  <2>1. f \in [1..m -> S]
    BY DEF First
  <2>2. \A i, j \in 1..m : f[i] = f[j] => i = j
    BY <1>0 DEF Fresh
  <2>3. \A c \in S : \E i \in 1..m : f[i] = c
    BY DEF First
  <2> HIDE DEF f, S
  <2> QED  BY <2>1, <2>2, <2>3 DEF Bijection, Injection, Surjection, IsInjective
<1>3. IsFiniteSet(S) /\ Cardinality(S) = m
  <2> HIDE DEF f, S
  <2>1. ExistsBijection(1..m, S)
    BY <1>2 DEF ExistsBijection
  <2> QED  BY <1>1, <2>1, FS_Bijection
<1>4. \A c \in S : c \in Clusters /\ F[c] = 0
  BY <1>0 DEF First, Fresh
<1> QED  BY <1>3, <1>4

\* Writes that hand out the first m free clusters, each of which is also written,
\* are sound and count.
LEMMA DoesProper ==
  ASSUME FatOK(fat), DiskOK(disk), NEW fs \in InfoSector, Sound(fat, disk, << >>),
         NEW free, Fresh(fat, free), NEW m \in 0..Len(free), NEW at, NEW A, NEW B, NEW T,
         Does(fat, disk, at, {}, T, A, B, fs, InfoAt(fs, free, m)),
         First(free, m) \subseteq A, First(free, m) \subseteq B,
         \A c \in A : c \in First(free, m) \/ fat[c] # 0
  PROVE  Proper(fat, disk, fs, T)
<1> DEFINE S == First(free, m)
           N == FreeIn(fat, << >>)
<1>0. T \in Seq(SectorWrite) /\ Careful(fat, disk, at, {}, T) /\ Leaves(T, fs, InfoAt(fs, free, m))
      /\ \A c \in Clusters : (Touches(T, "fat", c) <=> c \in A) /\ (Touches(T, "disk", c) <=> c \in B)
  BY DEF Does
<1>1. Sound(fat, disk, T)
  BY <1>0, CarefulSound
<1>2. ASSUME Counts(fat, fs, << >>), InRange(T) PROVE Counts(fat, fs, T)
  <2>0. IsFiniteSet(S) /\ Cardinality(S) = m /\ S \subseteq Clusters /\ \A c \in S : fat[c] = 0
    BY FirstIs
  <2>1. /\ N = {c \in Root..LastData : fat[c] = 0}
        /\ \A c \in Clusters : c > LastData => fat[c] = 0
        /\ fs.free # Unknown => fs.free = Cardinality(N)
    BY <1>2, CountsNow
  <2> HIDE DEF S, N
  <2>2. \A c \in B : c \in Clusters => ~(c > LastData)
    BY <1>0, <1>2 DEF InRange, Touches, OutOfRange
  <2>3. S \subseteq N
    BY <2>0, <2>1, <2>2, Area DEF S
  <2>4. \A c \in Clusters : c > LastData => fat[c] = 0 /\ ~Touches(T, "fat", c)
    BY <1>0, <2>1, <2>2 DEF S
  <2>5. FreeIn(fat, T) = N \ S
    <3>1. \A j \in 1..Len(T) : ~(T[j].k = "fat" /\ T[j].v = 0)
      BY <1>0 DEF Careful, Frees
    <3>2. \A c : Zeroed(fat, T, c) <=> fat[c] = 0 /\ ~Touches(T, "fat", c)
      BY <3>1 DEF Zeroed, Touches
    <3>3. \A c \in Root..LastData : Zeroed(fat, T, c) <=> fat[c] = 0 /\ c \notin S
      <4>1. \A c \in Root..LastData : Touches(T, "fat", c) <=> c \in A
        BY <1>0, Area
      <4> QED  BY <3>2, <4>1, <2>0 DEF S
    <3> QED  BY <2>1, <3>3 DEF FreeIn
  <2>6. IsFiniteSet(N) /\ Cardinality(N \ S) = Cardinality(N) - m /\ Cardinality(N) \in Nat /\ m <= Cardinality(N)
    <3>1. IsFiniteSet(N)
      BY <2>1, Area, FS_Subset
    <3>2. Cardinality(N \ S) = Cardinality(N) - Cardinality(N \cap S) /\ N \cap S = S
      BY <2>3, <3>1, FS_Difference
    <3>3. Cardinality(S) <= Cardinality(N)
      BY <2>3, <3>1, FS_Subset
    <3>4. Cardinality(N) \in Nat
      BY <3>1, FS_CardinalityType
    <3> QED  BY <2>0, <3>1, <3>2, <3>3, <3>4
  <2>7. InfoAt(fs, free, m).free # Unknown => InfoAt(fs, free, m).free = Cardinality(N \ S)
    <3>0. m \in Nat /\ -m \in Int
      BY DEF Fresh
    <3>1. CASE fs.on /\ m # 0
      <4>1. InfoAt(fs, free, m).free = FreeAfter(fs, -m)
        <5>1. fs \in [on : {TRUE}, free : Nat \union {Unknown}, next : (Root..FatEnd + 1) \union {Unknown}]
          BY <3>1 DEF InfoSector
        <5> DEFINE y == FreeAfter(fs, -m)
                   q == free[m] + 1
        <5>2. InfoAt(fs, free, m) = [fs EXCEPT !.free = y, !.next = q]
          BY <3>1 DEF InfoAt
        <5> HIDE DEF y, q
        <5>3. [fs EXCEPT !.free = y, !.next = q].free = y
          BY <5>1
        <5> QED  BY <5>2, <5>3 DEF y
      <4>2. fs.free = Unknown => FreeAfter(fs, -m) = Unknown
        BY <3>0, FreeAfterIs
      <4>3. fs.free # Unknown /\ fs.free + (-m) >= 0 => FreeAfter(fs, -m) = fs.free + (-m)
        BY <3>0, FreeAfterIs
      <4>4. CASE fs.free = Unknown
        BY <4>1, <4>2, <4>4
      <4>5. CASE fs.free # Unknown
        BY <2>1, <2>6, <3>0, <4>1, <4>3, <4>5
      <4> QED  BY <4>4, <4>5
    <3>2. CASE m = 0
      <4>1. InfoAt(fs, free, m) = fs
        BY <3>2 DEF InfoAt
      <4> QED  BY <2>1, <2>6, <3>2, <4>1
    <3>3. CASE ~fs.on
      <4>1. InfoAt(fs, free, m) = fs /\ fs.free = Unknown
        BY <3>3 DEF InfoAt, InfoSector
      <4> QED  BY <4>1
    <3> QED  BY <3>1, <3>2, <3>3
  <2> QED  BY <1>0, <2>4, <2>5, <2>7 DEF Counts
<1>3. Counts(fat, fs, << >>) => Counts(fat, fs, T)
  BY <1>2 DEF Counts
<1> QED  BY <1>0, <1>1, <1>3 DEF Proper

-----------------------------------------------------------------------------
(* The plans.                                                              *)

\* The volume is as types and order have it, and nothing is left to write.
Ready == FatOK(fat) /\ DiskOK(disk) /\ info \in InfoSector /\ Sound(fat, disk, << >>)

\* The clusters of a directory: allocated.
Dir(chain) == Chained(chain) /\ \A k \in 1..Len(chain) : fat[chain[k]] # 0

LEMMA ShortNameIs ==
  ASSUME NEW name \in Names, NEW entries
  PROVE  ShortName(name, entries) \in ShortNames \X (0..9)
<1> DEFINE taken == {e.short : e \in Range(entries)}
           unused == {s \in 0..9 : <<Short[name], s>> \notin taken}
<1>1. ShortName(name, entries) = IF unused = {} THEN <<"blank", 0>> ELSE <<Short[name], Min(unused)>>
  BY DEF ShortName
<1>2. Short[name] \in ShortNames /\ "blank" \in ShortNames
  BY DEF ShortNames
<1>3. unused \in SUBSET (0..9)
  OBVIOUS
<1> HIDE DEF unused
<1>4. unused # {} => Min(unused) \in 0..9
  <2>1. unused \in SUBSET Nat
    BY <1>3
  <2> QED  BY <1>3, <2>1, MinIs
<1> QED  BY <1>1, <1>2, <1>4

LEMMA NewEntryIs ==
  ASSUME NEW free \in Seq(Clusters), NEW entries, NEW path \in Seq(Names), path # << >>,
         NEW data \in Seq(Units \union {0}), NEW isDir \in BOOLEAN,
         isDir \/ data # << >> => Len(free) >= 1
  PROVE  LET e == NewEntry(free, entries, path, data, isDir)
         IN  /\ e \in Named /\ e.name = Last(path)
             /\ e.first = IF isDir \/ data # << >> THEN free[1] ELSE 0
<1> DEFINE s == ShortName(Last(path), entries)
           f == IF isDir \/ data # << >> THEN free[1] ELSE 0
           n == Last(path)
           e == NewEntry(free, entries, path, data, isDir)
<1>1. n \in Names
  BY DEF Last
<1>2. s \in ShortNames \X (0..9)
  BY <1>1, ShortNameIs
<1>3. f \in Clusters \union {0} /\ (isDir => f \in Clusters)
  OBVIOUS
<1>4. e = [name |-> n, short |-> s, dir |-> isDir, first |-> f, size |-> Len(data)]
  BY DEF NewEntry
<1>5. Len(data) \in Nat
  OBVIOUS
<1> HIDE DEF s, f, n, e
<1>6. e.name = n /\ e.first = f
  BY <1>4
<1>7. e \in Slot
  <2>1. CASE isDir
    <3>1. e \in [name : Names \union {".", ".."}, short : ShortNames \X (0..9), dir : {TRUE},
                 first : Clusters, size : Nat]
      BY <1>1, <1>2, <1>3, <1>4, <1>5, <2>1
    <3> QED  BY <3>1 DEF Slot
  <2>2. CASE ~isDir
    <3>1. e \in [name : Names \union {".", ".."}, short : ShortNames \X (0..9), dir : {FALSE},
                 first : Clusters \union {0}, size : Nat]
      BY <1>1, <1>2, <1>3, <1>4, <1>5, <2>2
    <3> QED  BY <3>1 DEF Slot
  <2> QED  BY <2>1, <2>2
<1> QED  BY <1>1, <1>6, <1>7 DEF e, f, n, Named

LEMMA Refused == Refuse.todo = << >> /\ Refuse.then = "err"
BY DEF Refuse

LEMMA ProperNothing ==
  ASSUME Ready, NEW fs \in InfoSector
  PROVE  Proper(fat, disk, fs, << >>)
BY DEF Ready, Proper

\* The writes of the body of create_entry(), which hand out and fill have clusters.
LEMMA DoesBody ==
  ASSUME Ready, NEW fs \in InfoSector, NEW free, Fresh(fat, free), NEW chain, Chained(chain),
         NEW data \in Seq(Units \union {0}), NEW isDir \in BOOLEAN, NEW at,
         NEW have \in 0..Len(free), have <= (IF isDir THEN 1 ELSE Len(data)),
         \A i \in 2..have : at[free[i]] = <<free[i - 1], 0>>
  PROVE  Does(fat, disk, at, {},
              IF isDir
              THEN IF have = 0 THEN <<>>
                   ELSE AllocWrites(fs, free, 1) \o <<DiskWrite(free[1], InitDir(free[1], chain[1]))>>
              ELSE DataWrites(fs, free, data, have),
              First(free, have), First(free, have), fs, InfoAt(fs, free, have))
<1> USE DEF Ready
<1>0. free \in Seq(Clusters) /\ Len(free) \in Nat /\ chain[1] \in Clusters
  BY DEF Fresh, Chained
<1>1. CASE ~isDir
  <2>1. Does(fat, disk, at, {}, DataWrites(fs, free, data, have), First(free, have), First(free, have),
             fs, InfoAt(fs, free, have))
    BY <1>1, DoesData
  <2> QED  BY <1>1, <2>1
<1>2. CASE isDir /\ have = 0
  <2>1. First(free, 0) = {} /\ InfoAt(fs, free, 0) = fs
    BY DEF First, InfoAt
  <2>2. Does(fat, disk, at, {}, << >>, {}, {}, fs, fs)
    BY DoesNothing
  <2> QED  BY <1>2, <2>1, <2>2
<1>3. CASE isDir /\ have # 0
  <2>0. have = 1 /\ 1 \in 1..Len(free) /\ free[1] \in Clusters
    BY <1>0, <1>3
  <2>1. First(free, 1) = {free[1]} /\ InfoAt(fs, free, 1 - 1) = fs
    BY DEF First, InfoAt
  <2> DEFINE a == AllocWrites(fs, free, 1)
             s == InitDir(free[1], chain[1])
             b == <<DiskWrite(free[1], s)>>
             z == InfoAt(fs, free, 1)
  <2>2. Does(fat, disk, at, {}, a, {free[1]}, {}, fs, z)
    <3>1. Does(fat, disk, at, {}, AllocWrites(fs, free, 1), {free[1]}, {}, InfoAt(fs, free, 1 - 1), InfoAt(fs, free, 1))
      BY <1>0, <2>0, DoesAlloc
    <3> QED  BY <2>1, <3>1
  <2>3. Does(fat, disk, at, {}, b, {}, {free[1]}, z, z)
    <3>1. s \in Sector /\ \A i, d : ~Points(s, i, d)
      BY <1>0, <2>0, InitDirIs
    <3> HIDE DEF s, z
    <3> QED  BY <2>0, <3>1, DoesDisk
  <2> HIDE DEF a, b, z
  <2>4. Does(fat, disk, at, {}, a \o b, {free[1]} \union {}, {} \union {free[1]}, fs, z)
    BY <2>2, <2>3, DoesBoth
  <2>5. Does(fat, disk, at, {}, a \o b, First(free, have), First(free, have), fs, InfoAt(fs, free, have))
    BY <2>0, <2>1, <2>4 DEF z
  <2> QED  BY <1>3, <2>5 DEF a, b
<1> QED  BY <1>1, <1>2, <1>3

\* create_entry() plans writes that are sound, whatever they are cut short at, and count.
LEMMA CreateProper ==
  ASSUME Ready, NEW fs \in InfoSector, NEW free, Fresh(fat, free), NEW chain, Dir(chain), NEW entries,
         NEW path \in Seq(Names), path # << >>,
         NEW data \in Seq(Units \union {0}), NEW isDir \in BOOLEAN,
         NEW roomy, roomy = Roomy(chain, Width[Last(path)])
  PROVE  LET plan == CreateEntry(fs, free, chain, roomy, entries, path, data, isDir)
         IN  Proper(fat, disk, fs, plan.todo) /\ plan.then \in {"ok", "err"}
<1> USE DEF Ready
<1> DEFINE n == IF isDir THEN 1 ELSE Len(data)
           have == Min({n, Len(free)})
           body == IF isDir
                   THEN IF have = 0 THEN <<>>
                        ELSE AllocWrites(fs, free, 1) \o <<DiskWrite(free[1], InitDir(free[1], chain[1]))>>
                   ELSE DataWrites(fs, free, data, have)
           plan == CreateEntry(fs, free, chain, roomy, entries, path, data, isDir)
           e == NewEntry(free, entries, path, data, isDir)
           at == [c \in Clusters |->
                    IF \E i \in 2..have : c = free[i]
                    THEN <<free[(CHOOSE i \in 2..have : c = free[i]) - 1], 0>>
                    ELSE IF have >= 1 /\ c = free[1] THEN EntryPlace(free, chain, e, have)
                    ELSE <<Last(chain), 0>>]
           same == \E x \in Range(entries) : MatchesExactly(x, Last(path))
           short == Len(free) < n \/ (Len(free) = n /\ roomy = {})
<1>0. /\ free \in Seq(Clusters) /\ Len(free) \in Nat /\ n \in Nat /\ Chained(chain)
      /\ \A i, j \in 1..Len(free) : free[i] = free[j] => i = j
  BY DEF Fresh, Dir
<1> SUFFICES Proper(fat, disk, fs, plan.todo) /\ plan.then \in {"ok", "err"}
  OBVIOUS
<1>1. have \in 0..Len(free) /\ have <= n /\ (~(Len(free) < n) => have = n)
  <2>1. have \in {n, Len(free)} /\ have <= n /\ have <= Len(free)
    <3> DEFINE l == Len(free)
    <3>1. n \in Int /\ l \in Int
      BY <1>0
    <3> HIDE DEF n, l
    <3>2. Min({n, l}) \in {n, l} /\ Min({n, l}) <= n /\ Min({n, l}) <= l
      BY <3>1, MaxIs
    <3> QED  BY <3>2 DEF l
  <2> HIDE DEF have, n
  <2> QED  BY <1>0, <2>1
<1>2. plan = IF same THEN Refuse
             ELSE IF short THEN [todo |-> body, then |-> "err"]
             ELSE [todo |-> body \o EntryWrites(fs, free, chain, roomy, e, n), then |-> "ok"]
  BY DEF CreateEntry
<1> HIDE DEF plan, e, same, short
<1>3. \A i \in 2..have : at[free[i]] = <<free[i - 1], 0>>
  <2> HIDE DEF have
  <2> TAKE i \in 2..have
  <2>1. free[i] \in Clusters /\ i \in 1..Len(free) /\ \A j \in 2..have : j \in 1..Len(free)
    BY <1>0, <1>1
  <2>2. \A j \in 2..have : free[i] = free[j] => j = i
    BY <1>0, <2>1
  <2>3. (CHOOSE j \in 2..have : free[i] = free[j]) = i
    BY <2>2
  <2> QED  BY <2>1, <2>3
<1>4. have >= 1 => at[free[1]] = EntryPlace(free, chain, e, have)
  <2> HIDE DEF have
  <2> HAVE have >= 1
  <2>1. free[1] \in Clusters /\ 1 \in 1..Len(free) /\ \A j \in 2..have : j \in 1..Len(free) /\ j # 1
    BY <1>0, <1>1
  <2>2. ~\E j \in 2..have : free[1] = free[j]
    BY <1>0, <2>1
  <2> QED  BY <2>1, <2>2
<1>5. have < Len(free) => at[free[have + 1]] = <<Last(chain), 0>>
  <2> HIDE DEF have
  <2> HAVE have < Len(free)
  <2> DEFINE c == free[have + 1]
  <2>1. c \in Clusters /\ have + 1 \in 1..Len(free) /\ have \in Nat
        /\ \A j \in 2..have : j \in 1..Len(free) /\ j # have + 1
    BY <1>0, <1>1
  <2>2. ~\E j \in 2..have : c = free[j]
    BY <1>0, <2>1
  <2>3. ~(have >= 1 /\ c = free[1])
    BY <1>0, <1>1, <2>1
  <2> QED  BY <2>1, <2>2, <2>3
<1> HIDE DEF at
<1>6. Does(fat, disk, at, {}, body, First(free, have), First(free, have), fs, InfoAt(fs, free, have))
  <2> HIDE DEF have
  <2> QED  BY <1>0, <1>1, <1>3, DoesBody DEF n
<1> HIDE DEF body, have
<1>7. CASE same
  BY <1>2, <1>7, Refused, ProperNothing
<1>8. CASE ~same /\ short
  <2>1. plan.todo = body /\ plan.then = "err"
    BY <1>2, <1>8
  <2>2. First(free, have) \subseteq First(free, have) /\ \A c \in First(free, have) : c \in First(free, have) \/ fat[c] # 0
    OBVIOUS
  <2>3. Proper(fat, disk, fs, body)
    BY <1>1, <1>6, <2>2, DoesProper
  <2> QED  BY <2>1, <2>3
<1>9. CASE ~same /\ ~short
  <2> DEFINE b == EntryWrites(fs, free, chain, roomy, e, have)
             m == IF roomy = {} THEN have + 1 ELSE have
             A == First(free, have)
             A2 == IF roomy = {} THEN {free[have + 1], Last(chain)} ELSE {}
             B2 == IF roomy = {} THEN {free[have + 1]} ELSE {chain[Min(roomy)]}
             z == InfoAt(fs, free, m)
  <2>0. have = n /\ have \in Nat /\ m \in 0..Len(free) /\ (roomy = {} => have < Len(free))
    <3> HIDE DEF n
    <3> QED  BY <1>0, <1>1, <1>9 DEF short
  <2>1. plan.todo = body \o b /\ plan.then = "ok"
    BY <1>2, <1>9, <2>0
  <2>2. isDir \/ data # << >> => Len(free) >= 1 /\ have >= 1
    BY <1>0, <1>1, <2>0
  <2>3. e \in Named /\ e.name = Last(path) /\ e.first = IF isDir \/ data # << >> THEN free[1] ELSE 0
    BY <1>0, <2>2, NewEntryIs DEF e
  <2>4. e.first \in Clusters => fat[e.first] = 0 /\ at[e.first] = EntryPlace(free, chain, e, have) /\ e.first \in A
    <3>1. 0 \notin Clusters
      BY DEF Clusters
    <3>2. isDir \/ data # << >> => fat[free[1]] = 0 /\ free[1] \in A
      BY <1>0, <2>0, <2>2 DEF Fresh, First
    <3> QED  BY <1>4, <2>2, <2>3, <3>1, <3>2
  <2>5. roomy = Roomy(chain, Width[e.name]) /\ (roomy = {} => have < Len(free) /\ at[free[have + 1]] = <<Last(chain), 0>>)
    BY <1>5, <2>0, <2>3
  <2>6. Does(fat, disk, at, A, b, A2, B2, InfoAt(fs, free, have), z)
    <3> HIDE DEF A, n
    <3> QED  BY <1>0, <1>1, <2>3, <2>4, <2>5, DoesEntries
  <2> HIDE DEF b, A2, B2, z
  <2>7. Does(fat, disk, at, {}, body \o b, A \union A2, A \union B2, fs, z)
    <3> HIDE DEF A
    <3>1. A \subseteq {} \union A
      OBVIOUS
    <3> QED  BY <1>6, <2>6, <3>1, DoesBoth DEF A
  <2>8. /\ First(free, m) \subseteq A \union A2 /\ First(free, m) \subseteq A \union B2
        /\ \A c \in A \union A2 : c \in First(free, m) \/ fat[c] # 0
    <3>1. CASE roomy = {}
      <4>1. m = have + 1 /\ 1..m = (1..have) \union {have + 1}
        BY <2>0, <3>1
      <4>2. First(free, m) = A \union {free[have + 1]}
        BY <4>1 DEF First
      <4>3. fat[Last(chain)] # 0
        BY <1>0 DEF Dir, Chained, Last
      <4> QED  BY <3>1, <4>2, <4>3 DEF A2, B2
    <3>2. CASE roomy # {}
      BY <3>2 DEF A2, B2
    <3> QED  BY <3>1, <3>2
  <2>9. Proper(fat, disk, fs, body \o b)
    <3> DEFINE X == A \union A2
               Y == A \union B2
    <3>1. Does(fat, disk, at, {}, body \o b, X, Y, fs, InfoAt(fs, free, m))
      BY <2>7 DEF z
    <3>2. First(free, m) \subseteq X /\ First(free, m) \subseteq Y /\ \A c \in X : c \in First(free, m) \/ fat[c] # 0
      BY <2>8
    <3> HIDE DEF X, Y, m
    <3> QED  BY <2>0, <3>1, <3>2, DoesProper
  <2> QED  BY <2>1, <2>9
<1> QED  BY <1>7, <1>8, <1>9 DEF plan

\* The clusters of what the entry at place i of c names.
Held(ch, c, i) ==
  /\ ch \in Seq(Clusters)
  /\ \A k \in 1..Len(ch) : fat[ch[k]] # 0
  /\ \A k, l \in 1..Len(ch) : ch[k] = ch[l] => k = l
  /\ Len(ch) >= 1 => Points(disk[c], i, ch[1])
  /\ \A k \in 2..Len(ch) : fat[ch[k - 1]] = ch[k]

\* T writes sector s to c, frees the clusters ch and has then nothing but FSInfo to write.
Deletes(T, c, s, ch) ==
  /\ T \in Seq(SectorWrite)
  /\ Len(T) >= Len(ch) + 1
  /\ T[1] = DiskWrite(c, s)
  /\ \A k \in 1..Len(ch) : T[k + 1] = FatWrite(ch[k], 0)
  /\ \A j \in 1..Len(T) : j > Len(ch) + 1 => T[j].k = "info"

\* The name goes first: when a cluster is freed, nothing refers to it any more.
LEMMA DeletesSound ==
  ASSUME Ready, NEW c \in Clusters, NEW i \in 1..Slots, NEW s \in Sector,
         \A j \in 1..Slots, d \in Clusters : Points(s, j, d) => Points(disk[c], j, d) /\ j # i,
         NEW ch, Held(ch, c, i), NEW T, Deletes(T, c, s, ch)
  PROVE  Sound(fat, disk, T)
<1> USE DEF Ready
<1>0. /\ ch \in Seq(Clusters) /\ Len(ch) \in Nat /\ Len(T) \in Nat /\ Slots \in Nat
      /\ 0 \notin Clusters /\ i # 0 /\ i \in 0..Slots /\ 0 \in 0..Slots
      /\ \A k \in 1..Len(ch) : ch[k] \in Clusters
  BY Fat32Assumption DEF Held, Deletes, Clusters
<1>1. T[1].k = "disk" /\ T[1].c = c /\ T[1].v = s
  BY DEF Deletes, DiskWrite
<1>2. ASSUME NEW k \in 1..Len(ch)
      PROVE  T[k + 1].k = "fat" /\ T[k + 1].c = ch[k] /\ T[k + 1].v = 0
  <2>1. T[k + 1] = FatWrite(ch[k], 0)
    BY DEF Deletes
  <2> QED  BY <2>1 DEF FatWrite
<1>3. \A j \in 1..Len(T) : \/ j = 1
                           \/ j - 1 \in 1..Len(ch) /\ (j - 1) + 1 = j
                           \/ T[j].k = "info"
  BY <1>0 DEF Deletes
<1>4. \A j \in 1..Len(T) : T[j].k = "fat" => j - 1 \in 1..Len(ch) /\ T[j].c = ch[j - 1] /\ T[j].v = 0
  BY <1>1, <1>2, <1>3
<1>5. \A j \in 1..Len(T), x \in Clusters, l \in 0..Slots, d \in Clusters :
        Will(T[j], x, l, d) => x = c /\ l # 0 /\ l # i /\ Now(fat, disk, x, l, d)
  <2> TAKE j \in 1..Len(T), x \in Clusters, l \in 0..Slots, d \in Clusters
  <2> HAVE Will(T[j], x, l, d)
  <2>1. T[j].k # "fat" /\ T[j].k # "info"
    BY <1>0, <1>4 DEF Will
  <2>2. j = 1
    <3>1. ASSUME j - 1 \in 1..Len(ch), (j - 1) + 1 = j PROVE T[j].k = "fat"
      BY <1>2, <3>1
    <3> QED  BY <1>3, <2>1, <3>1
  <2>3. x = c /\ l # 0 /\ Points(s, l, d) /\ l \in 1..Slots
    BY <1>0, <1>1, <2>2 DEF Will
  <2> QED  BY <2>3 DEF Now
<1>6. \A x \in Clusters, l \in 0..Slots, d \in Clusters :
        Refers(fat, disk, T, x, l, d) => Now(fat, disk, x, l, d)
  BY <1>5 DEF Refers
<1>7. \A x \in Clusters, l \in 0..Slots, d \in Clusters : Now(fat, disk, x, l, d) =>
        /\ fat[d] # 0 /\ d # Root
        /\ \A y \in Clusters, k \in 0..Slots : Now(fat, disk, y, k, d) => x = y /\ l = k
  BY DEF Sound, Allocated, OnePlace, Refers
<1>8. OnePlace(fat, disk, T)
  BY <1>6, <1>7 DEF OnePlace
<1>9. Ordered(fat, T)
  BY <1>5, <1>7 DEF Ordered
<1>10. Released(fat, disk, T)
  <2> SUFFICES ASSUME NEW j \in 1..Len(T), Frees(T[j])
               PROVE  /\ T[j].c # Root
                      /\ \A l \in 1..Len(T) : T[l].k = "fat" /\ T[l].c = T[j].c => T[l].v = 0
                      /\ \A x \in Clusters, n \in 0..Slots :
                           /\ \A l \in 1..Len(T) : ~Will(T[l], x, n, T[j].c)
                           /\ Now(fat, disk, x, n, T[j].c) => \E l \in 1..j - 1 : Replaces(T[l], x, n)
    BY DEF Released
  <2> DEFINE k == j - 1
             d == ch[k]
  <2>1. k \in 1..Len(ch) /\ k + 1 = j /\ T[j].c = d /\ d \in Clusters
    BY <1>0, <1>4 DEF Frees
  <2>2. ASSUME k = 1
        PROVE  Now(fat, disk, c, i, d) /\ Replaces(T[1], c, i) /\ 1 \in 1..j - 1
    <3>1. Points(disk[c], i, d)
      BY <2>1, <2>2 DEF Held
    <3> QED  BY <1>0, <1>1, <2>1, <2>2, <3>1 DEF Now, Replaces
  <2>3. ASSUME k # 1
        PROVE  /\ Now(fat, disk, ch[k - 1], 0, d) /\ ch[k - 1] \in Clusters
               /\ Replaces(T[k], ch[k - 1], 0) /\ k \in 1..j - 1
    <3>1. k \in 2..Len(ch) /\ k - 1 \in 1..Len(ch) /\ (k - 1) + 1 = k
      BY <1>0, <2>1, <2>3
    <3>2. fat[ch[k - 1]] = d /\ ch[k - 1] \in Clusters
      BY <1>0, <3>1 DEF Held
    <3>3. T[k].k = "fat" /\ T[k].c = ch[k - 1] /\ T[k].v = 0
      BY <1>2, <3>1
    <3> QED  BY <2>1, <3>1, <3>2, <3>3 DEF Now, Replaces
  <2> HIDE DEF k, d
  <2>4. d # Root
    BY <1>0, <1>7, <2>1, <2>2, <2>3
  <2>5. \A l \in 1..Len(T) : T[l].k = "fat" => T[l].v = 0
    BY <1>4
  <2>6. ASSUME NEW x \in Clusters, NEW n \in 0..Slots
        PROVE  /\ \A l \in 1..Len(T) : ~Will(T[l], x, n, d)
               /\ Now(fat, disk, x, n, d) => \E l \in 1..j - 1 : Replaces(T[l], x, n)
    <3>1. CASE k = 1
      BY <1>0, <1>5, <1>7, <2>1, <2>2, <3>1
    <3>2. CASE k # 1
      BY <1>0, <1>5, <1>7, <2>1, <2>3, <3>2
    <3> QED  BY <3>1, <3>2
  <2> QED  BY <2>1, <2>4, <2>5, <2>6
<1> QED  BY <1>8, <1>9, <1>10 DEF Sound

\* What delete_entry() frees it adds to the count.
LEMMA DeletesProper ==
  ASSUME Ready, NEW fs \in InfoSector, NEW c \in Clusters, fat[c] # 0, NEW i \in 1..Slots, NEW s \in Sector,
         \A j \in 1..Slots, d \in Clusters : Points(s, j, d) => Points(disk[c], j, d) /\ j # i,
         NEW ch, Held(ch, c, i), NEW T, Deletes(T, c, s, ch), NEW z, Leaves(T, fs, z),
         z.free # Unknown => fs.free # Unknown /\ z.free = fs.free + Len(ch)
  PROVE  Proper(fat, disk, fs, T)
<1> USE DEF Ready
<1> DEFINE S == First(ch, Len(ch))
           N == FreeIn(fat, << >>)
<1>0. /\ ch \in Seq(Clusters) /\ Len(ch) \in Nat /\ Len(T) \in Nat /\ Len(T) >= Len(ch) + 1
      /\ \A k \in 1..Len(ch) : ch[k] \in Clusters
  BY DEF Held, Deletes
<1>1. Sound(fat, disk, T)
  BY DeletesSound
<1>2. ASSUME NEW k \in 1..Len(ch)
      PROVE  k + 1 \in 1..Len(T) /\ T[k + 1].k = "fat" /\ T[k + 1].c = ch[k] /\ T[k + 1].v = 0
  <2>1. T[k + 1] = FatWrite(ch[k], 0)
    BY DEF Deletes
  <2>2. k + 1 \in 1..Len(T)
    BY <1>0
  <2> QED  BY <2>1, <2>2 DEF FatWrite
<1>3. \A j \in 1..Len(T) : \/ j = 1 /\ T[j].k = "disk" /\ T[j].c = c
                           \/ j - 1 \in 1..Len(ch) /\ (j - 1) + 1 = j
                           \/ T[j].k = "info"
  BY <1>0 DEF Deletes, DiskWrite
<1>4. ASSUME NEW j \in 1..Len(T), T[j].k = "fat"
      PROVE  j - 1 \in 1..Len(ch) /\ T[j].c = ch[j - 1] /\ T[j].v = 0
  <2>1. j - 1 \in 1..Len(ch) /\ (j - 1) + 1 = j
    BY <1>3, <1>4
  <2> QED  BY <1>2, <2>1
<1>5. ASSUME Counts(fat, fs, << >>) PROVE Counts(fat, fs, T)
  <2>1. /\ N = {d \in Root..LastData : fat[d] = 0}
        /\ \A d \in Clusters : d > LastData => fat[d] = 0
        /\ fs.free # Unknown => fs.free = Cardinality(N)
    BY <1>5, CountsNow
  <2> HIDE DEF N
  <2>2. \A d \in S : d \in Clusters /\ fat[d] # 0
    BY <1>0 DEF First, Held
  <2>3. S \subseteq Root..LastData
    BY <2>1, <2>2, Area
  <2>4. \A d : Touches(T, "fat", d) <=> d \in S
    <3>1. ASSUME NEW d, Touches(T, "fat", d) PROVE d \in S
      BY <1>4, <3>1 DEF Touches, First
    <3>2. ASSUME NEW k \in 1..Len(ch) PROVE Touches(T, "fat", ch[k])
      BY <1>2 DEF Touches
    <3> QED  BY <3>1, <3>2 DEF First
  <2>5. \A d : Zeroed(fat, T, d) <=> fat[d] = 0 \/ d \in S
    <3>1. \A j \in 1..Len(T) : T[j].k = "fat" => T[j].v = 0
      BY <1>4
    <3>2. \A d : Zeroed(fat, T, d) <=> fat[d] = 0 \/ Touches(T, "fat", d)
      BY <3>1 DEF Zeroed, Touches
    <3> QED  BY <2>4, <3>2
  <2>6. FreeIn(fat, T) = N \union S
    <3> HIDE DEF S
    <3> QED  BY <2>1, <2>3, <2>5 DEF FreeIn
  <2>7. \A d \in Clusters : d > LastData => fat[d] = 0 /\ ~Touches(T, "fat", d)
    <3> HIDE DEF S
    <3> QED  BY <2>1, <2>2, <2>4
  <2>8. IsFiniteSet(S) /\ Cardinality(S) = Len(ch)
    <3>1. IsFiniteSet(1..Len(ch)) /\ Cardinality(1..Len(ch)) = Len(ch)
      BY <1>0, CountTo
    <3> DEFINE f == [k \in 1..Len(ch) |-> ch[k]]
    <3>2. f \in [1..Len(ch) -> S] /\ \A d \in S : \E k \in 1..Len(ch) : f[k] = d
      BY DEF First
    <3>3. \A k, l \in 1..Len(ch) : f[k] = f[l] => k = l
      BY DEF Held
    <3> HIDE DEF f, S
    <3>4. ExistsBijection(1..Len(ch), S)
      BY <3>2, <3>3 DEF ExistsBijection, Bijection, Injection, Surjection, IsInjective
    <3> QED  BY <3>1, <3>4, FS_Bijection
  <2> HIDE DEF S
  <2>9. Cardinality(N \union S) = Cardinality(N) + Len(ch)
    <3>1. IsFiniteSet(N) /\ N \cap S = {}
      BY <2>1, <2>2, Area, FS_Subset
    <3>2. Cardinality(N \union S) = Cardinality(N) + Cardinality(S) - Cardinality(N \cap S)
      BY <2>8, <3>1, FS_Union
    <3>3. Cardinality(N \cap S) = 0 /\ Cardinality(N) \in Nat
      BY <3>1, FS_EmptySet, FS_CardinalityType
    <3> QED  BY <1>0, <2>8, <3>2, <3>3
  <2>10. z.free # Unknown => z.free = Cardinality(FreeIn(fat, T))
    BY <2>1, <2>6, <2>9
  <2> QED  BY <2>7, <2>10 DEF Counts
<1> QED  BY <1>1, <1>5 DEF Proper, Deletes

\* The slots after an entry was cleared.
LEMMA ClearEntryIs ==
  ASSUME NEW slots \in [1..Slots -> Slot], NEW i \in 1..Slots, slots[i].name \in Names
  PROVE  /\ ClearEntry(slots, i) \in [1..Slots -> Slot]
         /\ \A j \in 1..Slots : ClearEntry(slots, i)[j] = Free \/ ClearEntry(slots, i)[j] = slots[j]
         /\ ClearEntry(slots, i)[i] = Free
<1> DEFINE w == Width[slots[i].name]
           r == ClearEntry(slots, i)
<1>0. w \in Nat /\ w >= 2 /\ i \in Nat /\ Free \in Slot
  BY Widths DEF Slot
<1>1. r = [j \in 1..Slots |-> IF j \in i + 1 - w .. i THEN Free ELSE slots[j]]
  BY DEF ClearEntry
<1> HIDE DEF w, r
<1>2. i \in i + 1 - w .. i
  BY <1>0
<1> QED  BY <1>0, <1>1, <1>2 DEF r

\* delete_entry() plans writes that are sound and count.
LEMMA DeleteProper ==
  ASSUME Ready, NEW fs \in InfoSector, NEW c \in Clusters, fat[c] # 0, NEW i \in DOMAIN disk[c].slots,
         disk[c].slots[i].name \in Names, NEW isDir
  PROVE  LET plan == DeleteEntry(fs, c, i, disk[c].slots[i], isDir)
         IN  Proper(fat, disk, fs, plan.todo) /\ plan.then \in {"ok", "err"}
<1> DEFINE e == disk[c].slots[i]
           q == ClearEntry(disk[c].slots, i)
           s == [disk[c] EXCEPT !.slots = q]
           a == <<DiskWrite(c, s)>>
           ch == IF e.first = 0 THEN << >> ELSE Chain(Volume, e.first)
           b == IF e.first = 0 THEN <<>> ELSE FreeWrites(fs, Chain(Volume, e.first))
           plan == DeleteEntry(fs, c, i, e, isDir)
           refused == e.dir # isDir \/ (isDir /\ ~IsDirEmpty(e.first))
<1> SUFFICES Proper(fat, disk, fs, plan.todo) /\ plan.then \in {"ok", "err"}
  OBVIOUS
<1>1. plan = IF refused THEN Refuse ELSE [todo |-> a \o b, then |-> "ok"]
  BY DEF DeleteEntry
<1>2. CASE refused
  <2> HIDE DEF plan, refused
  <2> QED  BY <1>1, <1>2, Refused, ProperNothing
<1>3. CASE ~refused
  <2>0. plan.todo = a \o b /\ plan.then = "ok"
    <3> HIDE DEF plan, refused, a, b
    <3> QED  BY <1>1, <1>3
  <2>1. /\ disk[c] \in [dir : {TRUE}, slots : [1..Slots -> Slot], unit : {0}]
        /\ i \in 1..Slots /\ disk[c].slots \in [1..Slots -> Slot]
    <3>1. disk[c].dir /\ DOMAIN disk[c].slots = 1..Slots
      <4>1. DOMAIN << >> = {}
        OBVIOUS
      <4> QED  BY <4>1, SectorSlots DEF Ready
    <3>2. disk[c] \in Sector
      BY DEF Ready, DiskOK
    <3>3. disk[c] \in [dir : {TRUE}, slots : [1..Slots -> Slot], unit : {0}]
      BY <3>1, <3>2 DEF Sector
    <3> QED  BY <3>1, <3>3
  <2>2. /\ q \in [1..Slots -> Slot] /\ q[i] = Free
        /\ \A j \in 1..Slots : q[j] = Free \/ q[j] = disk[c].slots[j]
    BY <2>1, ClearEntryIs
  <2>3. s \in Sector /\ s.slots = q
    <3> HIDE DEF q
    <3>1. s \in [dir : {TRUE}, slots : [1..Slots -> Slot], unit : {0}] /\ s.slots = q
      BY <2>1, <2>2
    <3> QED  BY <3>1 DEF Sector
  <2>4. \A j \in 1..Slots, d \in Clusters : Points(s, j, d) => Points(disk[c], j, d) /\ j # i
    <3>1. Free.name \notin Names
      BY Fat32Assumption DEF Free
    <3> HIDE DEF q, s
    <3> QED  BY <2>1, <2>2, <2>3, <3>1 DEF Points
  <2>5. e.first \in Heads(fat) \union {0}
    BY EntryHeads DEF Ready
  <2>6. Held(ch, c, i)
    <3>1. CASE e.first = 0
      <4>1. ch = << >> /\ Len(<< >>) = 0 /\ << >> \in Seq(Clusters)
        BY <3>1
      <4> HIDE DEF ch
      <4> QED  BY <4>1 DEF Held
    <3>2. CASE e.first # 0
      <4> DEFINE h == e.first
      <4>1. h \in Clusters /\ fat[h] # 0 /\ Loose(fat, h) /\ Volume.fat = fat
        BY <2>5, <3>2 DEF Heads, Volume
      <4>2. ch = Chain(Volume, h)
        BY <3>2
      <4>3. Points(disk[c], i, h)
        BY DEF Points
      <4> HIDE DEF h, ch
      <4>4. ChainFrom(fat, h, ch)
        BY <4>1, <4>2, ChainIs DEF Ready
      <4>5. \A k, l \in 1..Len(ch) : ch[k] = ch[l] => k = l
        BY <4>1, <4>4, ChainInjective, SoundChains DEF Ready
      <4>6. \A k \in 1..Len(ch) : fat[ch[k]] # 0
        BY <4>1, <4>4, ChainAllocated DEF Ready
      <4>7. ch \in Seq(Clusters) /\ ch[1] = h
        BY <4>4 DEF ChainFrom
      <4>8. ASSUME NEW k \in 2..Len(ch) PROVE fat[ch[k - 1]] = ch[k]
        <5>1. k - 1 \in 1..Len(ch) - 1 /\ (k - 1) + 1 = k
          BY <4>7
        <5> QED  BY <4>4, <5>1 DEF ChainFrom
      <4> QED  BY <4>3, <4>5, <4>6, <4>7, <4>8 DEF Held
    <3> QED  BY <3>1, <3>2
  <2> DEFINE m == Len(ch)
             T == a \o b
             f == [k \in DOMAIN ch |-> FatWrite(ch[k], 0)]
             z == [fs EXCEPT !.free = FreeAfter(fs, m), !.next = ch[1]]
             g == IF fs.on /\ e.first # 0 THEN <<InfoWrite(z)>> ELSE << >>
  <2>7. ch \in Seq(Clusters) /\ m \in Nat /\ DOMAIN ch = 1..m /\ \A k \in 1..m : ch[k] \in Clusters
    <3>1. ch \in Seq(Clusters)
      BY <2>6 DEF Held
    <3> HIDE DEF ch
    <3> QED  BY <3>1
  <2>8. b = f \o g
    <3>1. CASE e.first = 0
      <4>1. f = << >> /\ g = << >> /\ b = << >>
        BY <3>1
      <4>2. << >> \o << >> = << >>
        OBVIOUS
      <4> HIDE DEF f, g, b
      <4> QED  BY <4>1, <4>2
    <3>2. CASE e.first # 0
      BY <3>2 DEF FreeWrites
    <3> QED  BY <3>1, <3>2
  <2>9. fs.on /\ e.first # 0 => z \in InfoSector /\ z.free = FreeAfter(fs, m)
    <3> HAVE fs.on /\ e.first # 0
    <3>1. fs \in [on : {TRUE}, free : Nat \union {Unknown}, next : (Root..FatEnd + 1) \union {Unknown}]
      BY DEF InfoSector, Ready
    <3>2. FreeAfter(fs, m) \in Nat \union {Unknown}
      BY <2>7, FreeAfterIs DEF Ready
    <3>3. ch[1] \in Root..FatEnd + 1
      <4>1. Chain(Volume, e.first)[1] \in Clusters
        <5>1. e.first \in Clusters /\ Volume.fat = fat
          BY <2>5 DEF Heads, Volume
        <5>2. ChainFrom(fat, e.first, Chain(Volume, e.first))
          BY <5>1, ChainIs DEF Ready
        <5> QED  BY <5>1, <5>2 DEF ChainFrom
      <4> QED  BY <4>1, Fat32Assumption DEF Clusters
    <3> DEFINE y == FreeAfter(fs, m)
               x == ch[1]
    <3> HIDE DEF y, x
    <3>4. [fs EXCEPT !.free = y, !.next = x] \in
            [on : {TRUE}, free : Nat \union {Unknown}, next : (Root..FatEnd + 1) \union {Unknown}]
      BY <3>1, <3>2, <3>3 DEF y, x
    <3>5. [fs EXCEPT !.free = y, !.next = x].free = y
      BY <3>1
    <3> QED  BY <3>4, <3>5 DEF y, x, InfoSector
  <2> HIDE DEF ch, z, s, e, b
  <2>10. /\ a \in Seq(SectorWrite) /\ Len(a) = 1 /\ a[1] = DiskWrite(c, s) /\ a[1].k = "disk"
         /\ f \in Seq(SectorWrite) /\ Len(f) = m /\ \A k \in 1..m : f[k] = FatWrite(ch[k], 0) /\ f[k].k = "fat"
         /\ g \in Seq(SectorWrite) /\ \A k \in 1..Len(g) : g[k].k = "info"
    <3>1. DiskWrite(c, s) \in SectorWrite /\ DiskWrite(c, s).k = "disk"
      BY <2>3 DEF DiskWrite, SectorWrite
    <3>2. \A k \in 1..m : FatWrite(ch[k], 0) \in SectorWrite /\ FatWrite(ch[k], 0).k = "fat"
      BY <2>7, Fat32Assumption DEF FatWrite, SectorWrite
    <3>3. f \in Seq(SectorWrite) /\ Len(f) = m /\ \A k \in 1..m : f[k] = FatWrite(ch[k], 0)
      BY <2>7, <3>2
    <3>4. g \in Seq(SectorWrite) /\ \A k \in 1..Len(g) : g[k].k = "info"
      <4>1. CASE fs.on /\ e.first # 0
        <5> DEFINE w == InfoWrite(z)
        <5>1. w \in SectorWrite /\ w.k = "info"
          BY <2>9, <4>1 DEF InfoWrite, SectorWrite
        <5> HIDE DEF w
        <5>2. <<w>> \in Seq(SectorWrite) /\ \A k \in 1..Len(<<w>>) : <<w>>[k].k = "info"
          BY <5>1
        <5> QED  BY <4>1, <5>2 DEF w
      <4>2. CASE ~(fs.on /\ e.first # 0)
        <5>1. << >> \in Seq(SectorWrite) /\ \A k \in 1..Len(<< >>) : FALSE
          OBVIOUS
        <5> QED  BY <4>2, <5>1
      <4> QED  BY <4>1, <4>2
    <3> HIDE DEF f, g
    <3> QED  BY <3>1, <3>2, <3>3, <3>4
  <2> DEFINE h == a \o f
  <2>11. T = h \o g
    <3> HIDE DEF a, f, g
    <3> QED  BY <2>8, <2>10, ConcatAssociative
  <2> HIDE DEF a, f, g, T, m
  <2>12. /\ h \in Seq(SectorWrite) /\ Len(h) = m + 1 /\ h[1] = DiskWrite(c, s)
         /\ \A k \in 1..m : h[k + 1] = FatWrite(ch[k], 0) /\ k + 1 \in 1..Len(h)
         /\ \A k \in 1..Len(h) : h[k].k # "info"
    <3>1. /\ h \in Seq(SectorWrite) /\ Len(h) = Len(a) + Len(f)
          /\ \A k \in 1..Len(a) + Len(f) : h[k] = IF k <= Len(a) THEN a[k] ELSE f[k - Len(a)]
      BY <2>10, ConcatProperties
    <3> HIDE DEF h
    <3>2. ASSUME NEW k \in 1..m PROVE h[k + 1] = f[k] /\ k + 1 \in 1..Len(h)
      <4>1. k + 1 \in 1..1 + m /\ ~(k + 1 <= 1) /\ (k + 1) - 1 = k
        BY <2>7 DEF m
      <4> QED  BY <2>10, <3>1, <4>1
    <3>3. Len(h) = m + 1 /\ h[1] = DiskWrite(c, s)
      BY <2>7, <2>10, <3>1 DEF m
    <3>4. ASSUME NEW k \in 1..Len(h) PROVE h[k].k # "info"
      <4>1. CASE k = 1
        BY <2>10, <3>3, <4>1
      <4>2. CASE k # 1
        <5>1. k - 1 \in 1..m /\ (k - 1) + 1 = k
          BY <2>7, <3>3, <4>2 DEF m
        <5> QED  BY <2>10, <3>2, <5>1
      <4> QED  BY <4>1, <4>2
    <3> QED  BY <2>10, <3>1, <3>2, <3>3, <3>4
  <2> HIDE DEF h
  <2>13. /\ T \in Seq(SectorWrite) /\ Len(T) = Len(h) + Len(g)
         /\ \A k \in 1..Len(h) + Len(g) : T[k] = IF k <= Len(h) THEN h[k] ELSE g[k - Len(h)]
    <3> DEFINE r == h \o g
    <3>0. h \in Seq(SectorWrite) /\ g \in Seq(SectorWrite)
      BY <2>10, <2>12
    <3>1. /\ r \in Seq(SectorWrite) /\ Len(r) = Len(h) + Len(g)
          /\ \A k \in 1..Len(h) + Len(g) : r[k] = IF k <= Len(h) THEN h[k] ELSE g[k - Len(h)]
      BY <3>0, ConcatProperties
    <3>2. T = r
      BY <2>11
    <3> HIDE DEF r
    <3> QED  BY <3>1, <3>2
  <2>14. Deletes(T, c, s, ch)
    <3>0. Len(h) \in Nat /\ Len(g) \in Nat /\ Len(h) = m + 1 /\ m \in Nat
      BY <2>7, <2>10, <2>12 DEF m
    <3>1. T[1] = DiskWrite(c, s)
      BY <2>12, <2>13, <3>0
    <3>2. ASSUME NEW k \in 1..m PROVE T[k + 1] = FatWrite(ch[k], 0)
      BY <2>12, <2>13, <3>0
    <3>3. ASSUME NEW j \in 1..Len(T), j > m + 1 PROVE T[j].k = "info"
      <4>1. j - Len(h) \in 1..Len(g) /\ ~(j <= Len(h))
        BY <2>13, <3>0, <3>3
      <4> QED  BY <2>10, <2>13, <4>1
    <3> QED  BY <2>13, <3>0, <3>1, <3>2, <3>3 DEF Deletes, m
  <2> DEFINE v == IF fs.on /\ e.first # 0 THEN z ELSE fs
  <2>15. Leaves(T, fs, v)
    <3>0. Len(h) \in Nat /\ Len(g) \in Nat
      BY <2>10, <2>12
    <3>1. CASE fs.on /\ e.first # 0
      <4>1. Len(g) = 1 /\ g[1].k = "info" /\ g[1].v = z
        BY <3>1 DEF g, InfoWrite
      <4> DEFINE j == Len(h) + 1
      <4>2. j \in 1..Len(T) /\ j = Len(T)
        BY <2>13, <3>0, <4>1
      <4>3. T[j] = g[1]
        BY <2>13, <3>0, <4>1
      <4> HIDE DEF j
      <4>4. \A l \in 1..Len(T) : l <= j
        BY <4>2
      <4> QED  BY <3>1, <4>1, <4>2, <4>3, <4>4 DEF Leaves
    <3>2. CASE ~(fs.on /\ e.first # 0)
      <4>1. Len(g) = 0
        BY <3>2 DEF g
      <4>2. \A k \in 1..Len(T) : k \in 1..Len(h) /\ T[k] = h[k]
        BY <2>13, <3>0, <4>1
      <4>3. \A k \in 1..Len(T) : T[k].k # "info"
        BY <2>12, <4>2
      <4> QED  BY <3>2, <4>3 DEF Leaves
    <3> QED  BY <3>1, <3>2
  <2>16. v.free # Unknown => fs.free # Unknown /\ v.free = fs.free + m
    <3>0. m \in Nat /\ m \in Int
      BY <2>7 DEF m
    <3>1. CASE fs.on /\ e.first # 0
      <4>1. z.free = FreeAfter(fs, m)
        BY <2>9, <3>1
      <4>2. /\ fs.free = Unknown => FreeAfter(fs, m) = Unknown
            /\ fs.free # Unknown /\ fs.free + m >= 0 => FreeAfter(fs, m) = fs.free + m
            /\ fs.free \in Nat \union {Unknown}
        BY <3>0, FreeAfterIs DEF Ready
      <4> QED  BY <3>0, <3>1, <4>1, <4>2
    <3>2. CASE ~fs.on
      <4>1. fs.free = Unknown
        BY <3>2 DEF InfoSector, Ready
      <4> QED  BY <3>2, <4>1
    <3>3. CASE e.first = 0
      <4>1. m = 0
        BY <3>3 DEF m, ch
      <4>2. fs.free \in Nat \union {Unknown}
        BY <3>0, FreeAfterIs DEF Ready
      <4> QED  BY <3>3, <4>1, <4>2
    <3> QED  BY <3>1, <3>2, <3>3
  <2> HIDE DEF v
  <2>17. Proper(fat, disk, fs, T)
    BY <2>1, <2>3, <2>4, <2>6, <2>14, <2>15, <2>16, DeletesProper DEF m
  <2> QED  BY <2>0, <2>17 DEF T
<1> QED  BY <1>2, <1>3

\* The clusters of a directory that was found.
LEMMA FoundDir ==
  ASSUME Ready, NEW path \in Seq(Names), path # << >>, DirCluster(Volume, Front(path)) # 0
  PROVE  Dir(Chain(Volume, DirCluster(Volume, Front(path))))
<1> DEFINE c == DirCluster(Volume, Front(path))
           s == Chain(Volume, c)
<1>0. Volume.fat = fat /\ Volume.disk = disk
  BY DEF Volume
<1>1. Len(Front(path)) \in Nat
  BY DEF Front
<1>2. c \in Heads(fat)
  BY <1>0, <1>1, DirFound DEF Ready
<1> HIDE DEF c
<1>3. c \in Clusters /\ fat[c] # 0
  BY <1>2 DEF Heads
<1>4. ChainFrom(fat, c, s)
  BY <1>0, <1>3, ChainIs DEF Ready
<1> HIDE DEF s
<1>5. \A k \in 1..Len(s) : s[k] \in Clusters /\ fat[s[k]] # 0
  BY <1>3, <1>4, ChainAllocated DEF Ready
<1>6. s \in Seq(Clusters) /\ Len(s) >= 1
  BY <1>4 DEF ChainFrom
<1> QED  BY <1>5, <1>6 DEF Dir, Chained, c, s

LEMMA CreatePlanProper ==
  ASSUME Ready, NEW fs \in InfoSector, NEW path \in Seq(Names), NEW data \in Seq(Units \union {0}), NEW isDir \in BOOLEAN
  PROVE  LET plan == CreatePlan(fs, path, data, isDir)
         IN  Proper(fat, disk, fs, plan.todo) /\ plan.then \in {"ok", "err"}
<1> DEFINE c == DirCluster(Volume, Front(path))
           chain == Chain(Volume, c)
           free == FreeOrder(fs)
           roomy == Roomy(chain, Width[Last(path)])
           entries == FlattenSeq([i \in DOMAIN chain |-> EntriesOf(Volume, chain[i])])
           plan == CreatePlan(fs, path, data, isDir)
<1> SUFFICES Proper(fat, disk, fs, plan.todo) /\ plan.then \in {"ok", "err"}
  OBVIOUS
<1>1. CASE path = << >> \/ c = 0 \/ ~Readable(chain)
  <2>1. plan = Refuse
    BY <1>1 DEF CreatePlan
  <2> QED  BY <2>1, Refused, ProperNothing
<1>2. CASE path # << >> /\ c # 0 /\ Readable(chain)
  <2>1. plan = CreateEntry(fs, free, chain, roomy, entries, path, data, isDir)
    BY <1>2 DEF CreatePlan
  <2>2. Dir(chain)
    BY <1>2, FoundDir
  <2>3. Fresh(fat, free)
    BY FreeOrderIs DEF Ready
  <2>4. roomy = Roomy(chain, Width[Last(path)])
    OBVIOUS
  <2> HIDE DEF chain, free, roomy, entries, plan
  <2>5. /\ Proper(fat, disk, fs, CreateEntry(fs, free, chain, roomy, entries, path, data, isDir).todo)
        /\ CreateEntry(fs, free, chain, roomy, entries, path, data, isDir).then \in {"ok", "err"}
    BY <1>2, <2>2, <2>3, <2>4, CreateProper
  <2> QED  BY <2>1, <2>5
<1> QED  BY <1>1, <1>2

LEMMA DeletePlanProper ==
  ASSUME Ready, NEW fs \in InfoSector, NEW path \in Seq(Names), NEW isDir
  PROVE  LET plan == DeletePlan(fs, path, isDir)
         IN  Proper(fat, disk, fs, plan.todo) /\ plan.then \in {"ok", "err"}
<1> DEFINE c == DirCluster(Volume, Front(path))
           chain == Chain(Volume, c)
           hits(d) == {i \in DOMAIN disk[d].slots :
                         /\ disk[d].slots[i] \notin {Free, Lfn}
                         /\ MatchesExactly(disk[d].slots[i], Last(path))}
           found == {n \in DOMAIN chain : hits(chain[n]) # {}}
           plan == DeletePlan(fs, path, isDir)
<1> SUFFICES Proper(fat, disk, fs, plan.todo) /\ plan.then \in {"ok", "err"}
  OBVIOUS
<1>1. CASE path = << >> \/ c = 0 \/ found = {}
  <2>1. plan = Refuse
    BY <1>1 DEF DeletePlan
  <2> QED  BY <2>1, Refused, ProperNothing
<1>2. CASE path # << >> /\ c # 0 /\ found # {}
  <2> DEFINE n == Min(found)
             d == chain[n]
             i == Min(hits(d))
  <2>1. plan = DeleteEntry(fs, d, i, disk[d].slots[i], isDir)
    BY <1>2 DEF DeletePlan
  <2>2. Dir(chain)
    BY <1>2, FoundDir
  <2> HIDE DEF chain, plan
  <2>3. found \in SUBSET (1..Len(chain)) /\ \A m \in found : hits(chain[m]) # {}
    BY <2>2 DEF Dir, Chained
  <2> HIDE DEF found
  <2>4. n \in found
    <3>1. found \in SUBSET Nat
      BY <2>3
    <3> QED  BY <1>2, <3>1, MinIs
  <2> HIDE DEF n
  <2>5. d \in Clusters /\ fat[d] # 0 /\ hits(d) # {}
    BY <2>2, <2>3, <2>4 DEF Dir, Chained
  <2> HIDE DEF d
  <2>6. i \in hits(d)
    <3> DEFINE H == hits(d)
    <3>1. DOMAIN disk[d].slots \subseteq 1..Slots
      BY <2>5, SectorSlots DEF Ready
    <3>2. H \in SUBSET Nat /\ H # {}
      BY <2>5, <3>1, Fat32Assumption
    <3> HIDE DEF H
    <3>3. Min(H) \in H
      BY <3>2, MinIs
    <3> QED  BY <3>3 DEF H
  <2> HIDE DEF i
  <2>7. i \in DOMAIN disk[d].slots /\ disk[d].slots[i].name \in Names
    BY <2>6 DEF MatchesExactly
  <2>8. /\ Proper(fat, disk, fs, DeleteEntry(fs, d, i, disk[d].slots[i], isDir).todo)
        /\ DeleteEntry(fs, d, i, disk[d].slots[i], isDir).then \in {"ok", "err"}
    BY <2>5, <2>7, DeleteProper
  <2> QED  BY <2>1, <2>8
<1> QED  BY <1>1, <1>2

\* free_clusters(): the scan counts.
LEMMA StatPlanProper ==
  ASSUME Ready, NEW fs \in InfoSector
  PROVE  Proper(fat, disk, fs, StatPlan(fs).todo) /\ StatPlan(fs).then = "ok"
<1> DEFINE N == {c \in Root..LastData : fat[c] = 0}
           y == Cardinality(N)
           z == [fs EXCEPT !.free = y, !.next = Unknown]
           T == StatPlan(fs).todo
<1>0. StatPlan(fs).then = "ok" /\ T = IF fs.on /\ fs.free = Unknown THEN <<InfoWrite(z)>> ELSE << >>
  BY DEF StatPlan
<1>1. CASE ~(fs.on /\ fs.free = Unknown)
  <2>1. T = << >>
    BY <1>0, <1>1
  <2> HIDE DEF T
  <2> QED  BY <1>0, <2>1, ProperNothing DEF T
<1>2. CASE fs.on /\ fs.free = Unknown
  <2>1. y \in Nat
    <3>1. IsFiniteSet(N)
      BY Area, FS_Subset
    <3> QED  BY <3>1, FS_CardinalityType
  <2>2. N = FreeIn(fat, << >>)
    BY CountsNow
  <2> HIDE DEF y, T
  <2>3. z \in InfoSector /\ z.free = y
    <3>1. fs \in [on : {TRUE}, free : Nat \union {Unknown}, next : (Root..FatEnd + 1) \union {Unknown}]
      BY <1>2 DEF InfoSector, Ready
    <3>2. z \in [on : {TRUE}, free : Nat \union {Unknown}, next : (Root..FatEnd + 1) \union {Unknown}] /\ z.free = y
      BY <2>1, <3>1
    <3> QED  BY <3>2 DEF InfoSector
  <2> HIDE DEF z
  <2>4. Does(fat, disk, << >>, {}, <<InfoWrite(z)>>, {}, {}, fs, z)
    BY <2>3, DoesInfo
  <2>5. T = <<InfoWrite(z)>>
    BY <1>0, <1>2
  <2>6. /\ T \in Seq(SectorWrite) /\ Careful(fat, disk, << >>, {}, T) /\ Leaves(T, fs, z)
        /\ \A c \in Clusters : ~Touches(T, "fat", c)
    BY <2>4, <2>5 DEF Does
  <2>7. Sound(fat, disk, T)
    BY <2>6, CarefulSound DEF Ready
  <2>8. ASSUME Counts(fat, fs, << >>) PROVE Counts(fat, fs, T)
    <3>1. \A c \in Clusters : c > LastData => fat[c] = 0
      BY <2>8, CountsNow
    <3>2. \A c \in Root..LastData : Zeroed(fat, T, c) <=> fat[c] = 0
      BY <2>6, Area DEF Zeroed, Touches
    <3>3. FreeIn(fat, T) = N
      BY <3>2 DEF FreeIn
    <3> QED  BY <2>3, <2>6, <3>1, <3>3 DEF Counts, y
  <2> QED  BY <1>0, <2>6, <2>7, <2>8 DEF Proper, T
<1> QED  BY <1>1, <1>2

Phases == {"create", "mkdir", "delete", "rmdir", "stat"}

\* The data a request carries, and its path: one of the volume's names, if it gets there.
PathOK(path) == OnVolume(path) => path \in Seq(Names)
DataOK(data) == data \in Seq(Units \union {0})

\* Every phase of every request is planned so.
LEMMA PlanProper ==
  ASSUME Ready, NEW fs \in InfoSector, NEW req, PathOK(req.path), DataOK(req.data), NEW phase \in Phases
  PROVE  LET plan == PlanOf(fs, phase, req)
         IN  Proper(fat, disk, fs, plan.todo) /\ plan.then \in {"ok", "err"}
<1> DEFINE plan == PlanOf(fs, phase, req)
<1> SUFFICES Proper(fat, disk, fs, plan.todo) /\ plan.then \in {"ok", "err"}
  OBVIOUS
<1>0. << >> \in Seq(Units \union {0})
  OBVIOUS
<1>1. CASE ~OnVolume(req.path)
  <2>1. plan = Refuse
    BY <1>1 DEF PlanOf
  <2> QED  BY <2>1, Refused, ProperNothing
<1>2. CASE OnVolume(req.path)
  <2>0. req.path \in Seq(Names) /\ req.data \in Seq(Units \union {0})
    BY <1>2 DEF PathOK, DataOK
  <2>1. CASE phase = "create"
    <3>1. plan = CreatePlan(fs, req.path, req.data, FALSE)
      BY <1>2, <2>1 DEF PlanOf
    <3> QED  BY <2>0, <3>1, CreatePlanProper
  <2>2. CASE phase = "mkdir"
    <3>1. plan = CreatePlan(fs, req.path, <<>>, TRUE)
      BY <1>2, <2>2 DEF PlanOf
    <3> QED  BY <1>0, <2>0, <3>1, CreatePlanProper
  <2>3. CASE phase = "delete"
    <3>1. plan = DeletePlan(fs, req.path, FALSE)
      BY <1>2, <2>3 DEF PlanOf
    <3> QED  BY <2>0, <3>1, DeletePlanProper
  <2>4. CASE phase = "rmdir"
    <3>1. plan = DeletePlan(fs, req.path, TRUE)
      BY <1>2, <2>4 DEF PlanOf
    <3> QED  BY <2>0, <3>1, DeletePlanProper
  <2>5. CASE phase = "stat"
    <3>1. plan = StatPlan(fs)
      BY <1>2, <2>5 DEF PlanOf
    <3> QED  BY <3>1, StatPlanProper
  <2> QED  BY <2>1, <2>2, <2>3, <2>4, <2>5 DEF Phases
<1> QED  BY <1>1, <1>2

-----------------------------------------------------------------------------
(* The requests.                                                           *)

Calls == {"write", "delete", "mkdir", "rmdir", "unlink", "stat", "none"}

Asked == {r \in [do : Calls, path : Seq(Components), data : Seq(Units \union {0})] : PathOK(r.path)}

Served == [req : Asked, phases : Seq(Phases), todo : Seq(SectorWrite), then : {"ok", "err", "start"}]

\* The next write leads on to the count that is promised.
LEMMA CountsStep ==
  ASSUME NEW F, FatOK(F), NEW D, NEW v, NEW T \in Seq(SectorWrite), T # << >>,
         Released(F, D, T), Counts(F, v, T), ~OutOfRange(Head(T))
  PROVE  Counts(FatAfter(F, Head(T)), IF Head(T).k = "info" THEN Head(T).v ELSE v, Tail(T))
<1> DEFINE w == T[1]
           G == FatAfter(F, w)
           R == Tail(T)
           x == IF w.k = "info" THEN w.v ELSE v
<1>0. /\ Len(T) \in Nat /\ Len(T) >= 1 /\ Head(T) = w /\ w \in SectorWrite /\ 1 \in 1..Len(T)
      /\ Len(R) = Len(T) - 1 /\ \A j \in 1..Len(R) : R[j] = T[j + 1] /\ j + 1 \in 1..Len(T)
  OBVIOUS
<1>1. \A c \in Clusters : c # w.c \/ w.k # "fat" => G[c] = F[c]
  BY <1>0 DEF FatAfter, FatOK
<1>2. w.k = "fat" => G[w.c] = w.v
  BY <1>0, WriteKinds DEF FatAfter, FatOK
<1>3. \A j \in 1..Len(T) : j = 1 \/ (j - 1 \in 1..Len(R) /\ R[j - 1] = T[j])
  <2> TAKE j \in 1..Len(T)
  <2>1. j # 1 => j - 1 \in 1..Len(R) /\ (j - 1) + 1 = j
    BY <1>0
  <2> QED  BY <1>0, <2>1
<1> HIDE DEF w, G, R, x
<1>4. T[1] = w
  BY DEF w
<1>5. SUFFICES ASSUME InRange(R)
               PROVE  /\ \A c \in Clusters : c > LastData => G[c] = 0 /\ ~Touches(R, "fat", c)
                      /\ \E z : Leaves(R, x, z) /\ (z.free # Unknown => z.free = Cardinality(FreeIn(G, R)))
  BY <1>0 DEF Counts, G, R, x
<1>6. InRange(T)
  <2> SUFFICES ASSUME NEW j \in 1..Len(T) PROVE ~OutOfRange(T[j])
    BY DEF InRange
  <2>1. CASE j = 1
    BY <1>0, <1>4, <2>1
  <2>2. CASE j # 1
    BY <1>3, <1>5, <2>2 DEF InRange
  <2> QED  BY <2>1, <2>2
<1>7. PICK z : Leaves(T, v, z) /\ (z.free # Unknown => z.free = Cardinality(FreeIn(F, T)))
  BY <1>6 DEF Counts
<1>8. \A c \in Clusters : Touches(T, "fat", c) <=> (w.k = "fat" /\ w.c = c) \/ Touches(R, "fat", c)
  BY <1>0, <1>3, <1>4 DEF Touches
<1>9. \A c \in Clusters : c > LastData => G[c] = 0 /\ ~Touches(R, "fat", c)
  BY <1>1, <1>6, <1>8 DEF Counts
<1>10. Leaves(R, x, z)
  <2>1. CASE z = v /\ \A j \in 1..Len(T) : T[j].k # "info"
    <3>1. x = v /\ \A j \in 1..Len(R) : R[j].k # "info"
      BY <1>0, <1>4, <2>1 DEF x
    <3> QED  BY <2>1, <3>1 DEF Leaves
  <2>2. ASSUME NEW j \in 1..Len(T), T[j].k = "info", z = T[j].v,
               \A l \in 1..Len(T) : T[l].k = "info" => l <= j
        PROVE  Leaves(R, x, z)
    <3>1. CASE j = 1
      <4>1. x = z
        BY <1>4, <2>2, <3>1 DEF x
      <4>2. \A l \in 1..Len(R) : R[l].k # "info"
        <5> TAKE l \in 1..Len(R)
        <5>1. R[l] = T[l + 1] /\ l + 1 \in 1..Len(T) /\ ~(l + 1 <= 1)
          BY <1>0
        <5> QED  BY <2>2, <3>1, <5>1
      <4> QED  BY <4>1, <4>2 DEF Leaves
    <3>2. CASE j # 1
      <4>1. j - 1 \in 1..Len(R) /\ R[j - 1] = T[j]
        BY <1>3, <3>2
      <4>2. ASSUME NEW l \in 1..Len(R), R[l].k = "info" PROVE l <= j - 1
        <5>1. R[l] = T[l + 1] /\ l + 1 \in 1..Len(T)
          BY <1>0
        <5>2. l + 1 <= j
          BY <2>2, <4>2, <5>1
        <5> QED  BY <5>2
      <4> QED  BY <2>2, <4>1, <4>2 DEF Leaves
    <3> QED  BY <3>1, <3>2
  <2> QED  BY <1>7, <2>1, <2>2 DEF Leaves
<1>11. ASSUME NEW c \in Clusters PROVE Zeroed(G, R, c) <=> Zeroed(F, T, c)
  <2>1. CASE w.k = "fat" /\ w.c = c
    <3>1. CASE w.v = 0
      <4>1. G[c] = 0 /\ Zeroed(F, T, c)
        BY <1>0, <1>2, <1>4, <2>1, <3>1 DEF Zeroed
      <4>2. \A j \in 1..Len(T) : T[j].k = "fat" /\ T[j].c = c => T[j].v = 0
        BY <1>0, <1>4, <2>1, <3>1 DEF Released, Frees
      <4>3. \A j \in 1..Len(R) : R[j].k = "fat" /\ R[j].c = c => R[j].v = 0
        BY <1>0, <4>2
      <4> QED  BY <4>1, <4>3 DEF Zeroed
    <3>2. CASE w.v # 0
      <4>1. G[c] # 0
        BY <1>2, <2>1, <3>2
      <4>2. ASSUME NEW j \in 1..Len(T), T[j].k = "fat", T[j].c = c PROVE T[j].v # 0
        BY <1>0, <1>4, <2>1, <3>2, <4>2 DEF Released, Frees
      <4>3. ~Zeroed(F, T, c)
        BY <1>0, <1>4, <2>1, <3>2, <4>2 DEF Zeroed
      <4>4. ~Zeroed(G, R, c)
        BY <1>0, <4>1, <4>2 DEF Zeroed
      <4> QED  BY <4>3, <4>4
    <3> QED  BY <3>1, <3>2
  <2>2. CASE ~(w.k = "fat" /\ w.c = c)
    <3>1. G[c] = F[c]
      BY <1>1, <2>2
    <3>2. (\A j \in 1..Len(T) : T[j].k = "fat" /\ T[j].c = c => T[j].v = 0)
          <=> \A j \in 1..Len(R) : R[j].k = "fat" /\ R[j].c = c => R[j].v = 0
      <4>1. ASSUME \A j \in 1..Len(T) : T[j].k = "fat" /\ T[j].c = c => T[j].v = 0,
                   NEW j \in 1..Len(R)
            PROVE  R[j].k = "fat" /\ R[j].c = c => R[j].v = 0
        BY <1>0, <4>1
      <4>2. ASSUME \A j \in 1..Len(R) : R[j].k = "fat" /\ R[j].c = c => R[j].v = 0,
                   NEW j \in 1..Len(T)
            PROVE  T[j].k = "fat" /\ T[j].c = c => T[j].v = 0
        BY <1>3, <1>4, <2>2, <4>2
      <4> QED  BY <4>1, <4>2
    <3>3. (\E j \in 1..Len(T) : T[j].k = "fat" /\ T[j].c = c /\ T[j].v = 0)
          <=> \E j \in 1..Len(R) : R[j].k = "fat" /\ R[j].c = c /\ R[j].v = 0
      BY <1>0, <1>3, <1>4, <2>2
    <3> QED  BY <3>1, <3>2, <3>3 DEF Zeroed
  <2> QED  BY <2>1, <2>2
<1>12. FreeIn(G, R) = FreeIn(F, T)
  BY <1>11, Area DEF FreeIn
<1> QED  BY <1>7, <1>9, <1>10, <1>12

-----------------------------------------------------------------------------
(* The volumes at boot.                                                    *)

\* Nothing is to be written, and what refers to c is at the place at[c].
LEMMA SoundFrom ==
  ASSUME NEW F, NEW D, NEW at, F[Root] # 0,
         \A c \in Clusters, x \in Clusters, i \in 0..Slots :
           Now(F, D, x, i, c) => c # Root /\ F[c] # 0 /\ at[c] = <<x, i>>
  PROVE  Sound(F, D, << >>)
<1>0. Len(<< >>) = 0 /\ \A j \in 1..0 : FALSE
  OBVIOUS
<1>1. \A x, i, c : Refers(F, D, << >>, x, i, c) <=> Now(F, D, x, i, c)
  BY <1>0 DEF Refers
<1>2. OnePlace(F, D, << >>)
  <2> SUFFICES ASSUME NEW c \in Clusters, NEW x \in Clusters, NEW i \in 0..Slots,
                      Refers(F, D, << >>, x, i, c)
               PROVE  /\ c # Root
                      /\ \A y \in Clusters, k \in 0..Slots : Refers(F, D, << >>, y, k, c) => x = y /\ i = k
    BY DEF OnePlace
  <2>1. c # Root /\ at[c] = <<x, i>>
    BY <1>1
  <2>2. ASSUME NEW y \in Clusters, NEW k \in 0..Slots, Refers(F, D, << >>, y, k, c) PROVE x = y /\ i = k
    <3>1. at[c] = <<y, k>>
      BY <1>1, <2>2
    <3> QED  BY <2>1, <3>1
  <2> QED  BY <2>1, <2>2
<1>3. Allocated(F, D)
  BY DEF Allocated
<1>4. Ordered(F, << >>) /\ Released(F, D, << >>)
  BY <1>0 DEF Ordered, Released
<1> QED  BY <1>2, <1>3, <1>4 DEF Sound

\* mkfs: an empty root directory.
LEMMA MadeSound ==
  ASSUME fat = [c \in Clusters |-> IF c = Root THEN Eoc ELSE 0],
         disk = [c \in Clusters |-> IF c = Root THEN EmptyDir ELSE Junk]
  PROVE  /\ FatOK(fat) /\ DiskOK(disk) /\ Sound(fat, disk, << >>)
         /\ \A c \in Clusters : c > LastData => fat[c] = 0
         /\ Cardinality(FreeIn(fat, << >>)) = LastData - Root
<1>0. /\ LastData \in Nat /\ FatEnd \in Nat /\ Root + 3 <= LastData /\ LastData <= FatEnd
      /\ Root \in Clusters /\ Root \in Nat /\ Eoc \in 0..FatEnd /\ Eoc # 0
      /\ Eoc \notin Clusters /\ 0 \notin Clusters /\ 0 \in 0..FatEnd
  BY Fat32Assumption DEF Root, Eoc, Clusters
<1>1. FatOK(fat)
  BY <1>0 DEF FatOK
<1>2. DiskOK(disk)
  BY <1>0, EmptyDirIs, JunkIs DEF DiskOK, Sector
<1>3. \A x \in Clusters : \A i, c : ~Points(disk[x], i, c)
  <2>1. \A i, c : ~Points(Junk, i, c)
    BY JunkIs DEF Points
  <2>2. \A i, c : ~Points(EmptyDir, i, c)
    BY EmptyDirIs, Fat32Assumption DEF Points, Free
  <2> QED  BY <2>1, <2>2
<1>4. \A c \in Clusters, x \in Clusters, i \in 0..Slots : ~Now(fat, disk, x, i, c)
  BY <1>0, <1>3 DEF Now
<1>5. Sound(fat, disk, << >>)
  BY <1>0, <1>4, SoundFrom
<1>6. {c \in Root..LastData : fat[c] = 0} = Root + 1..LastData
  BY <1>0 DEF Clusters
<1>7. Cardinality(Root + 1..LastData) = LastData - Root
  BY <1>0, FS_Interval DEF Root
<1>8. \A c \in Clusters : c > LastData => fat[c] = 0
  BY <1>0
<1> QED  BY <1>1, <1>2, <1>5, <1>6, <1>7, <1>8, CountsNow

\* A volume in use: k, d and d/a.
LEMMA UsedSound ==
  ASSUME fat = InUse.fat, disk = InUse.disk
  PROVE  /\ FatOK(fat) /\ DiskOK(disk) /\ Sound(fat, disk, << >>)
         /\ \A c \in Clusters : c > LastData => fat[c] = 0
         /\ Cardinality(FreeIn(fat, << >>)) = LastData - Root - 3
<1> DEFINE k == DirEntry("k", FALSE, 0, 0)
           d == DirEntry("d", TRUE, Root + 1, 0)
           a == DirEntry("a", FALSE, Root + 2, 2)
           s1 == PutEntry(EmptyDir.slots, 1, k)
           s2 == PutEntry(s1, 3, d)
           s3 == InitDir(Root + 1, Root).slots
           s4 == PutEntry(s3, 3, a)
           top == [EmptyDir EXCEPT !.slots = s2]
           sub == [InitDir(Root + 1, Root) EXCEPT !.slots = s4]
           at == [c \in Clusters |-> IF c = Root + 1 THEN <<Root, 3 + Width["d"] - 1>>
                                     ELSE IF c = Root + 2 THEN <<Root + 1, 3 + Width["a"] - 1>>
                                     ELSE <<Root + 2, 0>>]
<1>0. /\ LastData \in Nat /\ FatEnd \in Nat /\ Root + 3 <= LastData /\ LastData <= FatEnd
      /\ Root \in Nat /\ Eoc \in 0..FatEnd /\ Eoc # 0 /\ Root + 3 \in 0..FatEnd
      /\ {Root, Root + 1, Root + 2, Root + 3} \subseteq Clusters
      /\ Eoc \notin Clusters /\ 0 \notin Clusters /\ 0 \in 0..FatEnd
      /\ Root + 1 # Root /\ Root + 2 # Root /\ Root + 3 # Root
      /\ Root + 1 # Root + 2 /\ Root + 1 # Root + 3 /\ Root + 2 # Root + 3
      /\ \A c \in Clusters : c \in Nat
  BY Fat32Assumption DEF Root, Eoc, Clusters
<1>1. /\ k \in Named /\ k.name = "k" /\ k.first = 0
      /\ d \in Named /\ d.name = "d" /\ d.first = Root + 1
      /\ a \in Named /\ a.name = "a" /\ a.first = Root + 2
  <2>1. \A n \in {"k", "d", "a"} : n \in Names /\ <<Short[n], 0>> \in ShortNames \X (0..9)
    BY Fat32Assumption DEF ShortNames
  <2>2. k \in Named /\ k.name = "k" /\ k.first = 0
    BY <2>1 DEF DirEntry, Slot, Named
  <2>3. d \in Named /\ d.name = "d" /\ d.first = Root + 1
    BY <1>0, <2>1 DEF DirEntry, Slot, Named
  <2>4. a \in Named /\ a.name = "a" /\ a.first = Root + 2
    BY <1>0, <2>1 DEF DirEntry, Slot, Named
  <2> QED  BY <2>2, <2>3, <2>4
<1>2. fat = [c \in Clusters |-> IF c \in {Root, Root + 1, Root + 3} THEN Eoc
                                ELSE IF c = Root + 2 THEN Root + 3 ELSE 0]
  BY <1>0 DEF InUse
<1>3. /\ \A c \in Clusters : c \notin {Root, Root + 1, Root + 2, Root + 3} => disk[c] = Junk
      /\ disk[Root] = top /\ disk[Root + 1] = sub
      /\ disk[Root + 2] = [Junk EXCEPT !.unit = Root + 2 - Root - 1]
      /\ disk[Root + 3] = [Junk EXCEPT !.unit = Root + 3 - Root - 1]
      /\ disk = [c \in Clusters |-> disk[c]]
  <2> DEFINE at0(c) == CASE c = Root -> top
                         [] c = Root + 1 ->
                              [InitDir(c, Root) EXCEPT !.slots = PutEntry(@, 3, a)]
                         [] c \in {Root + 2, Root + 3} -> [Junk EXCEPT !.unit = c - Root - 1]
                         [] OTHER -> Junk
  <2>1. disk = [c \in Clusters |-> at0(c)]
    BY DEF InUse
  <2> HIDE DEF a, top
  <2>2. at0(Root) = top
    BY <1>0
  <2>3. at0(Root + 1) = sub
    BY <1>0
  <2>4. /\ at0(Root + 2) = [Junk EXCEPT !.unit = Root + 2 - Root - 1]
        /\ at0(Root + 3) = [Junk EXCEPT !.unit = Root + 3 - Root - 1]
    BY <1>0
  <2>5. \A c \in Clusters : c \notin {Root, Root + 1, Root + 2, Root + 3} => at0(c) = Junk
    OBVIOUS
  <2> HIDE DEF at0, sub
  <2> QED  BY <1>0, <2>1, <2>2, <2>3, <2>4, <2>5
<1> HIDE DEF k, d, a
<1>4. /\ s1 \in [1..Slots -> Slot]
      /\ \A j \in 1..Slots : s1[j].name \in Names => s1[j] = k
  <2>1. EmptyDir.slots \in [1..Slots -> Slot] /\ \A j \in 1..Slots : EmptyDir.slots[j].name \notin Names
    BY EmptyDirIs, Fat32Assumption DEF Free
  <2> DEFINE s0 == EmptyDir.slots
  <2> HIDE DEF s0
  <2>2. s0 \in [1..Slots -> Slot] /\ (\A j \in 1..Slots : s0[j].name \notin Names) /\ 1 \in Nat
    BY <2>1 DEF s0
  <2>3. /\ PutEntry(s0, 1, k) \in [1..Slots -> Slot]
        /\ \A j \in 1..Slots : PutEntry(s0, 1, k)[j].name \in Names =>
             \/ j = 1 + Width[k.name] - 1 /\ PutEntry(s0, 1, k)[j] = k
             \/ PutEntry(s0, 1, k)[j] = s0[j]
    BY <1>1, <2>2, PutEntryIs
  <2> HIDE DEF s1
  <2>4. s1 = PutEntry(s0, 1, k)
    BY DEF s1, s0
  <2> QED  BY <2>2, <2>3, <2>4
<1>5. /\ s2 \in [1..Slots -> Slot]
      /\ \A j \in 1..Slots : s2[j].name \in Names => s2[j] = k \/ (s2[j] = d /\ j = 3 + Width["d"] - 1)
  <2> HIDE DEF s1
  <2>1. 3 \in Nat
    OBVIOUS
  <2>2. /\ PutEntry(s1, 3, d) \in [1..Slots -> Slot]
        /\ \A j \in 1..Slots : PutEntry(s1, 3, d)[j].name \in Names =>
             \/ j = 3 + Width[d.name] - 1 /\ PutEntry(s1, 3, d)[j] = d
             \/ PutEntry(s1, 3, d)[j] = s1[j]
    BY <1>1, <1>4, <2>1, PutEntryIs
  <2>3. d.name = "d"
    BY <1>1
  <2> HIDE DEF s2
  <2>4. s2 = PutEntry(s1, 3, d)
    BY DEF s2
  <2> QED  BY <1>4, <2>2, <2>3, <2>4
<1>6. InitDir(Root + 1, Root) \in Sector /\ InitDir(Root + 1, Root).dir
      /\ \A i, c : ~Points(InitDir(Root + 1, Root), i, c)
  BY <1>0, InitDirIs
<1>7. s3 \in [1..Slots -> Slot] /\ \A j \in 1..Slots : s3[j].name \notin Names
  BY <1>6 DEF Points, Sector
<1>8. /\ s4 \in [1..Slots -> Slot]
      /\ \A j \in 1..Slots : s4[j].name \in Names => s4[j] = a /\ j = 3 + Width["a"] - 1
  <2> HIDE DEF s3
  <2>1. 3 \in Nat
    OBVIOUS
  <2>2. /\ PutEntry(s3, 3, a) \in [1..Slots -> Slot]
        /\ \A j \in 1..Slots : PutEntry(s3, 3, a)[j].name \in Names =>
             \/ j = 3 + Width[a.name] - 1 /\ PutEntry(s3, 3, a)[j] = a
             \/ PutEntry(s3, 3, a)[j] = s3[j]
    BY <1>1, <1>7, <2>1, PutEntryIs
  <2>3. a.name = "a"
    BY <1>1
  <2> HIDE DEF s4
  <2>4. s4 = PutEntry(s3, 3, a)
    BY DEF s4
  <2> QED  BY <1>7, <2>2, <2>3, <2>4
<1> HIDE DEF s1, s2, s3, s4
<1>9. top \in Sector /\ top.slots = s2
  BY <1>5, EmptyDirIs DEF Sector
<1>10. sub \in Sector /\ sub.slots = s4
  BY <1>6, <1>8 DEF Sector
<1>11. \A u \in {1, 2} : [Junk EXCEPT !.unit = u] \in Sector /\ [Junk EXCEPT !.unit = u].slots = << >>
  BY Fat32Assumption DEF Junk, Sector
<1> HIDE DEF top, sub
<1>12. Root + 2 - Root - 1 = 1 /\ Root + 3 - Root - 1 = 2
  BY DEF Root
<1>13. DiskOK(disk)
  <2>1. \A c \in Clusters : disk[c] \in Sector
    BY <1>3, <1>9, <1>10, <1>11, <1>12, JunkIs
  <2> QED  BY <1>3, <2>1 DEF DiskOK
<1>14. FatOK(fat)
  BY <1>0, <1>2 DEF FatOK
<1>15. ASSUME NEW c \in Clusters, NEW x \in Clusters, NEW i \in 0..Slots, Now(fat, disk, x, i, c)
       PROVE  c # Root /\ fat[c] # 0 /\ at[c] = <<x, i>>
  <2>1. CASE i = 0
    <3>1. x = Root + 2 /\ c = Root + 3
      BY <1>0, <1>2, <1>15, <2>1 DEF Now
    <3> QED  BY <1>0, <1>2, <2>1, <3>1
  <2>2. CASE i # 0
    <3>1. i \in DOMAIN disk[x].slots /\ disk[x].slots[i].name \in Names /\ disk[x].slots[i].first = c
      BY <1>15, <2>2 DEF Now, Points
    <3>2. x \in {Root, Root + 1}
      <4>1. disk[Root + 2].slots = << >> /\ disk[Root + 3].slots = << >>
        BY <1>3, <1>11, <1>12
      <4>2. x \notin {Root, Root + 1, Root + 2, Root + 3} => disk[x].slots = << >>
        BY <1>3, JunkIs
      <4>3. disk[x].slots # << >>
        BY <3>1
      <4> QED  BY <4>1, <4>2, <4>3
    <3>3. CASE x = Root
      <4>1. i \in 1..Slots /\ s2[i].name \in Names /\ s2[i].first = c
        BY <1>3, <1>5, <1>9, <3>1, <3>3
      <4>2. s2[i] # k
        BY <1>0, <1>1, <4>1
      <4>3. c = Root + 1 /\ i = 3 + Width["d"] - 1
        BY <1>1, <1>5, <4>1, <4>2
      <4> QED  BY <1>0, <1>2, <3>3, <4>3
    <3>4. CASE x = Root + 1
      <4>1. i \in 1..Slots /\ s4[i].name \in Names /\ s4[i].first = c
        BY <1>3, <1>8, <1>10, <3>1, <3>4
      <4>3. c = Root + 2 /\ i = 3 + Width["a"] - 1
        BY <1>1, <1>8, <4>1
      <4> QED  BY <1>0, <1>2, <3>4, <4>3
    <3> QED  BY <3>2, <3>3, <3>4
  <2> QED  BY <2>1, <2>2
<1>16. Sound(fat, disk, << >>)
  <2> HIDE DEF at
  <2>1. fat[Root] # 0
    BY <1>0, <1>2
  <2> QED  BY <1>15, <2>1, SoundFrom
<1>17. {c \in Root..LastData : fat[c] = 0} = Root + 4..LastData
  <2>1. \A c \in Clusters : fat[c] = 0 <=> c \notin {Root, Root + 1, Root + 2, Root + 3}
    BY <1>0, <1>2
  <2>2. \A c : c \in Root..LastData => c \in Clusters
    BY <1>0 DEF Clusters
  <2>3. \A c : c \in Root + 4..LastData <=> c \in Root..LastData /\ c \notin {Root, Root + 1, Root + 2, Root + 3}
    BY <1>0
  <2> QED  BY <2>1, <2>2, <2>3
<1>18. Cardinality(Root + 4..LastData) = LastData - Root - 3
  BY <1>0, FS_Interval DEF Root
<1>19. \A c \in Clusters : c > LastData => fat[c] = 0
  BY <1>0, <1>2
<1> QED  BY <1>13, <1>14, <1>16, <1>17, <1>18, <1>19, CountsNow

-----------------------------------------------------------------------------
(* Paths.                                                                  *)

\* A path as a caller gives it.
RawOK(raw) == raw \in Seq(Components) /\ PathOK(Normalize(raw))

\* normalize_path() leaves components only, keeps ".." and keeps "proc" in front.
LEMMA NormalizeIs ==
  ASSUME NEW S, NEW raw \in Seq(S)
  PROVE  /\ Normalize(raw) \in Seq(S)
         /\ ".." \in Range(raw) => ".." \in Range(Normalize(raw))
         /\ raw # << >> /\ raw[1] = "proc" => Normalize(raw) # << >> /\ Normalize(raw)[1] = "proc"
<1> DEFINE K == {i \in DOMAIN raw : raw[i] # "."}
           r == Normalize(raw)
<1>0. K \in SUBSET (1..Len(raw)) /\ DOMAIN raw = 1..Len(raw) /\ Len(raw) \in Nat
  OBVIOUS
<1>1. r = Picked(raw, K)
  BY DEF Normalize
<1>a. \A i : i \in K <=> i \in 1..Len(raw) /\ raw[i] # "."
  BY <1>0
<1> HIDE DEF K, r
<1>2. r \in Seq(S) /\ \E f : Traced(raw, r, K, f)
  BY <1>0, <1>1, PickedIs
<1>3. PICK f : Traced(raw, r, K, f)
  BY <1>2
<1>4. DOMAIN r = 1..Len(r) /\ Len(r) \in Nat
  BY <1>2
<1>5. ".." \in Range(raw) => ".." \in Range(r)
  <2> SUFFICES ASSUME ".." \in Range(raw) PROVE ".." \in Range(r)
    OBVIOUS
  <2>1. PICK i \in 1..Len(raw) : raw[i] = ".."
    BY <1>0 DEF Range
  <2>2. i \in K
    BY <1>a, <2>1
  <2>3. PICK k \in 1..Len(r) : f[k] = i
    BY <1>3, <2>2 DEF Traced
  <2>4. r[k] = ".."
    BY <1>3, <2>1, <2>3 DEF Traced
  <2> QED  BY <1>4, <2>3, <2>4 DEF Range
<1>6. raw # << >> /\ raw[1] = "proc" => r # << >> /\ r[1] = "proc"
  <2> SUFFICES ASSUME raw # << >>, raw[1] = "proc" PROVE r # << >> /\ r[1] = "proc"
    OBVIOUS
  <2>1. 1 \in K
    BY <1>0, <1>a
  <2>2. PICK k \in 1..Len(r) : f[k] = 1
    BY <1>3, <2>1 DEF Traced
  <2>3. 1 \in 1..Len(r) /\ f[1] \in K /\ (1 < k => f[1] < f[k])
    BY <1>3, <1>4, <2>2 DEF Traced
  <2>4. f[1] \in Nat /\ f[1] >= 1
    <3>1. f[1] \in 1..Len(raw)
      BY <1>a, <2>3
    <3> QED  BY <1>0, <3>1
  <2>5. k = 1
    BY <1>4, <2>2, <2>3, <2>4
  <2>6. r[1] = raw[1]
    BY <1>3, <2>2, <2>3, <2>5 DEF Traced
  <2> QED  BY <2>3, <2>6
<1> QED  BY <1>2, <1>5, <1>6 DEF r

\* What is named on the volume, or not on it, stays so.
LEMMA NormalizePath ==
  ASSUME NEW path \in Seq(Components), PathOK(path)
  PROVE  RawOK(path)
<1>1. CASE OnVolume(path)
  <2>1. path \in Seq(Names)
    BY <1>1 DEF PathOK
  <2>2. Normalize(path) \in Seq(Names)
    BY <2>1, NormalizeIs
  <2> QED  BY <2>2 DEF RawOK, PathOK
<1>2. CASE ~OnVolume(path)
  <2>1. ".." \in Range(path) \/ (path # << >> /\ path[1] = "proc")
    BY <1>2 DEF OnVolume
  <2>2. ".." \in Range(Normalize(path)) \/ (Normalize(path) # << >> /\ Normalize(path)[1] = "proc")
    BY <2>1, NormalizeIs
  <2>3. ~OnVolume(Normalize(path))
    BY <2>2 DEF OnVolume
  <2> QED  BY <2>3 DEF RawOK, PathOK
<1> QED  BY <1>1, <1>2

\* The paths the callers use.
LEMMA RawPathOK ==
  ASSUME NEW raw \in RawPaths \union OpenPaths
  PROVE  RawOK(raw)
BY FileHandlesAssumption DEF RawOK, PathOK

\* A path below the directory of a handle.
LEMMA BelowOK ==
  ASSUME NEW dir \in {<< >>, <<"proc">>}, NEW raw, RawOK(raw)
  PROVE  RawOK(dir \o raw)
<1>0. raw \in Seq(Components) /\ "proc" \in Components /\ <<"proc">> \in Seq(Components)
  BY FileHandlesAssumption DEF RawOK, Components
<1>1. CASE dir = << >>
  <2>1. dir \o raw = raw
    BY <1>0, <1>1
  <2> QED  BY <2>1
<1>2. CASE dir = <<"proc">>
  <2>1. dir \o raw \in Seq(Components) /\ dir \o raw # << >> /\ (dir \o raw)[1] = "proc"
    BY <1>0, <1>2
  <2> HIDE DEF RawOK
  <2>2. Normalize(dir \o raw) # << >> /\ Normalize(dir \o raw)[1] = "proc"
    BY <2>1, NormalizeIs
  <2>3. ~OnVolume(Normalize(dir \o raw))
    BY <2>2 DEF OnVolume
  <2> QED  BY <2>1, <2>3 DEF RawOK, PathOK
<1> QED  BY <1>1, <1>2

LEMMA ChildOK ==
  ASSUME NEW dir \in {<< >>, <<"proc">>}, NEW name \in Names
  PROVE  Append(dir, name) \in Seq(Components) /\ PathOK(Append(dir, name))
<1>0. "proc" \in Components /\ name \in Components
  BY FileHandlesAssumption DEF Components
<1>1. CASE dir = << >>
  <2>1. Append(dir, name) = <<name>> /\ <<name>> \in Seq(Names) /\ <<name>> \in Seq(Components)
    BY <1>0, <1>1
  <2> QED  BY <2>1 DEF PathOK
<1>2. CASE dir = <<"proc">>
  <2>0. <<"proc">> \in Seq(Components)
    BY <1>0
  <2>1. Append(dir, name) \in Seq(Components) /\ Append(dir, name)[1] = "proc" /\ Len(Append(dir, name)) = 2
    BY <1>0, <1>2, <2>0
  <2>2. ~OnVolume(Append(dir, name))
    BY <2>1 DEF OnVolume
  <2> QED  BY <2>1, <2>2 DEF PathOK
<1> QED  BY <1>1, <1>2

-----------------------------------------------------------------------------
(* The handles.                                                            *)

HandleRec ==
  [kind : {"none", "file", "dir"}, path : Seq(Components), rights : SUBSET Rights,
   data : Seq(Units \union {0}), pos : Nat, dirty : BOOLEAN]

\* The position is inside the data; only the roots of the two mounts are opened as directories.
HandleOK(h) ==
  /\ h \in HandleRec
  /\ h.pos <= Len(h.data)
  /\ PathOK(h.path)
  /\ h.kind = "dir" => h.path \in {<< >>, <<"proc">>}

AllHandlesOK(hs) == hs \in [1..MaxHandles -> HandleRec] /\ \A h \in 1..MaxHandles : HandleOK(hs[h])

LEMMA HandleSet ==
  ASSUME NEW hs, AllHandlesOK(hs), NEW h \in 1..MaxHandles, NEW e, HandleOK(e)
  PROVE  AllHandlesOK([hs EXCEPT ![h] = e])
BY DEF AllHandlesOK, HandleOK

LEMMA NoHandleIs ==
  /\ NoHandle \in HandleRec /\ NoHandle.pos = 0 /\ NoHandle.data = << >> /\ NoHandle.path = << >>
  /\ NoHandle.kind = "none" /\ HandleOK(NoHandle)
<1>1. << >> \in Seq(Components) /\ << >> \in Seq(Names) /\ << >> \in Seq(Units \union {0}) /\ Len(<< >>) = 0
  OBVIOUS
<1>2. /\ NoHandle \in HandleRec /\ NoHandle.pos = 0 /\ NoHandle.data = << >> /\ NoHandle.path = << >>
      /\ NoHandle.kind = "none"
  BY <1>1 DEF NoHandle, HandleRec
<1> QED  BY <1>1, <1>2 DEF HandleOK, PathOK

LEMMA FileHandleOK ==
  ASSUME NEW path \in Seq(Components), PathOK(path), NEW rights \in SUBSET Rights,
         NEW data \in Seq(Units \union {0})
  PROVE  HandleOK(FileHandle(path, rights, data))
<1> DEFINE h == FileHandle(path, rights, data)
<1>1. Len(data) \in Nat
  OBVIOUS
<1>2. h \in HandleRec /\ h.pos = 0 /\ h.data = data /\ h.path = path /\ h.kind = "file"
  BY NoHandleIs DEF FileHandle, HandleRec
<1> HIDE DEF h
<1> QED  BY <1>1, <1>2 DEF HandleOK, h

LEMMA DirectoryHandleOK ==
  ASSUME NEW path \in {<< >>, <<"proc">>}, NEW rights \in SUBSET Rights
  PROVE  HandleOK(DirectoryHandle(path, rights))
<1> DEFINE h == DirectoryHandle(path, rights)
<1>1. path \in Seq(Components) /\ PathOK(path)
  <2>1. << >> \in Seq(Components) /\ << >> \in Seq(Names)
    OBVIOUS
  <2>2. "proc" \in Components
    BY FileHandlesAssumption DEF Components
  <2>3. <<"proc">> \in Seq(Components)
    BY <2>2
  <2>4. ~OnVolume(<<"proc">>)
    BY DEF OnVolume
  <2> QED  BY <2>1, <2>3, <2>4 DEF PathOK
<1>2. h \in HandleRec /\ h.pos = 0 /\ h.data = << >> /\ h.path = path /\ h.kind = "dir"
  BY <1>1, NoHandleIs DEF DirectoryHandle, HandleRec
<1>3. Len(<< >>) = 0
  OBVIOUS
<1> HIDE DEF h
<1> QED  BY <1>1, <1>2, <1>3 DEF HandleOK, h

LEMMA AsDirectoryOK ==
  ASSUME NEW path \in {<< >>, <<"proc">>}, NEW rights \in SUBSET Rights
  PROVE  HandleOK(AsDirectory(path, rights))
<1>1. DirectoryRead \in SUBSET Rights
  BY DEF DirectoryRead, Rights
<1> QED  BY <1>1, DirectoryHandleOK, NoHandleIs DEF AsDirectory

LEMMA AsFileOK ==
  ASSUME NEW path \in Seq(Components), PathOK(path), NEW rights \in SUBSET Rights,
         NEW data \in Seq(Units \union {0})
  PROVE  HandleOK(AsFile(path, rights, data))
<1>1. FileRead \in SUBSET Rights
  BY DEF FileRead, Rights
<1> QED  BY <1>1, FileHandleOK, NoHandleIs DEF AsFile

\* find_entry(): an entry of some directory.
LEMMA FindIs ==
  ASSUME Ready, NEW path \in Seq(Components), FindEntry(Volume, path) # Free
  PROVE  /\ FindEntry(Volume, path) \in Valid
         /\ FindEntry(Volume, path).name \in Names
<1> DEFINE c == DirCluster(Volume, Front(path))
           list == ListDir(Volume, c)
           hits == {i \in DOMAIN list : Matches(list[i], Last(path))}
           k == Min(hits)
<1>0. Volume.fat = fat /\ Volume.disk = disk
  BY DEF Volume
<1>1. path # << >> /\ c # 0 /\ FindEntry(Volume, path) = IF hits = {} THEN Free ELSE list[k]
  BY DEF FindEntry, FirstOf
<1>2. hits # {} /\ FindEntry(Volume, path) = list[k]
  BY <1>1
<1>3. Len(Front(path)) \in Nat
  BY <1>1 DEF Front
<1>4. c \in Clusters
  BY <1>0, <1>1, <1>3, DirFound DEF Ready, Heads
<1> HIDE DEF c
<1>5. list \in Seq(Valid)
  <2>1. Chain(Volume, c) \in Seq(Clusters)
    BY <1>0, <1>4, ChainIs DEF ChainFrom, Ready
  <2>2. EntriesAlong(Volume, Chain(Volume, c)) \in Seq(Valid) /\ << >> \in Seq(Valid)
    BY <1>0, <2>1, EntriesAlongIs DEF Ready
  <2> QED  BY <2>2, ListIs
<1> HIDE DEF list
<1>6. k \in 1..Len(list) /\ Matches(list[k], Last(path))
  <2>1. hits \in SUBSET Nat /\ \A i \in hits : i \in 1..Len(list) /\ Matches(list[i], Last(path))
    BY <1>5
  <2> HIDE DEF hits
  <2> QED  BY <1>2, <2>1, MinIs
<1>7. list[k].name \in Names
  BY <1>6 DEF Matches
<1> HIDE DEF k
<1> QED  BY <1>2, <1>5, <1>6, <1>7

\* read_file_data(): units of data.
LEMMA ReadDataIs ==
  ASSUME Ready, NEW e \in Valid
  PROVE  ReadData(Volume, e) \in Seq(Units \union {0})
<1> DEFINE s == Chain(Volume, e.first)
           n == Min({e.size, Len(s)})
<1>0. Volume.fat = fat /\ Volume.disk = disk
  BY DEF Volume
<1>1. e.size \in Nat /\ e.first \in Clusters \union {0}
  BY DEF Valid, Slot
<1>2. CASE e.first = 0
  <2>1. ReadData(Volume, e) = << >>
    BY <1>2 DEF ReadData
  <2>2. << >> \in Seq(Units \union {0})
    OBVIOUS
  <2> QED  BY <2>1, <2>2
<1>3. CASE e.first # 0
  <2>1. s \in Seq(Clusters)
    BY <1>0, <1>1, <1>3, ChainIs DEF Ready, ChainFrom
  <2>2. ReadData(Volume, e) = [i \in 1..n |-> disk[s[i]].unit]
    BY <1>0, <1>3 DEF ReadData
  <2> HIDE DEF s
  <2>3. n \in Nat /\ n <= Len(s)
    <3> DEFINE m == e.size
               l == Len(s)
    <3>1. m \in Nat /\ l \in Nat /\ m \in Int /\ l \in Int
      BY <1>1, <2>1
    <3> HIDE DEF m, l
    <3>2. Min({m, l}) \in {m, l} /\ Min({m, l}) <= l
      BY <3>1, MaxIs
    <3>3. Min({m, l}) \in Nat /\ Min({m, l}) <= l
      BY <3>1, <3>2
    <3> QED  BY <3>3 DEF m, l
  <2> HIDE DEF n
  <2>4. \A i \in 1..n : disk[s[i]].unit \in Units \union {0}
    <3> TAKE i \in 1..n
    <3>1. s[i] \in Clusters
      BY <2>1, <2>3
    <3>2. disk[s[i]] \in Sector
      BY <3>1 DEF Ready, DiskOK
    <3> QED  BY <3>2 DEF Sector
  <2> QED  BY <2>2, <2>3, <2>4
<1> QED  BY <1>2, <1>3

\* open_path_to_handle()
LEMMA OpenPathOK ==
  ASSUME Ready, NEW raw, RawOK(raw), NEW rights \in SUBSET Rights, NEW readable \in BOOLEAN
  PROVE  HandleOK(OpenPath(raw, rights, readable))
<1> DEFINE path == Normalize(raw)
           entry == FindEntry(Volume, path)
           got == ReadData(Volume, entry)
           h == OpenPath(raw, rights, readable)
<1>0. path \in Seq(Components) /\ PathOK(path) /\ << >> \in Seq(Units \union {0})
  BY NormalizeIs DEF RawOK
<1>1. entry # Free => got \in Seq(Units \union {0})
  <2> HIDE DEF path
  <2> QED  BY <1>0, FindIs, ReadDataIs
<1>2. \/ h = NoHandle
      \/ h = AsDirectory(<< >>, rights)
      \/ path = <<"proc">> /\ h = AsDirectory(path, rights)
      \/ h = AsFile(path, rights, << >>)
      \/ entry # Free /\ h = AsFile(path, rights, got)
      \/ h = FileHandle(path, rights, << >>)
  BY DEF OpenPath, ProcOpen
<1> HIDE DEF path, entry, got, h
<1>3. HandleOK(h)
  BY <1>0, <1>1, <1>2, NoHandleIs, AsDirectoryOK, AsFileOK, FileHandleOK
<1> QED  BY <1>3 DEF h

-----------------------------------------------------------------------------
(* The inductive invariant.                                                *)

\* The volume is sound and stays so whatever is left to be written, and unless
\* something has failed the count will be right when it is written.
VolumeInv ==
  /\ FatOK(fat) /\ DiskOK(disk) /\ info \in InfoSector
  /\ stale \in [Clusters -> DirSectors]
  /\ op \in Served
  /\ Sound(fat, disk, op.todo)
  /\ ~damaged => Counts(fat, info, op.todo)
  /\ op.then = "start" => op.phases # << >>
  /\ answer \in {"none", "ok", "err"}

HandlesInv == AllHandlesOK(handles) /\ HandleOK(opening)

Inv == VolumeInv /\ HandlesInv

LEMMA IdleIs ==
  /\ Idle \in Served /\ Idle.todo = << >> /\ Idle.then = "ok"
<1>1. << >> \in Seq(Components) /\ << >> \in Seq(Names) /\ << >> \in Seq(Units \union {0})
      /\ << >> \in Seq(Phases) /\ << >> \in Seq(SectorWrite)
  OBVIOUS
<1>2. PathOK(<< >>)
  BY <1>1 DEF PathOK
<1>3. NoRequest \in Asked
  BY <1>1, <1>2 DEF NoRequest, Asked, Calls
<1> HIDE DEF NoRequest
<1> QED  BY <1>1, <1>3 DEF Idle, Served

\* While no request is being served, nothing is to be written.
LEMMA IdleReady ==
  ASSUME VolumeInv, op.todo = << >>
  PROVE  Ready
BY DEF VolumeInv, Ready

\* What a sector that is given back reads as.
LEMMA LeftoverIs ==
  /\ EmptyDir \in DirSectors
  /\ \A sector \in Sector : Leftover(sector) \in DirSectors
<1>1. EmptyDir \in DirSectors
  BY DEF EmptyDir, DirSectors, Slot
<1>2. ASSUME NEW sector \in Sector PROVE Leftover(sector) \in DirSectors
  <2>1. CASE sector.dir
    BY <2>1 DEF Leftover, Sector, DirSectors
  <2>2. CASE ~sector.dir
    <3>1. Leftover(sector) = [dir |-> TRUE, slots |-> [i \in 1..Slots |-> Lfn], unit |-> 0]
      BY <2>2 DEF Leftover, EmptyDir
    <3> QED  BY <3>1 DEF DirSectors, Slot
  <2> QED  BY <2>1, <2>2
<1> QED  BY <1>1, <1>2

LEMMA InitInv ==
  ASSUME Init
  PROVE  Inv
<1>1. op = Idle /\ answer = "none" /\ damaged = FALSE
  BY DEF Init, FatInit
<1>2. FatOK(fat) /\ DiskOK(disk) /\ Sound(fat, disk, << >>) /\ info \in InfoSector /\ Counts(fat, info, << >>)
  <2>0. /\ LastData \in Nat /\ FatEnd \in Nat /\ Root + 3 <= LastData /\ LastData <= FatEnd
        /\ LastData - Root \in Nat /\ LastData - Root - 3 \in Nat
        /\ Root + 1 \in Root..FatEnd + 1 /\ LastData \in Root..FatEnd + 1
    BY Fat32Assumption
  <2>1. CASE /\ fat = [c \in Clusters |-> IF c = Root THEN Eoc ELSE 0]
             /\ disk = [c \in Clusters |-> IF c = Root THEN EmptyDir ELSE Junk]
             /\ info \in {[on |-> TRUE, free |-> LastData - Root, next |-> Root + 1],
                          [on |-> TRUE, free |-> Unknown, next |-> Unknown],
                          NoInfo}
             /\ stale = [c \in Clusters |-> EmptyDir]
    <3>1. /\ FatOK(fat) /\ DiskOK(disk) /\ Sound(fat, disk, << >>)
          /\ \A c \in Clusters : c > LastData => fat[c] = 0
          /\ Cardinality(FreeIn(fat, << >>)) = LastData - Root
      BY <2>1, MadeSound
    <3>2. info \in InfoSector
      <4>1. [on |-> TRUE, free |-> LastData - Root, next |-> Root + 1] \in InfoSector
        BY <2>0 DEF InfoSector
      <4>2. /\ [on |-> TRUE, free |-> Unknown, next |-> Unknown] \in InfoSector
            /\ NoInfo \in InfoSector
        BY DEF InfoSector, NoInfo
      <4> QED  BY <2>1, <4>1, <4>2
    <3>3. info.free # Unknown => info.free = LastData - Root
      BY <2>1 DEF NoInfo
    <3> QED  BY <3>1, <3>2, <3>3, CountsNow
  <2>2. CASE /\ fat = InUse.fat
             /\ disk = InUse.disk
             /\ info = [on |-> TRUE, free |-> LastData - Root - 3, next |-> LastData]
             /\ \E before \in {EmptyDir, Leftover(Junk)} : stale = [c \in Clusters |-> before]
    <3>1. /\ FatOK(fat) /\ DiskOK(disk) /\ Sound(fat, disk, << >>)
          /\ \A c \in Clusters : c > LastData => fat[c] = 0
          /\ Cardinality(FreeIn(fat, << >>)) = LastData - Root - 3
      BY <2>2, UsedSound
    <3>2. info \in InfoSector
      BY <2>0, <2>2 DEF InfoSector
    <3>3. info.free = LastData - Root - 3
      BY <2>2
    <3> QED  BY <3>1, <3>2, <3>3, CountsNow
  <2> QED  BY <2>1, <2>2 DEF Init, FatInit
<1>3. stale \in [Clusters -> DirSectors]
  <2>1. EmptyDir \in DirSectors /\ Leftover(Junk) \in DirSectors
    BY LeftoverIs, EmptyDirIs, JunkIs
  <2>2. \E before \in {EmptyDir, Leftover(Junk)} : stale = [c \in Clusters |-> before]
    BY DEF Init, FatInit
  <2> HIDE DEF EmptyDir
  <2> QED  BY <2>1, <2>2
<1>4. VolumeInv
  BY <1>1, <1>2, <1>3, IdleIs DEF VolumeInv
<1>5. HandlesInv
  BY NoHandleIs DEF Init, HandlesInv, AllHandlesOK
<1> QED  BY <1>4, <1>5 DEF Inv

-----------------------------------------------------------------------------
(* The steps of the volume.                                                *)

LEMMA RequestOK ==
  ASSUME NEW do \in Calls, NEW raw, RawOK(raw), NEW data \in Seq(Units \union {0})
  PROVE  Request(do, raw, data) \in Asked /\ Request(do, raw, data).do = do
<1>1. Normalize(raw) \in Seq(Components) /\ PathOK(Normalize(raw))
  BY NormalizeIs DEF RawOK
<1> QED  BY <1>1 DEF Request, Asked

LEMMA BeginInv ==
  ASSUME VolumeInv, NEW req \in Asked, req.do # "none", Begin(req)
  PROVE  VolumeInv'
<1>1. /\ op = Idle
      /\ op' = [req |-> req, phases |-> PhasesOf(req.do), todo |-> << >>, then |-> "start"]
      /\ fat' = fat /\ disk' = disk /\ info' = info /\ damaged' = damaged /\ answer' = "none"
      /\ stale' = stale
  BY DEF Begin
<1>2. PhasesOf(req.do) \in Seq(Phases) /\ PhasesOf(req.do) # << >>
  <2>1. req.do \in Calls
    BY DEF Asked
  <2>2. CASE req.do = "write"
    BY <2>2 DEF PhasesOf, Phases
  <2>3. CASE req.do = "unlink"
    BY <2>3 DEF PhasesOf, Phases
  <2>4. CASE req.do \in {"delete", "mkdir", "rmdir", "stat"}
    BY <2>4 DEF PhasesOf, Phases
  <2> QED  BY <2>1, <2>2, <2>3, <2>4 DEF Calls
<1>3. << >> \in Seq(SectorWrite)
  OBVIOUS
<1>4. op' \in Served /\ op'.todo = << >> /\ op'.phases # << >>
  BY <1>1, <1>2, <1>3 DEF Served
<1>5. Sound(fat, disk, << >>) /\ (~damaged => Counts(fat, info, << >>))
  BY <1>1, IdleIs DEF VolumeInv
<1> QED  BY <1>1, <1>4, <1>5 DEF VolumeInv

\* What a sector write leaves.
LEMMA ApplyIs ==
  ASSUME FatOK(fat), DiskOK(disk), stale \in [Clusters -> DirSectors], NEW w \in SectorWrite, Apply(w)
  PROVE  /\ fat' = FatAfter(fat, w) /\ disk' = DiskAfter(disk, w)
         /\ info' = IF w.k = "info" THEN w.v ELSE info
         /\ stale' \in [Clusters -> DirSectors]
<1>1. CASE w.k = "fat"
  <2>1. stale' \in [Clusters -> DirSectors]
    <3>1. w.c \in Clusters
      BY <1>1, WriteKinds
    <3>2. Leftover(disk[w.c]) \in DirSectors
      BY <3>1, LeftoverIs DEF DiskOK
    <3>3. stale' = stale \/ stale' = [stale EXCEPT ![w.c] = Leftover(disk[w.c])]
      BY <1>1 DEF Apply, ApplyFat
    <3> HIDE DEF Leftover
    <3> QED  BY <3>2, <3>3
  <2> QED  BY <1>1, <2>1 DEF Apply, ApplyFat, FatAfter, DiskAfter, Frees
<1>2. CASE w.k = "disk"
  BY <1>2 DEF Apply, FatAfter, DiskAfter, Frees
<1>3. CASE w.k = "info"
  BY <1>3 DEF Apply, FatAfter, DiskAfter, Frees
<1> QED  BY <1>1, <1>2, <1>3, WriteKinds

\* What a request that is cut short leaves: the directory that was growing shows
\* what its new cluster held, and unless it is torn that is nothing that is named.
LEMMA CutIs ==
  ASSUME DiskOK(disk), stale \in [Clusters -> DirSectors], NEW G, NEW T, Sound(G, disk, T),
         NEW todo, CutShort(todo), ~torn'
  PROVE  DiskOK(disk') /\ Sound(G, disk', << >>) /\ stale' = stale /\ damaged' = TRUE
<1>1. /\ disk' = [c \in Clusters |-> IF c \in Uncleared(todo) THEN stale[c] ELSE disk[c]]
      /\ \A c \in Uncleared(todo) : ~Tears(c)
      /\ stale' = stale /\ damaged' = TRUE
  BY DEF CutShort
<1>2. DirSectors \subseteq Sector
  BY DEF DirSectors, Sector
<1>3. DiskOK(disk')
  BY <1>1, <1>2 DEF DiskOK
<1>4. ASSUME NEW x \in Clusters, NEW i \in 0..Slots, NEW c \in Clusters, Now(G, disk', x, i, c)
      PROVE  Now(G, disk, x, i, c)
  <2>1. CASE i = 0
    BY <1>4, <2>1 DEF Now
  <2>2. CASE i # 0 /\ x \notin Uncleared(todo)
    BY <1>1, <1>4, <2>2 DEF Now
  <2>3. CASE i # 0 /\ x \in Uncleared(todo)
    <3>1. disk'[x] = stale[x]
      BY <1>1, <2>3
    <3>2. Points(stale[x], i, c)
      BY <1>4, <2>3, <3>1 DEF Now
    <3>3. stale[x].slots[i].name \in Names /\ i \in 1..Slots
      BY <3>2 DEF Points, DirSectors
    <3>4. stale[x].slots[i].name \in {"free", ".", ".."}
      BY <1>1, <2>3, <3>3 DEF Tears
    <3> QED  BY <3>3, <3>4, Fat32Assumption
  <2> QED  BY <2>1, <2>2, <2>3
<1>5. Sound(G, disk', << >>)
  BY <1>4, SoundLess
<1> QED  BY <1>1, <1>3, <1>5

\* The list of writes after its first one, or after a failure.
LEMMA Shorter ==
  ASSUME op \in Served, op.todo # << >>
  PROVE  /\ op.todo \in Seq(SectorWrite) /\ Head(op.todo) \in SectorWrite
         /\ Tail(op.todo) \in Seq(SectorWrite)
         /\ [op EXCEPT !.todo = Tail(@)] \in Served
         /\ [op EXCEPT !.todo = Tail(@)].todo = Tail(op.todo)
         /\ [op EXCEPT !.todo = Tail(@)].then = op.then
         /\ [op EXCEPT !.todo = Tail(@)].phases = op.phases
         /\ [op EXCEPT !.todo = << >>, !.then = "err"] \in Served
         /\ [op EXCEPT !.todo = << >>, !.then = "err"].todo = << >>
         /\ [op EXCEPT !.todo = << >>, !.then = "err"].then = "err"
<1>1. op.todo \in Seq(SectorWrite)
  BY DEF Served
<1>2. Head(op.todo) \in SectorWrite /\ Tail(op.todo) \in Seq(SectorWrite) /\ << >> \in Seq(SectorWrite)
  BY <1>1
<1> QED  BY <1>1, <1>2 DEF Served

LEMMA WriteSectorInv ==
  ASSUME VolumeInv, WriteSector
  PROVE  VolumeInv'
<1> DEFINE w == Head(op.todo)
           T == op.todo
<1>1. /\ T # << >> /\ ~OutOfRange(w) /\ Apply(w)
      /\ op' = [op EXCEPT !.todo = Tail(@)]
      /\ answer' = answer /\ damaged' = damaged
  BY DEF WriteSector
<1>2. /\ FatOK(fat) /\ DiskOK(disk) /\ info \in InfoSector /\ op \in Served /\ Sound(fat, disk, T)
      /\ stale \in [Clusters -> DirSectors]
  BY DEF VolumeInv
<1>3. /\ T \in Seq(SectorWrite) /\ w \in SectorWrite /\ op' \in Served
      /\ op'.todo = Tail(T) /\ op'.then = op.then /\ op'.phases = op.phases
  BY <1>1, <1>2, Shorter
<1>4. /\ fat' = FatAfter(fat, w) /\ disk' = DiskAfter(disk, w)
      /\ info' = IF w.k = "info" THEN w.v ELSE info
      /\ stale' \in [Clusters -> DirSectors]
  BY <1>1, <1>2, <1>3, ApplyIs
<1>5. FatOK(fat') /\ DiskOK(disk')
  BY <1>2, <1>3, <1>4, AfterTyped
<1>6. info' \in InfoSector
  BY <1>2, <1>3, <1>4, WriteKinds
<1>7. Sound(fat', disk', op'.todo)
  BY <1>1, <1>2, <1>3, <1>4, SoundStep
<1>8. ~damaged' => Counts(fat', info', op'.todo)
  <2> SUFFICES ASSUME ~damaged PROVE Counts(fat', info', op'.todo)
    BY <1>1
  <2>1. Released(fat, disk, T) /\ Counts(fat, info, T)
    BY <1>2 DEF Sound, VolumeInv
  <2> HIDE DEF T
  <2>2. w = Head(T)
    BY DEF T
  <2> HIDE DEF w
  <2> QED  BY <1>1, <1>2, <1>3, <1>4, <2>1, <2>2, CountsStep
<1> QED  BY <1>1, <1>3, <1>4, <1>5, <1>6, <1>7, <1>8 DEF VolumeInv

LEMMA WriteBehindEndInv ==
  ASSUME VolumeInv, WriteBehindEnd, ~torn'
  PROVE  VolumeInv'
<1>1. /\ op.todo # << >> /\ op' = [op EXCEPT !.todo = << >>, !.then = "err"]
      /\ CutShort(op.todo) /\ fat' = fat /\ info' = info /\ answer' = answer
  BY DEF WriteBehindEnd, Abort
<1>2. op' \in Served /\ op'.todo = << >> /\ op'.then = "err"
  BY <1>1, Shorter DEF VolumeInv
<1>3. /\ DiskOK(disk') /\ Sound(fat', disk', << >>)
      /\ stale' = stale /\ damaged' = TRUE
  BY <1>1, CutIs DEF VolumeInv
<1> QED  BY <1>1, <1>2, <1>3 DEF VolumeInv

\* Of the two copies of the FAT the first may be written; FSInfo may not be.
LEMMA DeviceErrorInv ==
  ASSUME VolumeInv, DeviceError, ~torn'
  PROVE  VolumeInv'
<1> DEFINE w == Head(op.todo)
           T == op.todo
<1>1. T # << >> /\ answer' = answer
  BY DEF DeviceError
<1>2. /\ FatOK(fat) /\ DiskOK(disk) /\ info \in InfoSector /\ op \in Served /\ Sound(fat, disk, T)
      /\ stale \in [Clusters -> DirSectors]
  BY DEF VolumeInv
<1>3. T \in Seq(SectorWrite) /\ w \in SectorWrite
  BY <1>1, <1>2, Shorter
<1>4. Sound(FatAfter(fat, w), DiskAfter(disk, w), Tail(T))
  BY <1>1, <1>2, <1>3, SoundStep
<1>5. ASSUME Abort, CutShort(T), fat' = fat, info' = info PROVE VolumeInv'
  <2>1. op' \in Served /\ op'.todo = << >> /\ op'.then = "err"
    BY <1>1, <1>2, <1>5, Shorter DEF Abort
  <2>2. DiskOK(disk') /\ Sound(fat', disk', << >>) /\ stale' = stale /\ damaged' = TRUE
    BY <1>2, <1>5, CutIs
  <2> QED  BY <1>1, <1>2, <1>5, <2>1, <2>2 DEF VolumeInv
<1>6. ASSUME w.k = "fat", w.v # 0, Abort, fat' = [fat EXCEPT ![w.c] = w.v], CutShort(Tail(T)), info' = info
      PROVE  VolumeInv'
  <2>1. op' \in Served /\ op'.todo = << >> /\ op'.then = "err"
    BY <1>1, <1>2, <1>6, Shorter DEF Abort
  <2>2. fat' = FatAfter(fat, w) /\ DiskAfter(disk, w) = disk
    BY <1>6 DEF FatAfter, DiskAfter, Frees
  <2>3. FatOK(fat')
    BY <1>2, <1>3, <2>2, AfterTyped
  <2>4. DiskOK(disk') /\ Sound(fat', disk', << >>) /\ stale' = stale /\ damaged' = TRUE
    <3>1. Sound(fat', disk, Tail(T))
      BY <1>4, <2>2
    <3> QED  BY <1>2, <1>6, <3>1, CutIs
  <2> QED  BY <1>1, <1>2, <1>6, <2>1, <2>3, <2>4 DEF VolumeInv
<1>7. ASSUME w.k = "fat", Abort, ApplyFat(w), damaged' = TRUE PROVE VolumeInv'
  <2>1. op' \in Served /\ op'.todo = << >> /\ op'.then = "err"
    BY <1>1, <1>2, <1>7, Shorter DEF Abort
  <2>2. Apply(w)
    BY <1>7 DEF Apply
  <2>3. /\ fat' = FatAfter(fat, w) /\ disk' = DiskAfter(disk, w) /\ info' = info
        /\ stale' \in [Clusters -> DirSectors]
    BY <1>2, <1>3, <1>7, <2>2, ApplyIs
  <2>4. FatOK(fat') /\ DiskOK(disk')
    BY <1>2, <1>3, <2>3, AfterTyped
  <2>5. Sound(fat', disk', op'.todo)
    BY <1>4, <2>1, <2>3, SoundCut
  <2> QED  BY <1>1, <1>2, <1>7, <2>1, <2>3, <2>4, <2>5 DEF VolumeInv
<1>8. ASSUME w.k = "info", op' = [op EXCEPT !.todo = Tail(@)], damaged' = TRUE,
             fat' = fat, disk' = disk, stale' = stale, info' = info
      PROVE  VolumeInv'
  <2>1. op' \in Served /\ op'.todo = Tail(T) /\ op'.then = op.then /\ op'.phases = op.phases
    BY <1>1, <1>2, <1>8, Shorter
  <2>2. FatAfter(fat, w) = fat /\ DiskAfter(disk, w) = disk
    BY <1>8 DEF FatAfter, DiskAfter, Frees
  <2>3. Sound(fat', disk', op'.todo)
    BY <1>4, <1>8, <2>1, <2>2
  <2> QED  BY <1>1, <1>2, <1>8, <2>1, <2>3 DEF VolumeInv
<1> QED  BY <1>5, <1>6, <1>7, <1>8 DEF DeviceError

\* A phase that could not read FSInfo counts nothing, and the volume is marked.
LEMMA NextPhaseInv ==
  ASSUME VolumeInv, NextPhase
  PROVE  VolumeInv'
<1>1. /\ op.todo = << >> /\ op.phases # << >>
      /\ fat' = fat /\ disk' = disk /\ stale' = stale /\ info' = info /\ answer' = answer
  BY DEF NextPhase, Another
<1> DEFINE Planned(fs, plan) ==
             /\ fs \in {info, NoInfo}
             /\ plan \in {Refuse, PlanOf(fs, Head(op.phases), op.req)}
             /\ op' = [op EXCEPT !.phases = Tail(@), !.todo = plan.todo, !.then = plan.then]
             /\ ~damaged' => ~damaged /\ (fs = info \/ plan.todo = << >>)
<1>2. \E fs, plan : Planned(fs, plan)
  <2>1. PICK fault \in {"none", "read", "fsinfo"} :
          \E plan \in {IF fault = "read" THEN Refuse
                       ELSE PlanOf(IF fault = "none" THEN info ELSE NoInfo, Head(op.phases), op.req)} :
            /\ op' = [op EXCEPT !.phases = Tail(@), !.todo = plan.todo, !.then = plan.then]
            /\ damaged' = (damaged \/ (fault = "fsinfo" /\ plan.todo # << >>))
    BY DEF NextPhase, ReadFaults
  <2>2. PICK plan : /\ plan = IF fault = "read" THEN Refuse
                              ELSE PlanOf(IF fault = "none" THEN info ELSE NoInfo, Head(op.phases), op.req)
                    /\ op' = [op EXCEPT !.phases = Tail(@), !.todo = plan.todo, !.then = plan.then]
                    /\ damaged' = (damaged \/ (fault = "fsinfo" /\ plan.todo # << >>))
    BY <2>1
  <2>3. CASE fault = "none"
    <3>1. plan = PlanOf(info, Head(op.phases), op.req)
      BY <2>2, <2>3
    <3>2. ~damaged' => ~damaged
      BY <2>2, Zenon
    <3>3. Planned(info, plan)
      BY <2>2, <3>1, <3>2, Zenon
    <3> HIDE DEF Planned
    <3> QED  BY <3>3
  <2>4. CASE fault = "read"
    <3>1. plan = Refuse
      BY <2>2, <2>4
    <3>2. ~damaged' => ~damaged
      BY <2>2, Zenon
    <3>3. Planned(info, plan)
      BY <2>2, <3>1, <3>2, Zenon
    <3> HIDE DEF Planned
    <3> QED  BY <3>3
  <2>5. CASE fault = "fsinfo"
    <3>1. plan = PlanOf(NoInfo, Head(op.phases), op.req)
      BY <2>2, <2>5
    <3>2. ~damaged' => ~damaged /\ plan.todo = << >>
      BY <2>2, <2>5, Zenon
    <3>3. Planned(NoInfo, plan)
      BY <2>2, <3>1, <3>2, Zenon
    <3> HIDE DEF Planned
    <3> QED  BY <3>3
  <2> HIDE DEF Planned
  <2> QED  BY <2>3, <2>4, <2>5
<1>2a. PICK fs, plan : Planned(fs, plan)
  BY <1>2
<1>3. Ready /\ fs \in InfoSector
  <2>1. NoInfo \in InfoSector
    BY DEF NoInfo, InfoSector
  <2> QED  BY <1>1, <1>2a, <2>1, IdleReady DEF Ready
<1>4. /\ op \in Served /\ op.phases \in Seq(Phases) /\ op.req \in Asked
      /\ PathOK(op.req.path) /\ DataOK(op.req.data)
  <2>1. op \in Served
    BY DEF VolumeInv
  <2>2. op.phases \in Seq(Phases) /\ op.req \in Asked
    BY <2>1 DEF Served
  <2> QED  BY <2>1, <2>2 DEF Asked, DataOK
<1>5. Head(op.phases) \in Phases /\ Tail(op.phases) \in Seq(Phases)
  BY <1>1, <1>4
<1>6. Proper(fat, disk, fs, plan.todo) /\ plan.then \in {"ok", "err"}
  <2>1. CASE plan = Refuse
    BY <1>3, <2>1, Refused, ProperNothing
  <2>2. CASE plan = PlanOf(fs, Head(op.phases), op.req)
    BY <1>3, <1>4, <1>5, <2>2, PlanProper
  <2> QED  BY <1>2a, <2>1, <2>2
<1>7. plan.todo \in Seq(SectorWrite) /\ Sound(fat, disk, plan.todo)
  BY <1>6 DEF Proper
<1>8. op' \in Served /\ op'.todo = plan.todo /\ op'.then # "start"
  BY <1>2a, <1>4, <1>5, <1>6, <1>7 DEF Served
<1>9. ~damaged' => Counts(fat, info, plan.todo)
  BY <1>1, <1>2a, <1>6 DEF Proper, VolumeInv
<1> QED  BY <1>1, <1>7, <1>8, <1>9 DEF VolumeInv

LEMMA AnswerInv ==
  ASSUME VolumeInv, Answer
  PROVE  VolumeInv'
<1>1. /\ op.todo = << >> /\ ~Another /\ op' = Idle /\ answer' = op.then
      /\ fat' = fat /\ disk' = disk /\ stale' = stale /\ info' = info /\ damaged' = damaged
  BY DEF Answer
<1>2. op \in Served
  BY DEF VolumeInv
<1>3. op.then \in {"ok", "err", "start"}
  BY <1>2 DEF Served
<1>4. op.then # "start"
  BY <1>1 DEF Another, VolumeInv
<1> QED  BY <1>1, <1>3, <1>4, IdleIs DEF VolumeInv

\* A power loss forgets what was to be written.
LEMMA CrashInv ==
  ASSUME VolumeInv, Crash, ~torn'
  PROVE  VolumeInv'
<1>1. op' = Idle /\ answer' = "none" /\ CutShort(op.todo) /\ fat' = fat /\ info' = info
  BY DEF Crash
<1>2. /\ DiskOK(disk') /\ Sound(fat', disk', << >>)
      /\ stale' = stale /\ damaged' = TRUE
  BY <1>1, CutIs DEF VolumeInv
<1> QED  BY <1>1, <1>2, IdleIs DEF VolumeInv

LEMMA VolumeStepInv ==
  ASSUME VolumeInv, VolumeStep, ~torn'
  PROVE  VolumeInv'
<1>0. << >> \in Seq(Units \union {0}) /\ << >> \in Seq(Components) /\ << >> \in Seq(Names)
  OBVIOUS
<1>1. ASSUME NEW raw \in RawPaths, NEW data \in Contents, Begin(Request("write", raw, data))
      PROVE  VolumeInv'
  <2>1. data \in Seq(Units \union {0})
    <3>1. data \in Seq(Units)
      BY Fat32Assumption
    <3> QED  BY <3>1
  <2> QED  BY <1>1, <2>1, RawPathOK, RequestOK, BeginInv DEF Calls
<1>2. ASSUME NEW raw \in RawPaths, NEW do \in {"delete", "mkdir", "rmdir"}, Begin(Request(do, raw, << >>))
      PROVE  VolumeInv'
  BY <1>0, <1>2, RawPathOK, RequestOK, BeginInv DEF Calls
<1>3. ASSUME FsStat PROVE VolumeInv'
  <2>1. PathOK(<< >>)
    BY <1>0 DEF PathOK
  <2> QED  BY <1>0, <1>3, <2>1, NormalizePath, RequestOK, BeginInv DEF FsStat, Calls
<1>4. CASE FileWrite
  BY <1>1, <1>4 DEF FileWrite
<1>5. CASE FileDelete \/ DirCreate \/ DirRemove
  BY <1>2, <1>5 DEF FileDelete, DirCreate, DirRemove
<1> QED  BY <1>3, <1>4, <1>5, WriteSectorInv, WriteBehindEndInv, DeviceErrorInv, NextPhaseInv DEF VolumeStep

-----------------------------------------------------------------------------
(* The steps of the handles.                                               *)

LEMMA VolumeStays ==
  ASSUME VolumeInv, UNCHANGED <<fat, disk, stale, info, op, answer, damaged>>
  PROVE  VolumeInv'
BY DEF VolumeInv

LEMMA InsertInv ==
  ASSUME AllHandlesOK(handles), NEW e, HandleOK(e), Insert(e)
  PROVE  AllHandlesOK(handles')
<1>1. Unused # {} /\ handles' = [handles EXCEPT ![Min(Unused)] = e]
  BY DEF Insert
<1>2. Unused \in SUBSET Nat /\ Unused \subseteq 1..MaxHandles
  BY FileHandlesAssumption DEF Unused
<1>3. Min(Unused) \in 1..MaxHandles
  BY <1>1, <1>2, MinIs
<1> QED  BY <1>1, <1>3, HandleSet

\* A handle that differs in its rights, its position or its mark.
LEMMA HandleLike ==
  ASSUME NEW h, HandleOK(h), NEW rights \in SUBSET Rights, NEW pos \in Nat, pos <= Len(h.data)
  PROVE  /\ HandleOK([h EXCEPT !.pos = pos])
         /\ HandleOK([h EXCEPT !.rights = rights, !.dirty = FALSE])
         /\ HandleOK([h EXCEPT !.pos = 0, !.dirty = FALSE])
<1>0. h \in HandleRec /\ h.pos <= Len(h.data) /\ Len(h.data) \in Nat
  BY DEF HandleOK, HandleRec
<1>1. HandleOK([h EXCEPT !.pos = pos])
  BY <1>0 DEF HandleOK, HandleRec
<1>2. HandleOK([h EXCEPT !.rights = rights, !.dirty = FALSE])
  BY <1>0 DEF HandleOK, HandleRec
<1>3. HandleOK([h EXCEPT !.pos = 0, !.dirty = FALSE])
  <2> DEFINE e == [h EXCEPT !.pos = 0, !.dirty = FALSE]
  <2>1. e \in HandleRec /\ e.pos = 0 /\ e.data = h.data /\ e.path = h.path /\ e.kind = h.kind
    BY <1>0 DEF HandleRec
  <2> HIDE DEF e
  <2>2. HandleOK(e)
    BY <1>0, <2>1 DEF HandleOK
  <2> QED  BY <2>2 DEF e
<1> QED  BY <1>1, <1>2, <1>3

\* sys_open() and sys_openat()
LEMMA ReadsInv ==
  ASSUME Inv, NEW raw, RawOK(raw), NEW rights \in SUBSET Rights, Reads(raw, rights)
  PROVE  Inv'
<1>1. /\ op = Idle /\ opening' = opening
      /\ UNCHANGED <<fat, disk, stale, info, op, answer, damaged>>
      /\ \E readable \in BOOLEAN : Insert(OpenPath(raw, rights, readable))
  BY DEF Reads
<1>2. Ready
  BY <1>1, IdleIs, IdleReady DEF Inv
<1>3. PICK readable \in BOOLEAN : Insert(OpenPath(raw, rights, readable))
  BY <1>1
<1>4. HandleOK(OpenPath(raw, rights, readable))
  BY <1>2, OpenPathOK
<1>5. AllHandlesOK(handles')
  BY <1>3, <1>4, InsertInv DEF Inv, HandlesInv
<1>6. VolumeInv'
  BY <1>1, VolumeStays DEF Inv
<1> QED  BY <1>1, <1>5, <1>6 DEF Inv, HandlesInv

LEMMA DirectoryPath ==
  ASSUME HandlesInv, NEW h \in Directories
  PROVE  h \in 1..MaxHandles /\ handles[h].path \in {<< >>, <<"proc">>} /\ handles[h].rights \in SUBSET Rights
<1>1. h \in 1..MaxHandles /\ handles[h].kind = "dir"
  BY DEF Directories, Open
<1>2. HandleOK(handles[h])
  BY <1>1 DEF HandlesInv, AllHandlesOK
<1> QED  BY <1>1, <1>2 DEF HandleOK, HandleRec

LEMMA SysOpenInv ==
  ASSUME Inv, SysOpen
  PROVE  Inv'
<1>1. PICK raw \in OpenPaths, rights \in RightSets : Reads(raw, rights)
  BY DEF SysOpen
<1>2. RawOK(raw) /\ rights \in SUBSET Rights
  BY RawPathOK, FileHandlesAssumption
<1> QED  BY <1>1, <1>2, ReadsInv

LEMMA OpenAtInv ==
  ASSUME Inv, OpenAt
  PROVE  Inv'
<1>1. PICK h \in Directories, raw \in OpenPaths : Reads(handles[h].path \o raw, handles[h].rights)
  BY DEF OpenAt
<1>2. handles[h].path \in {<< >>, <<"proc">>} /\ handles[h].rights \in SUBSET Rights
  BY DirectoryPath DEF Inv
<1>3. RawOK(handles[h].path \o raw)
  BY <1>2, RawPathOK, BelowOK
<1> QED  BY <1>1, <1>2, <1>3, ReadsInv

\* The calls on the copy in memory leave the volume alone.
LEMMA MemoryInv ==
  ASSUME Inv, Memory, AllHandlesOK(handles')
  PROVE  Inv'
<1>1. UNCHANGED <<fat, disk, stale, info, op, answer, damaged>> /\ opening' = opening
  BY DEF Memory
<1>2. VolumeInv'
  BY <1>1, VolumeStays DEF Inv
<1> QED  BY <1>1, <1>2 DEF Inv, HandlesInv

LEMMA OneHandle ==
  ASSUME HandlesInv, NEW h \in Open
  PROVE  /\ h \in 1..MaxHandles /\ HandleOK(handles[h]) /\ handles[h] \in HandleRec
         /\ Len(handles[h].data) \in Nat /\ handles[h].pos \in Nat /\ handles[h].pos <= Len(handles[h].data)
         /\ handles[h].data \in Seq(Units \union {0}) /\ handles[h].path \in Seq(Components)
         /\ PathOK(handles[h].path) /\ handles[h].rights \in SUBSET Rights
<1>1. h \in 1..MaxHandles
  BY DEF Open
<1>2. HandleOK(handles[h])
  BY <1>1 DEF HandlesInv, AllHandlesOK
<1> QED  BY <1>1, <1>2 DEF HandleOK, HandleRec

LEMMA HandleReadInv ==
  ASSUME Inv, NEW h \in Open, HandleRead(h)
  PROVE  Inv'
<1> DEFINE e == handles[h]
<1>0. /\ h \in 1..MaxHandles /\ HandleOK(e) /\ Len(e.data) \in Nat /\ e.pos \in Nat
      /\ e.rights \in SUBSET Rights
  BY OneHandle DEF Inv
<1>1. e.pos < Len(e.data) /\ handles' = [handles EXCEPT ![h] = [e EXCEPT !.pos = e.pos + 1]] /\ Memory
  BY DEF HandleRead
<1> HIDE DEF e
<1>2. HandleOK([e EXCEPT !.pos = e.pos + 1])
  <2>1. e.pos + 1 \in Nat /\ e.pos + 1 <= Len(e.data)
    BY <1>0, <1>1
  <2> QED  BY <1>0, <2>1, HandleLike
<1>3. AllHandlesOK(handles')
  BY <1>0, <1>1, <1>2, HandleSet DEF Inv, HandlesInv
<1> QED  BY <1>1, <1>3, MemoryInv

\* The data grows by one unit at most.
LEMMA HandleWriteInv ==
  ASSUME Inv, NEW h \in Open, NEW u \in Written, HandleWrite(h, u)
  PROVE  Inv'
<1> DEFINE e == handles[h]
           end == e.pos + 1
           old == e.data
           n == Max({end, Len(old)})
           new == [i \in 1..n |-> IF i = end THEN u ELSE old[i]]
           f == [e EXCEPT !.data = new, !.pos = end, !.dirty = TRUE]
<1>0. /\ h \in 1..MaxHandles /\ HandleOK(e) /\ Len(old) \in Nat /\ e.pos \in Nat /\ e.pos <= Len(old)
      /\ old \in Seq(Units \union {0}) /\ e \in HandleRec
  BY OneHandle DEF Inv
<1>1. handles' = [handles EXCEPT ![h] = f] /\ Memory
  BY DEF HandleWrite
<1>2. n \in Nat /\ n >= end /\ n \in {end, Len(old)} /\ end \in Nat
  <2> DEFINE l == Len(old)
  <2>1. end \in Int /\ l \in Int /\ end \in Nat /\ l \in Nat
    BY <1>0
  <2> HIDE DEF end, l
  <2>2. Max({end, l}) \in {end, l} /\ Max({end, l}) >= end
    BY <2>1, MaxIs
  <2>3. Max({end, l}) \in Nat
    BY <2>1, <2>2
  <2> QED  BY <2>1, <2>2, <2>3 DEF l
<1>3. u \in Units \union {0}
  BY FileHandlesAssumption
<1> HIDE DEF n
<1>4. \A i \in 1..n : i # end => i \in 1..Len(old)
  BY <1>0, <1>2
<1>5. \A i \in 1..n : (IF i = end THEN u ELSE old[i]) \in Units \union {0}
  BY <1>0, <1>3, <1>4
<1>6. new \in Seq(Units \union {0}) /\ Len(new) = n
  BY <1>2, <1>5
<1> HIDE DEF new, e
<1>7. f \in HandleRec /\ f.data = new /\ f.pos = end /\ f.path = e.path /\ f.kind = e.kind
  BY <1>0, <1>2, <1>6 DEF HandleRec
<1> HIDE DEF f, end
<1>8. HandleOK(f)
  BY <1>0, <1>2, <1>6, <1>7 DEF HandleOK
<1>9. AllHandlesOK(handles')
  BY <1>0, <1>1, <1>8, HandleSet DEF Inv, HandlesInv
<1> QED  BY <1>1, <1>9, MemoryInv

LEMMA HandleSeekInv ==
  ASSUME Inv, NEW h \in Open, NEW base \in {"set", "cur", "end"}, NEW offset \in -1..1,
         HandleSeek(h, base, offset)
  PROVE  Inv'
<1> DEFINE e == handles[h]
           l == Len(e.data)
           at == CASE base = "set" -> 0 [] base = "cur" -> e.pos [] base = "end" -> l
           to == at + offset
           low == Min({to, l})
           pos == Max({0, low})
<1>0. h \in 1..MaxHandles /\ HandleOK(e) /\ l \in Nat /\ e.pos \in Nat /\ e.rights \in SUBSET Rights
  BY OneHandle DEF Inv
<1>1. handles' = [handles EXCEPT ![h] = [e EXCEPT !.pos = pos]] /\ Memory
  BY DEF HandleSeek
<1>2. at \in Nat
  BY <1>0
<1> HIDE DEF at
<1>3. to \in Int /\ l \in Int
  BY <1>0, <1>2
<1> HIDE DEF to, l, e
<1>4. low \in {to, l} /\ low <= l
  BY <1>3, MaxIs
<1>5. low \in Int
  BY <1>3, <1>4
<1> HIDE DEF low
<1>6. pos \in {0, low} /\ pos >= 0
  <2> DEFINE z == 0
  <2>1. z \in Int
    OBVIOUS
  <2> HIDE DEF z
  <2>2. Max({z, low}) \in {z, low} /\ Max({z, low}) >= z
    BY <1>5, <2>1, MaxIs
  <2> QED  BY <2>2 DEF z
<1>7. pos \in Nat /\ pos <= l
  BY <1>0, <1>4, <1>5, <1>6
<1> HIDE DEF pos
<1>8. HandleOK([e EXCEPT !.pos = pos])
  BY <1>0, <1>7, HandleLike DEF l
<1>9. AllHandlesOK(handles')
  BY <1>0, <1>1, <1>8, HandleSet DEF Inv, HandlesInv
<1> QED  BY <1>1, <1>9, MemoryInv

LEMMA CopyInv ==
  ASSUME Inv, NEW h \in Open
  PROVE  /\ \A rights \in RightSets : RestrictRights(h, rights) => Inv'
         /\ DuplicateHandle(h) => Inv'
<1> DEFINE e == handles[h]
<1>0. /\ HandleOK(e) /\ Len(e.data) \in Nat /\ e.pos \in Nat /\ e.pos <= Len(e.data)
      /\ e.rights \in SUBSET Rights
  BY OneHandle DEF Inv
<1>1. ASSUME NEW rights \in RightSets, RestrictRights(h, rights) PROVE Inv'
  <2>1. rights \in SUBSET Rights
    BY FileHandlesAssumption
  <2>2. Insert([e EXCEPT !.rights = rights, !.dirty = FALSE]) /\ Memory
    BY <1>1 DEF RestrictRights
  <2> HIDE DEF e
  <2>3. HandleOK([e EXCEPT !.rights = rights, !.dirty = FALSE])
    BY <1>0, <2>1, HandleLike
  <2>4. AllHandlesOK(handles')
    BY <2>2, <2>3, InsertInv DEF Inv, HandlesInv
  <2> QED  BY <2>2, <2>4, MemoryInv
<1>2. ASSUME DuplicateHandle(h) PROVE Inv'
  <2>2. Insert([e EXCEPT !.pos = 0, !.dirty = FALSE]) /\ Memory
    BY <1>2 DEF DuplicateHandle
  <2> HIDE DEF e
  <2>3. HandleOK([e EXCEPT !.pos = 0, !.dirty = FALSE])
    BY <1>0, HandleLike
  <2>4. AllHandlesOK(handles')
    BY <2>2, <2>3, InsertInv DEF Inv, HandlesInv
  <2> QED  BY <2>2, <2>4, MemoryInv
<1> QED  BY <1>1, <1>2

\* close(): a dirty file becomes a request.
LEMMA HandleCloseInv ==
  ASSUME Inv, NEW h \in Open, HandleClose(h)
  PROVE  Inv'
<1>0. /\ h \in 1..MaxHandles /\ handles[h].data \in Seq(Units \union {0})
      /\ handles[h].path \in Seq(Components) /\ PathOK(handles[h].path)
  BY OneHandle DEF Inv
<1>1. handles' = [handles EXCEPT ![h] = NoHandle] /\ opening' = opening
  BY DEF HandleClose
<1>2. AllHandlesOK(handles')
  BY <1>0, <1>1, NoHandleIs, HandleSet DEF Inv, HandlesInv
<1>3. CASE Begin(Request("write", handles[h].path, handles[h].data))
  <2>1. RawOK(handles[h].path)
    BY <1>0, NormalizePath
  <2>2. VolumeInv'
    BY <1>0, <1>3, <2>1, RequestOK, BeginInv DEF Inv, Calls
  <2> QED  BY <1>1, <1>2, <2>2 DEF Inv, HandlesInv
<1>4. CASE UNCHANGED fatVars
  <2>1. VolumeInv'
    BY <1>4, VolumeStays DEF Inv, fatVars
  <2> QED  BY <1>1, <1>2, <2>1 DEF Inv, HandlesInv
<1> QED  BY <1>3, <1>4 DEF HandleClose

\* The calls that name a child of a directory.
LEMMA ChildInv ==
  ASSUME Inv, NEW h \in Directories, NEW name \in Names,
         CreateFileAt(h, name) \/ UnlinkAt(h, name) \/ MkdirAt(h, name)
  PROVE  Inv'
<1> DEFINE path == Child(h, name)
<1>0. path \in Seq(Components) /\ PathOK(path) /\ << >> \in Seq(Units \union {0})
  <2>1. handles[h].path \in {<< >>, <<"proc">>}
    BY DirectoryPath DEF Inv
  <2> DEFINE dir == handles[h].path
  <2> HIDE DEF dir
  <2>2. dir \in {<< >>, <<"proc">>}
    BY <2>1 DEF dir
  <2>3. Append(dir, name) \in Seq(Components) /\ PathOK(Append(dir, name))
    BY <2>2, ChildOK
  <2>4. << >> \in Seq(Units \union {0})
    OBVIOUS
  <2> QED  BY <2>3, <2>4 DEF Child, dir
<1> HIDE DEF path
<1>1. RawOK(path)
  BY <1>0, NormalizePath
<1>2. ASSUME NEW do \in {"write", "unlink", "mkdir"}, Begin(Request(do, path, << >>)) PROVE VolumeInv'
  BY <1>0, <1>1, <1>2, RequestOK, BeginInv DEF Inv, Calls
<1>3. CASE CreateFileAt(h, name)
  <2>1. /\ Begin(Request("write", path, << >>)) /\ handles' = handles
        /\ opening' = FileHandle(path, FileRW, << >>)
    BY <1>3 DEF CreateFileAt, path
  <2>2. FileRW \in SUBSET Rights
    BY DEF FileRW, FileRead, Rights
  <2>3. HandleOK(opening')
    BY <1>0, <2>1, <2>2, FileHandleOK
  <2> QED  BY <1>2, <2>1, <2>3 DEF Inv, HandlesInv
<1>4. CASE UnlinkAt(h, name)
  <2>1. Begin(Request("unlink", path, << >>)) /\ handles' = handles /\ opening' = opening
    BY <1>4 DEF UnlinkAt, path
  <2> QED  BY <1>2, <2>1 DEF Inv, HandlesInv
<1>5. CASE MkdirAt(h, name)
  <2>1. Begin(Request("mkdir", path, << >>)) /\ handles' = handles /\ opening' = opening
    BY <1>5 DEF MkdirAt, path
  <2> QED  BY <1>2, <2>1 DEF Inv, HandlesInv
<1> QED  BY <1>3, <1>4, <1>5

LEMMA ReturnInv ==
  ASSUME Inv, Return
  PROVE  Inv'
<1>1. Answer /\ opening' = NoHandle /\ (Insert(opening) \/ handles' = handles)
  BY DEF Return
<1>2. AllHandlesOK(handles')
  BY <1>1, InsertInv DEF Inv, HandlesInv
<1>3. VolumeInv'
  BY <1>1, AnswerInv DEF Inv
<1> QED  BY <1>1, <1>2, <1>3, NoHandleIs DEF Inv, HandlesInv

LEMMA PowerLossInv ==
  ASSUME Inv, PowerLoss, ~torn'
  PROVE  Inv'
<1>1. Crash /\ handles' = [h \in 1..MaxHandles |-> NoHandle] /\ opening' = NoHandle
  BY DEF PowerLoss
<1>2. AllHandlesOK(handles')
  BY <1>1, NoHandleIs DEF AllHandlesOK
<1>3. VolumeInv'
  BY <1>1, CrashInv DEF Inv
<1> QED  BY <1>1, <1>2, <1>3, NoHandleIs DEF Inv, HandlesInv

LEMMA NextInv ==
  ASSUME Inv, [Next]_vars, ~torn'
  PROVE  Inv'
<1>1. CASE UNCHANGED vars
  <2>1. VolumeInv'
    BY <1>1, VolumeStays DEF vars, fatVars, Inv
  <2> QED  BY <1>1, <2>1 DEF vars, Inv, HandlesInv
<1>2. CASE Step
  <2>1. CASE VolumeStep /\ UNCHANGED <<handles, opening>>
    <3>1. VolumeInv'
      BY <2>1, VolumeStepInv DEF Inv
    <3> QED  BY <2>1, <3>1 DEF Inv, HandlesInv
  <2>2. CASE SysOpen \/ OpenAt
    BY <2>2, SysOpenInv, OpenAtInv
  <2>3. CASE SysRead \/ SysWrite \/ SysSeek
    <3>1. \A h \in Files : h \in Open
      BY DEF Files
    <3> QED  BY <2>3, <3>1, HandleReadInv, HandleWriteInv, HandleSeekInv DEF SysRead, SysWrite, SysSeek
  <2>4. CASE SysRestrict \/ \E h \in Open : DuplicateHandle(h)
    BY <2>4, CopyInv DEF SysRestrict
  <2>5. CASE SysClose
    BY <2>5, HandleCloseInv DEF SysClose
  <2>6. CASE \E h \in Directories, name \in Names :
               CreateFileAt(h, name) \/ UnlinkAt(h, name) \/ MkdirAt(h, name)
    BY <2>6, ChildInv
  <2>7. CASE Return \/ PowerLoss
    BY <2>7, ReturnInv, PowerLossInv
  <2> QED  BY <1>2, <2>1, <2>2, <2>3, <2>4, <2>5, <2>6, <2>7 DEF Step
<1> QED  BY <1>1, <1>2 DEF Next

\* A torn directory stays so, and the step that tears it is a failure.
LEMMA TornStays ==
  ASSUME [Next]_vars
  PROVE  /\ torn => torn'
         /\ damaged => damaged'
         /\ torn' => torn \/ damaged'
<1>1. ASSUME NEW req, Begin(req) PROVE torn' = torn /\ damaged' = damaged
  BY <1>1 DEF Begin
<1>2. ASSUME NEW todo, CutShort(todo) PROVE (torn => torn') /\ damaged'
  BY <1>2 DEF CutShort
<1>3. CASE UNCHANGED vars
  BY <1>3 DEF vars, fatVars
<1>4. CASE VolumeStep
  <2>1. CASE FileWrite \/ FileDelete \/ DirCreate \/ DirRemove \/ FsStat
    BY <1>1, <2>1 DEF FileWrite, FileDelete, DirCreate, DirRemove, FsStat
  <2>2. CASE WriteSector
    BY <2>2 DEF WriteSector
  <2>3. CASE WriteBehindEnd
    BY <1>2, <2>3 DEF WriteBehindEnd
  <2>4. CASE DeviceError
    BY <1>2, <2>4 DEF DeviceError
  <2>5. CASE NextPhase
    BY <2>5 DEF NextPhase
  <2> QED  BY <1>4, <2>1, <2>2, <2>3, <2>4, <2>5 DEF VolumeStep
<1>5. CASE SysOpen \/ OpenAt
  <2>1. ASSUME NEW raw, NEW rights, Reads(raw, rights) PROVE torn' = torn /\ damaged' = damaged
    BY <2>1 DEF Reads
  <2> QED  BY <1>5, <2>1 DEF SysOpen, OpenAt
<1>6. CASE SysRead \/ SysWrite \/ SysSeek
  <2>1. Memory
    BY <1>6 DEF SysRead, SysWrite, SysSeek, HandleRead, HandleWrite, HandleSeek
  <2> QED  BY <2>1 DEF Memory
<1>7. CASE SysRestrict \/ \E h \in Open : DuplicateHandle(h)
  <2>1. Memory
    BY <1>7 DEF SysRestrict, RestrictRights, DuplicateHandle
  <2> QED  BY <2>1 DEF Memory
<1>8. CASE SysClose
  BY <1>1, <1>8 DEF SysClose, HandleClose, fatVars
<1>9. CASE \E h \in Directories, name \in Names :
             CreateFileAt(h, name) \/ UnlinkAt(h, name) \/ MkdirAt(h, name)
  BY <1>1, <1>9 DEF CreateFileAt, UnlinkAt, MkdirAt
<1>10. CASE Return
  BY <1>10 DEF Return, Answer
<1>11. CASE PowerLoss
  BY <1>2, <1>11 DEF PowerLoss, Crash
<1> QED  BY <1>3, <1>4, <1>5, <1>6, <1>7, <1>8, <1>9, <1>10, <1>11 DEF Next, Step

\* The invariant holds until a directory is torn; what tore it has also damaged the volume.
Lasting == (torn /\ damaged) \/ (~torn /\ Inv)

LEMMA LastingAlways == Spec => []Lasting
<1>1. Init => Lasting
  BY InitInv DEF Init, FatInit, Lasting
<1>2. Lasting /\ [Next]_vars => Lasting'
  <2> SUFFICES ASSUME Lasting, [Next]_vars PROVE Lasting'
    OBVIOUS
  <2>1. CASE torn'
    BY <2>1, TornStays DEF Lasting
  <2>2. CASE ~torn'
    <3>1. Inv
      BY <2>2, TornStays DEF Lasting
    <3> QED  BY <2>2, <3>1, NextInv DEF Lasting
  <2> QED  BY <2>1, <2>2
<1> QED  BY <1>1, <1>2, PTL DEF Spec

-----------------------------------------------------------------------------
(* The theorems.                                                           *)

\* Until a directory is torn: the FAT, FSInfo and the directories have their
\* types, an answer is "ok" or "err", and a handle's rights and position are
\* within what it was opened with.
THEOREM TypeCorrect == Spec => [](~torn => TypeOK)
<1>1. Inv => TypeOK
  <2> SUFFICES ASSUME Inv PROVE TypeOK
    OBVIOUS
  <2>1. FatTypeOK
    <3>1. fat \in [Clusters -> 0..FatEnd] /\ answer \in {"none", "ok", "err"}
      BY DEF Inv, VolumeInv, FatOK
    <3>2. info.free \in Nat \union {Unknown} /\ info.next \in (Root..FatEnd + 1) \union {Unknown}
      <4>1. info \in InfoSector
        BY DEF Inv, VolumeInv
      <4> QED  BY <4>1 DEF InfoSector
    <3>3. \A c \in Clusters : disk[c].dir => Len(disk[c].slots) = Slots
      BY SectorSlots DEF Inv, VolumeInv
    <3> QED  BY <3>1, <3>2, <3>3 DEF FatTypeOK
  <2>2. ASSUME NEW h \in 1..MaxHandles
        PROVE  /\ handles[h].kind \in {"none", "file", "dir"}
               /\ handles[h].rights \subseteq Rights
               /\ handles[h].pos \in 0..Len(handles[h].data)
    <3>1. HandleOK(handles[h])
      BY DEF Inv, HandlesInv, AllHandlesOK
    <3>2. handles[h] \in HandleRec /\ handles[h].pos <= Len(handles[h].data)
      BY <3>1 DEF HandleOK
    <3>3. /\ handles[h].kind \in {"none", "file", "dir"} /\ handles[h].rights \subseteq Rights
          /\ handles[h].pos \in Nat /\ Len(handles[h].data) \in Nat
      BY <3>2 DEF HandleRec
    <3> QED  BY <3>2, <3>3
  <2> QED  BY <2>1, <2>2 DEF TypeOK
<1>2. Lasting => (~torn => TypeOK)
  BY <1>1 DEF Lasting
<1> QED  BY <1>2, LastingAlways, PTL

\* On a volume of any size, in whatever order requests, handles, failing sectors
\* and power losses come and at whichever of its sector writes a request is cut
\* short: every chain that can be reached is allocated to its end, ends, and
\* shares no cluster with another, until a directory is torn, which takes a
\* request cut short after add_dir_entries() has linked a new cluster and before
\* it has cleared it.
THEOREM ChainsAreSound == Spec => []ChainsSound
<1>1. Inv => ChainsSound
  <2> SUFFICES ASSUME Inv PROVE ChainsSound
    OBVIOUS
  <2>1. Sound(fat, disk, << >>)
    BY SoundCut DEF Inv, VolumeInv
  <2> QED  BY <2>1, SoundSuffices DEF Inv, VolumeInv
<1>2. Lasting => ChainsSound
  BY <1>1 DEF Lasting, ChainsSound
<1> QED  BY <1>2, LastingAlways, PTL

\* On a volume of any size, while no write has failed, no change was made without
\* FSInfo and nothing was cut short: the count of free clusters in FSInfo is the
\* number of free FAT entries of the data area between requests.
THEOREM FreeCountExact == Spec => []FreeCount
<1>1. Inv => FreeCount
  <2> SUFFICES ASSUME Inv, op = Idle, ~damaged, info.free # Unknown
               PROVE  info.free = Cardinality({c \in Root..LastData : fat[c] = 0})
    BY DEF FreeCount
  <2>1. Counts(fat, info, << >>)
    BY IdleIs DEF Inv, VolumeInv
  <2> QED  BY <2>1, CountsNow
<1>2. Lasting => FreeCount
  BY <1>1 DEF Lasting, FreeCount
<1> QED  BY <1>2, LastingAlways, PTL

=============================================================================
