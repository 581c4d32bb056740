---------------------------- MODULE SpaceProofs -----------------------------
(***************************************************************************)
(* Proofs about Memory: the frame allocator, for any regions, and the      *)
(* address spaces, for any number of processes, any programs and calls.    *)
(***************************************************************************)
EXTENDS MemoryProofs

-----------------------------------------------------------------------------
(* The tables of a process.                                                *)

Entries == {e \in [to : Int, flags : SUBSET {"w", "x", "user", "huge"}] : e = Unused \/ e.to >= 0}
IsTables(t) == t \in [RamFrames \union KernelTables -> [0..1 -> Entries]]

\* An entry leads to a table of the process's own.
Linked(e) == e # Unused /\ ~Huge(e) /\ e.to \notin KernelTables

\* The entry points at a table of the kernel's.
Shared(e) == ~Huge(e) /\ e.to \in KernelTables

\* The own tables one level below a set of tables, and the levels below a root.
Below(t, T) == {t[z[1]][z[2]].to : z \in {y \in T \X (0..1) : Linked(t[y[1]][y[2]])}}
Level3(t, root) == Below(t, {root})
Level2(t, root) == Below(t, Level3(t, root))
Level1(t, root) == Below(t, Level2(t, root))
Inner(t, root) == {root} \union Level3(t, root) \union Level2(t, root)
Own(t, root) == Inner(t, root) \union Level1(t, root)

\* They are RAM, are on one level, and one entry leads to each.
Forest(t, root) ==
  /\ Own(t, root) \subseteq RamFrames
  /\ root \notin Level3(t, root) \union Level2(t, root) \union Level1(t, root)
  /\ Level3(t, root) \cap (Level2(t, root) \union Level1(t, root)) = {}
  /\ Level2(t, root) \cap Level1(t, root) = {}
  /\ \A f, g \in Inner(t, root) : \A i, j \in 0..1 :
       Linked(t[f][i]) /\ Linked(t[g][j]) /\ t[f][i].to = t[g][j].to => f = g /\ i = j

\* What can be in the tables, from the lowest level up: the kernel's tables are where
\* the kernel has them, its 1 GiB page of low memory is never split, and in the mmap
\* area the process has its own pages and, where the kernel maps it, the kernel's,
\* which are no RAM.
Node1(t, f, i, high) ==
  i = 1 => \A l \in 0..1 : t[f][l] # Unused /\ "user" \notin t[f][l].flags => high /\ t[f][l].to \in 8..11
Node2(t, f, i, j, high) ==
  \A k \in 0..1 :
    /\ Huge(t[f][k]) => i = 0 \/ (high /\ t[f][k].to \in {8, 10})
    /\ Shared(t[f][k]) => i = 0 /\ j = 0 /\ k = 1 /\ t[f][k].to = K1
    /\ Linked(t[f][k]) => Node1(t, t[f][k].to, i, high)
Node3(t, f, i, high) ==
  \A j \in 0..1 :
    /\ i = 0 /\ j = 1 => Huge(t[f][j])
    /\ Huge(t[f][j]) => (i = 0 /\ j = 1) \/ (i = 1 /\ high /\ t[f][j].to = 8)
    /\ Shared(t[f][j]) => i = 0 /\ j = 0 /\ t[f][j].to = K2
    /\ Linked(t[f][j]) => Node2(t, t[f][j].to, i, j, high)
Node4(t, f, high) ==
  \A i \in 0..1 :
    /\ ~Huge(t[f][i])
    /\ Shared(t[f][i]) => t[f][i].to = (IF i = 0 THEN K3 ELSE K3High) /\ (i = 1 => high)
    /\ Linked(t[f][i]) => Node3(t, t[f][i].to, i, high)

\* The pages user mode reaches are data frames of the process, each at one place.
Leaf(t, f, l) == "user" \in t[f][l].flags
Leaves(t, root, D) ==
  \A f \in Level1(t, root) : \A l \in 0..1 : Leaf(t, f, l) =>
    /\ t[f][l].to \in D
    /\ \A g \in Level1(t, root) : \A k \in 0..1 :
         Leaf(t, g, k) /\ t[g][k].to = t[f][l].to => g = f /\ k = l

KernelOK(t) == \A k \in KernelTables : t[k] = KernelMap(t[K4][1] # Unused)[k]

\* What is below a set of tables.
LEMMA BelowIs ==
  ASSUME NEW t, NEW T, NEW x
  PROVE  x \in Below(t, T) <=> \E f \in T : \E i \in 0..1 : Linked(t[f][i]) /\ x = t[f][i].to
<1>1. ASSUME x \in Below(t, T)
      PROVE  \E f \in T : \E i \in 0..1 : Linked(t[f][i]) /\ x = t[f][i].to
  <2>1. PICK z \in T \X (0..1) : Linked(t[z[1]][z[2]]) /\ x = t[z[1]][z[2]].to
    BY <1>1 DEF Below
  <2>2. z[1] \in T /\ z[2] \in 0..1
    OBVIOUS
  <2> QED  BY <2>1, <2>2
<1>2. ASSUME NEW f \in T, NEW i \in 0..1, Linked(t[f][i]), x = t[f][i].to
      PROVE  x \in Below(t, T)
  <2> DEFINE z == <<f, i>>
  <2>1. z \in T \X (0..1) /\ z[1] = f /\ z[2] = i
    OBVIOUS
  <2> HIDE DEF z
  <2>2. Linked(t[z[1]][z[2]]) /\ x = t[z[1]][z[2]].to
    BY <1>2, <2>1
  <2> QED  BY <2>1, <2>2 DEF Below
<1> QED  BY <1>1, <1>2

\* Two entries lead to the same place in the same way.
Alike(e, d) == e.to = d.to /\ (Huge(e) <=> Huge(d)) /\ (e = Unused <=> d = Unused)

\* Entries that are alike are of the same kind.
LEMMA AlikeIs ==
  ASSUME NEW e, NEW d, Alike(e, d)
  PROVE  e.to = d.to /\ (Linked(e) <=> Linked(d)) /\ (Shared(e) <=> Shared(d)) /\ (Huge(e) <=> Huge(d))
BY DEF Alike, Linked, Shared

\* As far as the inner tables lead to the same places, the levels are the same.
LEMMA BelowSame ==
  ASSUME NEW t, NEW u, NEW T, \A f \in T : \A i \in 0..1 : Alike(u[f][i], t[f][i])
  PROVE  Below(u, T) = Below(t, T)
<1>1. \A x : x \in Below(t, T) <=> \E f \in T : \E i \in 0..1 : Linked(t[f][i]) /\ x = t[f][i].to
  BY BelowIs
<1>2. \A x : x \in Below(u, T) <=> \E f \in T : \E i \in 0..1 : Linked(u[f][i]) /\ x = u[f][i].to
  BY BelowIs
<1>3. \A f \in T : \A i \in 0..1 : (Linked(u[f][i]) <=> Linked(t[f][i])) /\ u[f][i].to = t[f][i].to
  BY AlikeIs
<1>4. \A x : x \in Below(u, T) <=> x \in Below(t, T)
  BY <1>1, <1>2, <1>3
<1> QED  BY <1>4

\* The same for all the levels below a root.
LEMMA LevelsSame ==
  ASSUME NEW t, NEW u, NEW root, \A f \in Inner(t, root) : \A i \in 0..1 : Alike(u[f][i], t[f][i])
  PROVE  /\ Level3(u, root) = Level3(t, root) /\ Level2(u, root) = Level2(t, root)
         /\ Level1(u, root) = Level1(t, root)
         /\ Inner(u, root) = Inner(t, root) /\ Own(u, root) = Own(t, root)
<1>1. Level3(u, root) = Level3(t, root)
  BY BelowSame DEF Level3, Inner
<1>2. Level2(u, root) = Level2(t, root)
  BY <1>1, BelowSame DEF Level2, Inner
<1>3. Level1(u, root) = Level1(t, root)
  BY <1>2, BelowSame DEF Level1, Inner
<1> QED  BY <1>1, <1>2, <1>3 DEF Inner, Own

\* A table of a level leads to the next.
LEMMA LevelsAre ==
  ASSUME NEW t, NEW root
  PROVE  /\ root \in Inner(t, root) /\ root \in Own(t, root)
         /\ Level3(t, root) \subseteq Inner(t, root) /\ Level2(t, root) \subseteq Inner(t, root)
         /\ Level1(t, root) \subseteq Own(t, root) /\ Inner(t, root) \subseteq Own(t, root)
         /\ \A i \in 0..1 : Linked(t[root][i]) => t[root][i].to \in Level3(t, root)
         /\ \A f \in Level3(t, root) : \A i \in 0..1 : Linked(t[f][i]) => t[f][i].to \in Level2(t, root)
         /\ \A f \in Level2(t, root) : \A i \in 0..1 : Linked(t[f][i]) => t[f][i].to \in Level1(t, root)
         /\ \A f \in Inner(t, root) : \A i \in 0..1 : Linked(t[f][i]) => t[f][i].to \in Own(t, root)
<1>1. \A i \in 0..1 : Linked(t[root][i]) => t[root][i].to \in Level3(t, root)
  BY BelowIs DEF Level3
<1>2. \A f \in Level3(t, root) : \A i \in 0..1 : Linked(t[f][i]) => t[f][i].to \in Level2(t, root)
  BY BelowIs DEF Level2
<1>3. \A f \in Level2(t, root) : \A i \in 0..1 : Linked(t[f][i]) => t[f][i].to \in Level1(t, root)
  BY BelowIs DEF Level1
<1> QED  BY <1>1, <1>2, <1>3 DEF Inner, Own

\* A table of a level is led to by the one before.
LEMMA LevelsFrom ==
  ASSUME NEW t, NEW root
  PROVE  /\ \A f \in Level3(t, root) : \E i \in 0..1 : Linked(t[root][i]) /\ f = t[root][i].to
         /\ \A f \in Level2(t, root) : \E g \in Level3(t, root) : \E i \in 0..1 : Linked(t[g][i]) /\ f = t[g][i].to
         /\ \A f \in Level1(t, root) : \E g \in Level2(t, root) : \E i \in 0..1 : Linked(t[g][i]) /\ f = t[g][i].to
BY BelowIs DEF Level3, Level2, Level1

\* In a table of the lowest level of u there is nothing of the kernel's that is not in
\* that of t.
NoMore(u, t, f) ==
  \A l \in 0..1 : u[f][l] # Unused /\ "user" \notin u[f][l].flags
                  => t[f][l] # Unused /\ "user" \notin t[f][l].flags /\ u[f][l].to = t[f][l].to

\* A change that leads to the same places leaves a tree a tree.
LEMMA SameTree ==
  ASSUME NEW t, NEW u, NEW root, NEW high,
         \A f \in Inner(t, root) : \A i \in 0..1 : Alike(u[f][i], t[f][i]),
         \A f \in Level1(t, root) : NoMore(u, t, f),
         Forest(t, root), Node4(t, root, high)
  PROVE  Forest(u, root) /\ Node4(u, root, high)
<1>1. /\ Level3(u, root) = Level3(t, root) /\ Level2(u, root) = Level2(t, root)
      /\ Level1(u, root) = Level1(t, root)
      /\ Inner(u, root) = Inner(t, root) /\ Own(u, root) = Own(t, root)
  BY LevelsSame
<1>2. \A f \in Inner(t, root) : \A i \in 0..1 :
        /\ u[f][i].to = t[f][i].to /\ (Linked(u[f][i]) <=> Linked(t[f][i]))
        /\ (Shared(u[f][i]) <=> Shared(t[f][i])) /\ (Huge(u[f][i]) <=> Huge(t[f][i]))
  BY AlikeIs
<1>3. Forest(u, root)
  BY <1>1, <1>2 DEF Forest
<1>4. ASSUME NEW f \in Level1(t, root), NEW i, Node1(t, f, i, high)
      PROVE  Node1(u, f, i, high)
  BY <1>4 DEF Node1, NoMore
<1>5. ASSUME NEW f \in Level2(t, root), NEW i, NEW j, Node2(t, f, i, j, high)
      PROVE  Node2(u, f, i, j, high)
  <2>1. f \in Inner(t, root)
    BY LevelsAre
  <2>2. \A k \in 0..1 : Linked(t[f][k]) => t[f][k].to \in Level1(t, root)
    BY LevelsAre
  <2>3. \A k \in 0..1 : Linked(u[f][k]) => Node1(u, u[f][k].to, i, high)
    BY <1>2, <1>4, <1>5, <2>1, <2>2 DEF Node2
  <2>4. \A k \in 0..1 : /\ Huge(u[f][k]) => i = 0 \/ (high /\ u[f][k].to \in {8, 10})
                        /\ Shared(u[f][k]) => i = 0 /\ j = 0 /\ k = 1 /\ u[f][k].to = K1
    BY <1>2, <1>5, <2>1 DEF Node2
  <2> QED  BY <2>3, <2>4 DEF Node2
<1>6. ASSUME NEW f \in Level3(t, root), NEW i, Node3(t, f, i, high)
      PROVE  Node3(u, f, i, high)
  <2>1. f \in Inner(t, root)
    BY LevelsAre
  <2>2. \A k \in 0..1 : Linked(t[f][k]) => t[f][k].to \in Level2(t, root)
    BY LevelsAre
  <2>3. \A k \in 0..1 : Linked(u[f][k]) => Node2(u, u[f][k].to, i, k, high)
    BY <1>2, <1>5, <1>6, <2>1, <2>2 DEF Node3
  <2>4. \A j \in 0..1 :
          /\ i = 0 /\ j = 1 => Huge(u[f][j])
          /\ Huge(u[f][j]) => (i = 0 /\ j = 1) \/ (i = 1 /\ high /\ u[f][j].to = 8)
          /\ Shared(u[f][j]) => i = 0 /\ j = 0 /\ u[f][j].to = K2
    BY <1>2, <1>6, <2>1 DEF Node3
  <2> QED  BY <2>3, <2>4 DEF Node3
<1>7. Node4(u, root, high)
  <2>1. root \in Inner(t, root)
    BY LevelsAre
  <2>2. \A k \in 0..1 : Linked(t[root][k]) => t[root][k].to \in Level3(t, root)
    BY LevelsAre
  <2>3. \A k \in 0..1 : Linked(u[root][k]) => Node3(u, u[root][k].to, k, high)
    BY <1>2, <1>6, <2>1, <2>2 DEF Node4
  <2>4. \A i \in 0..1 :
          /\ ~Huge(u[root][i])
          /\ Shared(u[root][i]) => u[root][i].to = (IF i = 0 THEN K3 ELSE K3High) /\ (i = 1 => high)
    BY <1>2, <2>1 DEF Node4
  <2> QED  BY <2>3, <2>4 DEF Node4
<1> QED  BY <1>3, <1>7

-----------------------------------------------------------------------------
(* A new table is linked.                                                  *)

\* In u, entry i of table f leads to the table n; apart from that the tables of the
\* tree are as in t.
LinkedIn(u, t, root, f, i, n) ==
  /\ f \in Inner(t, root) /\ i \in 0..1 /\ ~Linked(t[f][i])
  /\ n \notin Own(t, root) /\ n \in RamFrames
  /\ Linked(u[f][i]) /\ u[f][i].to = n
  /\ \A j \in 0..1 : j # i => u[f][j] = t[f][j]
  /\ \A g \in Own(t, root) : g # f => u[g] = t[g]
  /\ f \notin Level2(t, root) => \A l \in 0..1 : ~Linked(u[n][l])

\* What is below a set of tables, when an entry is made to point at a new table.
LEMMA BelowLinked ==
  ASSUME NEW t, NEW u, NEW root, NEW f, NEW i, NEW n, LinkedIn(u, t, root, f, i, n),
         NEW T, T \subseteq Own(t, root)
  PROVE  /\ f \in T => Below(u, T) = Below(t, T) \union {n}
         /\ f \notin T => Below(u, T) = Below(t, T)
         /\ f \notin Level2(t, root) => Below(u, T \union {n}) = Below(u, T)
<1>1. \A S, x : x \in Below(t, S) <=> \E g \in S : \E j \in 0..1 : Linked(t[g][j]) /\ x = t[g][j].to
  BY BelowIs
<1>2. \A S, x : x \in Below(u, S) <=> \E g \in S : \E j \in 0..1 : Linked(u[g][j]) /\ x = u[g][j].to
  BY BelowIs
<1>3. ASSUME NEW g \in T, NEW j \in 0..1, g # f \/ j # i
      PROVE  u[g][j] = t[g][j]
  <2>1. CASE g # f
    BY <2>1 DEF LinkedIn
  <2>2. CASE g = f
    BY <1>3, <2>2 DEF LinkedIn
  <2> QED  BY <2>1, <2>2
<1>4. i \in 0..1 /\ ~Linked(t[f][i]) /\ Linked(u[f][i]) /\ u[f][i].to = n
  BY DEF LinkedIn
<1>5. ASSUME f \in T PROVE Below(u, T) = Below(t, T) \union {n}
  <2>1. ASSUME NEW x \in Below(u, T) PROVE x \in Below(t, T) \union {n}
    <3>1. PICK g \in T : \E j \in 0..1 : Linked(u[g][j]) /\ x = u[g][j].to
      BY <1>2
    <3>2. PICK j \in 0..1 : Linked(u[g][j]) /\ x = u[g][j].to
      BY <3>1
    <3>3. CASE g = f /\ j = i
      BY <1>4, <3>2, <3>3
    <3>4. CASE g # f \/ j # i
      BY <1>1, <1>3, <3>2, <3>4
    <3> QED  BY <3>3, <3>4
  <2>2. ASSUME NEW x \in Below(t, T) PROVE x \in Below(u, T)
    <3>1. PICK g \in T : \E j \in 0..1 : Linked(t[g][j]) /\ x = t[g][j].to
      BY <1>1
    <3>2. PICK j \in 0..1 : Linked(t[g][j]) /\ x = t[g][j].to
      BY <3>1
    <3>3. g # f \/ j # i
      BY <1>4, <3>2
    <3> QED  BY <1>2, <1>3, <3>2, <3>3
  <2>3. n \in Below(u, T)
    BY <1>2, <1>4, <1>5
  <2> QED  BY <2>1, <2>2, <2>3
<1>6. ASSUME f \notin T PROVE Below(u, T) = Below(t, T)
  <2>1. \A g \in T : \A j \in 0..1 : u[g][j] = t[g][j]
    BY <1>3, <1>6
  <2>2. \A x : x \in Below(u, T) <=> x \in Below(t, T)
    BY <1>1, <1>2, <2>1
  <2> QED  BY <2>2
<1>7. ASSUME f \notin Level2(t, root) PROVE Below(u, T \union {n}) = Below(u, T)
  <2>1. \A l \in 0..1 : ~Linked(u[n][l])
    BY <1>7 DEF LinkedIn
  <2>2. \A x : x \in Below(u, T \union {n}) <=> x \in Below(u, T)
    BY <1>2, <2>1
  <2> QED  BY <2>2
<1> QED  BY <1>5, <1>6, <1>7

\* The new table is one level below the table that leads to it.
LEMMA LinkedLevels ==
  ASSUME NEW t, NEW u, NEW root, NEW f, NEW i, NEW n, LinkedIn(u, t, root, f, i, n), Forest(t, root)
  PROVE  /\ f = root =>
              Level3(u, root) = Level3(t, root) \union {n} /\ Level2(u, root) = Level2(t, root)
              /\ Level1(u, root) = Level1(t, root)
         /\ f \in Level3(t, root) =>
              Level3(u, root) = Level3(t, root) /\ Level2(u, root) = Level2(t, root) \union {n}
              /\ Level1(u, root) = Level1(t, root)
         /\ f \in Level2(t, root) =>
              Level3(u, root) = Level3(t, root) /\ Level2(u, root) = Level2(t, root)
              /\ Level1(u, root) = Level1(t, root) \union {n}
         /\ Own(u, root) = Own(t, root) \union {n}
         /\ f \in Level2(t, root) => Inner(u, root) = Inner(t, root)
         /\ f \notin Level2(t, root) => Inner(u, root) = Inner(t, root) \union {n}
<1> DEFINE A == {root}
           B == Level3(t, root)
           C == Level2(t, root)
<1>1. A \subseteq Own(t, root) /\ B \subseteq Own(t, root) /\ C \subseteq Own(t, root)
  BY LevelsAre
<1>2. /\ root \notin B /\ root \notin C
      /\ \A x \in B : x \notin C
  BY DEF Forest
<1>3. f = root \/ f \in B \/ f \in C
  BY DEF LinkedIn, Inner
<1>a. /\ B = Below(t, A) /\ C = Below(t, B) /\ Level1(t, root) = Below(t, C)
      /\ Level3(u, root) = Below(u, A) /\ Level2(u, root) = Below(u, Below(u, A))
      /\ Level1(u, root) = Below(u, Below(u, Below(u, A)))
  BY DEF Level3, Level2, Level1
<1>e. f \in A <=> f = root
  OBVIOUS
<1> HIDE DEF A
<1>b. /\ f \in A => Below(u, A) = Below(t, A) \union {n}
      /\ f \notin A => Below(u, A) = Below(t, A)
      /\ f \notin C => Below(u, A \union {n}) = Below(u, A)
  BY <1>1, BelowLinked
<1>c. /\ f \in B => Below(u, B) = Below(t, B) \union {n}
      /\ f \notin B => Below(u, B) = Below(t, B)
      /\ f \notin C => Below(u, B \union {n}) = Below(u, B)
  BY <1>1, BelowLinked
<1>d. /\ f \in C => Below(u, C) = Below(t, C) \union {n}
      /\ f \notin C => Below(u, C) = Below(t, C)
      /\ f \notin C => Below(u, C \union {n}) = Below(u, C)
  BY <1>1, BelowLinked
<1> HIDE DEF B, C
<1>4. ASSUME f = root
      PROVE  Level3(u, root) = B \union {n} /\ Level2(u, root) = C
             /\ Level1(u, root) = Level1(t, root)
  <2>1. f \in A /\ f \notin B /\ f \notin C
    BY <1>2, <1>4, <1>e
  <2> QED  BY <2>1, <1>a, <1>b, <1>c, <1>d
<1>5. ASSUME f \in B
      PROVE  Level3(u, root) = B /\ Level2(u, root) = C \union {n}
             /\ Level1(u, root) = Level1(t, root)
  <2>1. f \notin A /\ f \notin C
    BY <1>2, <1>5, <1>e
  <2> QED  BY <1>5, <2>1, <1>a, <1>b, <1>c, <1>d
<1>6. ASSUME f \in C
      PROVE  Level3(u, root) = B /\ Level2(u, root) = C
             /\ Level1(u, root) = Level1(t, root) \union {n}
  <2>1. f \notin A /\ f \notin B
    BY <1>2, <1>6, <1>e
  <2> QED  BY <1>6, <2>1, <1>a, <1>b, <1>c, <1>d
<1> USE DEF B, C
<1>7. /\ Own(u, root) = Own(t, root) \union {n}
      /\ f \in Level2(t, root) => Inner(u, root) = Inner(t, root)
      /\ f \notin Level2(t, root) => Inner(u, root) = Inner(t, root) \union {n}
  BY <1>2, <1>3, <1>4, <1>5, <1>6 DEF Own, Inner
<1> QED  BY <1>4, <1>5, <1>6, <1>7

\* A new table below an entry leaves the tables a forest.
LEMMA LinkedForest ==
  ASSUME NEW t, NEW u, NEW root, NEW f, NEW i, NEW n, LinkedIn(u, t, root, f, i, n), Forest(t, root)
  PROVE  Forest(u, root)
<1>0. /\ Own(t, root) \subseteq RamFrames
      /\ root \notin Level3(t, root) \union Level2(t, root) \union Level1(t, root)
      /\ Level3(t, root) \cap (Level2(t, root) \union Level1(t, root)) = {}
      /\ Level2(t, root) \cap Level1(t, root) = {}
      /\ \A g, h \in Inner(t, root) : \A k, j \in 0..1 :
           Linked(t[g][k]) /\ Linked(t[h][j]) /\ t[g][k].to = t[h][j].to => g = h /\ k = j
  BY Zenon DEF Forest
<1>1. n \in RamFrames /\ n \notin Own(t, root) /\ f \in Inner(t, root)
  BY DEF LinkedIn
<1>2. Own(u, root) = Own(t, root) \union {n}
  BY LinkedLevels
<1>3. n # root /\ n \notin Level3(t, root) /\ n \notin Level2(t, root) /\ n \notin Level1(t, root)
  BY <1>1 DEF Own, Inner
<1>4. /\ root \notin Level3(u, root) \union Level2(u, root) \union Level1(u, root)
      /\ Level3(u, root) \cap (Level2(u, root) \union Level1(u, root)) = {}
      /\ Level2(u, root) \cap Level1(u, root) = {}
  <2>1. CASE f = root
    <3>1. Level3(u, root) = Level3(t, root) \union {n} /\ Level2(u, root) = Level2(t, root)
          /\ Level1(u, root) = Level1(t, root)
      BY <2>1, LinkedLevels
    <3> QED  BY <1>0, <1>3, <3>1
  <2>2. CASE f \in Level3(t, root)
    <3>1. Level3(u, root) = Level3(t, root) /\ Level2(u, root) = Level2(t, root) \union {n}
          /\ Level1(u, root) = Level1(t, root)
      BY <2>2, LinkedLevels
    <3> QED  BY <1>0, <1>3, <3>1
  <2>3. CASE f \in Level2(t, root)
    <3>1. Level3(u, root) = Level3(t, root) /\ Level2(u, root) = Level2(t, root)
          /\ Level1(u, root) = Level1(t, root) \union {n}
      BY <2>3, LinkedLevels
    <3> QED  BY <1>0, <1>3, <3>1
  <2> QED  BY <1>1, <2>1, <2>2, <2>3 DEF Inner
<1>5. ASSUME NEW g \in Inner(u, root), NEW k \in 0..1, Linked(u[g][k])
      PROVE  \/ g = f /\ k = i /\ u[g][k].to = n
             \/ /\ g \in Inner(t, root) /\ Linked(t[g][k]) /\ u[g][k].to = t[g][k].to
                /\ u[g][k].to # n /\ (g # f \/ k # i)
  <2>1. g # n
    <3>1. CASE f \in Level2(t, root)
      BY <1>1, <3>1, LinkedLevels, LevelsAre
    <3>2. CASE f \notin Level2(t, root)
      BY <1>5, <3>2 DEF LinkedIn
    <3> QED  BY <3>1, <3>2
  <2>2. g \in Inner(t, root)
    BY <2>1, LinkedLevels
  <2>3. CASE g = f /\ k = i
    BY <2>3 DEF LinkedIn
  <2>4. CASE g # f \/ k # i
    <3>1. g \in Own(t, root)
      BY <2>2, LevelsAre
    <3>2. u[g][k] = t[g][k]
      BY <2>4, <3>1 DEF LinkedIn
    <3>3. t[g][k].to \in Own(t, root)
      BY <1>5, <2>2, <3>2, LevelsAre
    <3> QED  BY <1>1, <1>5, <2>2, <2>4, <3>2, <3>3
  <2> QED  BY <2>3, <2>4
<1>6. ASSUME NEW g \in Inner(u, root), NEW h \in Inner(u, root), NEW k \in 0..1, NEW j \in 0..1,
             Linked(u[g][k]), Linked(u[h][j]), u[g][k].to = u[h][j].to
      PROVE  g = h /\ k = j
  BY <1>0, <1>5, <1>6
<1> QED  BY <1>0, <1>1, <1>2, <1>4, <1>6 DEF Forest

\* A table whose subtree does not hold the changed table f is as before.
LEMMA NodesKept ==
  ASSUME NEW t, NEW u, NEW root, NEW f, NEW high, Forest(t, root), f \in Inner(t, root),
         \A g \in Own(t, root) : g # f => u[g] = t[g]
  PROVE  /\ \A x \in Level1(t, root) : \A a : Node1(t, x, a, high) => Node1(u, x, a, high)
         /\ \A x \in Level2(t, root) : \A a, b : x # f /\ Node2(t, x, a, b, high) => Node2(u, x, a, b, high)
         /\ \A x \in Level3(t, root) : \A a :
              x # f /\ Node3(t, x, a, high) /\ (\A j \in 0..1 : Linked(t[x][j]) => t[x][j].to # f)
                => Node3(u, x, a, high)
<1>1. \A x \in Level1(t, root) : x # f /\ u[x] = t[x]
  <2>1. \A x \in Level1(t, root) : x \notin Inner(t, root) /\ x \in Own(t, root)
    BY DEF Forest, Inner, Own
  <2> QED  BY <2>1
<1>2. \A x \in Inner(t, root) : x \in Own(t, root)
  BY DEF Own
<1>3. ASSUME NEW x \in Level1(t, root), NEW a, Node1(t, x, a, high)
      PROVE  Node1(u, x, a, high)
  BY <1>1, <1>3 DEF Node1
<1>4. ASSUME NEW x \in Level2(t, root), NEW a, NEW b, x # f, Node2(t, x, a, b, high)
      PROVE  Node2(u, x, a, b, high)
  <2>1. u[x] = t[x]
    BY <1>2, <1>4, LevelsAre
  <2>2. \A k \in 0..1 : Linked(t[x][k]) => t[x][k].to \in Level1(t, root)
    BY LevelsAre
  <2>3. \A k \in 0..1 : Linked(t[x][k]) => Node1(u, t[x][k].to, a, high)
    BY <1>3, <1>4, <2>2 DEF Node2
  <2> QED  BY <1>4, <2>1, <2>3 DEF Node2
<1>5. ASSUME NEW x \in Level3(t, root), NEW a, x # f, Node3(t, x, a, high),
             \A j \in 0..1 : Linked(t[x][j]) => t[x][j].to # f
      PROVE  Node3(u, x, a, high)
  <2>1. u[x] = t[x]
    BY <1>2, <1>5, LevelsAre
  <2>2. \A k \in 0..1 : Linked(t[x][k]) => t[x][k].to \in Level2(t, root)
    BY LevelsAre
  <2>3. \A k \in 0..1 : Linked(t[x][k]) => Node2(u, t[x][k].to, a, k, high)
    BY <1>4, <1>5, <2>2 DEF Node3
  <2> QED  BY <1>5, <2>1, <2>3 DEF Node3
<1> QED  BY <1>3, <1>4, <1>5

\* A table of level 1 that has not changed is in order as before.
LEMMA Node1Kept ==
  ASSUME NEW t, NEW u, NEW root, NEW f, NEW high, NEW x \in Level1(t, root), NEW a,
         Forest(t, root), f \in Inner(t, root), \A g \in Own(t, root) : g # f => u[g] = t[g],
         Node1(t, x, a, high)
  PROVE  Node1(u, x, a, high)
<1>1. \A y \in Level1(t, root) : \A d : Node1(t, y, d, high) => Node1(u, y, d, high)
  BY NodesKept
<1> QED  BY <1>1

\* The same for a table of level 2.
LEMMA Node2Kept ==
  ASSUME NEW t, NEW u, NEW root, NEW f, NEW high, NEW x \in Level2(t, root), NEW a, NEW b,
         Forest(t, root), f \in Inner(t, root), \A g \in Own(t, root) : g # f => u[g] = t[g],
         x # f, Node2(t, x, a, b, high)
  PROVE  Node2(u, x, a, b, high)
<1>1. \A y \in Level2(t, root) : \A d, e : y # f /\ Node2(t, y, d, e, high) => Node2(u, y, d, e, high)
  BY NodesKept
<1> QED  BY <1>1

\* The same for a table of level 3.
LEMMA Node3Kept ==
  ASSUME NEW t, NEW u, NEW root, NEW f, NEW high, NEW x \in Level3(t, root), NEW a,
         Forest(t, root), f \in Inner(t, root), \A g \in Own(t, root) : g # f => u[g] = t[g],
         x # f, Node3(t, x, a, high), \A j \in 0..1 : Linked(t[x][j]) => t[x][j].to # f
  PROVE  Node3(u, x, a, high)
<1>1. \A y \in Level3(t, root) : \A d :
        y # f /\ Node3(t, y, d, high) /\ (\A j \in 0..1 : Linked(t[y][j]) => t[y][j].to # f)
          => Node3(u, y, d, high)
  BY NodesKept
<1> QED  BY <1>1

\* The kernel's mark of a table is not there when the process has linked its own.
LEMMA LinkedNot ==
  ASSUME NEW e, Linked(e)
  PROVE  ~Huge(e) /\ ~Shared(e)
BY DEF Linked, Shared

\* A new table below the root.
LEMMA LinkRoot ==
  ASSUME NEW t, NEW u, NEW root, NEW n, NEW high, NEW a \in 0..1,
         LinkedIn(u, t, root, root, a, n), Forest(t, root), Node4(t, root, high), Node3(u, n, a, high)
  PROVE  Node4(u, root, high)
<1>1. \A g \in Own(t, root) : g # root => u[g] = t[g]
  BY DEF LinkedIn
<1>2. root \in Inner(t, root)
  BY LevelsAre
<1>3. ASSUME NEW i \in 0..1, i # a, Linked(t[root][i])
      PROVE  Node3(u, t[root][i].to, i, high)
  <2> DEFINE x == t[root][i].to
  <2>1. x \in Level3(t, root)
    BY <1>3, LevelsAre
  <2>2. x # root /\ \A j \in 0..1 : Linked(t[x][j]) => t[x][j].to # root
    <3>1. \A j \in 0..1 : Linked(t[x][j]) => t[x][j].to \in Level2(t, root)
      BY <2>1, LevelsAre
    <3> HIDE DEF x
    <3> QED  BY <2>1, <3>1 DEF Forest
  <2>3. Node3(t, x, i, high)
    BY <1>3 DEF Node4
  <2> HIDE DEF x
  <2>4. Node3(u, x, i, high)
    BY <1>1, <1>2, <2>1, <2>2, <2>3, Node3Kept
  <2> QED  BY <2>4 DEF x
<1>4. /\ Linked(u[root][a]) /\ u[root][a].to = n
      /\ \A i \in 0..1 : i # a => u[root][i] = t[root][i]
  BY DEF LinkedIn
<1>5. ~Huge(u[root][a]) /\ ~Shared(u[root][a])
  BY <1>4, LinkedNot
<1> QED  BY <1>3, <1>4, <1>5 DEF Node4

\* A new table below one of level 3.
LEMMA LinkL3 ==
  ASSUME NEW t, NEW u, NEW root, NEW n, NEW high, NEW a \in 0..1, NEW b \in 0..1, NEW f,
         Linked(t[root][a]), f = t[root][a].to,
         LinkedIn(u, t, root, f, b, n), Forest(t, root), Node4(t, root, high),
         Node2(u, n, a, b, high), ~(a = 0 /\ b = 1)
  PROVE  Node4(u, root, high)
<1>1. \A g \in Own(t, root) : g # f => u[g] = t[g]
  BY DEF LinkedIn
<1>2. f \in Level3(t, root) /\ f \in Inner(t, root) /\ root \in Inner(t, root) /\ root \in Own(t, root)
  BY LevelsAre
<1>3. f # root
  BY <1>2 DEF Forest
<1>4. u[root] = t[root]
  BY <1>1, <1>2, <1>3
<1>5. ASSUME NEW i \in 0..1, i # a, Linked(t[root][i])
      PROVE  Node3(u, t[root][i].to, i, high)
  <2> DEFINE x == t[root][i].to
  <2>1. x \in Level3(t, root)
    BY <1>5, LevelsAre
  <2>2. x # f
    BY <1>2, <1>5 DEF Forest
  <2>3. \A j \in 0..1 : Linked(t[x][j]) => t[x][j].to # f
    <3>1. \A j \in 0..1 : Linked(t[x][j]) => t[x][j].to \in Level2(t, root)
      BY <2>1, LevelsAre
    <3> HIDE DEF x
    <3> QED  BY <1>2, <3>1 DEF Forest
  <2>4. Node3(t, x, i, high)
    BY <1>5 DEF Node4
  <2> HIDE DEF x
  <2>5. Node3(u, x, i, high)
    BY <1>1, <1>2, <2>1, <2>2, <2>3, <2>4, Node3Kept
  <2> QED  BY <2>5 DEF x
<1>6. Node3(u, f, a, high)
  <2>1. Node3(t, f, a, high)
    BY DEF Node4
  <2>2. /\ Linked(u[f][b]) /\ u[f][b].to = n
        /\ \A i \in 0..1 : i # b => u[f][i] = t[f][i]
    BY DEF LinkedIn
  <2>3. ~Huge(u[f][b]) /\ ~Shared(u[f][b])
    BY <2>2, LinkedNot
  <2>4. ASSUME NEW j \in 0..1, j # b, Linked(t[f][j])
        PROVE  Node2(u, t[f][j].to, a, j, high)
    <3> DEFINE x == t[f][j].to
    <3>1. x \in Level2(t, root)
      BY <1>2, <2>4, LevelsAre
    <3>2. x # f
      BY <1>2, <3>1 DEF Forest
    <3>3. Node2(t, x, a, j, high)
      BY <2>1, <2>4 DEF Node3
    <3> HIDE DEF x
    <3>4. Node2(u, x, a, j, high)
      BY <1>1, <1>2, <3>1, <3>2, <3>3, Node2Kept
    <3> QED  BY <3>4 DEF x
  <2>5. ASSUME NEW j \in 0..1
        PROVE  /\ a = 0 /\ j = 1 => Huge(u[f][j])
               /\ Huge(u[f][j]) => (a = 0 /\ j = 1) \/ (a = 1 /\ high /\ u[f][j].to = 8)
               /\ Shared(u[f][j]) => a = 0 /\ j = 0 /\ u[f][j].to = K2
               /\ Linked(u[f][j]) => Node2(u, u[f][j].to, a, j, high)
    <3>1. CASE j = b
      BY <3>1, <2>2, <2>3
    <3>2. CASE j # b
      BY <3>2, <2>1, <2>2, <2>4 DEF Node3
    <3> QED  BY <3>1, <3>2
  <2> QED  BY <2>5 DEF Node3
<1> QED  BY <1>4, <1>5, <1>6 DEF Node4

\* The entries of a table lead to different tables.
LEMMA OneEntry ==
  ASSUME NEW t, NEW root, Forest(t, root), NEW h \in Inner(t, root), NEW i \in 0..1, NEW k \in 0..1,
         Linked(t[h][i]), Linked(t[h][k]), i # k
  PROVE  t[h][i].to # t[h][k].to
BY DEF Forest

\* A new table below one of level 2.
LEMMA LinkL2 ==
  ASSUME NEW t, NEW u, NEW root, NEW n, NEW high, NEW a \in 0..1, NEW b \in 0..1, NEW c \in 0..1,
         NEW g, NEW f,
         Linked(t[root][a]), g = t[root][a].to, Linked(t[g][b]), f = t[g][b].to,
         LinkedIn(u, t, root, f, c, n), Forest(t, root), Node4(t, root, high), Node1(u, n, a, high)
  PROVE  Node4(u, root, high)
<1>1. \A h \in Own(t, root) : h # f => u[h] = t[h]
  BY DEF LinkedIn
<1>2. g \in Level3(t, root) /\ g \in Inner(t, root) /\ root \in Inner(t, root)
      /\ root \in Own(t, root) /\ g \in Own(t, root)
  BY LevelsAre
<1>3. f \in Level2(t, root) /\ f \in Inner(t, root)
  BY <1>2, LevelsAre
<1>4. f # root /\ f # g
  BY <1>2, <1>3 DEF Forest
<1>5. u[root] = t[root] /\ u[g] = t[g]
  BY <1>1, <1>2, <1>4
<1>6. ASSUME NEW i \in 0..1, i # a, Linked(t[root][i])
      PROVE  Node3(u, t[root][i].to, i, high)
  <2> DEFINE x == t[root][i].to
  <2>1. x \in Level3(t, root) /\ x \in Inner(t, root)
    BY <1>6, LevelsAre
  <2>2. x # g
    BY <1>2, <1>6 DEF Forest
  <2>3. x # f
    BY <1>3, <2>1 DEF Forest
  <2> HIDE DEF x
  <2>4. \A j \in 0..1 : Linked(t[x][j]) => t[x][j].to # f
    BY <1>2, <2>1, <2>2 DEF Forest
  <2>5. Node3(t, x, i, high)
    BY <1>6 DEF Node4, x
  <2>6. Node3(u, x, i, high)
    BY <1>1, <1>3, <2>1, <2>3, <2>4, <2>5, Node3Kept
  <2> QED  BY <2>6 DEF x
<1>7. Node3(t, g, a, high)
  BY DEF Node4
<1>8. Node2(u, f, a, b, high)
  <2>1. Node2(t, f, a, b, high)
    BY <1>7 DEF Node3
  <2>2. /\ Linked(u[f][c]) /\ u[f][c].to = n
        /\ \A i \in 0..1 : i # c => u[f][i] = t[f][i]
    BY DEF LinkedIn
  <2>3. ~Huge(u[f][c]) /\ ~Shared(u[f][c])
    BY <2>2, LinkedNot
  <2>4. ASSUME NEW j \in 0..1, j # c, Linked(t[f][j])
        PROVE  Node1(u, t[f][j].to, a, high)
    <3>1. t[f][j].to \in Level1(t, root)
      BY <1>3, <2>4, LevelsAre
    <3>2. Node1(t, t[f][j].to, a, high)
      BY <2>1, <2>4 DEF Node2
    <3> QED  BY <1>1, <1>3, <3>1, <3>2, Node1Kept
  <2>5. ASSUME NEW k \in 0..1
        PROVE  /\ Huge(u[f][k]) => a = 0 \/ (high /\ u[f][k].to \in {8, 10})
               /\ Shared(u[f][k]) => a = 0 /\ b = 0 /\ k = 1 /\ u[f][k].to = K1
               /\ Linked(u[f][k]) => Node1(u, u[f][k].to, a, high)
    <3>1. CASE k = c
      BY <3>1, <2>2, <2>3
    <3>2. CASE k # c
      BY <3>2, <2>1, <2>2, <2>4 DEF Node2
    <3> QED  BY <3>1, <3>2
  <2> QED  BY <2>5 DEF Node2
<1>9. Node3(u, g, a, high)
  <2>1. ASSUME NEW j \in 0..1, j # b, Linked(t[g][j])
        PROVE  Node2(u, t[g][j].to, a, j, high)
    <3> DEFINE x == t[g][j].to
    <3>1. x \in Level2(t, root)
      BY <1>2, <2>1, LevelsAre
    <3>2. x # f
      BY <1>2, <2>1, OneEntry
    <3>3. Node2(t, x, a, j, high)
      BY <1>7, <2>1 DEF Node3
    <3> HIDE DEF x
    <3>4. Node2(u, x, a, j, high)
      BY <1>1, <1>3, <3>1, <3>2, <3>3, Node2Kept
    <3> QED  BY <3>4 DEF x
  <2> QED  BY <1>5, <1>7, <1>8, <2>1 DEF Node3
<1> QED  BY <1>5, <1>6, <1>9 DEF Node4

-----------------------------------------------------------------------------
(* The walk of a page.                                                     *)

Pages == 0..15

\* The indices of a page are bits, and the bits are the page.
LEMMA IndexIs ==
  ASSUME NEW page \in Pages
  PROVE  /\ Index(page, 1) \in 0..1 /\ Index(page, 2) \in 0..1
         /\ Index(page, 3) \in 0..1 /\ Index(page, 4) \in 0..1
         /\ page = 8 * Index(page, 4) + 4 * Index(page, 3) + 2 * Index(page, 2) + Index(page, 1)
         /\ Index(page, 4) = 1 <=> page >= 8
<1>1. /\ Index(page, 1) = (page \div 1) % 2 /\ Index(page, 2) = (page \div 2) % 2
      /\ Index(page, 3) = (page \div 4) % 2 /\ Index(page, 4) = (page \div 8) % 2
  BY DEF Index
<1>2. /\ (page \div 1) % 2 \in 0..1 /\ (page \div 2) % 2 \in 0..1
      /\ (page \div 4) % 2 \in 0..1 /\ (page \div 8) % 2 \in 0..1
  BY DEF Pages
<1>3. page = 8 * ((page \div 8) % 2) + 4 * ((page \div 4) % 2) + 2 * ((page \div 2) % 2) + ((page \div 1) % 2)
  BY DEF Pages
<1>4. (page \div 8) % 2 = 1 <=> page >= 8
  BY DEF Pages
<1> QED  BY <1>1, <1>2, <1>3, <1>4

\* Pages with the same indices are the same.
LEMMA SamePage ==
  ASSUME NEW a \in Pages, NEW b \in Pages, Index(a, 1) = Index(b, 1), Index(a, 2) = Index(b, 2),
         Index(a, 3) = Index(b, 3), Index(a, 4) = Index(b, 4)
  PROVE  a = b
<1>1. /\ a = 8 * Index(a, 4) + 4 * Index(a, 3) + 2 * Index(a, 2) + Index(a, 1)
      /\ b = 8 * Index(b, 4) + 4 * Index(b, 3) + 2 * Index(b, 2) + Index(b, 1)
  BY IndexIs
<1> QED  BY <1>1

\* The tables the walk of a page goes through, as far as they are the process's own.
At3(t, root, page) == t[root][Index(page, 4)].to
At2(t, root, page) == t[At3(t, root, page)][Index(page, 3)].to
At1(t, root, page) == t[At2(t, root, page)][Index(page, 2)].to
Has3(t, root, page) == Linked(t[root][Index(page, 4)])
Has2(t, root, page) == Has3(t, root, page) /\ Linked(t[At3(t, root, page)][Index(page, 3)])
Has1(t, root, page) == Has2(t, root, page) /\ Linked(t[At2(t, root, page)][Index(page, 2)])

\* The process reaches the page in user mode, in its own tables.
InUse(t, root, page) == Has1(t, root, page) /\ Leaf(t, At1(t, root, page), Index(page, 1))

\* A walk through own tables goes from level to level.
LEMMA WalkIs ==
  ASSUME NEW t, NEW root, NEW page \in Pages
  PROVE  /\ Has3(t, root, page) => At3(t, root, page) \in Level3(t, root)
         /\ Has2(t, root, page) => Has3(t, root, page) /\ At2(t, root, page) \in Level2(t, root)
         /\ Has1(t, root, page) => Has2(t, root, page) /\ At1(t, root, page) \in Level1(t, root)
<1>0. Index(page, 4) \in 0..1 /\ Index(page, 3) \in 0..1 /\ Index(page, 2) \in 0..1
  BY IndexIs
<1>1. Has3(t, root, page) => At3(t, root, page) \in Level3(t, root)
  BY <1>0, LevelsAre DEF Has3, At3
<1>2. Has2(t, root, page) => Has3(t, root, page) /\ At2(t, root, page) \in Level2(t, root)
  BY <1>0, <1>1, LevelsAre DEF Has2, At2
<1>3. Has1(t, root, page) => Has2(t, root, page) /\ At1(t, root, page) \in Level1(t, root)
  BY <1>0, <1>2, LevelsAre DEF Has1, At1
<1> QED  BY <1>1, <1>2, <1>3

\* Two walks that end in the same entry are of the same page.
LEMMA OneWalk ==
  ASSUME NEW t, NEW root, Forest(t, root), NEW a \in Pages, NEW b \in Pages,
         Has1(t, root, a), Has1(t, root, b), At1(t, root, a) = At1(t, root, b), Index(a, 1) = Index(b, 1)
  PROVE  a = b
<1>0. /\ Index(a, 4) \in 0..1 /\ Index(a, 3) \in 0..1 /\ Index(a, 2) \in 0..1
      /\ Index(b, 4) \in 0..1 /\ Index(b, 3) \in 0..1 /\ Index(b, 2) \in 0..1
  BY IndexIs
<1>1. \A f, g \in Inner(t, root) : \A i, j \in 0..1 :
        Linked(t[f][i]) /\ Linked(t[g][j]) /\ t[f][i].to = t[g][j].to => f = g /\ i = j
  BY DEF Forest
<1>2. /\ Has3(t, root, a) /\ Has2(t, root, a) /\ Has3(t, root, b) /\ Has2(t, root, b)
      /\ At3(t, root, a) \in Level3(t, root) /\ At3(t, root, b) \in Level3(t, root)
      /\ At2(t, root, a) \in Level2(t, root) /\ At2(t, root, b) \in Level2(t, root)
  BY WalkIs
<1>3. /\ At3(t, root, a) \in Inner(t, root) /\ At3(t, root, b) \in Inner(t, root)
      /\ At2(t, root, a) \in Inner(t, root) /\ At2(t, root, b) \in Inner(t, root)
      /\ root \in Inner(t, root)
  BY <1>2, LevelsAre
<1>4. At2(t, root, a) = At2(t, root, b) /\ Index(a, 2) = Index(b, 2)
  BY <1>0, <1>1, <1>3 DEF At1, Has1
<1>5. At3(t, root, a) = At3(t, root, b) /\ Index(a, 3) = Index(b, 3)
  BY <1>0, <1>1, <1>2, <1>3, <1>4 DEF At2, Has2
<1>6. Index(a, 4) = Index(b, 4)
  BY <1>0, <1>1, <1>2, <1>3, <1>5 DEF At3, Has3
<1> QED  BY <1>4, <1>5, <1>6, SamePage

\* The kernel's tables.
LEMMA KernelIs ==
  ASSUME NEW t, KernelOK(t), NEW high, high = (t[K4][1] # Unused)
  PROVE  /\ t[K4][0] = Entry(K3, {"w", "x"})
         /\ t[K4][1] = IF high THEN Entry(K3High, {"w", "x"}) ELSE Unused
         /\ t[K3][0] = Entry(K2, {"w", "x"}) /\ t[K3][1] = Entry(4, {"w", "x", "huge"})
         /\ t[K2][0] = Entry(0, {"w", "x", "huge"}) /\ t[K2][1] = Entry(K1, {"w", "x"})
         /\ t[K1][0] = Entry(2, {"w", "x"}) /\ t[K1][1] = Entry(3, {"w", "x"})
         /\ t[K3High][0] = IF high THEN Entry(8, {"w", "x", "huge"}) ELSE Unused
         /\ t[K3High][1] = Unused
<1>1. /\ K4 \in KernelTables /\ K3 \in KernelTables /\ K2 \in KernelTables /\ K1 \in KernelTables
      /\ K3High \in KernelTables
      /\ K4 - K4 + 1 = 1 /\ K3 - K4 + 1 = 2 /\ K2 - K4 + 1 = 3 /\ K1 - K4 + 1 = 4 /\ K3High - K4 + 1 = 5
  BY DEF K4, K3, K2, K1, K3High, KernelTables
<1>2. \A k \in KernelTables : t[k] = KernelMap(high)[k] /\ k \in RamFrames \union KernelTables
  BY DEF KernelOK
<1>a. \A e, d : TableOf(e, d)[0] = e /\ TableOf(e, d)[1] = d
  BY DEF TableOf
<1>3. t[K4] = TableOf(Entry(K3, {"w", "x"}), IF high THEN Entry(K3High, {"w", "x"}) ELSE Unused)
  BY <1>1, <1>2 DEF KernelMap
<1>4. t[K3] = TableOf(Entry(K2, {"w", "x"}), Entry(4, {"w", "x", "huge"}))
  BY <1>1, <1>2 DEF KernelMap
<1>5. t[K2] = TableOf(Entry(0, {"w", "x", "huge"}), Entry(K1, {"w", "x"}))
  BY <1>1, <1>2 DEF KernelMap
<1>6. t[K1] = TableOf(Entry(2, {"w", "x"}), Entry(3, {"w", "x"}))
  BY <1>1, <1>2 DEF KernelMap
<1>7. t[K3High] = TableOf(IF high THEN Entry(8, {"w", "x", "huge"}) ELSE Unused, Unused)
  BY <1>1, <1>2 DEF KernelMap
<1>8. t[K4][0] = Entry(K3, {"w", "x"}) /\ t[K4][1] = IF high THEN Entry(K3High, {"w", "x"}) ELSE Unused
  BY <1>a, <1>3
<1>9. t[K3High][0] = (IF high THEN Entry(8, {"w", "x", "huge"}) ELSE Unused) /\ t[K3High][1] = Unused
  BY <1>a, <1>7
<1>10. /\ t[K3][0] = Entry(K2, {"w", "x"}) /\ t[K3][1] = Entry(4, {"w", "x", "huge"})
       /\ t[K2][0] = Entry(0, {"w", "x", "huge"}) /\ t[K2][1] = Entry(K1, {"w", "x"})
       /\ t[K1][0] = Entry(2, {"w", "x"}) /\ t[K1][1] = Entry(3, {"w", "x"})
  BY <1>a, <1>4, <1>5, <1>6
<1> QED  BY <1>8, <1>9, <1>10

\* Where the kernel has its tables and its huge pages.
LEMMA KernelAddrIs ==
  ASSUME KernelOK(tables), NEW page \in Pages, NEW high, high = (tables[K4][1] # Unused)
  PROVE  /\ KernelAddr(page, 4) = IF Index(page, 4) = 0 THEN K3 ELSE IF high THEN K3High ELSE -1
         /\ KernelAddr(page, 3) = IF Index(page, 4) = 0 THEN (IF Index(page, 3) = 0 THEN K2 ELSE 4)
                                  ELSE IF high /\ Index(page, 3) = 0 THEN 8 ELSE -1
         /\ KernelAddr(page, 2) = IF Index(page, 4) = 0 /\ Index(page, 3) = 0 /\ Index(page, 2) = 1
                                  THEN K1 ELSE -1
<1> DEFINE a == Index(page, 4)
           b == Index(page, 3)
           c == Index(page, 2)
           e4 == tables[K4][a]
           e3 == tables[e4.to][b]
           e2 == tables[e3.to][c]
<1>1. a \in {0, 1} /\ b \in {0, 1} /\ c \in {0, 1}
  BY IndexIs
<1>2. /\ KernelAddr(page, 4) = e4.to
      /\ KernelAddr(page, 3) = (IF e4 = Unused THEN -1 ELSE e3.to)
      /\ KernelAddr(page, 2) = (IF e4 = Unused \/ e3 = Unused \/ Huge(e3) \/ Huge(e2) THEN -1 ELSE e2.to)
  BY DEF KernelAddr
<1> HIDE DEF a, b, c
<1>3. \A x, y : Entry(x, y).to = x /\ Entry(x, y).flags = y
  BY DEF Entry
<1>4. Unused.to = -1 /\ Unused.flags = {}
  BY DEF Unused
<1>5. K3 # -1 /\ K2 # -1 /\ K1 # -1 /\ K3High # -1
  BY DEF K3, K2, K1, K3High
<1>6. CASE a = 0
  <2>1. e4 = Entry(K3, {"w", "x"})
    BY <1>6, KernelIs
  <2>2. e4.to = K3 /\ e4 # Unused
    BY <1>3, <1>4, <1>5, <2>1
  <2>3. CASE b = 0
    <3>1. e3 = Entry(K2, {"w", "x"})
      BY <2>2, <2>3, KernelIs
    <3>2. e3.to = K2 /\ e3 # Unused /\ ~Huge(e3)
      BY <1>3, <1>4, <1>5, <3>1 DEF Huge
    <3>3. CASE c = 0
      <4>1. e2 = Entry(0, {"w", "x", "huge"})
        BY <3>2, <3>3, KernelIs
      <4>2. Huge(e2)
        BY <1>3, <4>1 DEF Huge
      <4> QED  BY <1>2, <1>6, <2>2, <2>3, <3>2, <3>3, <4>2 DEF a, b, c
    <3>4. CASE c = 1
      <4>1. e2 = Entry(K1, {"w", "x"})
        BY <3>2, <3>4, KernelIs
      <4>2. ~Huge(e2) /\ e2.to = K1
        BY <1>3, <4>1 DEF Huge
      <4> QED  BY <1>2, <1>6, <2>2, <2>3, <3>2, <3>4, <4>2 DEF a, b, c
    <3> QED  BY <1>1, <3>3, <3>4
  <2>4. CASE b = 1
    <3>1. e3 = Entry(4, {"w", "x", "huge"})
      BY <2>2, <2>4, KernelIs
    <3>2. e3.to = 4 /\ Huge(e3)
      BY <1>3, <3>1 DEF Huge
    <3> QED  BY <1>2, <1>6, <2>2, <2>4, <3>2 DEF a, b, c
  <2> QED  BY <1>1, <2>3, <2>4
<1>7. CASE a = 1 /\ ~high
  <2>1. e4 = Unused
    BY <1>7, KernelIs
  <2> QED  BY <1>2, <1>4, <1>7, <2>1 DEF a, b, c
<1>8. CASE a = 1 /\ high
  <2>1. e4 = Entry(K3High, {"w", "x"})
    BY <1>8, KernelIs
  <2>2. e4.to = K3High /\ e4 # Unused
    BY <1>3, <1>4, <1>5, <2>1
  <2>3. CASE b = 0
    <3>1. e3 = Entry(8, {"w", "x", "huge"})
      BY <1>8, <2>2, <2>3, KernelIs
    <3>2. e3.to = 8 /\ Huge(e3)
      BY <1>3, <3>1 DEF Huge
    <3> QED  BY <1>2, <1>8, <2>2, <2>3, <3>2 DEF a, b, c
  <2>4. CASE b = 1
    <3>1. e3 = Unused
      BY <1>8, <2>2, <2>4, KernelIs
    <3> QED  BY <1>2, <1>4, <1>8, <2>2, <2>4, <3>1 DEF a, b, c
  <2> QED  BY <1>1, <2>3, <2>4
<1> QED  BY <1>1, <1>6, <1>7, <1>8

\* A walk in the process's own tables stays what it was when a table is linked.
LEMMA WalkKept ==
  ASSUME NEW t, NEW u, NEW root, NEW f, NEW i, NEW n, LinkedIn(u, t, root, f, i, n), NEW page \in Pages
  PROVE  /\ Has3(t, root, page) => Has3(u, root, page) /\ At3(u, root, page) = At3(t, root, page)
         /\ Has2(t, root, page) => Has2(u, root, page) /\ At2(u, root, page) = At2(t, root, page)
         /\ Has1(t, root, page) => Has1(u, root, page) /\ At1(u, root, page) = At1(t, root, page)
<1>0. Index(page, 4) \in 0..1 /\ Index(page, 3) \in 0..1 /\ Index(page, 2) \in 0..1
  BY IndexIs
<1>1. \A x \in Own(t, root) : \A j \in 0..1 : Linked(t[x][j]) => u[x][j] = t[x][j]
  BY DEF LinkedIn
<1>2. Has3(t, root, page) => Has3(u, root, page) /\ At3(u, root, page) = At3(t, root, page)
  BY <1>0, <1>1, LevelsAre DEF Has3, At3
<1>3. Has3(t, root, page) => At3(t, root, page) \in Own(t, root)
  BY WalkIs, LevelsAre
<1>4. Has2(t, root, page) => Has2(u, root, page) /\ At2(u, root, page) = At2(t, root, page)
  BY <1>0, <1>1, <1>2, <1>3 DEF Has2, At2
<1>5. Has2(t, root, page) => At2(t, root, page) \in Own(t, root)
  BY WalkIs, LevelsAre
<1>6. Has1(t, root, page) => Has1(u, root, page) /\ At1(u, root, page) = At1(t, root, page)
  BY <1>0, <1>1, <1>4, <1>5 DEF Has1, At1
<1> QED  BY <1>2, <1>4, <1>6

\* A new table brings no page that user mode reaches.
LEMMA InUseKept ==
  ASSUME NEW t, NEW u, NEW root, NEW f, NEW i, NEW n, LinkedIn(u, t, root, f, i, n), Forest(t, root),
         f \in Level2(t, root) => \A l \in 0..1 : ~Leaf(u, n, l), NEW page \in Pages
  PROVE  InUse(u, root, page) <=> InUse(t, root, page)
<1> DEFINE d == Index(page, 4)
           c == Index(page, 3)
           b == Index(page, 2)
           a == Index(page, 1)
<1>0. a \in 0..1 /\ b \in 0..1 /\ c \in 0..1 /\ d \in 0..1
  BY IndexIs
<1>1. ASSUME InUse(t, root, page) PROVE InUse(u, root, page)
  <2>1. Has1(t, root, page) /\ Leaf(t, At1(t, root, page), a)
    BY <1>1 DEF InUse
  <2>2. Has1(u, root, page) /\ At1(u, root, page) = At1(t, root, page)
    BY <2>1, WalkKept
  <2>3. At1(t, root, page) \in Level1(t, root)
    BY <2>1, WalkIs
  <2>4. At1(t, root, page) \in Own(t, root) /\ At1(t, root, page) # f
    BY <2>3 DEF LinkedIn, Forest, Own, Inner
  <2>5. u[At1(t, root, page)] = t[At1(t, root, page)]
    BY <2>4 DEF LinkedIn
  <2> QED  BY <2>1, <2>2, <2>5 DEF InUse, Leaf
<1>2. ASSUME InUse(u, root, page) PROVE InUse(t, root, page)
  <2> DEFINE r3 == At3(u, root, page)
             r2 == At2(u, root, page)
             r1 == At1(u, root, page)
  <2>1. /\ Linked(u[root][d]) /\ r3 = u[root][d].to
        /\ Linked(u[r3][c]) /\ r2 = u[r3][c].to
        /\ Linked(u[r2][b]) /\ r1 = u[r2][b].to
        /\ Leaf(u, r1, a)
    BY <1>2 DEF InUse, Has1, Has2, Has3, At1, At2, At3
  <2>2. \A x \in Own(t, root) : \A j \in 0..1 : u[x][j] = t[x][j] \/ (x = f /\ j = i /\ u[x][j].to = n)
    BY DEF LinkedIn
  <2>3. root \in Own(t, root) /\ root \notin Level2(t, root)
    BY LevelsAre DEF Forest
  <2>4. f \notin Level2(t, root) => \A l \in 0..1 : ~Linked(u[n][l])
    BY DEF LinkedIn
  <2>5. u[root][d] = t[root][d]
    BY <1>0, <2>1, <2>2, <2>3, <2>4
  <2>6. Linked(t[root][d]) /\ r3 = t[root][d].to
    BY <2>1, <2>5
  <2>7. r3 \in Level3(t, root)
    BY <1>0, <2>6, LevelsAre
  <2>8. r3 \in Own(t, root) /\ r3 \notin Level2(t, root)
    BY <2>7, LevelsAre DEF Forest
  <2>9. u[r3][c] = t[r3][c]
    BY <1>0, <2>1, <2>2, <2>4, <2>8
  <2>10. r2 \in Level2(t, root) /\ r2 \in Own(t, root)
    <3>1. Linked(t[r3][c]) /\ r2 = t[r3][c].to
      BY <2>1, <2>9
    <3>2. r2 \in Level2(t, root)
      BY <1>0, <2>7, <3>1, LevelsAre
    <3> QED  BY <3>2, LevelsAre
  <2>11. u[r2][b] = t[r2][b]
    <3>1. ASSUME u[r2][b] # t[r2][b] PROVE FALSE
      <4>1. r2 = f /\ r1 = n
        BY <1>0, <2>1, <2>2, <2>10, <3>1
      <4> QED  BY <1>0, <2>1, <2>10, <4>1
    <3> QED  BY <3>1
  <2>12. Linked(t[r2][b]) /\ r1 = t[r2][b].to
    BY <2>1, <2>11
  <2>13. r1 \in Level1(t, root)
    BY <1>0, <2>10, <2>12, LevelsAre
  <2>14. r1 \in Own(t, root) /\ r1 # f
    BY <2>13 DEF LinkedIn, Forest, Own, Inner
  <2>15. u[r1] = t[r1]
    BY <2>14 DEF LinkedIn
  <2>16. Leaf(t, r1, a)
    BY <2>1, <2>15 DEF Leaf
  <2>17. Linked(t[r3][c]) /\ r2 = t[r3][c].to
    BY <2>1, <2>9
  <2>18. At3(t, root, page) = r3
    BY <2>6 DEF At3
  <2>19. At2(t, root, page) = r2
    BY <2>17, <2>18 DEF At2
  <2>20. At1(t, root, page) = r1
    BY <2>12, <2>19 DEF At1
  <2> HIDE DEF r1, r2, r3
  <2> QED  BY <2>6, <2>12, <2>16, <2>17, <2>18, <2>19, <2>20 DEF InUse, Has1, Has2, Has3
<1> QED  BY <1>1, <1>2

\* The huge pages of a process loaded from a file are out of user mode's reach.
Plain(t, root) == \A f \in Inner(t, root) : \A i \in 0..1 : Huge(t[f][i]) => ~Leaf(t, f, i)

\* The leaves stay what they are, too.
LEMMA LeavesLinked ==
  ASSUME NEW t, NEW u, NEW root, NEW f, NEW i, NEW n, LinkedIn(u, t, root, f, i, n), Forest(t, root),
         NEW D, Leaves(t, root, D), f \in Level2(t, root) => \A l \in 0..1 : ~Leaf(u, n, l)
  PROVE  Leaves(u, root, D)
<1>1. \A x \in Level1(t, root) : x # f /\ u[x] = t[x]
  <2>1. \A x \in Level1(t, root) : x \in Own(t, root) /\ x # f
    BY DEF LinkedIn, Forest, Own, Inner
  <2> QED  BY <2>1 DEF LinkedIn
<1>2. f = root \/ f \in Level3(t, root) \/ f \in Level2(t, root)
  BY DEF LinkedIn, Inner
<1>3. ASSUME NEW x \in Level1(u, root), NEW l \in 0..1, Leaf(u, x, l)
      PROVE  x \in Level1(t, root) /\ Leaf(t, x, l) /\ u[x][l] = t[x][l]
  <2>1. x \in Level1(t, root) \/ (x = n /\ f \in Level2(t, root))
    BY <1>2, LinkedLevels
  <2>2. x \in Level1(t, root)
    BY <1>3, <2>1
  <2> QED  BY <1>1, <1>3, <2>2 DEF Leaf
<1> QED  BY <1>3 DEF Leaves

\* A new table below an entry opens no huge page to user mode.
LEMMA PlainLinked ==
  ASSUME NEW t, NEW u, NEW root, NEW f, NEW i, NEW n, LinkedIn(u, t, root, f, i, n), Forest(t, root),
         Plain(t, root), \A l \in 0..1 : Huge(u[n][l]) => ~Leaf(u, n, l)
  PROVE  Plain(u, root)
<1>1. ASSUME NEW x \in Inner(u, root), NEW j \in 0..1, Huge(u[x][j])
      PROVE  ~Leaf(u, x, j)
  <2>1. x \in Inner(t, root) \/ x = n
    BY LinkedLevels
  <2>2. CASE x = n
    BY <1>1, <2>2
  <2>3. CASE x \in Inner(t, root)
    <3>1. x \in Own(t, root)
      BY <2>3, LevelsAre
    <3>2. ~(x = f /\ j = i)
      BY <1>1, LinkedNot DEF LinkedIn
    <3>3. u[x][j] = t[x][j]
      BY <3>1, <3>2 DEF LinkedIn
    <3> QED  BY <1>1, <2>3, <3>3 DEF Plain, Leaf
  <2> QED  BY <2>1, <2>2, <2>3
<1> QED  BY <1>1 DEF Plain

-----------------------------------------------------------------------------
(* The memory a call works on.                                             *)

Flags == {"w", "x", "user", "huge"}

\* The frames of RAM are not the kernel's tables, and the used frames are among them.
LEMMA RamIs ==
  /\ \A x \in RamFrames : x \in Nat /\ x \notin KernelTables /\ x # 8 /\ x \notin 8..11
  /\ \A f : AllocOK(f) => Used(f) \subseteq RamFrames
<1>1. ASSUME NEW x \in RamFrames PROVE x \in Nat
  <2>1. PICK r \in DOMAIN Regions : x \in Regions[r].start .. Regions[r].start + Regions[r].pages - 1
    BY DEF RamFrames
  <2>2. Regions[r].start \in Nat /\ Regions[r].pages \in Nat
    BY RegionsAre
  <2> QED  BY <2>1, <2>2
<1>2. \A x \in RamFrames : x \notin KernelTables /\ x # 8 /\ x \notin 8..11
  BY SpaceConstants
<1>3. ASSUME NEW f, AllocOK(f), NEW x \in Used(f) PROVE x \in RamFrames
  <2>1. RegionsOK(f)
    BY <1>3 DEF AllocOK
  <2>2. PICK r \in DOMAIN Regions : \E a \in f.regions[r].bits : x = Regions[r].start + a
    BY <1>3, <2>1, UsedIs
  <2>3. PICK a \in f.regions[r].bits : x = Regions[r].start + a
    BY <2>2
  <2>4. a \in 0..Regions[r].pages - 1
    BY <2>1, BitsAre
  <2>5. Regions[r].start \in Nat /\ Regions[r].pages \in Nat
    BY RegionsAre
  <2>6. x \in Regions[r].start .. Regions[r].start + Regions[r].pages - 1
    BY <2>3, <2>4, <2>5
  <2> QED  BY <2>6 DEF RamFrames
<1> QED  BY <1>1, <1>2, <1>3

Mem(m) == m = [fa |-> m.fa, tables |-> m.tables, panic |-> m.panic, at |-> m.at, got |-> m.got]

\* A frame is taken, or there is none.
LEMMA NewFrameIs ==
  ASSUME NEW m, Mem(m), m.panic = "no", AllocOK(m.fa), NEW c, NEW n, n = NewFrame(m, c)
  PROVE  \/ n.panic = "no frame" /\ AllocOK(n.fa) /\ Mem(n)
         \/ /\ n = [fa |-> n.fa, tables |-> [m.tables EXCEPT ![n.got] = c], panic |-> "no", at |-> m.at, got |-> n.got]
            /\ n.got \in RamFrames /\ n.got \notin Used(m.fa)
            /\ AllocOK(n.fa) /\ Used(n.fa) = Used(m.fa) \union {n.got}
<1> DEFINE a == Allocate(m.fa, 0)
<1>1. \/ a.frame = -1 /\ a.fa = m.fa
      \/ /\ a.frame \in RamFrames /\ a.frame \in Nat /\ a.frame \notin Used(m.fa)
         /\ AllocOK(a.fa) /\ Used(a.fa) = Used(m.fa) \union {a.frame}
  BY AllocateOK
<1>2. n = IF a.frame = -1 THEN [m EXCEPT !.panic = "no frame"]
          ELSE [m EXCEPT !.fa = a.fa, !.tables[a.frame] = c, !.got = a.frame]
  BY DEF NewFrame
<1> HIDE DEF a
<1>3. CASE a.frame = -1
  <2>1. n = [m EXCEPT !.panic = "no frame"]
    BY <1>2, <1>3
  <2> QED  BY <2>1 DEF Mem
<1>4. CASE a.frame # -1
  <2>1. n = [m EXCEPT !.fa = a.fa, !.tables[a.frame] = c, !.got = a.frame]
    BY <1>2, <1>4
  <2>2. n = [fa |-> a.fa, tables |-> [m.tables EXCEPT ![a.frame] = c], panic |-> "no", at |-> m.at, got |-> a.frame]
    BY <2>1 DEF Mem
  <2>3. n.fa = a.fa /\ n.got = a.frame
    BY <2>2
  <2> QED  BY <1>1, <1>4, <2>2, <2>3
<1> QED  BY <1>3, <1>4

\* The tables with the new table n, and entry i of f leading to it.
Linking(t, f, i, n, c, flags) == [[t EXCEPT ![n] = c] EXCEPT ![f][i] = Entry(n, flags)]

NewLink(n, m, i, c, flags) ==
  \/ n.panic = "no frame" /\ AllocOK(n.fa) /\ Mem(n)
  \/ /\ Mem(n) /\ n.panic = "no" /\ n.at = n.got
     /\ n.tables = Linking(m.tables, m.at, i, n.got, c, flags)
     /\ n.got \in RamFrames /\ n.got \notin Used(m.fa)
     /\ AllocOK(n.fa) /\ Used(n.fa) = Used(m.fa) \union {n.got}

\* A table is made and linked, or there is no frame for it.
LEMMA LinkNewIs ==
  ASSUME NEW m, Mem(m), m.panic = "no", AllocOK(m.fa), NEW c, NEW i, NEW flags,
         NEW n, n = LinkNew(NewFrame(m, c), i, flags)
  PROVE  NewLink(n, m, i, c, flags)
<1> DEFINE k == NewFrame(m, c)
<1>1. \/ k.panic = "no frame" /\ AllocOK(k.fa) /\ Mem(k)
      \/ /\ k = [fa |-> k.fa, tables |-> [m.tables EXCEPT ![k.got] = c], panic |-> "no", at |-> m.at, got |-> k.got]
         /\ k.got \in RamFrames /\ k.got \notin Used(m.fa)
         /\ AllocOK(k.fa) /\ Used(k.fa) = Used(m.fa) \union {k.got}
  BY NewFrameIs
<1>2. n = IF k.panic # "no" THEN k ELSE [k EXCEPT !.tables[k.at][i] = Entry(k.got, flags), !.at = k.got]
  BY DEF LinkNew
<1> HIDE DEF k
<1>3. CASE k.panic = "no frame" /\ AllocOK(k.fa) /\ Mem(k)
  BY <1>2, <1>3 DEF NewLink
<1>4. CASE /\ k = [fa |-> k.fa, tables |-> [m.tables EXCEPT ![k.got] = c], panic |-> "no", at |-> m.at, got |-> k.got]
           /\ k.got \in RamFrames /\ k.got \notin Used(m.fa)
           /\ AllocOK(k.fa) /\ Used(k.fa) = Used(m.fa) \union {k.got}
  <2>1. k.panic = "no" /\ k.at = m.at /\ k.tables = [m.tables EXCEPT ![k.got] = c]
    BY <1>4
  <2>2. n = [k EXCEPT !.tables[k.at][i] = Entry(k.got, flags), !.at = k.got]
    BY <1>2, <2>1
  <2>3. n = [fa |-> k.fa, tables |-> [k.tables EXCEPT ![k.at][i] = Entry(k.got, flags)],
             panic |-> "no", at |-> k.got, got |-> k.got]
    <3> DEFINE X == [k.tables EXCEPT ![k.at][i] = Entry(k.got, flags)]
    <3>1. n = [k EXCEPT !.tables = X, !.at = k.got]
      BY <2>2
    <3> HIDE DEF X
    <3>2. Mem(k)
      BY <1>4, <2>1 DEF Mem
    <3>3. n = [fa |-> k.fa, tables |-> X, panic |-> "no", at |-> k.got, got |-> k.got]
      BY <2>1, <3>1, <3>2 DEF Mem
    <3> QED  BY <3>3 DEF X
  <2>4. n = [fa |-> k.fa, tables |-> [[m.tables EXCEPT ![k.got] = c] EXCEPT ![m.at][i] = Entry(k.got, flags)],
             panic |-> "no", at |-> k.got, got |-> k.got]
    BY <2>1, <2>3
  <2>5. /\ n.got = k.got /\ n.fa = k.fa /\ n.panic = "no" /\ n.at = n.got
        /\ n.tables = Linking(m.tables, m.at, i, n.got, c, flags)
    BY <2>4 DEF Linking
  <2>6. Mem(n)
    BY <2>4, <2>5 DEF Mem
  <2> QED  BY <1>4, <2>5, <2>6 DEF NewLink
<1> QED  BY <1>1, <1>3, <1>4

\* What the tables are after that.
LEMMA LinkedInIs ==
  ASSUME NEW t, IsTables(t), NEW root, Forest(t, root), NEW f \in Inner(t, root), NEW i \in 0..1,
         ~Linked(t[f][i]), NEW n \in RamFrames, n \notin Own(t, root), NEW c \in [0..1 -> Entries],
         NEW flags \in SUBSET {"w", "x", "user"},
         f \notin Level2(t, root) => \A l \in 0..1 : ~Linked(c[l]),
         NEW u, u = Linking(t, f, i, n, c, flags)
  PROVE  /\ IsTables(u) /\ LinkedIn(u, t, root, f, i, n) /\ u[n] = c /\ u[f][i] = Entry(n, flags)
         /\ \A x \in RamFrames \union KernelTables : x # f /\ x # n => u[x] = t[x]
<1>1. f \in Own(t, root) /\ f \in RamFrames /\ f # n
  BY LevelsAre DEF Forest
<1>2. n \in Nat /\ n \notin KernelTables
  BY RamIs
<1>3. t \in [RamFrames \union KernelTables -> [0..1 -> Entries]]
  BY DEF IsTables
<1> DEFINE d == [t EXCEPT ![n] = c]
<1>4. d \in [RamFrames \union KernelTables -> [0..1 -> Entries]] /\ d[n] = c
      /\ \A x \in RamFrames \union KernelTables : x # n => d[x] = t[x]
  BY <1>3
<1> HIDE DEF d
<1>5. Entry(n, flags) \in Entries /\ Entry(n, flags).to = n /\ Linked(Entry(n, flags))
  BY <1>2 DEF Entry, Entries, Linked, Huge, Unused
<1>6. u = [d EXCEPT ![f][i] = Entry(n, flags)]
  BY DEF d, Linking
<1>7. /\ u \in [RamFrames \union KernelTables -> [0..1 -> Entries]]
      /\ u[f][i] = Entry(n, flags) /\ (\A j \in 0..1 : j # i => u[f][j] = d[f][j])
      /\ \A x \in RamFrames \union KernelTables : x # f => u[x] = d[x]
  BY <1>1, <1>4, <1>5, <1>6
<1>8. /\ \A x \in RamFrames \union KernelTables : x # f /\ x # n => u[x] = t[x]
      /\ \A j \in 0..1 : j # i => u[f][j] = t[f][j]
      /\ u[n] = c
  BY <1>1, <1>4, <1>7
<1>9. \A g \in Own(t, root) : g \in RamFrames \union KernelTables /\ g # n
  BY DEF Forest
<1>10. LinkedIn(u, t, root, f, i, n)
  BY <1>5, <1>7, <1>8, <1>9 DEF LinkedIn
<1> QED  BY <1>7, <1>8, <1>10 DEF IsTables

\* The tables of a process that is not ending, and, of one that was loaded from a file,
\* the pages.
TreeOK(t, root, high) ==
  IsTables(t) /\ Forest(t, root) /\ Node4(t, root, high) /\ t[root][0] # Unused
ElfOK(t, root, D) == Leaves(t, root, D) /\ Plain(t, root)

\* In the middle of a call for a process with the data frames D, R are the frames of
\* everyone else.
Mid(m, root, D, R, elf, high) ==
  /\ Mem(m) /\ m.panic = "no" /\ AllocOK(m.fa)
  /\ TreeOK(m.tables, root, high)
  /\ Used(m.fa) = R \union Own(m.tables, root) \union D
  /\ R \cap (Own(m.tables, root) \union D) = {} /\ Own(m.tables, root) \cap D = {}
  /\ \A x \in R \union KernelTables : m.tables[x] = tables[x]
  /\ elf => ElfOK(m.tables, root, D)

\* The kernel has stopped for a reason that is not a frame given back twice.
Stopped(m) == Mem(m) /\ m.panic \in {"no frame", "1 GiB page"} /\ AllocOK(m.fa)

\* The walks go on, and the pages in use are the same.
Kept(u, t, root, elf) ==
  \A page \in Pages :
    /\ Has3(t, root, page) => Has3(u, root, page) /\ At3(u, root, page) = At3(t, root, page)
    /\ Has2(t, root, page) => Has2(u, root, page) /\ At2(u, root, page) = At2(t, root, page)
    /\ Has1(t, root, page) => Has1(u, root, page) /\ At1(u, root, page) = At1(t, root, page)
    /\ elf => (InUse(u, root, page) <=> InUse(t, root, page))

\* A table is made and linked in the middle of a call.
LEMMA LinkMid ==
  ASSUME NEW m, NEW root, NEW D, NEW R, NEW elf, NEW high, Mid(m, root, D, R, elf, high),
         NEW f, f = m.at, f \in Inner(m.tables, root), NEW i \in 0..1, ~Linked(m.tables[f][i]),
         NEW c \in [0..1 -> Entries], NEW flags \in SUBSET {"w", "x", "user"},
         f \notin Level2(m.tables, root) => \A l \in 0..1 : ~Linked(c[l]),
         \A u, x : LinkedIn(u, m.tables, root, f, i, x) /\ u[x] = c => Node4(u, root, high),
         elf => \A l \in 0..1 : Huge(c[l]) \/ f \in Level2(m.tables, root) => "user" \notin c[l].flags,
         NEW n, n = LinkNew(NewFrame(m, c), i, flags)
  PROVE  \/ Stopped(n)
         \/ /\ Mid(n, root, D, R, elf, high) /\ Kept(n.tables, m.tables, root, elf)
            /\ LinkedIn(n.tables, m.tables, root, f, i, n.at)
<1> DEFINE t == m.tables
           u == n.tables
           x == n.got
<1>0. /\ Mem(m) /\ m.panic = "no" /\ AllocOK(m.fa) /\ IsTables(t) /\ Forest(t, root)
      /\ Node4(t, root, high) /\ t[root][0] # Unused
      /\ Used(m.fa) = R \union Own(t, root) \union D
      /\ R \cap (Own(t, root) \union D) = {} /\ Own(t, root) \cap D = {}
      /\ \A y \in R \union KernelTables : t[y] = tables[y]
  BY DEF Mid, TreeOK
<1>1. \/ n.panic = "no frame" /\ AllocOK(n.fa) /\ Mem(n)
      \/ /\ Mem(n) /\ n.panic = "no" /\ n.at = x /\ u = Linking(t, f, i, x, c, flags)
         /\ x \in RamFrames /\ x \notin Used(m.fa)
         /\ AllocOK(n.fa) /\ Used(n.fa) = Used(m.fa) \union {x}
  <2>1. Mem(m) /\ m.panic = "no" /\ AllocOK(m.fa)
    BY DEF Mid
  <2>2. NewLink(n, m, i, c, flags)
    BY <2>1, LinkNewIs
  <2> QED  BY <2>2 DEF NewLink
<1>2. CASE n.panic = "no frame" /\ AllocOK(n.fa) /\ Mem(n)
  BY <1>2 DEF Stopped
<1>3. CASE /\ Mem(n) /\ n.panic = "no" /\ n.at = x /\ u = Linking(t, f, i, x, c, flags)
           /\ x \in RamFrames /\ x \notin Used(m.fa)
           /\ AllocOK(n.fa) /\ Used(n.fa) = Used(m.fa) \union {x}
  <2>1. u = Linking(t, f, i, x, c, flags) /\ n.panic = "no" /\ n.at = x
    BY <1>3
  <2>2. Mem(n)
    BY <1>3
  <2>3. x \notin Own(t, root) /\ x \notin R /\ x \notin D
    BY <1>0, <1>3
  <2> HIDE DEF t, u, x
  <2>4. /\ IsTables(u) /\ LinkedIn(u, t, root, f, i, x) /\ u[x] = c /\ u[f][i] = Entry(x, flags)
        /\ \A y \in RamFrames \union KernelTables : y # f /\ y # x => u[y] = t[y]
    <3>1. /\ f \in Inner(t, root) /\ ~Linked(t[f][i]) /\ x \in RamFrames
          /\ f \notin Level2(t, root) => \A l \in 0..1 : ~Linked(c[l])
      BY <1>3 DEF t, x
    <3> QED  BY <1>0, <2>1, <2>3, <3>1, LinkedInIs
  <2>5. Forest(u, root) /\ Own(u, root) = Own(t, root) \union {x}
    BY <1>0, <2>4, LinkedForest, LinkedLevels
  <2>6. Node4(u, root, high)
    BY <2>4 DEF t
  <2>7. u[root][0] # Unused
    <3>1. CASE root = f /\ i = 0
      <4>1. Linked(u[root][0])
        BY <2>4, <3>1 DEF LinkedIn
      <4> QED  BY <4>1 DEF Linked
    <3>2. CASE root = f /\ i # 0
      BY <1>0, <2>4, <3>2 DEF LinkedIn
    <3>3. CASE root # f
      BY <1>0, <2>4, <3>3, LevelsAre DEF LinkedIn
    <3> QED  BY <3>1, <3>2, <3>3
  <2>8. \A y \in R \union KernelTables : u[y] = tables[y]
    <3>1. f \in Own(t, root) /\ f \in RamFrames
      BY <1>0, LevelsAre DEF Forest, t
    <3>2. R \subseteq RamFrames
      BY <1>0, RamIs
    <3>3. x \notin KernelTables /\ f \notin KernelTables
      BY <1>3, <3>1, RamIs DEF x
    <3>4. \A y \in R \union KernelTables : y # f /\ y # x /\ y \in RamFrames \union KernelTables
      BY <1>0, <2>3, <3>1, <3>2, <3>3
    <3> QED  BY <1>0, <2>4, <3>4
  <2>9. elf => \A l \in 0..1 : (Huge(u[x][l]) \/ f \in Level2(t, root)) => ~Leaf(u, x, l)
    BY <2>4 DEF Leaf, t
  <2>10. elf => ElfOK(u, root, D)
    <3> SUFFICES ASSUME elf PROVE Leaves(u, root, D) /\ Plain(u, root)
      BY DEF ElfOK
    <3>1. Leaves(t, root, D) /\ Plain(t, root)
      BY DEF Mid, ElfOK, t
    <3>2. Leaves(u, root, D)
      BY <1>0, <2>4, <2>9, <3>1, LeavesLinked
    <3>3. Plain(u, root)
      BY <1>0, <2>4, <2>9, <3>1, PlainLinked
    <3> QED  BY <3>2, <3>3
  <2>11. Kept(u, t, root, elf)
    <3>1. ASSUME NEW page \in Pages, elf
          PROVE  InUse(u, root, page) <=> InUse(t, root, page)
      BY <1>0, <2>4, <2>9, <3>1, InUseKept
    <3>2. ASSUME NEW page \in Pages
          PROVE  /\ Has3(t, root, page) => Has3(u, root, page) /\ At3(u, root, page) = At3(t, root, page)
                 /\ Has2(t, root, page) => Has2(u, root, page) /\ At2(u, root, page) = At2(t, root, page)
                 /\ Has1(t, root, page) => Has1(u, root, page) /\ At1(u, root, page) = At1(t, root, page)
      BY <2>4, WalkKept
    <3> QED  BY <3>1, <3>2 DEF Kept
  <2>12. /\ Used(n.fa) = R \union Own(u, root) \union D
         /\ R \cap (Own(u, root) \union D) = {} /\ Own(u, root) \cap D = {}
    BY <1>0, <1>3, <2>3, <2>5 DEF x
  <2>13. Mid(n, root, D, R, elf, high)
    BY <1>3, <2>1, <2>2, <2>4, <2>5, <2>6, <2>7, <2>8, <2>10, <2>12 DEF Mid, TreeOK, u
  <2> QED  BY <2>1, <2>4, <2>11, <2>13 DEF t, u, x
<1> QED  BY <1>1, <1>2, <1>3

SameWalk(u, t, root, page) ==
  /\ Has3(u, root, page) <=> Has3(t, root, page)
  /\ Has3(t, root, page) => At3(u, root, page) = At3(t, root, page)
  /\ Has2(u, root, page) <=> Has2(t, root, page)
  /\ Has2(t, root, page) => At2(u, root, page) = At2(t, root, page)
  /\ Has1(u, root, page) <=> Has1(t, root, page)
  /\ Has1(t, root, page) => At1(u, root, page) = At1(t, root, page)

\* Walks in tables that lead to the same places.
LEMMA WalkAlike ==
  ASSUME NEW t, NEW u, NEW root, NEW page \in Pages,
         \A f \in Inner(t, root) : \A i \in 0..1 : Alike(u[f][i], t[f][i])
  PROVE  SameWalk(u, t, root, page)
<1>0. Index(page, 4) \in 0..1 /\ Index(page, 3) \in 0..1 /\ Index(page, 2) \in 0..1
  BY IndexIs
<1>1. \A f \in Inner(t, root) : \A i \in 0..1 : (Linked(u[f][i]) <=> Linked(t[f][i])) /\ u[f][i].to = t[f][i].to
  BY AlikeIs
<1>2. (Has3(u, root, page) <=> Has3(t, root, page)) /\ At3(u, root, page) = At3(t, root, page)
  BY <1>0, <1>1, LevelsAre DEF Has3, At3
<1>3. Has3(t, root, page) => At3(t, root, page) \in Inner(t, root)
  BY WalkIs, LevelsAre
<1>4. /\ Has2(u, root, page) <=> Has2(t, root, page)
      /\ Has2(t, root, page) => At2(u, root, page) = At2(t, root, page)
  BY <1>0, <1>1, <1>2, <1>3 DEF Has2, At2
<1>5. Has2(t, root, page) => At2(t, root, page) \in Inner(t, root)
  BY WalkIs, LevelsAre
<1>6. /\ Has1(u, root, page) <=> Has1(t, root, page)
      /\ Has1(t, root, page) => At1(u, root, page) = At1(t, root, page)
  BY <1>0, <1>1, <1>4, <1>5 DEF Has1, At1
<1> QED  BY <1>2, <1>4, <1>6 DEF SameWalk

Flagged(t, f, i, flags) == [t EXCEPT ![f][i].flags = flags]
WithFlags(m, f, i, flags, to) == [m EXCEPT !.tables = Flagged(m.tables, f, i, flags), !.at = to]

\* Flags of an entry that leads to a table, or of a huge page, change.
LEMMA FlagsTree ==
  ASSUME NEW t, NEW root, NEW high, TreeOK(t, root, high), NEW f \in Inner(t, root), NEW i \in 0..1,
         t[f][i] # Unused, NEW flags \in SUBSET Flags, "huge" \in flags <=> Huge(t[f][i]),
         NEW u, u = Flagged(t, f, i, flags)
  PROVE  /\ TreeOK(u, root, high) /\ Own(u, root) = Own(t, root)
         /\ \A x \in RamFrames \union KernelTables : x # f => u[x] = t[x]
         /\ \A page \in Pages :
              /\ Has3(t, root, page) => Has3(u, root, page) /\ At3(u, root, page) = At3(t, root, page)
              /\ Has2(t, root, page) => Has2(u, root, page) /\ At2(u, root, page) = At2(t, root, page)
              /\ Has1(t, root, page) => Has1(u, root, page) /\ At1(u, root, page) = At1(t, root, page)
              /\ InUse(u, root, page) <=> InUse(t, root, page)
         /\ \A D : ElfOK(t, root, D) /\ ~Huge(t[f][i]) => ElfOK(u, root, D)
         /\ Alike(u[f][i], t[f][i])
<1>0. /\ IsTables(t) /\ Forest(t, root) /\ Node4(t, root, high) /\ t[root][0] # Unused
      /\ t \in [RamFrames \union KernelTables -> [0..1 -> Entries]]
      /\ Own(t, root) \subseteq RamFrames
  BY DEF TreeOK, IsTables, Forest
<1>1. f \in Own(t, root) /\ f \in RamFrames
  BY <1>0, LevelsAre
<1> DEFINE e == t[f][i]
           d == [e EXCEPT !.flags = flags]
<1>2. e \in Entries
  BY <1>0, <1>1
<1>3. d \in Entries /\ d.to = e.to /\ d.flags = flags /\ d # Unused /\ e.to >= 0
  <2>1. e = [to |-> e.to, flags |-> e.flags] /\ e.to \in Int /\ e.to >= 0
    BY <1>2 DEF Entries
  <2>2. d = [to |-> e.to, flags |-> flags]
    BY <2>1
  <2> HIDE DEF d, e
  <2> QED  BY <2>1, <2>2 DEF Entries, Unused, Flags
<1>4. u = [t EXCEPT ![f] = [t[f] EXCEPT ![i] = d]]
  BY DEF Flagged
<1> HIDE DEF d, e
<1>5. /\ u \in [RamFrames \union KernelTables -> [0..1 -> Entries]]
      /\ u[f][i] = d /\ (\A j \in 0..1 : j # i => u[f][j] = t[f][j])
      /\ \A x \in RamFrames \union KernelTables : x # f => u[x] = t[x]
  BY <1>0, <1>1, <1>3, <1>4
<1>6. Alike(u[f][i], t[f][i])
  BY <1>3, <1>5 DEF Alike, Huge, e
<1>7. ASSUME NEW g \in Inner(t, root), NEW j \in 0..1 PROVE Alike(u[g][j], t[g][j])
  <2>1. g \in RamFrames \union KernelTables
    BY <1>0, LevelsAre
  <2>2. (g = f /\ j = i) \/ u[g][j] = t[g][j]
    BY <1>5, <2>1
  <2> QED  BY <1>6, <2>2 DEF Alike
<1>8. \A g \in Level1(t, root) : u[g] = t[g]
  <2>1. \A g \in Level1(t, root) : g # f /\ g \in RamFrames
    BY <1>0, LevelsAre DEF Forest, Inner
  <2> QED  BY <1>5, <2>1
<1>9. \A g \in Level1(t, root) : NoMore(u, t, g)
  BY <1>8 DEF NoMore
<1>10. Forest(u, root) /\ Node4(u, root, high)
  BY <1>0, <1>7, <1>9, SameTree
<1>11. /\ Level1(u, root) = Level1(t, root)
       /\ Inner(u, root) = Inner(t, root) /\ Own(u, root) = Own(t, root)
  BY <1>7, LevelsSame
<1>12. u[root][0] # Unused
  BY <1>0, <1>7, LevelsAre DEF Alike
<1>13. TreeOK(u, root, high)
  BY <1>5, <1>10, <1>12 DEF TreeOK, IsTables
<1>14. ASSUME NEW page \in Pages
       PROVE  /\ Has3(t, root, page) => Has3(u, root, page) /\ At3(u, root, page) = At3(t, root, page)
              /\ Has2(t, root, page) => Has2(u, root, page) /\ At2(u, root, page) = At2(t, root, page)
              /\ Has1(u, root, page) <=> Has1(t, root, page)
              /\ Has1(t, root, page) => At1(u, root, page) = At1(t, root, page)
  <2>1. SameWalk(u, t, root, page)
    BY <1>7, WalkAlike
  <2> QED  BY <2>1 DEF SameWalk
<1>15. ASSUME NEW page \in Pages
       PROVE  InUse(u, root, page) <=> InUse(t, root, page)
  <2>1. Has1(t, root, page) => At1(t, root, page) \in Level1(t, root)
    BY WalkIs
  <2> QED  BY <1>8, <1>14, <2>1 DEF InUse, Leaf
<1>16. ASSUME NEW D, ElfOK(t, root, D), ~Huge(t[f][i]) PROVE ElfOK(u, root, D)
  <2>1. Leaves(t, root, D) /\ Plain(t, root)
    BY <1>16 DEF ElfOK
  <2>a. \A g \in Level1(t, root) : \A l \in 0..1 : u[g][l] = t[g][l] /\ (Leaf(u, g, l) <=> Leaf(t, g, l))
    BY <1>8 DEF Leaf
  <2>2. Leaves(u, root, D)
    BY <1>11, <2>1, <2>a DEF Leaves
  <2>3. ~Huge(u[f][i])
    BY <1>6, <1>16 DEF Alike
  <2>4. ASSUME NEW g \in Inner(t, root), NEW j \in 0..1, Huge(u[g][j]) PROVE ~Leaf(u, g, j)
    <3>1. g \in RamFrames \union KernelTables
      BY <1>0, LevelsAre
    <3>2. u[g][j] = t[g][j]
      BY <1>5, <2>3, <2>4, <3>1
    <3> QED  BY <2>1, <2>4, <3>2 DEF Plain, Leaf
  <2> QED  BY <1>11, <2>2, <2>4 DEF ElfOK, Plain
<1> QED  BY <1>5, <1>6, <1>11, <1>13, <1>14, <1>15, <1>16

Marked(n, m, root, D, R, elf, high, f, i, to) ==
  /\ Mid(n, root, D, R, elf, high) /\ Kept(n.tables, m.tables, root, elf) /\ n.at = to
  /\ Alike(n.tables[f][i], m.tables[f][i])

\* Flags that an entry gains change nothing for the process or the others.
LEMMA FlagsMid ==
  ASSUME NEW m, NEW root, NEW D, NEW R, NEW elf, NEW high, Mid(m, root, D, R, elf, high),
         NEW f, f = m.at, f \in Inner(m.tables, root), NEW i \in 0..1, m.tables[f][i] # Unused,
         NEW flags \in SUBSET Flags, "huge" \in flags <=> Huge(m.tables[f][i]),
         elf => ~Huge(m.tables[f][i]), NEW to,
         NEW n, n = WithFlags(m, f, i, flags, to)
  PROVE  Marked(n, m, root, D, R, elf, high, f, i, to)
<1> DEFINE t == m.tables
           u == Flagged(t, f, i, flags)
<1>1. /\ Mem(m) /\ m.panic = "no" /\ AllocOK(m.fa) /\ TreeOK(t, root, high)
      /\ Used(m.fa) = R \union Own(t, root) \union D
      /\ R \cap (Own(t, root) \union D) = {} /\ Own(t, root) \cap D = {}
      /\ \A x \in R \union KernelTables : t[x] = tables[x]
      /\ elf => ElfOK(t, root, D)
  BY DEF Mid
<1> HIDE DEF u
<1>2. n = [fa |-> m.fa, tables |-> u, panic |-> m.panic, at |-> to, got |-> m.got]
  BY <1>1 DEF Mem, u, WithFlags
<1>a. n.tables = u /\ n.fa = m.fa /\ n.panic = m.panic /\ n.at = to /\ n.got = m.got
  BY <1>2
<1>3. Mem(n) /\ n.tables = u /\ n.fa = m.fa /\ n.panic = "no" /\ n.at = to
  BY <1>1, <1>2, <1>a DEF Mem
<1>4. /\ TreeOK(u, root, high) /\ Own(u, root) = Own(t, root)
      /\ \A x \in RamFrames \union KernelTables : x # f => u[x] = t[x]
      /\ \A page \in Pages :
           /\ Has3(t, root, page) => Has3(u, root, page) /\ At3(u, root, page) = At3(t, root, page)
           /\ Has2(t, root, page) => Has2(u, root, page) /\ At2(u, root, page) = At2(t, root, page)
           /\ Has1(t, root, page) => Has1(u, root, page) /\ At1(u, root, page) = At1(t, root, page)
           /\ InUse(u, root, page) <=> InUse(t, root, page)
      /\ \A E : ElfOK(t, root, E) /\ ~Huge(t[f][i]) => ElfOK(u, root, E)
      /\ Alike(u[f][i], t[f][i])
  BY <1>1, FlagsTree DEF u
<1>5. \A x \in R \union KernelTables : u[x] = tables[x]
  <2>1. f \in Own(t, root) /\ f \in RamFrames
    BY <1>1, LevelsAre DEF TreeOK, Forest
  <2>2. f \notin KernelTables
    BY <2>1, RamIs
  <2>3. R \subseteq RamFrames
    BY <1>1, RamIs
  <2> QED  BY <1>1, <1>4, <2>1, <2>2, <2>3
<1>6. elf => ElfOK(u, root, D)
  BY <1>1, <1>4
<1>7. Kept(u, t, root, elf)
  BY <1>4 DEF Kept
<1> QED  BY <1>1, <1>3, <1>4, <1>5, <1>6, <1>7 DEF Mid, Marked

-----------------------------------------------------------------------------
(* The levels of a walk.                                                   *)

\* A walk has come to a table of a level.
Reached(t, root, page, level, at) ==
  /\ level = 4 => at = root
  /\ level = 3 => Has3(t, root, page) /\ at = At3(t, root, page)
  /\ level = 2 => Has2(t, root, page) /\ at = At2(t, root, page)
  /\ level = 1 => Has1(t, root, page) /\ at = At1(t, root, page)

Stepped(n, m, root, D, R, elf, high, page, level) ==
  \/ Stopped(n)
  \/ /\ Mid(n, root, D, R, elf, high) /\ Kept(n.tables, m.tables, root, elf)
     /\ Reached(n.tables, root, page, level, n.at)

\* The kernel as a call meets it.
KernelMet(high) == KernelOK(tables) /\ high = (tables[K4][1] # Unused)

\* Every entry is unused, a huge page, a table of the process's own or one of the kernel's.
LEMMA EntryIs ==
  ASSUME NEW t, IsTables(t), NEW f \in RamFrames \union KernelTables, NEW i \in 0..1
  PROVE  /\ t[f][i] \in Entries /\ t[f][i].flags \in SUBSET Flags
         /\ t[f][i] # Unused => t[f][i].to \in Nat
         /\ t[f][i] = Unused \/ Huge(t[f][i]) \/ Linked(t[f][i]) \/ Shared(t[f][i])
         /\ t[f][i].to \in Int /\ t[f][i] = [to |-> t[f][i].to, flags |-> t[f][i].flags]
<1>1. t[f][i] \in Entries
  BY DEF IsTables
<1> QED  BY <1>1 DEF Entries, Linked, Shared, Flags

\* A table without entries is a table.
LEMMA BlankIs ==
  /\ Blank \in [0..1 -> Entries]
  /\ \A l \in 0..1 : Blank[l] = Unused /\ ~Huge(Blank[l]) /\ ~Shared(Blank[l]) /\ ~Linked(Blank[l])
                     /\ "user" \notin Blank[l].flags
  /\ Unused.to = -1 /\ Unused.flags = {}
<1>1. Unused \in Entries /\ Unused.to = -1 /\ Unused.flags = {}
  BY DEF Unused, Entries
<1>2. -1 \notin KernelTables
  BY DEF KernelTables, K4, K3High
<1>3. ~Huge(Unused) /\ ~Shared(Unused) /\ ~Linked(Unused)
  BY <1>1, <1>2 DEF Huge, Shared, Linked
<1> QED  BY <1>1, <1>3 DEF Blank

\* In the middle of a call the kernel's tables are what they are.
LEMMA MidKernel ==
  ASSUME NEW m, NEW root, NEW D, NEW R, NEW elf, NEW high, Mid(m, root, D, R, elf, high), KernelMet(high)
  PROVE  /\ m.tables[K3][0] = Entry(K2, {"w", "x"}) /\ m.tables[K3][1] = Entry(4, {"w", "x", "huge"})
         /\ m.tables[K2][0] = Entry(0, {"w", "x", "huge"}) /\ m.tables[K2][1] = Entry(K1, {"w", "x"})
         /\ m.tables[K1][0] = Entry(2, {"w", "x"}) /\ m.tables[K1][1] = Entry(3, {"w", "x"})
         /\ m.tables[K3High][0] = IF high THEN Entry(8, {"w", "x", "huge"}) ELSE Unused
         /\ m.tables[K3High][1] = Unused
         /\ \A k \in KernelTables : m.tables[k] \in [0..1 -> Entries]
<1>1. \A k \in KernelTables : m.tables[k] = tables[k] /\ m.tables[k] \in [0..1 -> Entries]
  BY DEF Mid, TreeOK, IsTables
<1>2. /\ K3 \in KernelTables /\ K2 \in KernelTables /\ K1 \in KernelTables /\ K3High \in KernelTables
  BY DEF K4, K3, K2, K1, K3High, KernelTables
<1>3. KernelOK(tables) /\ high = (tables[K4][1] # Unused)
  BY DEF KernelMet
<1>4. /\ tables[K3][0] = Entry(K2, {"w", "x"}) /\ tables[K3][1] = Entry(4, {"w", "x", "huge"})
      /\ tables[K2][0] = Entry(0, {"w", "x", "huge"}) /\ tables[K2][1] = Entry(K1, {"w", "x"})
      /\ tables[K1][0] = Entry(2, {"w", "x"}) /\ tables[K1][1] = Entry(3, {"w", "x"})
      /\ tables[K3High][0] = (IF high THEN Entry(8, {"w", "x", "huge"}) ELSE Unused)
      /\ tables[K3High][1] = Unused
  BY <1>3, KernelIs
<1> QED  BY <1>1, <1>2, <1>4

\* What the entries of the kernel's tables are.
LEMMA KernelEntries ==
  /\ \A x, s : Entry(x, s).to = x /\ Entry(x, s).flags = s
  /\ \A x : Huge(Entry(x, {"w", "x", "huge"})) /\ ~Shared(Entry(x, {"w", "x", "huge"}))
            /\ ~Linked(Entry(x, {"w", "x", "huge"})) /\ Entry(x, {"w", "x", "huge"}) # Unused
  /\ \A x : ~Huge(Entry(x, {"w", "x"})) /\ Entry(x, {"w", "x"}) # Unused
  /\ \A x \in KernelTables : Shared(Entry(x, {"w", "x"})) /\ ~Linked(Entry(x, {"w", "x"}))
  /\ K2 \in KernelTables /\ K1 \in KernelTables /\ K3 \in KernelTables /\ K3High \in KernelTables /\ K4 \in KernelTables
  /\ \A x : "user" \notin Entry(x, {"w", "x"}).flags /\ "user" \notin Entry(x, {"w", "x", "huge"}).flags
  /\ -1 \notin KernelTables /\ 0 \notin KernelTables /\ 4 \notin KernelTables /\ 8 \notin KernelTables
  /\ ~Huge(Unused) /\ ~Shared(Unused) /\ ~Linked(Unused) /\ "user" \notin Unused.flags
<1>1. \A x, s : Entry(x, s).to = x /\ Entry(x, s).flags = s
  BY DEF Entry
<1>2. Unused.flags = {} /\ Unused.to = -1
  BY DEF Unused
<1>3. /\ K2 \in KernelTables /\ K1 \in KernelTables /\ K3 \in KernelTables /\ K3High \in KernelTables /\ K4 \in KernelTables
      /\ -1 \notin KernelTables /\ 0 \notin KernelTables /\ 4 \notin KernelTables /\ 8 \notin KernelTables
  BY DEF K4, K3, K2, K1, K3High, KernelTables
<1>4. \A x : Entry(x, {"w", "x"}) # Unused /\ Entry(x, {"w", "x", "huge"}) # Unused
  BY <1>1, <1>2
<1>5. \A x : Huge(Entry(x, {"w", "x", "huge"})) /\ ~Huge(Entry(x, {"w", "x"}))
  BY <1>1 DEF Huge
<1> QED  BY <1>1, <1>2, <1>3, <1>4, <1>5 DEF Shared, Linked, Huge

\* What is made at the root: a blank table, or a copy of the kernel's.
LEMMA LinkAt4 ==
  ASSUME NEW m, NEW root, NEW D, NEW R, NEW elf, NEW high, Mid(m, root, D, R, elf, high), KernelMet(high),
         NEW page \in Pages, m.at = root, NEW a, a = Index(page, 4), NEW e, e = m.tables[root][a],
         NEW c, \/ e = Unused /\ c = Blank
                \/ e # Unused /\ e.to = KernelAddr(page, 4) /\ c = m.tables[e.to],
         NEW flags \in SUBSET {"w", "x", "user"}, NEW n, n = LinkNew(NewFrame(m, c), a, flags)
  PROVE  Stepped(n, m, root, D, R, elf, high, page, 3)
<1>0. a \in 0..1
  BY IndexIs
<1> DEFINE t == m.tables
<1>1. TreeOK(t, root, high) /\ IsTables(t) /\ Forest(t, root) /\ Node4(t, root, high) /\ t[root][0] # Unused
  BY DEF Mid, TreeOK
<1>2. root \in Inner(t, root) /\ root \in RamFrames /\ root \notin Level2(t, root)
  BY <1>1, LevelsAre DEF Forest
<1>3. /\ e \in Entries /\ (e # Unused => e.to \in Nat)
  BY <1>0, <1>1, <1>2, EntryIs
<1>4. e = Unused => a = 1
  <2>1. a = 0 => e # Unused
    BY <1>1
  <2> QED  BY <1>0, <2>1
<1>5. e # Unused => e.to = (IF a = 0 THEN K3 ELSE K3High) /\ (a = 1 => high) /\ c = t[e.to]
  <2>1. KernelAddr(page, 4) = IF a = 0 THEN K3 ELSE IF high THEN K3High ELSE -1
    BY KernelAddrIs DEF KernelMet
  <2> QED  BY <1>0, <1>3, <2>1
<1>6. /\ c \in [0..1 -> Entries]
      /\ \A j \in 0..1 :
           /\ a = 0 /\ j = 1 => Huge(c[j])
           /\ Huge(c[j]) => (a = 0 /\ j = 1) \/ (a = 1 /\ high /\ c[j].to = 8)
           /\ Shared(c[j]) => a = 0 /\ j = 0 /\ c[j].to = K2
           /\ ~Linked(c[j])
           /\ "user" \notin c[j].flags
  <2>1. CASE e = Unused
    BY <1>4, <2>1, BlankIs
  <2>2. CASE e # Unused /\ a = 0
    <3>1. c = t[K3]
      BY <1>5, <2>2
    <3>2. c[0] = Entry(K2, {"w", "x"}) /\ c[1] = Entry(4, {"w", "x", "huge"}) /\ c \in [0..1 -> Entries]
      BY <3>1, MidKernel, KernelEntries
    <3> QED  BY <2>2, <3>2, KernelEntries
  <2>3. CASE e # Unused /\ a = 1
    <3>1. c = t[K3High] /\ high
      BY <1>5, <2>3
    <3>2. c[0] = Entry(8, {"w", "x", "huge"}) /\ c[1] = Unused /\ c \in [0..1 -> Entries]
      BY <3>1, MidKernel, KernelEntries
    <3> QED  BY <2>3, <3>1, <3>2, KernelEntries
  <2> QED  BY <1>0, <2>1, <2>2, <2>3
<1>7. ~Linked(t[root][a])
  BY <1>0, <1>5, KernelEntries DEF Linked
<1>8. ASSUME NEW u, NEW x, LinkedIn(u, t, root, root, a, x), u[x] = c PROVE Node4(u, root, high)
  <2>1. Node3(u, x, a, high)
    BY <1>6, <1>8 DEF Node3
  <2> QED  BY <1>0, <1>1, <1>8, <2>1, LinkRoot
<1>9. \/ Stopped(n)
      \/ /\ Mid(n, root, D, R, elf, high) /\ Kept(n.tables, t, root, elf)
         /\ LinkedIn(n.tables, t, root, root, a, n.at)
  BY <1>0, <1>2, <1>6, <1>7, <1>8, LinkMid
<1>10. LinkedIn(n.tables, t, root, root, a, n.at) => Reached(n.tables, root, page, 3, n.at)
  BY DEF LinkedIn, Reached, Has3, At3
<1> QED  BY <1>9, <1>10 DEF Stepped

\* The same for a table of level 3, where a 1 GiB page is split, too.
LEMMA LinkAt3 ==
  ASSUME NEW m, NEW root, NEW D, NEW R, NEW elf, NEW high, Mid(m, root, D, R, elf, high), KernelMet(high),
         NEW page \in Pages, Reached(m.tables, root, page, 3, m.at),
         NEW b, b = Index(page, 3), NEW e, e = m.tables[m.at][b],
         NEW c, \/ e = Unused /\ c = Blank
                \/ Huge(e) /\ page >= 8 /\ c = SplitContent(e, 3)
                \/ e # Unused /\ ~Huge(e) /\ e.to = KernelAddr(page, 3) /\ c = m.tables[e.to],
         NEW flags \in SUBSET {"w", "x", "user"}, NEW n, n = LinkNew(NewFrame(m, c), b, flags)
  PROVE  Stepped(n, m, root, D, R, elf, high, page, 2)
<1> DEFINE t == m.tables
           a == Index(page, 4)
           f == m.at
<1>0. a \in 0..1 /\ b \in 0..1 /\ (a = 1 <=> page >= 8)
  BY IndexIs
<1>1. TreeOK(t, root, high) /\ IsTables(t) /\ Forest(t, root) /\ Node4(t, root, high) /\ t[root][0] # Unused
  BY DEF Mid, TreeOK
<1>2. Has3(t, root, page) /\ f = At3(t, root, page) /\ Linked(t[root][a]) /\ f = t[root][a].to
  BY DEF Reached, Has3, At3
<1>3. f \in Level3(t, root)
  BY <1>2, WalkIs
<1>4. f \in Inner(t, root) /\ f \in RamFrames /\ f \notin Level2(t, root)
  BY <1>1, <1>3, LevelsAre DEF Forest
<1>5. Node3(t, f, a, high)
  BY <1>0, <1>1, <1>2 DEF Node4
<1>6. /\ a = 0 /\ b = 1 => Huge(e)
      /\ Huge(e) => (a = 0 /\ b = 1) \/ (a = 1 /\ high /\ e.to = 8)
      /\ Shared(e) => a = 0 /\ b = 0 /\ e.to = K2
  BY <1>0, <1>5 DEF Node3
<1>7. /\ e \in Entries /\ e.flags \in SUBSET Flags /\ (e # Unused => e.to \in Nat)
      /\ e = Unused \/ Huge(e) \/ Linked(e) \/ Shared(e)
  BY <1>0, <1>1, <1>4, EntryIs
<1>8. e # Unused /\ ~Huge(e) /\ e.to = KernelAddr(page, 3) => a = 0 /\ b = 0 /\ e.to = K2
  <2> SUFFICES ASSUME e # Unused, ~Huge(e), e.to = KernelAddr(page, 3) PROVE a = 0 /\ b = 0 /\ e.to = K2
    OBVIOUS
  <2>1. KernelAddr(page, 3) = IF a = 0 THEN (IF b = 0 THEN K2 ELSE 4)
                              ELSE IF high /\ b = 0 THEN 8 ELSE -1
    BY KernelAddrIs DEF KernelMet
  <2>2. Linked(e) => e.to \in RamFrames
    BY <1>0, <1>1, <1>4, LevelsAre DEF Forest
  <2>3. e.to # 8 \/ Shared(e)
    BY <1>7, <2>2, RamIs
  <2> HIDE DEF a
  <2>4. CASE a = 0
    BY <1>0, <1>6, <2>1, <2>4
  <2>5. CASE a = 1
    <3>1. e.to # -1 /\ ~Shared(e)
      BY <1>6, <1>7, <2>5
    <3> QED  BY <1>0, <2>1, <2>3, <2>5, <3>1
  <2> QED  BY <1>0, <2>4, <2>5
<1>9. ~Linked(e) /\ ~(a = 0 /\ b = 1 /\ ~Huge(e))
  <2>1. e = Unused \/ Huge(e) \/ e.to = K2
    BY <1>8
  <2> QED  BY <1>6, <2>1, KernelEntries DEF Linked
<1>10. ~(a = 0 /\ b = 1)
  <2>1. CASE Huge(e)
    BY <1>0, <2>1, KernelEntries
  <2>2. CASE ~Huge(e)
    BY <1>9, <2>2
  <2> QED  BY <2>1, <2>2
<1>11. /\ c \in [0..1 -> Entries]
       /\ \A k \in 0..1 :
            /\ Huge(c[k]) => a = 0 \/ (high /\ c[k].to \in {8, 10})
            /\ Shared(c[k]) => a = 0 /\ b = 0 /\ k = 1 /\ c[k].to = K1
            /\ ~Linked(c[k])
            /\ elf => "user" \notin c[k].flags
  <2>1. CASE e = Unused
    <3>1. c = Blank
      BY <2>1, KernelEntries
    <3> QED  BY <3>1, BlankIs
  <2>2. CASE Huge(e)
    <3>1. c = SplitContent(e, 3) /\ a = 1 /\ high /\ e.to = 8
      BY <1>0, <1>6, <1>10, <2>2, KernelEntries
    <3>2. c = [l \in 0 .. 1 |-> Entry(e.to + 2 * l, e.flags)]
      <4>1. SplitContent(e, 3) = [l \in 0 .. 1 |-> Entry(e.to + 2 * l, e.flags)]
        BY DEF SplitContent
      <4> QED  BY <3>1, <4>1
    <3>a. \A l \in 0..1 : c[l] = Entry(e.to + 2 * l, e.flags)
      BY <3>2
    <3>b. \A l \in 0..1 : Entry(e.to + 2 * l, e.flags).flags = e.flags /\ Entry(e.to + 2 * l, e.flags).to = e.to + 2 * l
      BY KernelEntries
    <3>3. \A l \in 0..1 : c[l].flags = e.flags /\ c[l].to = e.to + 2 * l /\ c[l] = Entry(e.to + 2 * l, e.flags)
      BY <3>a, <3>b
    <3>4. e # Unused /\ e.to \in Nat
      BY <1>7, <2>2, KernelEntries
    <3>5. \A l \in 0..1 : Entry(e.to + 2 * l, e.flags) \in Entries
      BY <1>7, <3>4 DEF Entries, Entry, Flags
    <3>6. \A l \in 0..1 : Huge(c[l])
      BY <2>2, <3>3 DEF Huge
    <3>7. elf => "user" \notin e.flags
      BY <1>0, <1>4, <2>2 DEF Mid, ElfOK, Plain, Leaf
    <3>8. \A l \in 0..1 : c[l].to \in {8, 10}
      BY <3>1, <3>3
    <3> QED  BY <3>1, <3>2, <3>3, <3>5, <3>6, <3>7, <3>8 DEF Shared, Linked
  <2>3. CASE e # Unused /\ ~Huge(e)
    <3>1. a = 0 /\ b = 0 /\ c = t[K2]
      BY <1>8, <2>3
    <3>2. c[0] = Entry(0, {"w", "x", "huge"}) /\ c[1] = Entry(K1, {"w", "x"}) /\ c \in [0..1 -> Entries]
      BY <3>1, MidKernel, KernelEntries
    <3> QED  BY <3>1, <3>2, KernelEntries
  <2> QED  BY <2>1, <2>2, <2>3
<1>12. ASSUME NEW u, NEW x, LinkedIn(u, t, root, f, b, x), u[x] = c PROVE Node4(u, root, high)
  <2>1. Node2(u, x, a, b, high)
    BY <1>11, <1>12 DEF Node2
  <2> HIDE DEF a
  <2> QED  BY <1>0, <1>1, <1>2, <1>10, <1>12, <2>1, LinkL3
<1>13. \/ Stopped(n)
       \/ /\ Mid(n, root, D, R, elf, high) /\ Kept(n.tables, t, root, elf)
          /\ LinkedIn(n.tables, t, root, f, b, n.at)
  BY <1>0, <1>4, <1>9, <1>11, <1>12, LinkMid
<1>14. LinkedIn(n.tables, t, root, f, b, n.at) /\ Kept(n.tables, t, root, elf)
         => Reached(n.tables, root, page, 2, n.at)
  <2> SUFFICES ASSUME LinkedIn(n.tables, t, root, f, b, n.at), Kept(n.tables, t, root, elf)
               PROVE  Reached(n.tables, root, page, 2, n.at)
    OBVIOUS
  <2>1. Has3(n.tables, root, page) /\ At3(n.tables, root, page) = f
    BY <1>2 DEF Kept
  <2>2. Linked(n.tables[f][b]) /\ n.tables[f][b].to = n.at
    BY DEF LinkedIn
  <2> QED  BY <2>1, <2>2 DEF Reached, Has2, At2
<1> QED  BY <1>13, <1>14 DEF Stepped

\* And for a table of level 2, where a 2 MiB page is split.
LEMMA LinkAt2 ==
  ASSUME NEW m, NEW root, NEW D, NEW R, NEW elf, NEW high, Mid(m, root, D, R, elf, high), KernelMet(high),
         NEW page \in Pages, Reached(m.tables, root, page, 2, m.at),
         NEW d, d = Index(page, 2), NEW e, e = m.tables[m.at][d],
         NEW c, \/ e = Unused /\ c = Blank
                \/ Huge(e) /\ (\E g \in SUBSET Flags : (elf => g = e.flags) /\ c = SplitContent(Entry(e.to, g), 2))
                \/ e # Unused /\ ~Huge(e) /\ e.to = KernelAddr(page, 2) /\ c = m.tables[e.to],
         NEW flags \in SUBSET {"w", "x", "user"}, NEW n, n = LinkNew(NewFrame(m, c), d, flags)
  PROVE  Stepped(n, m, root, D, R, elf, high, page, 1)
<1> DEFINE t == m.tables
           a == Index(page, 4)
           b == Index(page, 3)
           f == m.at
           g3 == At3(t, root, page)
<1>0. a \in 0..1 /\ b \in 0..1 /\ d \in 0..1
  BY IndexIs
<1>1. TreeOK(t, root, high) /\ IsTables(t) /\ Forest(t, root) /\ Node4(t, root, high) /\ t[root][0] # Unused
  BY DEF Mid, TreeOK
<1>2. /\ Has3(t, root, page) /\ Has2(t, root, page) /\ f = At2(t, root, page)
      /\ Linked(t[root][a]) /\ g3 = t[root][a].to /\ Linked(t[g3][b]) /\ f = t[g3][b].to
  BY DEF Reached, Has3, At3, Has2, At2
<1>3. f \in Level2(t, root) /\ g3 \in Level3(t, root)
  BY <1>2, WalkIs
<1>4. f \in Inner(t, root) /\ f \in RamFrames
  BY <1>1, <1>3, LevelsAre DEF Forest
<1> HIDE DEF a, b, g3
<1>5. Node2(t, f, a, b, high)
  <2>1. Node3(t, g3, a, high)
    BY <1>0, <1>1, <1>2 DEF Node4
  <2> QED  BY <1>0, <1>2, <2>1 DEF Node3
<1>6. /\ Huge(e) => a = 0 \/ (high /\ e.to \in {8, 10})
      /\ Shared(e) => a = 0 /\ b = 0 /\ d = 1 /\ e.to = K1
  BY <1>0, <1>5 DEF Node2
<1>7. /\ e \in Entries /\ e.flags \in SUBSET Flags /\ (e # Unused => e.to \in Nat)
      /\ e = Unused \/ Huge(e) \/ Linked(e) \/ Shared(e)
  BY <1>0, <1>1, <1>4, EntryIs
<1>8. e # Unused /\ ~Huge(e) /\ e.to = KernelAddr(page, 2) => a = 0 /\ e.to = K1
  <2>1. KernelAddr(page, 2) = IF a = 0 /\ b = 0 /\ d = 1 THEN K1 ELSE -1
    BY KernelAddrIs DEF KernelMet, a, b
  <2> QED  BY <1>7, <2>1
<1>9. ~Linked(e)
  <2>1. e = Unused \/ Huge(e) \/ e.to = K1
    BY <1>8
  <2> QED  BY <2>1, KernelEntries DEF Linked
<1>11. /\ c \in [0..1 -> Entries]
       /\ a = 1 => \A l \in 0..1 : c[l] # Unused => high /\ c[l].to \in 8..11
       /\ \A k \in 0..1 : elf => "user" \notin c[k].flags
  <2>1. CASE e = Unused
    <3>1. c = Blank
      BY <2>1, KernelEntries
    <3> QED  BY <3>1, BlankIs
  <2>2. CASE Huge(e)
    <3>0. PICK g \in SUBSET Flags : (elf => g = e.flags) /\ c = SplitContent(Entry(e.to, g), 2)
      BY <2>2, KernelEntries
    <3>1. Entry(e.to, g).to = e.to /\ Entry(e.to, g).flags = g
      BY KernelEntries
    <3>2. c = [l \in 0 .. 1 |-> Entry(e.to + l, g \ {"huge"})]
      BY <3>0, <3>1 DEF SplitContent
    <3>3. \A l \in 0..1 : c[l] = Entry(e.to + l, g \ {"huge"})
      BY <3>2
    <3>4. e # Unused /\ e.to \in Nat
      BY <1>7, <2>2, KernelEntries
    <3>5. \A l \in 0..1 : Entry(e.to + l, g \ {"huge"}) \in Entries /\ Entry(e.to + l, g \ {"huge"}).flags = g \ {"huge"}
      BY <3>4 DEF Entries, Entry, Flags
    <3>6. elf => "user" \notin e.flags
      BY <1>0, <1>4, <2>2 DEF Mid, ElfOK, Plain, Leaf
    <3>7. elf => \A l \in 0..1 : "user" \notin c[l].flags
      BY <3>0, <3>3, <3>5, <3>6
    <3>8. a = 1 => high /\ e.to \in {8, 10}
      BY <1>6, <2>2
    <3>9. \A l \in 0..1 : Entry(e.to + l, g \ {"huge"}).to = e.to + l
      BY KernelEntries
    <3>10. a = 1 => \A l \in 0..1 : high /\ c[l].to \in 8..11
      BY <3>3, <3>8, <3>9
    <3> QED  BY <3>2, <3>5, <3>7, <3>10
  <2>3. CASE e # Unused /\ ~Huge(e)
    <3>1. a = 0 /\ c = t[K1]
      BY <1>8, <2>3
    <3>2. c[0] = Entry(2, {"w", "x"}) /\ c[1] = Entry(3, {"w", "x"}) /\ c \in [0..1 -> Entries]
      BY <3>1, MidKernel, KernelEntries
    <3> QED  BY <3>1, <3>2, KernelEntries
  <2> QED  BY <2>1, <2>2, <2>3
<1>12. ASSUME NEW u, NEW x, LinkedIn(u, t, root, f, d, x), u[x] = c PROVE Node4(u, root, high)
  <2>1. Node1(u, x, a, high)
    BY <1>11, <1>12 DEF Node1
  <2> QED  BY <1>0, <1>1, <1>2, <1>12, <2>1, LinkL2
<1>13. \/ Stopped(n)
       \/ /\ Mid(n, root, D, R, elf, high) /\ Kept(n.tables, t, root, elf)
          /\ LinkedIn(n.tables, t, root, f, d, n.at)
  BY <1>0, <1>3, <1>4, <1>9, <1>11, <1>12, LinkMid
<1>14. LinkedIn(n.tables, t, root, f, d, n.at) /\ Kept(n.tables, t, root, elf)
         => Reached(n.tables, root, page, 1, n.at)
  <2> SUFFICES ASSUME LinkedIn(n.tables, t, root, f, d, n.at), Kept(n.tables, t, root, elf)
               PROVE  Reached(n.tables, root, page, 1, n.at)
    OBVIOUS
  <2>1. Has2(n.tables, root, page) /\ At2(n.tables, root, page) = f
    BY <1>2 DEF Kept
  <2>2. Linked(n.tables[f][d]) /\ n.tables[f][d].to = n.at
    BY DEF LinkedIn
  <2> QED  BY <2>1, <2>2 DEF Reached, Has1, At1
<1> QED  BY <1>13, <1>14 DEF Stepped

\* Where there is a table of the process's own, the walk goes on in it.
LEMMA PassAt ==
  ASSUME NEW m, NEW root, NEW D, NEW R, NEW elf, NEW high, Mid(m, root, D, R, elf, high), KernelMet(high),
         NEW page \in Pages, NEW level \in 2..4, Reached(m.tables, root, page, level, m.at),
         NEW i, i = Index(page, level), NEW e, e = m.tables[m.at][i], e # Unused, ~Huge(e),
         e.to # KernelAddr(page, level), NEW flags \in SUBSET {"w", "x", "user"},
         NEW n, n = WithFlags(m, m.at, i, e.flags \union flags, e.to)
  PROVE  Stepped(n, m, root, D, R, elf, high, page, level - 1)
<1> DEFINE t == m.tables
           f == m.at
           a == Index(page, 4)
           b == Index(page, 3)
           d == Index(page, 2)
<1>0. a \in 0..1 /\ b \in 0..1 /\ d \in 0..1
  BY IndexIs
<1>1. TreeOK(t, root, high) /\ IsTables(t) /\ Forest(t, root) /\ Node4(t, root, high) /\ t[root][0] # Unused
  BY DEF Mid, TreeOK
<1>2. /\ KernelAddr(page, 4) = IF a = 0 THEN K3 ELSE IF high THEN K3High ELSE -1
      /\ KernelAddr(page, 3) = IF a = 0 THEN (IF b = 0 THEN K2 ELSE 4) ELSE IF high /\ b = 0 THEN 8 ELSE -1
      /\ KernelAddr(page, 2) = IF a = 0 /\ b = 0 /\ d = 1 THEN K1 ELSE -1
  BY KernelAddrIs DEF KernelMet
<1>3. level = 4 => f = root /\ i = a /\ f \in Inner(t, root) /\ ~Shared(e)
  <2> SUFFICES ASSUME level = 4 PROVE f = root /\ i = a /\ f \in Inner(t, root) /\ ~Shared(e)
    OBVIOUS
  <2>1. f = root /\ i = a /\ f \in Inner(t, root)
    BY LevelsAre DEF Reached
  <2>2. Shared(e) => e.to = (IF a = 0 THEN K3 ELSE K3High) /\ (a = 1 => high)
    BY <1>0, <1>1, <2>1 DEF Node4
  <2> QED  BY <1>0, <1>2, <2>1, <2>2
<1>4. level = 3 => /\ Has3(t, root, page) /\ f = At3(t, root, page) /\ i = b /\ f \in Inner(t, root)
                   /\ ~Shared(e)
  <2> SUFFICES ASSUME level = 3
               PROVE  /\ Has3(t, root, page) /\ f = At3(t, root, page) /\ i = b /\ f \in Inner(t, root)
                      /\ ~Shared(e)
    OBVIOUS
  <2>1. Has3(t, root, page) /\ f = At3(t, root, page) /\ Linked(t[root][a]) /\ f = t[root][a].to /\ i = b
    BY DEF Reached, Has3, At3
  <2>2. f \in Inner(t, root)
    BY <2>1, WalkIs, LevelsAre
  <2>3. Node3(t, f, a, high)
    BY <1>0, <1>1, <2>1 DEF Node4
  <2>4. Shared(e) => a = 0 /\ b = 0 /\ e.to = K2
    BY <1>0, <2>1, <2>3 DEF Node3
  <2> QED  BY <1>2, <2>1, <2>2, <2>4
<1>5. level = 2 => /\ Has2(t, root, page) /\ f = At2(t, root, page) /\ i = d /\ f \in Inner(t, root)
                   /\ ~Shared(e)
  <2> SUFFICES ASSUME level = 2
               PROVE  /\ Has2(t, root, page) /\ f = At2(t, root, page) /\ i = d /\ f \in Inner(t, root)
                      /\ ~Shared(e)
    OBVIOUS
  <2> DEFINE g3 == At3(t, root, page)
  <2>1. /\ Has2(t, root, page) /\ f = At2(t, root, page) /\ i = d
        /\ Linked(t[root][a]) /\ g3 = t[root][a].to /\ Linked(t[g3][b]) /\ f = t[g3][b].to
    BY DEF Reached, Has2, At2, Has3, At3
  <2>2. f \in Level2(t, root)
    BY <2>1, WalkIs
  <2>a. f \in Inner(t, root)
    BY <2>2, LevelsAre
  <2> HIDE DEF g3, a, b
  <2>3. Node3(t, g3, a, high)
    BY <1>0, <1>1, <2>1 DEF Node4
  <2>4. Node2(t, f, a, b, high)
    BY <1>0, <2>1, <2>3 DEF Node3
  <2>5. Shared(e) => a = 0 /\ b = 0 /\ d = 1 /\ e.to = K1
    BY <1>0, <2>1, <2>4 DEF Node2
  <2> QED  BY <1>2, <2>1, <2>a, <2>5
<1>6. level = 4 \/ level = 3 \/ level = 2
  OBVIOUS
<1>7. f \in Inner(t, root) /\ i \in 0..1 /\ ~Shared(e)
  BY <1>0, <1>3, <1>4, <1>5, <1>6
<1>8. f \in RamFrames
  BY <1>1, <1>7, LevelsAre DEF Forest
<1>9. /\ e.flags \in SUBSET Flags
      /\ e = Unused \/ Huge(e) \/ Linked(e) \/ Shared(e)
  BY <1>1, <1>7, <1>8, EntryIs
<1>10. Linked(e)
  BY <1>7, <1>9
<1>11. (e.flags \union flags) \in SUBSET Flags /\ ("huge" \in (e.flags \union flags) <=> Huge(e))
  BY <1>9 DEF Flags, Huge
<1>12. Marked(n, m, root, D, R, elf, high, f, i, e.to)
  <2> DEFINE g == e.flags \union flags
  <2>1. g \in SUBSET Flags /\ ("huge" \in g <=> Huge(t[f][i])) /\ n = WithFlags(m, f, i, g, e.to)
        /\ t[f][i] # Unused /\ ~Huge(t[f][i])
    BY <1>11
  <2> HIDE DEF g
  <2> QED  BY <1>7, <2>1, FlagsMid
<1>13. Mid(n, root, D, R, elf, high) /\ Kept(n.tables, t, root, elf) /\ n.at = e.to
  BY <1>12 DEF Marked
<1>14. Linked(n.tables[f][i]) /\ n.tables[f][i].to = e.to
  <2>1. Alike(n.tables[f][i], e)
    BY <1>12 DEF Marked
  <2> QED  BY <1>10, <2>1 DEF Alike, Linked
<1>15. Reached(n.tables, root, page, level - 1, n.at)
  <2>1. CASE level = 4
    <3>1. level - 1 = 3 /\ level - 1 # 4 /\ level - 1 # 2 /\ level - 1 # 1
      BY <2>1
    <3>2. Has3(n.tables, root, page) /\ n.at = At3(n.tables, root, page)
      BY <1>3, <1>13, <1>14, <2>1 DEF Has3, At3
    <3> QED  BY <3>1, <3>2 DEF Reached
  <2>2. CASE level = 3
    <3>0. level - 1 = 2 /\ level - 1 # 4 /\ level - 1 # 3 /\ level - 1 # 1
      BY <2>2
    <3>1. Has3(n.tables, root, page) /\ At3(n.tables, root, page) = f
      BY <1>4, <1>13, <2>2 DEF Kept
    <3>2. Has2(n.tables, root, page) /\ n.at = At2(n.tables, root, page)
      BY <1>4, <1>13, <1>14, <2>2, <3>1 DEF Has2, At2
    <3> QED  BY <3>0, <3>2 DEF Reached
  <2>3. CASE level = 2
    <3>0. level - 1 = 1 /\ level - 1 # 4 /\ level - 1 # 3 /\ level - 1 # 2
      BY <2>3
    <3>1. Has2(n.tables, root, page) /\ At2(n.tables, root, page) = f
      BY <1>5, <1>13, <2>3 DEF Kept
    <3>2. Has1(n.tables, root, page) /\ n.at = At1(n.tables, root, page)
      BY <1>5, <1>13, <1>14, <2>3, <3>1 DEF Has1, At1
    <3> QED  BY <3>0, <3>2 DEF Reached
  <2> QED  BY <1>6, <2>1, <2>2, <2>3
<1> QED  BY <1>13, <1>15 DEF Stepped

\* One level of a walk that makes what is missing.
LEMMA DownOK ==
  ASSUME NEW m, NEW root, NEW D, NEW R, NEW elf, NEW high, Mid(m, root, D, R, elf, high), KernelMet(high),
         NEW page \in Pages, NEW level \in 2..4, Reached(m.tables, root, page, level, m.at),
         NEW loading \in BOOLEAN, loading \/ page >= 8
  PROVE  Stepped(Down(m, page, level, loading), m, root, D, R, elf, high, page, level - 1)
<1> DEFINE i == Index(page, level)
           e == m.tables[m.at][i]
           n == Down(m, page, level, loading)
<1>0. m.panic = "no" /\ AllocOK(m.fa) /\ Mem(m)
  BY DEF Mid
<1>1. n = IF e = Unused THEN LinkNew(NewFrame(m, Blank), i, Passing)
          ELSE IF Huge(e) /\ level = 3 /\ loading THEN [m EXCEPT !.panic = "1 GiB page"]
          ELSE IF Huge(e)
          THEN LinkNew(NewFrame(m, SplitContent(e, level)), i, (e.flags \ {"huge"}) \union Passing)
          ELSE IF e.to = KernelAddr(page, level)
          THEN LinkNew(NewFrame(m, m.tables[e.to]), i, e.flags \union Passing)
          ELSE WithFlags(m, m.at, i, e.flags \union Passing, e.to)
  BY <1>0 DEF Down, WithFlags, Flagged
<1>2. m.at \in RamFrames \union KernelTables /\ i \in 0..1
  <2>1. Forest(m.tables, root)
    BY DEF Mid, TreeOK
  <2>2. Own(m.tables, root) \subseteq RamFrames
    BY <2>1 DEF Forest
  <2>3. level = 4 => m.at \in Own(m.tables, root)
    BY LevelsAre DEF Reached
  <2>4. level = 3 => m.at \in Level3(m.tables, root)
    BY WalkIs DEF Reached
  <2>5. level = 2 => m.at \in Level2(m.tables, root)
    BY WalkIs DEF Reached
  <2>6. m.at \in Own(m.tables, root)
    BY <2>3, <2>4, <2>5, LevelsAre
  <2> QED  BY <2>2, <2>6, IndexIs
<1>3. e.flags \in SUBSET Flags /\ e = [to |-> e.to, flags |-> e.flags]
  <2>1. IsTables(m.tables)
    BY DEF Mid, TreeOK
  <2> QED  BY <1>2, <2>1, EntryIs
<1>4. Passing \in SUBSET {"w", "x", "user"}
  BY DEF Passing
<1>5. level = 4 => m.at = root /\ ~Huge(e)
  <2> SUFFICES ASSUME level = 4 PROVE m.at = root /\ ~Huge(e)
    OBVIOUS
  <2>1. m.at = root
    BY DEF Reached
  <2>2. Node4(m.tables, root, high)
    BY DEF Mid, TreeOK
  <2> QED  BY <1>2, <2>1, <2>2 DEF Node4
<1>6. level = 2 \/ level = 3 \/ level = 4
  OBVIOUS
<1>7. (e.flags \ {"huge"}) \union Passing \in SUBSET {"w", "x", "user"}
  BY <1>3, <1>4 DEF Flags
<1>8. ~Huge(e) => e.flags \union Passing \in SUBSET {"w", "x", "user"} /\ e.flags \in SUBSET {"w", "x", "user"}
  BY <1>3, <1>4 DEF Flags, Huge
<1> HIDE DEF n, e, i
<1>9. CASE Huge(e) /\ level = 3 /\ loading /\ e # Unused
  <2>1. n = [m EXCEPT !.panic = "1 GiB page"]
    BY <1>1, <1>9
  <2>2. n.panic = "1 GiB page" /\ n.fa = m.fa /\ Mem(n)
    BY <1>0, <2>1 DEF Mem
  <2> QED  BY <1>0, <2>2 DEF Stepped, Stopped, n
<1>10. CASE e # Unused /\ ~Huge(e) /\ e.to # KernelAddr(page, level)
  <2>1. n = WithFlags(m, m.at, i, e.flags \union Passing, e.to)
    BY <1>1, <1>10
  <2>2. Stepped(n, m, root, D, R, elf, high, page, level - 1)
    BY <1>4, <1>10, <2>1, PassAt DEF i, e
  <2> QED  BY <2>2 DEF n
<1>11. CASE /\ e = Unused \/ Huge(e) \/ e.to = KernelAddr(page, level)
            /\ ~(Huge(e) /\ level = 3 /\ loading /\ e # Unused)
  <2>1. \E c, g : /\ n = LinkNew(NewFrame(m, c), i, g) /\ g \in SUBSET {"w", "x", "user"}
                  /\ \/ e = Unused /\ c = Blank
                     \/ e # Unused /\ Huge(e) /\ ~(level = 3 /\ loading) /\ c = SplitContent(e, level)
                     \/ e # Unused /\ ~Huge(e) /\ e.to = KernelAddr(page, level) /\ c = m.tables[e.to]
    <3>1. CASE e = Unused
      BY <1>1, <1>4, <3>1
    <3>2. CASE e # Unused /\ Huge(e)
      BY <1>1, <1>7, <1>11, <3>2
    <3>3. CASE e # Unused /\ ~Huge(e)
      BY <1>1, <1>8, <1>11, <3>3
    <3> QED  BY <3>1, <3>2, <3>3
  <2>2. PICK c, g : /\ n = LinkNew(NewFrame(m, c), i, g) /\ g \in SUBSET {"w", "x", "user"}
                    /\ \/ e = Unused /\ c = Blank
                       \/ e # Unused /\ Huge(e) /\ ~(level = 3 /\ loading) /\ c = SplitContent(e, level)
                       \/ e # Unused /\ ~Huge(e) /\ e.to = KernelAddr(page, level) /\ c = m.tables[e.to]
    BY <2>1
  <2>3. CASE level = 4
    <3>1. i = Index(page, 4) /\ e = m.tables[root][i] /\ m.at = root
      BY <1>5, <2>3 DEF i, e
    <3>2. \/ e = Unused /\ c = Blank
          \/ e # Unused /\ e.to = KernelAddr(page, 4) /\ c = m.tables[e.to]
      BY <1>5, <2>2, <2>3
    <3>3. Stepped(n, m, root, D, R, elf, high, page, 3)
      BY <2>2, <3>1, <3>2, LinkAt4
    <3>4. level - 1 = 3
      BY <2>3
    <3> QED  BY <3>3, <3>4 DEF n
  <2>4. CASE level = 3
    <3>1. i = Index(page, 3) /\ e = m.tables[m.at][i]
      BY <2>4 DEF i, e
    <3>2. \/ e = Unused /\ c = Blank
          \/ Huge(e) /\ page >= 8 /\ c = SplitContent(e, 3)
          \/ e # Unused /\ ~Huge(e) /\ e.to = KernelAddr(page, 3) /\ c = m.tables[e.to]
      BY <2>2, <2>4
    <3>3. Reached(m.tables, root, page, 3, m.at)
      BY <2>4
    <3>4. Stepped(n, m, root, D, R, elf, high, page, 2)
      BY <2>2, <3>1, <3>2, <3>3, LinkAt3
    <3>5. level - 1 = 2
      BY <2>4
    <3> QED  BY <3>4, <3>5 DEF n
  <2>5. CASE level = 2
    <3>1. i = Index(page, 2) /\ e = m.tables[m.at][i]
      BY <2>5 DEF i, e
    <3>2. e = Entry(e.to, e.flags)
      BY <1>3 DEF Entry, e
    <3>3. \/ e = Unused /\ c = Blank
          \/ Huge(e) /\ (\E h \in SUBSET Flags : (elf => h = e.flags) /\ c = SplitContent(Entry(e.to, h), 2))
          \/ e # Unused /\ ~Huge(e) /\ e.to = KernelAddr(page, 2) /\ c = m.tables[e.to]
      <4>1. CASE Huge(e) /\ c = SplitContent(e, level)
        <5>1. c = SplitContent(Entry(e.to, e.flags), 2) /\ e.flags \in SUBSET Flags
          BY <1>3, <2>5, <3>2, <4>1 DEF e
        <5> QED  BY <4>1, <5>1
      <4>2. CASE ~(Huge(e) /\ c = SplitContent(e, level))
        BY <2>2, <2>5, <4>2
      <4> QED  BY <4>1, <4>2
    <3>4. Reached(m.tables, root, page, 2, m.at)
      BY <2>5
    <3>5. Stepped(n, m, root, D, R, elf, high, page, 1)
      BY <2>2, <3>1, <3>3, <3>4, LinkAt2
    <3>6. level - 1 = 1
      BY <2>5
    <3> QED  BY <3>5, <3>6 DEF n
  <2> QED  BY <1>6, <2>3, <2>4, <2>5
<1> QED  BY <1>9, <1>10, <1>11

\* What two steps keep, both together keep.
LEMMA KeptTwice ==
  ASSUME NEW t, NEW u, NEW v, NEW root, NEW elf, Kept(u, t, root, elf), Kept(v, u, root, elf)
  PROVE  Kept(v, t, root, elf)
BY DEF Kept

\* A walk starts at the root.
LEMMA StartIs ==
  ASSUME NEW m, NEW root, NEW D, NEW R, NEW elf, NEW high, Mid(m, root, D, R, elf, high),
         NEW n, n = GoTo(m, root), NEW page
  PROVE  Mid(n, root, D, R, elf, high) /\ Reached(n.tables, root, page, 4, n.at) /\ n.tables = m.tables
<1>1. Mem(m)
  BY DEF Mid
<1>2. n = [fa |-> m.fa, tables |-> m.tables, panic |-> m.panic, at |-> root, got |-> m.got]
  BY <1>1 DEF Mem, GoTo
<1>3. n.fa = m.fa /\ n.tables = m.tables /\ n.panic = m.panic /\ n.at = root /\ n.got = m.got
  BY <1>2
<1>4. Mem(n)
  BY <1>2, <1>3 DEF Mem
<1>5. Reached(n.tables, root, page, 4, n.at)
  BY <1>3 DEF Reached
<1> QED  BY <1>3, <1>4, <1>5 DEF Mid

\* A stopped kernel goes no further.
LEMMA StoppedDown ==
  ASSUME NEW m, Stopped(m), NEW page, NEW level, NEW loading
  PROVE  Down(m, page, level, loading) = m
BY DEF Down, Stopped

\* Two steps of a walk.
LEMMA DownMore ==
  ASSUME NEW m, NEW k, NEW root, NEW D, NEW R, NEW elf, NEW high, NEW page \in Pages, NEW level \in 2..4,
         KernelMet(high), Stepped(k, m, root, D, R, elf, high, page, level),
         NEW loading \in BOOLEAN, loading \/ page >= 8
  PROVE  Stepped(Down(k, page, level, loading), m, root, D, R, elf, high, page, level - 1)
<1>1. CASE Stopped(k)
  <2>1. Down(k, page, level, loading) = k
    BY <1>1, StoppedDown
  <2> QED  BY <1>1, <2>1 DEF Stepped
<1>2. CASE /\ Mid(k, root, D, R, elf, high) /\ Kept(k.tables, m.tables, root, elf)
           /\ Reached(k.tables, root, page, level, k.at)
  <2> DEFINE n == Down(k, page, level, loading)
  <2>1. Stepped(n, k, root, D, R, elf, high, page, level - 1)
    BY <1>2, DownOK
  <2> HIDE DEF n
  <2>2. CASE Stopped(n)
    BY <2>2 DEF Stepped, n
  <2>3. CASE /\ Mid(n, root, D, R, elf, high) /\ Kept(n.tables, k.tables, root, elf)
             /\ Reached(n.tables, root, page, level - 1, n.at)
    <3>1. Kept(n.tables, m.tables, root, elf)
      BY <1>2, <2>3, KeptTwice
    <3> QED  BY <2>3, <3>1 DEF Stepped, n
  <2> QED  BY <2>1, <2>2, <2>3 DEF Stepped
<1> QED  BY <1>1, <1>2 DEF Stepped

\* The walk of map_user_pages_in_process() or map_anonymous_pages_in_process() comes to
\* a table of level 1 of the process's own, or the kernel stops.
LEMMA DownToOK ==
  ASSUME NEW m, NEW root, NEW D, NEW R, NEW elf, NEW high, Mid(m, root, D, R, elf, high), KernelMet(high),
         NEW page \in Pages, NEW loading \in BOOLEAN, loading \/ page >= 8
  PROVE  Stepped(DownTo(m, root, page, loading), m, root, D, R, elf, high, page, 1)
<1> DEFINE k == GoTo(m, root)
           k3 == Down(k, page, 4, loading)
           k2 == Down(k3, page, 3, loading)
           k1 == Down(k2, page, 2, loading)
<1>1. Mid(k, root, D, R, elf, high) /\ Reached(k.tables, root, page, 4, k.at) /\ k.tables = m.tables
  BY StartIs
<1> HIDE DEF k
<1>2. Kept(k.tables, m.tables, root, elf)
  BY <1>1 DEF Kept
<1>3. Stepped(k, m, root, D, R, elf, high, page, 4)
  BY <1>1, <1>2 DEF Stepped
<1>4. 4 - 1 = 3 /\ 3 - 1 = 2 /\ 2 - 1 = 1 /\ 4 \in 2..4 /\ 3 \in 2..4 /\ 2 \in 2..4
  OBVIOUS
<1>5. Stepped(k3, m, root, D, R, elf, high, page, 4 - 1)
  BY <1>3, <1>4, DownMore
<1>6. Stepped(k3, m, root, D, R, elf, high, page, 3)
  BY <1>4, <1>5
<1> HIDE DEF k3
<1>7. Stepped(k2, m, root, D, R, elf, high, page, 3 - 1)
  BY <1>4, <1>6, DownMore
<1>8. Stepped(k2, m, root, D, R, elf, high, page, 2)
  BY <1>4, <1>7
<1> HIDE DEF k2
<1>9. Stepped(k1, m, root, D, R, elf, high, page, 2 - 1)
  BY <1>4, <1>8, DownMore
<1>10. Stepped(k1, m, root, D, R, elf, high, page, 1)
  BY <1>4, <1>9
<1>11. k1 = DownTo(m, root, page, loading)
  BY DEF k, k3, k2, DownTo
<1> QED  BY <1>10, <1>11

-----------------------------------------------------------------------------
(* The entry of a page.                                                    *)

SetEntry(t, f, l, e) == [t EXCEPT ![f][l] = e]

\* The entry of a page is e, and nothing else has changed.
PageSet(u, t, root, high, page, e) ==
  /\ TreeOK(u, root, high) /\ Own(u, root) = Own(t, root) /\ Level1(u, root) = Level1(t, root)
  /\ Inner(u, root) = Inner(t, root)
  /\ \A x \in RamFrames \union KernelTables : x # At1(t, root, page) => u[x] = t[x]
  /\ \A i \in 0..1 : i # Index(page, 1) => u[At1(t, root, page)][i] = t[At1(t, root, page)][i]
  /\ u[At1(t, root, page)][Index(page, 1)] = e
  /\ \A o \in Pages : /\ SameWalk(u, t, root, o)
                      /\ InUse(u, root, o) <=> IF o = page THEN "user" \in e.flags ELSE InUse(t, root, o)
  /\ Plain(t, root) => Plain(u, root)

\* Setting the entry of one page in an own table of level 1 does just that.
LEMMA PageSetIs ==
  ASSUME NEW t, NEW root, NEW high, TreeOK(t, root, high), NEW page \in Pages, Has1(t, root, page),
         NEW f, f = At1(t, root, page), NEW l, l = Index(page, 1), NEW e \in Entries,
         e = Unused \/ "user" \in e.flags,
         NEW u, u = SetEntry(t, f, l, e)
  PROVE  PageSet(u, t, root, high, page, e)
<1>0. /\ IsTables(t) /\ Forest(t, root) /\ Node4(t, root, high) /\ t[root][0] # Unused
      /\ t \in [RamFrames \union KernelTables -> [0..1 -> Entries]]
      /\ Own(t, root) \subseteq RamFrames
  BY DEF TreeOK, IsTables, Forest
<1>1. f \in Level1(t, root) /\ l \in 0..1
  BY WalkIs, IndexIs
<1>2. f \in RamFrames /\ f \notin Inner(t, root)
  BY <1>0, <1>1, LevelsAre DEF Forest, Inner
<1>3. /\ u \in [RamFrames \union KernelTables -> [0..1 -> Entries]]
      /\ u[f][l] = e /\ (\A j \in 0..1 : j # l => u[f][j] = t[f][j])
      /\ \A x \in RamFrames \union KernelTables : x # f => u[x] = t[x]
  BY <1>0, <1>1, <1>2 DEF SetEntry
<1>4. \A g \in Inner(t, root) : u[g] = t[g]
  <2>1. \A g \in Inner(t, root) : g \in RamFrames /\ g # f
    BY <1>0, <1>2, LevelsAre
  <2> QED  BY <1>3, <2>1
<1>5. \A g \in Inner(t, root) : \A i \in 0..1 : Alike(u[g][i], t[g][i])
  BY <1>4 DEF Alike
<1>6. ASSUME NEW g \in Level1(t, root) PROVE NoMore(u, t, g)
  <2>1. g \in RamFrames
    BY <1>0, LevelsAre
  <2>2. CASE g # f
    BY <1>3, <2>1, <2>2 DEF NoMore
  <2>3. CASE g = f
    BY <1>3, <2>3 DEF NoMore
  <2> QED  BY <2>2, <2>3
<1>7. Forest(u, root) /\ Node4(u, root, high)
  BY <1>0, <1>5, <1>6, SameTree
<1>8. Level1(u, root) = Level1(t, root) /\ Inner(u, root) = Inner(t, root) /\ Own(u, root) = Own(t, root)
  BY <1>5, LevelsSame
<1>9. u[root] = t[root]
  BY <1>4, LevelsAre
<1>10. TreeOK(u, root, high)
  BY <1>0, <1>3, <1>7, <1>9 DEF TreeOK, IsTables
<1>11. ASSUME NEW o \in Pages PROVE SameWalk(u, t, root, o)
  BY <1>5, WalkAlike
<1>12. ASSUME NEW o \in Pages
       PROVE  InUse(u, root, o) <=> IF o = page THEN "user" \in e.flags ELSE InUse(t, root, o)
  <2>1. SameWalk(u, t, root, o)
    BY <1>11
  <2>2. /\ Has1(u, root, o) <=> Has1(t, root, o)
        /\ Has1(t, root, o) => At1(u, root, o) = At1(t, root, o)
    BY <2>1 DEF SameWalk
  <2>3. CASE o = page
    BY <1>3, <2>2, <2>3 DEF InUse, Leaf
  <2>4. CASE o # page
    <3>1. Has1(t, root, o) => u[At1(t, root, o)][Index(o, 1)] = t[At1(t, root, o)][Index(o, 1)]
      <4> SUFFICES ASSUME Has1(t, root, o)
                   PROVE  u[At1(t, root, o)][Index(o, 1)] = t[At1(t, root, o)][Index(o, 1)]
        OBVIOUS
      <4>1. At1(t, root, o) # f \/ Index(o, 1) # l
        BY <1>0, <2>4, OneWalk
      <4>2. At1(t, root, o) \in RamFrames /\ Index(o, 1) \in 0..1
        BY <1>0, WalkIs, LevelsAre, IndexIs
      <4> QED  BY <1>3, <4>1, <4>2
    <3> QED  BY <2>2, <2>4, <3>1 DEF InUse, Leaf
  <2> QED  BY <2>3, <2>4
<1>13. Plain(t, root) => Plain(u, root)
  BY <1>4, <1>8 DEF Plain, Leaf
<1> QED  BY <1>3, <1>8, <1>10, <1>11, <1>12, <1>13 DEF PageSet

\* The leaves when the entry of a page has changed.
LEMMA LeavesSet ==
  ASSUME NEW t, NEW u, NEW root, NEW high, NEW page \in Pages, NEW e, PageSet(u, t, root, high, page, e),
         TreeOK(t, root, high), Has1(t, root, page),
         NEW C, NEW D, Leaves(t, root, C), NEW f, f = At1(t, root, page), NEW l, l = Index(page, 1),
         \A g \in Level1(t, root) : \A k \in 0..1 : (g # f \/ k # l) /\ Leaf(t, g, k) =>
           t[g][k].to \in D /\ ("user" \in e.flags => t[g][k].to # e.to),
         "user" \in e.flags => e.to \in D
  PROVE  Leaves(u, root, D)
<1>1. Level1(u, root) = Level1(t, root) /\ u[f][l] = e
  BY DEF PageSet
<1>2. ASSUME NEW g \in Level1(t, root), NEW k \in 0..1, g # f \/ k # l PROVE u[g][k] = t[g][k]
  <2>1. g \in RamFrames
    BY LevelsAre DEF TreeOK, Forest
  <2> QED  BY <1>2, <2>1 DEF PageSet
<1>3. f \in Level1(t, root) /\ l \in 0..1
  BY WalkIs, IndexIs
<1>4. ASSUME NEW g \in Level1(t, root), NEW k \in 0..1, Leaf(u, g, k)
      PROVE  \/ g = f /\ k = l /\ u[g][k] = e /\ "user" \in e.flags
             \/ (g # f \/ k # l) /\ Leaf(t, g, k) /\ u[g][k] = t[g][k]
  BY <1>1, <1>2, <1>4 DEF Leaf
<1>5. ASSUME NEW g \in Level1(t, root), NEW k \in 0..1, Leaf(u, g, k)
      PROVE  u[g][k].to \in D
  BY <1>4, <1>5
<1>6. ASSUME NEW g \in Level1(t, root), NEW k \in 0..1, Leaf(u, g, k),
             NEW h \in Level1(t, root), NEW j \in 0..1, Leaf(u, h, j), u[h][j].to = u[g][k].to
      PROVE  h = g /\ j = k
  <2>1. CASE g = f /\ k = l /\ h = f /\ j = l
    BY <2>1
  <2>2. CASE g = f /\ k = l /\ (h # f \/ j # l)
    BY <1>1, <1>4, <1>6, <2>2
  <2>3. CASE (g # f \/ k # l) /\ h = f /\ j = l
    BY <1>1, <1>4, <1>6, <2>3
  <2>4. CASE (g # f \/ k # l) /\ (h # f \/ j # l)
    <3>1. Leaf(t, g, k) /\ Leaf(t, h, j) /\ t[h][j].to = t[g][k].to
      BY <1>4, <1>6, <2>4
    <3> QED  BY <3>1 DEF Leaves
  <2> QED  BY <2>1, <2>2, <2>3, <2>4
<1> QED  BY <1>1, <1>5, <1>6 DEF Leaves

\* Tables that are not the process's change.
Undisturbed(u, t, root, high) ==
  /\ Own(u, root) = Own(t, root) /\ u[root] = t[root]
  /\ Forest(t, root) => Forest(u, root)
  /\ Forest(t, root) /\ Node4(t, root, high) => Node4(u, root, high)
  /\ \A page \in Pages : SameWalk(u, t, root, page) /\ (InUse(u, root, page) <=> InUse(t, root, page))
  /\ \A D : ElfOK(t, root, D) => ElfOK(u, root, D)

\* What happens outside the tables of a process does not disturb it.
LEMMA Outside ==
  ASSUME NEW t, NEW u, NEW root, NEW high, \A g \in Own(t, root) : u[g] = t[g]
  PROVE  Undisturbed(u, t, root, high)
<1>1. \A g \in Inner(t, root) : \A i \in 0..1 : Alike(u[g][i], t[g][i])
  BY LevelsAre DEF Alike
<1>2. \A g \in Level1(t, root) : u[g] = t[g] /\ NoMore(u, t, g)
  BY LevelsAre DEF NoMore
<1>3. \A g \in Inner(t, root) : u[g] = t[g]
  BY LevelsAre
<1>4. Level1(u, root) = Level1(t, root) /\ Inner(u, root) = Inner(t, root) /\ Own(u, root) = Own(t, root)
  BY <1>1, LevelsSame
<1>5. u[root] = t[root]
  BY <1>3, LevelsAre
<1>6. Forest(t, root) => Forest(u, root)
  <2> SUFFICES ASSUME Forest(t, root) PROVE Forest(u, root)
    OBVIOUS
  <2>1. Level3(u, root) = Level3(t, root) /\ Level2(u, root) = Level2(t, root)
    BY <1>1, LevelsSame
  <2> QED  BY <1>3, <1>4, <2>1 DEF Forest
<1>7. Forest(t, root) /\ Node4(t, root, high) => Node4(u, root, high)
  BY <1>1, <1>2, SameTree
<1>8. ASSUME NEW page \in Pages
      PROVE  SameWalk(u, t, root, page) /\ (InUse(u, root, page) <=> InUse(t, root, page))
  <2>1. SameWalk(u, t, root, page)
    BY <1>1, WalkAlike
  <2>2. Has1(t, root, page) => At1(t, root, page) \in Level1(t, root)
    BY WalkIs
  <2>3. InUse(u, root, page) <=> InUse(t, root, page)
    BY <1>2, <2>1, <2>2 DEF InUse, Leaf, SameWalk
  <2> QED  BY <2>1, <2>3
<1>9. ASSUME NEW D, ElfOK(t, root, D) PROVE ElfOK(u, root, D)
  <2>1. \A g \in Level1(t, root) : \A l \in 0..1 : u[g][l] = t[g][l] /\ (Leaf(u, g, l) <=> Leaf(t, g, l))
    BY <1>2 DEF Leaf
  <2>2. Leaves(u, root, D)
    BY <1>4, <1>9, <2>1 DEF Leaves, ElfOK
  <2>3. Plain(u, root)
    BY <1>3, <1>4, <1>9 DEF Plain, Leaf, ElfOK
  <2> QED  BY <2>2, <2>3 DEF ElfOK
<1> QED  BY <1>4, <1>5, <1>6, <1>7, <1>8, <1>9 DEF Undisturbed

-----------------------------------------------------------------------------
(* A page is mapped.                                                       *)

\* The page is in use, with a frame of its own: a new one, or the one it had.
PageMapped(n, m, root, D, R, high, page) ==
  \/ Stopped(n)
  \/ /\ n.got \in RamFrames /\ Mid(n, root, D \union {n.got}, R, TRUE, high)
     /\ n.got \in D => InUse(m.tables, root, page)
     /\ \A o \in Pages : InUse(n.tables, root, o) <=> InUse(m.tables, root, o) \/ o = page

\* A new frame is put at a page.
LEMMA NewPage ==
  ASSUME NEW m, NEW root, NEW D, NEW R, NEW high, Mid(m, root, D, R, TRUE, high), NEW page \in Pages,
         Reached(m.tables, root, page, 1, m.at), NEW flags \in SUBSET {"w", "x", "user"}, "user" \in flags,
         NEW n, n = SetLeaf(NewFrame(m, Blank), page, flags)
  PROVE  PageMapped(n, m, root, D, R, high, page) /\ (n.panic = "no" => n.got \notin D)
<1> DEFINE k == NewFrame(m, Blank)
           t == m.tables
           x == k.got
           f == At1(t, root, page)
           l == Index(page, 1)
           e == Entry(x, flags)
           v == [t EXCEPT ![x] = Blank]
           u == SetEntry(v, f, l, e)
<1>0. /\ Mem(m) /\ m.panic = "no" /\ AllocOK(m.fa) /\ TreeOK(t, root, high)
      /\ Used(m.fa) = R \union Own(t, root) \union D
      /\ R \cap (Own(t, root) \union D) = {} /\ Own(t, root) \cap D = {}
      /\ \A y \in R \union KernelTables : t[y] = tables[y]
      /\ ElfOK(t, root, D)
  BY DEF Mid
<1>1. \/ k.panic = "no frame" /\ AllocOK(k.fa) /\ Mem(k)
      \/ /\ k = [fa |-> k.fa, tables |-> v, panic |-> "no", at |-> m.at, got |-> x]
         /\ x \in RamFrames /\ x \notin Used(m.fa)
         /\ AllocOK(k.fa) /\ Used(k.fa) = Used(m.fa) \union {x}
  BY <1>0, NewFrameIs
<1>2. n = IF k.panic # "no" THEN k ELSE [k EXCEPT !.tables[k.at][l] = Entry(x, flags)]
  BY DEF SetLeaf
<1>3. Has1(t, root, page) /\ m.at = f
  BY DEF Reached
<1> HIDE DEF k
<1>4. CASE k.panic = "no frame" /\ AllocOK(k.fa) /\ Mem(k)
  BY <1>2, <1>4 DEF PageMapped, Stopped
<1>5. CASE /\ k = [fa |-> k.fa, tables |-> v, panic |-> "no", at |-> m.at, got |-> x]
           /\ x \in RamFrames /\ x \notin Used(m.fa)
           /\ AllocOK(k.fa) /\ Used(k.fa) = Used(m.fa) \union {x}
  <2>1. k.panic = "no" /\ k.tables = v /\ k.at = f
    BY <1>3, <1>5
  <2>2. Mem(k)
    BY <1>5, <2>1 DEF Mem
  <2>3. n = [k EXCEPT !.tables = u]
    BY <1>2, <2>1 DEF SetEntry
  <2> HIDE DEF x, v, u, e, f, l
  <2>4. n = [fa |-> k.fa, tables |-> u, panic |-> k.panic, at |-> k.at, got |-> k.got]
    BY <2>2, <2>3 DEF Mem
  <2>5. n.fa = k.fa /\ n.tables = u /\ n.panic = "no" /\ n.at = k.at /\ n.got = x
    BY <2>1, <2>4 DEF x
  <2>6. Mem(n)
    BY <2>1, <2>4, <2>5 DEF Mem, x
  <2>7. x \notin Own(t, root) /\ x \notin R /\ x \notin D /\ x \in Nat /\ x \notin KernelTables
    BY <1>0, <1>5, RamIs
  <2>8. /\ IsTables(t) /\ Forest(t, root) /\ Node4(t, root, high) /\ t[root][0] # Unused
        /\ t \in [RamFrames \union KernelTables -> [0..1 -> Entries]]
    BY <1>0 DEF TreeOK, IsTables
  <2>9. /\ IsTables(v) /\ v[x] = Blank
        /\ \A y \in RamFrames \union KernelTables : y # x => v[y] = t[y]
    BY <1>5, <2>8, BlankIs DEF IsTables, v
  <2>10. \A g \in Own(t, root) : v[g] = t[g]
    BY <2>7, <2>8, <2>9 DEF Forest
  <2>11. Undisturbed(v, t, root, high)
    BY <2>10, Outside
  <2>12. TreeOK(v, root, high) /\ ElfOK(v, root, D) /\ Own(v, root) = Own(t, root)
    BY <1>0, <2>8, <2>9, <2>11 DEF Undisturbed, TreeOK
  <2>13. Has1(v, root, page) /\ At1(v, root, page) = f
    BY <1>3, <2>11 DEF Undisturbed, SameWalk, f
  <2>14. e \in Entries /\ "user" \in e.flags /\ e.to = x
    BY <2>7 DEF Entries, e, Entry
  <2>15. PageSet(u, v, root, high, page, e)
    BY <2>12, <2>13, <2>14, PageSetIs DEF u, l
  <2>16. /\ TreeOK(u, root, high) /\ Own(u, root) = Own(t, root)
         /\ \A y \in RamFrames \union KernelTables : y # f => u[y] = v[y]
         /\ Plain(u, root)
    BY <2>12, <2>13, <2>15 DEF PageSet, ElfOK
  <2>17. Leaves(u, root, D \union {x})
    <3>1. Leaves(v, root, D)
      BY <2>12 DEF ElfOK
    <3>2. \A g \in Level1(v, root) : \A j \in 0..1 : Leaf(v, g, j) => v[g][j].to \in D /\ v[g][j].to # x
      BY <2>7, <3>1 DEF Leaves
    <3> QED  BY <2>12, <2>13, <2>14, <2>15, <3>1, <3>2, LeavesSet
  <2>18. \A y \in R \union KernelTables : u[y] = tables[y]
    <3>1. f \in Own(t, root)
      BY <1>3, WalkIs, LevelsAre DEF f
    <3>2. f \in RamFrames /\ f \notin KernelTables /\ f \notin R
      BY <1>0, <2>8, <3>1, RamIs DEF Forest
    <3>3. R \subseteq RamFrames
      BY <1>0, RamIs
    <3>4. \A y \in R \union KernelTables : y # f /\ y # x /\ y \in RamFrames \union KernelTables
      BY <2>7, <3>2, <3>3
    <3> QED  BY <1>0, <2>9, <2>16, <3>4
  <2>19. ASSUME NEW o \in Pages PROVE InUse(u, root, o) <=> InUse(t, root, o) \/ o = page
    BY <2>11, <2>14, <2>15 DEF PageSet, Undisturbed
  <2>20. /\ Used(n.fa) = R \union Own(u, root) \union (D \union {x})
         /\ R \cap (Own(u, root) \union (D \union {x})) = {} /\ Own(u, root) \cap (D \union {x}) = {}
    BY <1>0, <1>5, <2>5, <2>7, <2>16
  <2>21. Mid(n, root, D \union {x}, R, TRUE, high)
    BY <1>5, <2>5, <2>6, <2>16, <2>17, <2>18, <2>20 DEF Mid, ElfOK
  <2>22. n.got \in RamFrames /\ n.got \notin D /\ n.got = x
    BY <1>5, <2>5, <2>7
  <2> QED  BY <2>5, <2>19, <2>21, <2>22 DEF PageMapped
<1> QED  BY <1>1, <1>4, <1>5

\* map_anonymous_pages_in_process() of one page gives it a frame of its own.
LEMMA MapAnonymousOK ==
  ASSUME NEW m, NEW root, NEW D, NEW R, NEW high, Mid(m, root, D, R, TRUE, high), KernelMet(high),
         NEW page \in Pages, page >= 8
  PROVE  /\ PageMapped(MapAnonymous(m, root, page), m, root, D, R, high, page)
         /\ MapAnonymous(m, root, page).panic = "no" => MapAnonymous(m, root, page).got \notin D
<1> DEFINE k == DownTo(m, root, page, FALSE)
           n == SetLeaf(NewFrame(k, Blank), page, {"w", "user"})
<1>1. Stepped(k, m, root, D, R, TRUE, high, page, 1)
  BY DownToOK
<1>2. n = MapAnonymous(m, root, page)
  BY DEF MapAnonymous
<1> HIDE DEF k
<1>3. CASE Stopped(k)
  <2>1. NewFrame(k, Blank) = k /\ k.panic # "no"
    BY <1>3 DEF Stopped, NewFrame
  <2>2. n = k
    BY <2>1 DEF SetLeaf
  <2> HIDE DEF n
  <2> QED  BY <1>2, <1>3, <2>1, <2>2 DEF PageMapped
<1>4. CASE /\ Mid(k, root, D, R, TRUE, high) /\ Kept(k.tables, m.tables, root, TRUE)
           /\ Reached(k.tables, root, page, 1, k.at)
  <2>1. PageMapped(n, k, root, D, R, high, page) /\ (n.panic = "no" => n.got \notin D)
    BY <1>4, NewPage
  <2>2. \A o \in Pages : InUse(k.tables, root, o) <=> InUse(m.tables, root, o)
    BY <1>4 DEF Kept
  <2> HIDE DEF n
  <2>3. PageMapped(n, m, root, D, R, high, page)
    BY <2>1, <2>2 DEF PageMapped
  <2> QED  BY <1>2, <2>1, <2>3
<1> QED  BY <1>1, <1>3, <1>4 DEF Stepped

WithEntry(m, f, l, e) == [m EXCEPT !.tables = SetEntry(m.tables, f, l, e), !.got = e.to]

\* What that leaves of the memory.
LEMMA WithEntryIs ==
  ASSUME NEW m, Mem(m), NEW f, NEW l, NEW e
  PROVE  /\ Mem(WithEntry(m, f, l, e)) /\ WithEntry(m, f, l, e).fa = m.fa
         /\ WithEntry(m, f, l, e).tables = SetEntry(m.tables, f, l, e)
         /\ WithEntry(m, f, l, e).panic = m.panic
         /\ WithEntry(m, f, l, e).at = m.at /\ WithEntry(m, f, l, e).got = e.to
<1> DEFINE u == SetEntry(m.tables, f, l, e)
           n == WithEntry(m, f, l, e)
<1>1. n = [m EXCEPT !.tables = u, !.got = e.to]
  BY DEF WithEntry
<1> HIDE DEF n, u
<1>2. n = [fa |-> m.fa, tables |-> u, panic |-> m.panic, at |-> m.at, got |-> e.to]
  BY <1>1 DEF Mem
<1>3. n.fa = m.fa /\ n.tables = u /\ n.panic = m.panic /\ n.at = m.at /\ n.got = e.to
  BY <1>2
<1>4. Mem(n)
  BY <1>2, <1>3 DEF Mem
<1> QED  BY <1>3, <1>4 DEF n, u

\* The entry of a page that is in use already gains permissions.
LEMMA MorePerm ==
  ASSUME NEW m, NEW root, NEW D, NEW R, NEW high, Mid(m, root, D, R, TRUE, high), NEW page \in Pages,
         Reached(m.tables, root, page, 1, m.at), NEW perm \in SUBSET {"w", "x"},
         NEW e, e = m.tables[m.at][Index(page, 1)], "user" \in e.flags,
         NEW n, n = WithEntry(m, m.at, Index(page, 1), Entry(e.to, e.flags \union perm))
  PROVE  PageMapped(n, m, root, D, R, high, page)
<1> DEFINE t == m.tables
           f == At1(t, root, page)
           l == Index(page, 1)
           d == Entry(e.to, e.flags \union perm)
           u == SetEntry(t, f, l, d)
<1>0. /\ Mem(m) /\ m.panic = "no" /\ AllocOK(m.fa) /\ TreeOK(t, root, high)
      /\ Used(m.fa) = R \union Own(t, root) \union D
      /\ R \cap (Own(t, root) \union D) = {} /\ Own(t, root) \cap D = {}
      /\ \A y \in R \union KernelTables : t[y] = tables[y]
      /\ ElfOK(t, root, D)
  BY DEF Mid
<1>1. Has1(t, root, page) /\ m.at = f
  BY DEF Reached
<1>4. n.fa = m.fa /\ n.tables = u /\ n.panic = "no" /\ n.at = m.at /\ n.got = d.to
  BY <1>0, <1>1, WithEntryIs
<1>5. Mem(n)
  BY <1>0, WithEntryIs
<1> HIDE DEF u
<1>6. f \in Level1(t, root) /\ l \in 0..1
  BY <1>1, WalkIs, IndexIs
<1>7. f \in RamFrames /\ f \in Own(t, root) /\ IsTables(t)
  BY <1>0, <1>6, LevelsAre DEF TreeOK, Forest
<1>8. e = t[f][l] /\ e \in Entries /\ e.flags \in SUBSET Flags /\ (e # Unused => e.to \in Nat)
  BY <1>1, <1>6, <1>7, EntryIs
<1>9. e # Unused
  BY KernelEntries
<1>10. d \in Entries /\ d.to = e.to /\ "user" \in d.flags
  BY <1>8, <1>9 DEF Entries, Entry, Flags
<1> HIDE DEF d, f, l
<1>11. PageSet(u, t, root, high, page, d)
  BY <1>0, <1>1, <1>10, PageSetIs DEF u, f, l
<1>12. /\ TreeOK(u, root, high) /\ Own(u, root) = Own(t, root)
       /\ \A y \in RamFrames \union KernelTables : y # f => u[y] = t[y]
       /\ Plain(u, root)
  BY <1>0, <1>11 DEF PageSet, ElfOK, f
<1>13. Leaves(t, root, D) /\ Leaf(t, f, l)
  BY <1>0, <1>8 DEF ElfOK, Leaf
<1>14. e.to \in D
  BY <1>6, <1>8, <1>13 DEF Leaves
<1>15. \A g \in Level1(t, root) : \A j \in 0..1 : (g # f \/ j # l) /\ Leaf(t, g, j) =>
         t[g][j].to \in D /\ t[g][j].to # e.to
  BY <1>6, <1>8, <1>13 DEF Leaves
<1>16. Leaves(u, root, D)
  BY <1>0, <1>1, <1>10, <1>11, <1>13, <1>14, <1>15, LeavesSet DEF f, l
<1>17. \A y \in R \union KernelTables : u[y] = tables[y]
  <2>1. f \notin KernelTables /\ f \notin R
    BY <1>0, <1>7, RamIs
  <2>2. R \subseteq RamFrames
    BY <1>0, RamIs
  <2> QED  BY <1>0, <1>12, <2>1, <2>2
<1>18. Mid(n, root, D, R, TRUE, high)
  BY <1>0, <1>4, <1>5, <1>12, <1>16, <1>17 DEF Mid, ElfOK
<1>19. ASSUME NEW o \in Pages PROVE InUse(u, root, o) <=> InUse(t, root, o) \/ o = page
  BY <1>10, <1>11 DEF PageSet
<1>20. n.got \in D /\ D \union {n.got} = D /\ n.got \in RamFrames
  <2>1. n.got = e.to /\ e.to \in D
    BY <1>4, <1>10, <1>14
  <2>2. D \subseteq RamFrames
    BY <1>0, RamIs
  <2> QED  BY <2>1, <2>2
<1>21. InUse(t, root, page)
  BY <1>1, <1>13 DEF InUse, f, l
<1> QED  BY <1>4, <1>18, <1>19, <1>20, <1>21 DEF PageMapped

\* An entry is a record of its frame and its flags.
LEMMA EntryShape ==
  ASSUME NEW t, IsTables(t), NEW f \in RamFrames, NEW i \in 0..1
  PROVE  t[f][i] = [to |-> t[f][i].to, flags |-> t[f][i].flags]
<1>1. t[f][i] \in Entries
  BY DEF IsTables
<1>2. \A e \in Entries : e = [to |-> e.to, flags |-> e.flags]
  BY DEF Entries
<1> QED  BY <1>1, <1>2

\* map_user_pages_in_process() of one page gives it a frame of its own or keeps the one
\* it has.
LEMMA MapLoadedOK ==
  ASSUME NEW m, NEW root, NEW D, NEW R, NEW high, Mid(m, root, D, R, TRUE, high), KernelMet(high),
         NEW item, item.page \in Pages, item.perm \in SUBSET {"w", "x"}
  PROVE  PageMapped(MapLoaded(m, root, item, D), m, root, D, R, high, item.page)
<1> DEFINE page == item.page
           perm == item.perm
           l == Index(page, 1)
           k == DownTo(m, root, page, TRUE)
           e == k.tables[k.at][l]
           n == MapLoaded(m, root, item, D)
<1>1. Stepped(k, m, root, D, R, TRUE, high, page, 1)
  BY DownToOK
<1>2. n = LeafLoaded(k, page, perm, D)
  BY DEF MapLoaded
<1>3. n = IF k.panic # "no" THEN k
          ELSE IF "user" \in e.flags /\ e.to \in D
          THEN [k EXCEPT !.tables[k.at][l].flags = @ \union perm, !.got = e.to]
          ELSE SetLeaf(NewFrame(k, Blank), page, LeafFlags(perm))
  BY <1>2 DEF LeafLoaded
<1> HIDE DEF k, n, page, perm
<1>4. CASE Stopped(k)
  <2>1. n = k
    BY <1>3, <1>4 DEF Stopped
  <2> QED  BY <1>4, <2>1 DEF PageMapped, n
<1>5. CASE /\ Mid(k, root, D, R, TRUE, high) /\ Kept(k.tables, m.tables, root, TRUE)
           /\ Reached(k.tables, root, page, 1, k.at)
  <2>0. k.panic = "no" /\ page \in Pages /\ perm \in SUBSET {"w", "x"} /\ Mem(k)
    BY <1>5 DEF Mid, page, perm
  <2>1. PageMapped(n, k, root, D, R, high, page)
    <3>1. CASE "user" \in e.flags /\ e.to \in D
      <4>1. n = [k EXCEPT !.tables[k.at][l].flags = @ \union perm, !.got = e.to]
        BY <1>3, <2>0, <3>1
      <4>2. Has1(k.tables, root, page) /\ k.at = At1(k.tables, root, page)
        BY <1>5 DEF Reached
      <4>3. k.at \in Level1(k.tables, root) /\ l \in 0..1
        BY <2>0, <4>2, WalkIs, IndexIs
      <4>4. IsTables(k.tables) /\ k.at \in RamFrames
        BY <1>5, <4>3, LevelsAre DEF Mid, TreeOK, Forest
      <4>5. e = [to |-> e.to, flags |-> e.flags]
        BY <4>3, <4>4, EntryShape
      <4>6. [e EXCEPT !.flags = e.flags \union perm] = Entry(e.to, e.flags \union perm)
        <5> HIDE DEF e
        <5> QED  BY <4>5 DEF Entry
      <4>7. n = WithEntry(k, k.at, l, [e EXCEPT !.flags = e.flags \union perm])
        <5>1. [e EXCEPT !.flags = e.flags \union perm].to = e.to
          <6> HIDE DEF e
          <6> QED  BY <4>5
        <5> QED  BY <4>1, <5>1 DEF SetEntry, WithEntry
      <4>8. n = WithEntry(k, k.at, l, Entry(e.to, e.flags \union perm))
        BY <4>6, <4>7
      <4> QED  BY <1>5, <2>0, <3>1, <4>8, MorePerm
    <3>2. CASE ~("user" \in e.flags /\ e.to \in D)
      <4>1. n = SetLeaf(NewFrame(k, Blank), page, LeafFlags(perm))
        BY <1>3, <2>0, <3>2
      <4>2. LeafFlags(perm) \in SUBSET {"w", "x", "user"} /\ "user" \in LeafFlags(perm)
        BY <2>0 DEF LeafFlags
      <4> QED  BY <1>5, <2>0, <4>1, <4>2, NewPage
    <3> QED  BY <3>1, <3>2
  <2>2. \A o \in Pages : InUse(k.tables, root, o) <=> InUse(m.tables, root, o)
    BY <1>5 DEF Kept
  <2>3. PageMapped(n, m, root, D, R, high, page)
    BY <2>0, <2>1, <2>2 DEF PageMapped
  <2> QED  BY <2>3 DEF n, page
<1> QED  BY <1>1, <1>4, <1>5 DEF Stepped

-----------------------------------------------------------------------------
(* The pages of a program inside the kernel are opened to user mode.       *)

\* A walk that ends (at = -1) or has come to a table of a level.
Opened(n, root, D, R, high, page, level) ==
  \/ Stopped(n)
  \/ Mid(n, root, D, R, FALSE, high) /\ (n.at = -1 \/ Reached(n.tables, root, page, level, n.at))

\* A walk ends.
LEMMA EndIs ==
  ASSUME NEW m, NEW root, NEW D, NEW R, NEW elf, NEW high, Mid(m, root, D, R, elf, high), NEW n, NEW to,
         n = GoTo(m, to)
  PROVE  Mid(n, root, D, R, elf, high) /\ n.at = to
<1>1. Mem(m)
  BY DEF Mid
<1>2. n = [fa |-> m.fa, tables |-> m.tables, panic |-> m.panic, at |-> to, got |-> m.got]
  BY <1>1 DEF Mem, GoTo
<1>3. n.fa = m.fa /\ n.tables = m.tables /\ n.panic = m.panic /\ n.at = to /\ n.got = m.got
  BY <1>2
<1>4. Mem(n)
  BY <1>2, <1>3 DEF Mem
<1> QED  BY <1>3, <1>4 DEF Mid

\* The table a walk has come to is one of the process's own.
LEMMA ReachedIs ==
  ASSUME NEW t, NEW root, NEW page \in Pages, NEW level \in 1..4, NEW at, Reached(t, root, page, level, at),
         Forest(t, root)
  PROVE  /\ at \in RamFrames /\ at \in Own(t, root) /\ at # -1
         /\ level \in 2..4 => at \in Inner(t, root)
         /\ Index(page, level) \in 0..1
<1>1. level = 1 \/ level = 2 \/ level = 3 \/ level = 4
  OBVIOUS
<1>2. Own(t, root) \subseteq RamFrames
  BY DEF Forest
<1>3. CASE level = 4
  BY <1>2, <1>3, LevelsAre, RamIs, IndexIs DEF Reached
<1>4. CASE level = 3
  BY <1>2, <1>4, LevelsAre, WalkIs, RamIs, IndexIs DEF Reached
<1>5. CASE level = 2
  BY <1>2, <1>5, LevelsAre, WalkIs, RamIs, IndexIs DEF Reached
<1>6. CASE level = 1
  BY <1>2, <1>6, LevelsAre, WalkIs, RamIs, IndexIs DEF Reached
<1> QED  BY <1>1, <1>3, <1>4, <1>5, <1>6

\* One level of set_user_accessible_in_process().
LEMMA DownAccessibleOK ==
  ASSUME NEW m, NEW root, NEW D, NEW R, NEW high, Mid(m, root, D, R, FALSE, high), KernelMet(high),
         NEW page \in Pages, NEW level \in 2..4, Reached(m.tables, root, page, level, m.at)
  PROVE  Opened(DownAccessible(m, page, level), root, D, R, high, page, level - 1)
<1> DEFINE i == Index(page, level)
           e == m.tables[m.at][i]
           n == DownAccessible(m, page, level)
<1>0. m.panic = "no" /\ AllocOK(m.fa) /\ Mem(m) /\ TreeOK(m.tables, root, high)
      /\ Forest(m.tables, root) /\ IsTables(m.tables)
  BY DEF Mid, TreeOK
<1>1. m.at \in RamFrames /\ m.at # -1 /\ i \in 0..1 /\ m.at \in Inner(m.tables, root)
  BY <1>0, ReachedIs
<1>2. n = IF e = Unused THEN GoTo(m, -1)
          ELSE IF Huge(e) /\ level # 2 THEN WithFlags(m, m.at, i, e.flags \union {"user"}, -1)
          ELSE IF Huge(e)
          THEN LinkNew(NewFrame(m, SplitContent(Entry(e.to, e.flags \union {"user"}), level)),
                       i, (e.flags \ {"huge"}) \union {"user"})
          ELSE IF e.to = KernelAddr(page, level)
          THEN LinkNew(NewFrame(m, m.tables[e.to]), i, e.flags \union {"user"})
          ELSE WithFlags(m, m.at, i, e.flags \union {"user"}, e.to)
  <2>1. ~(m.panic # "no" \/ m.at = -1)
    BY <1>0, <1>1
  <2>2. \A x : OpenEntry(m, i, x) = WithFlags(m, m.at, i, e.flags \union {"user"}, x)
    BY DEF OpenEntry, WithFlags, Flagged
  <2>3. n = AccessEntry(m, page, level, i, e)
    BY <2>1 DEF DownAccessible
  <2> HIDE DEF n, i, e
  <2> QED  BY <2>2, <2>3 DEF AccessEntry
<1>3. e.flags \in SUBSET Flags /\ e = [to |-> e.to, flags |-> e.flags]
  <2>1. m.at \in RamFrames \union KernelTables
    BY <1>1
  <2> QED  BY <1>0, <1>1, <2>1, EntryIs
<1>5. level = 4 => m.at = root /\ ~Huge(e)
  <2> SUFFICES ASSUME level = 4 PROVE m.at = root /\ ~Huge(e)
    OBVIOUS
  <2>1. m.at = root
    BY DEF Reached
  <2>2. Node4(m.tables, root, high)
    BY <1>0 DEF TreeOK
  <2> QED  BY <1>1, <2>1, <2>2 DEF Node4
<1>6. level = 2 \/ level = 3 \/ level = 4
  OBVIOUS
<1>7. (e.flags \ {"huge"}) \union {"user"} \in SUBSET {"w", "x", "user"}
  BY <1>3 DEF Flags
<1>8. ~Huge(e) => e.flags \union {"user"} \in SUBSET {"w", "x", "user"}
  BY <1>3 DEF Flags, Huge
<1>9. e.flags \union {"user"} \in SUBSET Flags /\ ("huge" \in e.flags \union {"user"} <=> Huge(e))
  BY <1>3 DEF Flags, Huge
<1> HIDE DEF n, e, i
<1>10. CASE e = Unused
  <2>1. n = GoTo(m, -1)
    BY <1>2, <1>10
  <2>2. \A x : Mid(GoTo(m, x), root, D, R, FALSE, high) /\ GoTo(m, x).at = x
    <3> SUFFICES ASSUME NEW x PROVE Mid(GoTo(m, x), root, D, R, FALSE, high) /\ GoTo(m, x).at = x
      OBVIOUS
    <3> QED  BY EndIs
  <2>3. Mid(n, root, D, R, FALSE, high) /\ n.at = -1
    BY <2>1, <2>2
  <2> QED  BY <2>3 DEF Opened, n
<1>11. CASE e # Unused /\ Huge(e) /\ level # 2
  <2>1. n = WithFlags(m, m.at, i, e.flags \union {"user"}, -1)
    BY <1>2, <1>11
  <2>2. Marked(n, m, root, D, R, FALSE, high, m.at, i, -1)
    BY <1>1, <1>9, <1>11, <2>1, FlagsMid DEF e
  <2> QED  BY <2>2 DEF Opened, Marked, n
<1>12. CASE e # Unused /\ ~Huge(e) /\ e.to # KernelAddr(page, level)
  <2>1. n = WithFlags(m, m.at, i, e.flags \union {"user"}, e.to)
    BY <1>2, <1>12
  <2>2. Stepped(n, m, root, D, R, FALSE, high, page, level - 1)
    BY <1>12, <2>1, PassAt DEF i, e
  <2> QED  BY <2>2 DEF n, Opened, Stepped
<1>13. CASE e # Unused /\ ((Huge(e) /\ level = 2) \/ (~Huge(e) /\ e.to = KernelAddr(page, level)))
  <2>1. \E c, g : /\ n = LinkNew(NewFrame(m, c), i, g) /\ g \in SUBSET {"w", "x", "user"}
                  /\ \/ Huge(e) /\ level = 2 /\ c = SplitContent(Entry(e.to, e.flags \union {"user"}), 2)
                     \/ e # Unused /\ ~Huge(e) /\ e.to = KernelAddr(page, level) /\ c = m.tables[e.to]
    <3>1. CASE Huge(e)
      BY <1>2, <1>7, <1>13, <3>1
    <3>2. CASE ~Huge(e)
      BY <1>2, <1>8, <1>13, <3>2
    <3> QED  BY <3>1, <3>2
  <2>2. PICK c, g : /\ n = LinkNew(NewFrame(m, c), i, g) /\ g \in SUBSET {"w", "x", "user"}
                    /\ \/ Huge(e) /\ level = 2 /\ c = SplitContent(Entry(e.to, e.flags \union {"user"}), 2)
                       \/ e # Unused /\ ~Huge(e) /\ e.to = KernelAddr(page, level) /\ c = m.tables[e.to]
    BY <2>1
  <2>3. CASE level = 4
    <3>1. i = Index(page, 4) /\ e = m.tables[root][i] /\ m.at = root
      BY <1>5, <2>3 DEF i, e
    <3>2. e # Unused /\ e.to = KernelAddr(page, 4) /\ c = m.tables[e.to]
      BY <1>5, <2>2, <2>3
    <3>3. Stepped(n, m, root, D, R, FALSE, high, page, 3)
      BY <2>2, <3>1, <3>2, LinkAt4
    <3>4. level - 1 = 3
      BY <2>3
    <3> QED  BY <3>3, <3>4 DEF n, Opened, Stepped
  <2>4. CASE level = 3
    <3>1. i = Index(page, 3) /\ e = m.tables[m.at][i]
      BY <2>4 DEF i, e
    <3>2. e # Unused /\ ~Huge(e) /\ e.to = KernelAddr(page, 3) /\ c = m.tables[e.to]
      BY <2>2, <2>4
    <3>3. Reached(m.tables, root, page, 3, m.at)
      BY <2>4
    <3>4. Stepped(n, m, root, D, R, FALSE, high, page, 2)
      BY <2>2, <3>1, <3>2, <3>3, LinkAt3
    <3>5. level - 1 = 2
      BY <2>4
    <3> QED  BY <3>4, <3>5 DEF n, Opened, Stepped
  <2>5. CASE level = 2
    <3>1. i = Index(page, 2) /\ e = m.tables[m.at][i]
      BY <2>5 DEF i, e
    <3>3. \/ Huge(e) /\ (\E h \in SUBSET Flags : (FALSE => h = e.flags) /\ c = SplitContent(Entry(e.to, h), 2))
          \/ e # Unused /\ ~Huge(e) /\ e.to = KernelAddr(page, 2) /\ c = m.tables[e.to]
      BY <1>9, <2>2, <2>5
    <3>4. Reached(m.tables, root, page, 2, m.at)
      BY <2>5
    <3>5. Stepped(n, m, root, D, R, FALSE, high, page, 1)
      BY <2>2, <3>1, <3>3, <3>4, LinkAt2
    <3>6. level - 1 = 1
      BY <2>5
    <3> QED  BY <3>5, <3>6 DEF n, Opened, Stepped
  <2> QED  BY <1>6, <2>3, <2>4, <2>5
<1> QED  BY <1>10, <1>11, <1>12, <1>13

\* A walk that has not ended goes on.
LEMMA OpenedMore ==
  ASSUME NEW k, NEW root, NEW D, NEW R, NEW high, NEW page \in Pages, NEW level \in 2..4,
         KernelMet(high), Opened(k, root, D, R, high, page, level)
  PROVE  Opened(DownAccessible(k, page, level), root, D, R, high, page, level - 1)
<1>1. CASE Stopped(k) \/ k.at = -1
  <2>0. k.panic # "no" \/ k.at = -1
    BY <1>1 DEF Stopped
  <2>1. DownAccessible(k, page, level) = k
    BY <2>0 DEF DownAccessible
  <2> QED  BY <1>1, <2>1 DEF Opened
<1>2. CASE Mid(k, root, D, R, FALSE, high) /\ Reached(k.tables, root, page, level, k.at)
  BY <1>2, DownAccessibleOK
<1> QED  BY <1>1, <1>2 DEF Opened

\* set_user_accessible_in_process() leaves the process its tables and frames.
LEMMA AccessibleOK ==
  ASSUME NEW m, NEW root, NEW D, NEW R, NEW high, Mid(m, root, D, R, FALSE, high), KernelMet(high),
         NEW page \in Pages
  PROVE  Stopped(Accessible(m, root, page)) \/ Mid(Accessible(m, root, page), root, D, R, FALSE, high)
<1> DEFINE k == GoTo(m, root)
           k3 == DownAccessible(k, page, 4)
           k2 == DownAccessible(k3, page, 3)
           d == DownAccessible(k2, page, 2)
           l == Index(page, 1)
           n == Accessible(m, root, page)
<1>1. Mid(k, root, D, R, FALSE, high) /\ Reached(k.tables, root, page, 4, k.at) /\ k.tables = m.tables
  BY StartIs
<1>2. n = IF d.panic # "no" \/ d.at = -1 \/ d.tables[d.at][l] = Unused THEN d
          ELSE [d EXCEPT !.tables[d.at][l].flags = d.tables[d.at][l].flags \union {"user"}]
  BY DEF Accessible
<1> HIDE DEF k
<1>3. Opened(k, root, D, R, high, page, 4)
  BY <1>1 DEF Opened
<1>4. 4 - 1 = 3 /\ 3 - 1 = 2 /\ 2 - 1 = 1 /\ 4 \in 2..4 /\ 3 \in 2..4 /\ 2 \in 2..4
  OBVIOUS
<1>5. Opened(k3, root, D, R, high, page, 4 - 1)
  BY <1>3, <1>4, OpenedMore
<1>6. Opened(k3, root, D, R, high, page, 3)
  BY <1>4, <1>5
<1> HIDE DEF k3
<1>7. Opened(k2, root, D, R, high, page, 3 - 1)
  BY <1>4, <1>6, OpenedMore
<1>8. Opened(k2, root, D, R, high, page, 2)
  BY <1>4, <1>7
<1> HIDE DEF k2
<1>9. Opened(d, root, D, R, high, page, 2 - 1)
  BY <1>4, <1>8, OpenedMore
<1>10. Opened(d, root, D, R, high, page, 1)
  BY <1>4, <1>9
<1> HIDE DEF d, n
<1>11. CASE d.panic # "no" \/ d.at = -1 \/ d.tables[d.at][l] = Unused
  <2>1. n = d
    BY <1>2, <1>11
  <2> QED  BY <1>10, <2>1 DEF Opened, n
<1>12. CASE ~(d.panic # "no" \/ d.at = -1 \/ d.tables[d.at][l] = Unused)
  <2> DEFINE t == d.tables
             f == At1(t, root, page)
             e == t[d.at][l]
             x == Entry(e.to, e.flags \union {"user"})
             u == SetEntry(t, f, l, x)
  <2>1. Mid(d, root, D, R, FALSE, high) /\ Reached(t, root, page, 1, d.at)
    BY <1>10, <1>12 DEF Opened, Stopped
  <2>2. /\ Mem(d) /\ d.panic = "no" /\ AllocOK(d.fa) /\ TreeOK(t, root, high)
        /\ Used(d.fa) = R \union Own(t, root) \union D
        /\ R \cap (Own(t, root) \union D) = {} /\ Own(t, root) \cap D = {}
        /\ \A y \in R \union KernelTables : t[y] = tables[y]
    BY <2>1 DEF Mid
  <2>3. Has1(t, root, page) /\ d.at = f
    BY <2>1 DEF Reached
  <2>4. d.at \in RamFrames /\ d.at \in Own(t, root) /\ l \in 0..1 /\ IsTables(t)
    BY <2>1, <2>2, ReachedIs DEF TreeOK
  <2>5. e = [to |-> e.to, flags |-> e.flags] /\ e \in Entries /\ e.flags \in SUBSET Flags
        /\ e # Unused /\ e.to \in Nat
    <3>1. d.at \in RamFrames \union KernelTables
      BY <2>4
    <3>2. e \in Entries /\ e.flags \in SUBSET Flags /\ (e # Unused => e.to \in Nat)
      BY <2>4, <3>1, EntryIs
    <3>3. e = [to |-> e.to, flags |-> e.flags]
      BY <2>4, EntryShape
    <3> QED  BY <1>12, <3>2, <3>3
  <2>6. [e EXCEPT !.flags = e.flags \union {"user"}] = x
    <3> HIDE DEF e
    <3> QED  BY <2>5 DEF Entry
  <2>7. n = [d EXCEPT !.tables = SetEntry(t, d.at, l, [e EXCEPT !.flags = e.flags \union {"user"}])]
    BY <1>2, <1>12 DEF SetEntry
  <2>8. n = [d EXCEPT !.tables = u]
    BY <2>3, <2>6, <2>7
  <2>9. x \in Entries /\ "user" \in x.flags
    <3> HIDE DEF e
    <3> QED  BY <2>5 DEF Entries, Entry, Flags
  <2> HIDE DEF u, x, e, f
  <2>10. n = [fa |-> d.fa, tables |-> u, panic |-> d.panic, at |-> d.at, got |-> d.got]
    BY <2>2, <2>8 DEF Mem
  <2>11. n.fa = d.fa /\ n.tables = u /\ n.panic = "no" /\ n.at = d.at /\ n.got = d.got
    BY <2>2, <2>10
  <2>12. Mem(n)
    BY <2>2, <2>10, <2>11 DEF Mem
  <2>13. PageSet(u, t, root, high, page, x)
    BY <2>2, <2>3, <2>9, PageSetIs DEF u, f
  <2>14. /\ TreeOK(u, root, high) /\ Own(u, root) = Own(t, root)
         /\ \A y \in RamFrames \union KernelTables : y # f => u[y] = t[y]
    BY <2>13 DEF PageSet, f
  <2>15. \A y \in R \union KernelTables : u[y] = tables[y]
    <3>1. f \notin KernelTables /\ f \notin R
      BY <2>2, <2>3, <2>4, RamIs
    <3>2. R \subseteq RamFrames
      BY <2>2, RamIs
    <3> QED  BY <2>2, <2>14, <3>1, <3>2
  <2> QED  BY <2>2, <2>11, <2>12, <2>14, <2>15 DEF Mid, n
<1> QED  BY <1>11, <1>12

-----------------------------------------------------------------------------
(* Loops.                                                                  *)

\* The frames are given back one by one.
LEMMA ReleaseSteps ==
  ASSUME NEW m, NEW S, NEW frames \in Seq(S)
  PROVE  \E h : /\ Release(m, frames) = h[Len(frames)]
                /\ \A i \in 0..Len(frames) : h[i] = IF i = 0 THEN m ELSE FreeFrame(h[i - 1], frames[i])
<1> DEFINE P(f, n) == f = [i \in 0..n |-> IF i = 0 THEN m ELSE FreeFrame(f[i - 1], frames[i])]
           T == {n \in Nat : \E f : P(f, n)}
<1>0. Len(frames) \in Nat
  OBVIOUS
<1>1. 0 \in T
  <2>1. P([i \in 0..0 |-> m], 0)
    OBVIOUS
  <2> QED  BY <2>1
<1>2. ASSUME NEW n \in Nat, n \in T PROVE n + 1 \in T
  <2>1. PICK f : P(f, n)
    BY <1>2
  <2> DEFINE e == [i \in 0..n + 1 |-> IF i <= n THEN f[i] ELSE FreeFrame(f[n], frames[(n + 1)])]
  <2>2. ASSUME NEW i \in 0..n + 1 PROVE e[i] = IF i = 0 THEN m ELSE FreeFrame(e[i - 1], frames[i])
    <3>1. CASE i <= n
      <4>1. i \in 0..n /\ (i # 0 => i - 1 \in 0..n /\ i - 1 \in 0..n + 1 /\ i - 1 <= n)
        BY <3>1
      <4>2. e[i] = f[i] /\ (i # 0 => e[i - 1] = f[i - 1])
        BY <3>1, <4>1
      <4>3. f[i] = IF i = 0 THEN m ELSE FreeFrame(f[i - 1], frames[i])
        BY <2>1, <4>1
      <4> HIDE DEF e, P
      <4> QED  BY <4>2, <4>3
    <3>2. CASE i = n + 1
      <4>1. e[i] = (FreeFrame(f[n], frames[(n + 1)])) /\ e[n] = f[n] /\ i - 1 = n /\ i # 0
        BY <3>2
      <4> HIDE DEF e, P
      <4> QED  BY <3>2, <4>1
    <3> QED  BY <3>1, <3>2
  <2>3. e = [i \in 0..n + 1 |-> e[i]]
    OBVIOUS
  <2>4. P(e, n + 1)
    <3> HIDE DEF e
    <3> QED  BY <2>2, <2>3
  <2> HIDE DEF e, P
  <2> QED  BY <2>4
<1>3. Len(frames) \in T
  <2> HIDE DEF T
  <2> QED  BY <1>0, <1>1, <1>2, SetInduction
<1> DEFINE h == CHOOSE f : P(f, Len(frames))
<1>4. Release(m, frames) = h[Len(frames)]
  BY DEF Release
<1>5. P(h, Len(frames))
  <2>1. \E f : P(f, Len(frames))
    BY <1>3
  <2> HIDE DEF P
  <2> QED  BY <2>1
<1> HIDE DEF h
<1>6. \A i \in 0..Len(frames) : h[i] = IF i = 0 THEN m ELSE FreeFrame(h[i - 1], frames[i])
  BY <1>5, Zenon
<1> QED  BY <1>4, <1>6

\* The pages are unmapped one by one.
LEMMA UnmappedSteps ==
  ASSUME NEW m, NEW root, NEW at, NEW z \in Nat
  PROVE  \E h : /\ Unmapped(m, root, at, z) = h[z]
                /\ \A i \in 0..z : h[i] = IF i = 0 THEN [m |-> m, freed |-> <<>>] ELSE ClearLeaf(h[i - 1], root, at + i - 1)
<1> DEFINE P(f, n) == f = [i \in 0..n |-> IF i = 0 THEN [m |-> m, freed |-> <<>>] ELSE ClearLeaf(f[i - 1], root, at + i - 1)]
           T == {n \in Nat : \E f : P(f, n)}
<1>0. z \in Nat
  OBVIOUS
<1>1. 0 \in T
  <2>1. P([i \in 0..0 |-> [m |-> m, freed |-> <<>>]], 0)
    OBVIOUS
  <2> QED  BY <2>1
<1>2. ASSUME NEW n \in Nat, n \in T PROVE n + 1 \in T
  <2>1. PICK f : P(f, n)
    BY <1>2
  <2> DEFINE e == [i \in 0..n + 1 |-> IF i <= n THEN f[i] ELSE ClearLeaf(f[n], root, at + (n + 1) - 1)]
  <2>2. ASSUME NEW i \in 0..n + 1 PROVE e[i] = IF i = 0 THEN [m |-> m, freed |-> <<>>] ELSE ClearLeaf(e[i - 1], root, at + i - 1)
    <3>1. CASE i <= n
      <4>1. i \in 0..n /\ (i # 0 => i - 1 \in 0..n /\ i - 1 \in 0..n + 1 /\ i - 1 <= n)
        BY <3>1
      <4>2. e[i] = f[i] /\ (i # 0 => e[i - 1] = f[i - 1])
        BY <3>1, <4>1
      <4>3. f[i] = IF i = 0 THEN [m |-> m, freed |-> <<>>] ELSE ClearLeaf(f[i - 1], root, at + i - 1)
        BY <2>1, <4>1
      <4> HIDE DEF e, P
      <4> QED  BY <4>2, <4>3
    <3>2. CASE i = n + 1
      <4>1. e[i] = (ClearLeaf(f[n], root, at + (n + 1) - 1)) /\ e[n] = f[n] /\ i - 1 = n /\ i # 0
        BY <3>2
      <4> HIDE DEF e, P
      <4> QED  BY <3>2, <4>1
    <3> QED  BY <3>1, <3>2
  <2>3. e = [i \in 0..n + 1 |-> e[i]]
    OBVIOUS
  <2>4. P(e, n + 1)
    <3> HIDE DEF e
    <3> QED  BY <2>2, <2>3
  <2> HIDE DEF e, P
  <2> QED  BY <2>4
<1>3. z \in T
  <2> HIDE DEF T
  <2> QED  BY <1>0, <1>1, <1>2, SetInduction
<1> DEFINE h == CHOOSE f : P(f, z)
<1>4. Unmapped(m, root, at, z) = h[z]
  BY DEF Unmapped
<1>5. P(h, z)
  <2>1. \E f : P(f, z)
    BY <1>3
  <2> HIDE DEF P
  <2> QED  BY <2>1
<1> HIDE DEF h
<1>6. \A i \in 0..z : h[i] = IF i = 0 THEN [m |-> m, freed |-> <<>>] ELSE ClearLeaf(h[i - 1], root, at + i - 1)
  BY <1>5, Zenon
<1> QED  BY <1>4, <1>6

\* The pages are mapped one by one.
LEMMA MapSteps ==
  ASSUME NEW m, NEW root, NEW at, NEW z \in Nat
  PROVE  \E h : /\ MapPages(m, root, at, z) = h[z]
                /\ \A i \in 0..z : h[i] = IF i = 0 THEN [m |-> m, got |-> <<>>] ELSE MapMore(h[i - 1], root, at + i - 1)
<1> DEFINE P(f, n) == f = [i \in 0..n |-> IF i = 0 THEN [m |-> m, got |-> <<>>] ELSE MapMore(f[i - 1], root, at + i - 1)]
           T == {n \in Nat : \E f : P(f, n)}
<1>0. z \in Nat
  OBVIOUS
<1>1. 0 \in T
  <2>1. P([i \in 0..0 |-> [m |-> m, got |-> <<>>]], 0)
    OBVIOUS
  <2> QED  BY <2>1
<1>2. ASSUME NEW n \in Nat, n \in T PROVE n + 1 \in T
  <2>1. PICK f : P(f, n)
    BY <1>2
  <2> DEFINE e == [i \in 0..n + 1 |-> IF i <= n THEN f[i] ELSE MapMore(f[n], root, at + (n + 1) - 1)]
  <2>2. ASSUME NEW i \in 0..n + 1 PROVE e[i] = IF i = 0 THEN [m |-> m, got |-> <<>>] ELSE MapMore(e[i - 1], root, at + i - 1)
    <3>1. CASE i <= n
      <4>1. i \in 0..n /\ (i # 0 => i - 1 \in 0..n /\ i - 1 \in 0..n + 1 /\ i - 1 <= n)
        BY <3>1
      <4>2. e[i] = f[i] /\ (i # 0 => e[i - 1] = f[i - 1])
        BY <3>1, <4>1
      <4>3. f[i] = IF i = 0 THEN [m |-> m, got |-> <<>>] ELSE MapMore(f[i - 1], root, at + i - 1)
        BY <2>1, <4>1
      <4> HIDE DEF e, P
      <4> QED  BY <4>2, <4>3
    <3>2. CASE i = n + 1
      <4>1. e[i] = (MapMore(f[n], root, at + (n + 1) - 1)) /\ e[n] = f[n] /\ i - 1 = n /\ i # 0
        BY <3>2
      <4> HIDE DEF e, P
      <4> QED  BY <3>2, <4>1
    <3> QED  BY <3>1, <3>2
  <2>3. e = [i \in 0..n + 1 |-> e[i]]
    OBVIOUS
  <2>4. P(e, n + 1)
    <3> HIDE DEF e
    <3> QED  BY <2>2, <2>3
  <2> HIDE DEF e, P
  <2> QED  BY <2>4
<1>3. z \in T
  <2> HIDE DEF T
  <2> QED  BY <1>0, <1>1, <1>2, SetInduction
<1> DEFINE h == CHOOSE f : P(f, z)
<1>4. MapPages(m, root, at, z) = h[z]
  BY DEF MapPages
<1>5. P(h, z)
  <2>1. \E f : P(f, z)
    BY <1>3
  <2> HIDE DEF P
  <2> QED  BY <2>1
<1> HIDE DEF h
<1>6. \A i \in 0..z : h[i] = IF i = 0 THEN [m |-> m, got |-> <<>>] ELSE MapMore(h[i - 1], root, at + i - 1)
  BY <1>5, Zenon
<1> QED  BY <1>4, <1>6

\* Vec::retain.
LEMMA PickedSteps ==
  ASSUME NEW S, NEW s \in Seq(S), NEW K
  PROVE  \E h : /\ Picked(s, K) = h[Len(s)]
                /\ \A i \in 0..Len(s) : h[i] = IF i = 0 THEN <<>> ELSE IF i \in K THEN Append(h[i - 1], s[i]) ELSE h[i - 1]
<1> DEFINE P(f, n) == f = [i \in 0..n |-> IF i = 0 THEN <<>> ELSE IF i \in K THEN Append(f[i - 1], s[i]) ELSE f[i - 1]]
           T == {n \in Nat : \E f : P(f, n)}
<1>0. Len(s) \in Nat
  OBVIOUS
<1>1. 0 \in T
  <2>1. P([i \in 0..0 |-> <<>>], 0)
    OBVIOUS
  <2> QED  BY <2>1
<1>2. ASSUME NEW n \in Nat, n \in T PROVE n + 1 \in T
  <2>1. PICK f : P(f, n)
    BY <1>2
  <2> DEFINE e == [i \in 0..n + 1 |-> IF i <= n THEN f[i] ELSE IF (n + 1) \in K THEN Append(f[n], s[(n + 1)]) ELSE f[n]]
  <2>2. ASSUME NEW i \in 0..n + 1 PROVE e[i] = IF i = 0 THEN <<>> ELSE IF i \in K THEN Append(e[i - 1], s[i]) ELSE e[i - 1]
    <3>1. CASE i <= n
      <4>1. i \in 0..n /\ (i # 0 => i - 1 \in 0..n /\ i - 1 \in 0..n + 1 /\ i - 1 <= n)
        BY <3>1
      <4>2. e[i] = f[i] /\ (i # 0 => e[i - 1] = f[i - 1])
        BY <3>1, <4>1
      <4>3. f[i] = IF i = 0 THEN <<>> ELSE IF i \in K THEN Append(f[i - 1], s[i]) ELSE f[i - 1]
        BY <2>1, <4>1
      <4> HIDE DEF e, P
      <4> QED  BY <4>2, <4>3
    <3>2. CASE i = n + 1
      <4>1. e[i] = (IF (n + 1) \in K THEN Append(f[n], s[(n + 1)]) ELSE f[n]) /\ e[n] = f[n] /\ i - 1 = n /\ i # 0
        BY <3>2
      <4> HIDE DEF e, P
      <4> QED  BY <3>2, <4>1
    <3> QED  BY <3>1, <3>2
  <2>3. e = [i \in 0..n + 1 |-> e[i]]
    OBVIOUS
  <2>4. P(e, n + 1)
    <3> HIDE DEF e
    <3> QED  BY <2>2, <2>3
  <2> HIDE DEF e, P
  <2> QED  BY <2>4
<1>3. Len(s) \in T
  <2> HIDE DEF T
  <2> QED  BY <1>0, <1>1, <1>2, SetInduction
<1> DEFINE h == CHOOSE f : P(f, Len(s))
<1>4. Picked(s, K) = h[Len(s)]
  BY DEF Picked
<1>5. P(h, Len(s))
  <2>1. \E f : P(f, Len(s))
    BY <1>3
  <2> HIDE DEF P
  <2> QED  BY <2>1
<1> HIDE DEF h
<1>6. \A i \in 0..Len(s) : h[i] = IF i = 0 THEN <<>> ELSE IF i \in K THEN Append(h[i - 1], s[i]) ELSE h[i - 1]
  BY <1>5, Zenon
<1> QED  BY <1>4, <1>6

\* What is left of the ranges, one by one.
LEMMA RemoveSteps ==
  ASSUME NEW S, NEW vmas \in Seq(S), NEW from, NEW to
  PROVE  \E h : /\ RemoveRange(vmas, from, to) = h[Len(vmas)]
                /\ \A i \in 0..Len(vmas) : h[i] = IF i = 0 THEN <<>> ELSE h[i - 1] \o Left(vmas[i], from, to)
<1> DEFINE P(f, n) == f = [i \in 0..n |-> IF i = 0 THEN <<>> ELSE f[i - 1] \o Left(vmas[i], from, to)]
           T == {n \in Nat : \E f : P(f, n)}
<1>0. Len(vmas) \in Nat
  OBVIOUS
<1>1. 0 \in T
  <2>1. P([i \in 0..0 |-> <<>>], 0)
    OBVIOUS
  <2> QED  BY <2>1
<1>2. ASSUME NEW n \in Nat, n \in T PROVE n + 1 \in T
  <2>1. PICK f : P(f, n)
    BY <1>2
  <2> DEFINE e == [i \in 0..n + 1 |-> IF i <= n THEN f[i] ELSE f[n] \o Left(vmas[(n + 1)], from, to)]
  <2>2. ASSUME NEW i \in 0..n + 1 PROVE e[i] = IF i = 0 THEN <<>> ELSE e[i - 1] \o Left(vmas[i], from, to)
    <3>1. CASE i <= n
      <4>1. i \in 0..n /\ (i # 0 => i - 1 \in 0..n /\ i - 1 \in 0..n + 1 /\ i - 1 <= n)
        BY <3>1
      <4>2. e[i] = f[i] /\ (i # 0 => e[i - 1] = f[i - 1])
        BY <3>1, <4>1
      <4>3. f[i] = IF i = 0 THEN <<>> ELSE f[i - 1] \o Left(vmas[i], from, to)
        BY <2>1, <4>1
      <4> HIDE DEF e, P
      <4> QED  BY <4>2, <4>3
    <3>2. CASE i = n + 1
      <4>1. e[i] = (f[n] \o Left(vmas[(n + 1)], from, to)) /\ e[n] = f[n] /\ i - 1 = n /\ i # 0
        BY <3>2
      <4> HIDE DEF e, P
      <4> QED  BY <3>2, <4>1
    <3> QED  BY <3>1, <3>2
  <2>3. e = [i \in 0..n + 1 |-> e[i]]
    OBVIOUS
  <2>4. P(e, n + 1)
    <3> HIDE DEF e
    <3> QED  BY <2>2, <2>3
  <2> HIDE DEF e, P
  <2> QED  BY <2>4
<1>3. Len(vmas) \in T
  <2> HIDE DEF T
  <2> QED  BY <1>0, <1>1, <1>2, SetInduction
<1> DEFINE h == CHOOSE f : P(f, Len(vmas))
<1>4. RemoveRange(vmas, from, to) = h[Len(vmas)]
  BY DEF RemoveRange
<1>5. P(h, Len(vmas))
  <2>1. \E f : P(f, Len(vmas))
    BY <1>3
  <2> HIDE DEF P
  <2> QED  BY <2>1
<1> HIDE DEF h
<1>6. \A i \in 0..Len(vmas) : h[i] = IF i = 0 THEN <<>> ELSE h[i - 1] \o Left(vmas[i], from, to)
  BY <1>5, Zenon
<1> QED  BY <1>4, <1>6

-----------------------------------------------------------------------------
(* Frames are given back.                                                  *)

\* The frames F have been given back.
Released(n, m, F) ==
  /\ Mem(n) /\ n.panic = "no" /\ AllocOK(n.fa) /\ Used(n.fa) = Used(m.fa) \ F
  /\ IsTables(n.tables) /\ \A x \in RamFrames \union KernelTables : x \notin F => n.tables[x] = m.tables[x]

FreeingOf(m, f) == [m EXCEPT !.fa = Deallocate(@, f, 0), !.tables[f] = Blank]

\* deallocate_frame() of one frame more.
LEMMA FreeFrameOK ==
  ASSUME NEW m, NEW k, NEW F, Released(k, m, F), NEW f \in Used(m.fa), f \notin F
  PROVE  Released(FreeFrame(k, f), m, F \union {f})
<1> DEFINE n == FreeFrame(k, f)
           u == [k.tables EXCEPT ![f] = Blank]
           a == Deallocate(k.fa, f, 0)
<1>0. /\ Mem(k) /\ k.panic = "no" /\ AllocOK(k.fa) /\ Used(k.fa) = Used(m.fa) \ F /\ IsTables(k.tables)
      /\ \A x \in RamFrames \union KernelTables : x \notin F => k.tables[x] = m.tables[x]
  BY DEF Released
<1>1. f \in Used(k.fa) /\ f \in RamFrames /\ f \in Int
  BY <1>0, RamIs
<1>2. Accepts(k.fa, f)
  BY <1>0, <1>1, AcceptsIs
<1>3. n = [k EXCEPT !.fa = a, !.tables = u]
  BY <1>0, <1>2 DEF FreeFrame
<1>4. AllocOK(a) /\ Used(a) = Used(k.fa) \ {f}
  BY <1>0, <1>1, DeallocateOK
<1>5. IsTables(u) /\ \A x \in RamFrames \union KernelTables : x # f => u[x] = k.tables[x]
  BY <1>0, <1>1, BlankIs DEF IsTables
<1> HIDE DEF n, u, a
<1>6. n = [fa |-> a, tables |-> u, panic |-> k.panic, at |-> k.at, got |-> k.got]
  BY <1>0, <1>3 DEF Mem
<1>7. n.fa = a /\ n.tables = u /\ n.panic = "no" /\ n.at = k.at /\ n.got = k.got
  BY <1>0, <1>6
<1>8. Mem(n)
  BY <1>0, <1>6, <1>7 DEF Mem
<1>9. Used(a) = Used(m.fa) \ (F \union {f})
  BY <1>0, <1>4
<1>10. \A x \in RamFrames \union KernelTables : x \notin F \union {f} => u[x] = m.tables[x]
  BY <1>0, <1>5
<1>11. Released(n, m, F \union {f})
  BY <1>4, <1>5, <1>7, <1>8, <1>9, <1>10 DEF Released
<1> QED  BY <1>11 DEF n

Distinct(s) == \A i, j \in DOMAIN s : s[i] = s[j] => i = j

\* Frames in use, each once, are given back.
LEMMA ReleaseOK ==
  ASSUME NEW m, Mem(m), m.panic = "no", AllocOK(m.fa), IsTables(m.tables),
         NEW frames \in Seq(Used(m.fa)), Distinct(frames)
  PROVE  Released(Release(m, frames), m, Range(frames))
<1>0. Len(frames) \in Nat /\ DOMAIN frames = 1..Len(frames)
  OBVIOUS
<1>1. PICK h : /\ Release(m, frames) = h[Len(frames)]
               /\ \A i \in 0..Len(frames) : h[i] = IF i = 0 THEN m ELSE FreeFrame(h[i - 1], frames[i])
  BY ReleaseSteps
<1> DEFINE F(i) == {frames[j] : j \in 1..i}
           T == {i \in Nat : i <= Len(frames) => Released(h[i], m, F(i))}
<1>2. 0 \in T
  <2>1. h[0] = m
    BY <1>0, <1>1
  <2>2. F(0) = {}
    OBVIOUS
  <2>3. Released(m, m, {})
    BY DEF Released
  <2> QED  BY <2>1, <2>2, <2>3
<1>3. ASSUME NEW i \in Nat, i \in T PROVE i + 1 \in T
  <2> SUFFICES ASSUME i + 1 <= Len(frames) PROVE Released(h[i + 1], m, F(i + 1))
    OBVIOUS
  <2>1. i + 1 \in 0..Len(frames) /\ i + 1 # 0 /\ (i + 1) - 1 = i /\ i <= Len(frames) /\ i + 1 \in 1..Len(frames)
    BY <1>0
  <2>2. h[i + 1] = FreeFrame(h[i], frames[i + 1])
    BY <1>1, <2>1
  <2>3. Released(h[i], m, F(i))
    BY <1>3, <2>1
  <2>4. frames[i + 1] \in Used(m.fa)
    BY <2>1
  <2>5. frames[i + 1] \notin F(i)
    BY <1>0, <2>1 DEF Distinct
  <2>6. F(i + 1) = F(i) \union {frames[i + 1]}
    BY <2>1
  <2> HIDE DEF F
  <2> QED  BY <2>2, <2>3, <2>4, <2>5, <2>6, FreeFrameOK
<1>4. Len(frames) \in T
  <2> HIDE DEF T
  <2> QED  BY <1>0, <1>2, <1>3, SetInduction
<1>5. F(Len(frames)) = Range(frames)
  BY <1>0 DEF Range
<1>6. Released(h[Len(frames)], m, F(Len(frames)))
  BY <1>0, <1>4
<1> HIDE DEF F
<1> QED  BY <1>1, <1>5, <1>6

\* The kernel has stopped in deallocate_frame().
Halted(n, m, why) ==
  /\ Mem(n) /\ AllocOK(n.fa) /\ n.panic = why
  /\ \A x \in KernelTables : n.tables[x] = m.tables[x]

\* It stops at a frame that is not in use: one of no region, or one given back before.
LEMMA FreeFrameHalts ==
  ASSUME NEW m, NEW k, NEW F, Released(k, m, F), F \subseteq RamFrames, NEW f \in Int, f \notin Used(m.fa) \/ f \in F
  PROVE  Halted(FreeFrame(k, f), m, IF f \in RamFrames THEN "double free" ELSE "unknown frame")
<1> DEFINE n == FreeFrame(k, f)
           w == IF f \in RamFrames THEN "double free" ELSE "unknown frame"
<1>0. /\ Mem(k) /\ k.panic = "no" /\ AllocOK(k.fa) /\ Used(k.fa) = Used(m.fa) \ F
      /\ \A x \in RamFrames \union KernelTables : x \notin F => k.tables[x] = m.tables[x]
  BY DEF Released
<1>1. ~Accepts(k.fa, f)
  BY <1>0, AcceptsIs
<1>2. n = [k EXCEPT !.panic = w]
  BY <1>0, <1>1 DEF FreeFrame
<1> HIDE DEF n, w
<1>3. n = [fa |-> k.fa, tables |-> k.tables, panic |-> w, at |-> k.at, got |-> k.got]
  BY <1>0, <1>2 DEF Mem
<1>4. n.fa = k.fa /\ n.tables = k.tables /\ n.panic = w /\ n.at = k.at /\ n.got = k.got
  BY <1>3
<1>5. Mem(n)
  BY <1>3, <1>4 DEF Mem
<1>6. \A x \in KernelTables : x \notin F
  BY RamIs
<1>7. Halted(n, m, w)
  BY <1>0, <1>4, <1>5, <1>6 DEF Halted
<1> QED  BY <1>7 DEF n, w

\* What giving back any frames comes to.
Gone(frames, i, m) ==
  /\ \A a, b \in 1..i : frames[a] = frames[b] => a = b
  /\ \A a \in 1..i : frames[a] \in Used(m.fa)
NotRam(frames) == \E i \in DOMAIN frames : frames[i] \notin RamFrames
NotOnce(frames, m) ==
  \E i \in DOMAIN frames : /\ frames[i] \in RamFrames
                           /\ frames[i] \notin Used(m.fa) \/ \E j \in DOMAIN frames : j # i /\ frames[j] = frames[i]

LEMMA ReleaseEnds ==
  ASSUME NEW m, Mem(m), m.panic = "no", AllocOK(m.fa), IsTables(m.tables), NEW frames \in Seq(Int)
  PROVE  \/ Released(Release(m, frames), m, Range(frames)) /\ Distinct(frames) /\ Range(frames) \subseteq Used(m.fa)
         \/ Halted(Release(m, frames), m, "unknown frame") /\ NotRam(frames)
         \/ Halted(Release(m, frames), m, "double free") /\ NotOnce(frames, m)
<1>0. Len(frames) \in Nat /\ DOMAIN frames = 1..Len(frames)
  OBVIOUS
<1>1. PICK h : /\ Release(m, frames) = h[Len(frames)]
               /\ \A i \in 0..Len(frames) : h[i] = IF i = 0 THEN m ELSE FreeFrame(h[i - 1], frames[i])
  BY ReleaseSteps
<1> DEFINE F(i) == {frames[j] : j \in 1..i}
           A(i) == Released(h[i], m, F(i)) /\ Gone(frames, i, m)
           B(i) == Halted(h[i], m, "unknown frame") /\ NotRam(frames)
           C(i) == Halted(h[i], m, "double free") /\ NotOnce(frames, m)
           G(i) == A(i) \/ B(i) \/ C(i)
           T == {i \in Nat : i <= Len(frames) => G(i)}
<1>2. 0 \in T
  <2>1. h[0] = m
    BY <1>0, <1>1
  <2>2. F(0) = {} /\ Gone(frames, 0, m)
    BY DEF Gone
  <2>3. Released(m, m, {})
    BY DEF Released
  <2>4. G(0)
    BY <2>1, <2>2, <2>3
  <2> HIDE DEF G
  <2> QED  BY <2>4
<1>3. ASSUME NEW i \in Nat, i \in T PROVE i + 1 \in T
  <2> SUFFICES ASSUME i + 1 <= Len(frames) PROVE G(i + 1)
    <3> HIDE DEF G
    <3> QED  OBVIOUS
  <2>1. i + 1 \in 0..Len(frames) /\ i + 1 # 0 /\ (i + 1) - 1 = i /\ i <= Len(frames) /\ i + 1 \in 1..Len(frames)
    BY <1>0
  <2>2. h[i + 1] = FreeFrame(h[i], frames[i + 1])
    BY <1>1, <2>1
  <2> DEFINE f == frames[i + 1]
  <2>3. G(i)
    <3> HIDE DEF G
    <3> QED  BY <1>3, <2>1
  <2>4. CASE A(i) /\ f \in Used(m.fa) /\ f \notin F(i)
    <3>1. F(i + 1) = F(i) \union {f}
      <4>1. \A j : j \in 1..i + 1 <=> j \in 1..i \/ j = i + 1
        OBVIOUS
      <4> QED  BY ONLY <4>1
    <3>2. Gone(frames, i + 1, m)
      <4>1. \A a \in 1..i + 1 : a = i + 1 \/ a \in 1..i
        OBVIOUS
      <4>2. \A a \in 1..i : frames[a] # f
        BY <2>4
      <4> QED  BY <2>4, <4>1, <4>2 DEF Gone
    <3>3. Released(h[i], m, F(i)) /\ f \in Used(m.fa) /\ f \notin F(i)
      BY <2>4
    <3> HIDE DEF F, f
    <3>4. Released(FreeFrame(h[i], f), m, F(i) \union {f})
      BY <3>3, FreeFrameOK
    <3> QED  BY <2>2, <3>1, <3>2, <3>4 DEF f
  <2>5. CASE A(i) /\ (f \notin Used(m.fa) \/ f \in F(i))
    <3>1. F(i) \subseteq RamFrames
      BY <2>5, RamIs DEF Gone
    <3>2. Released(h[i], m, F(i)) /\ (f \notin Used(m.fa) \/ f \in F(i)) /\ f \in Int
      BY <2>1, <2>5
    <3>3. Halted(FreeFrame(h[i], f), m, IF f \in RamFrames THEN "double free" ELSE "unknown frame")
      <4> HIDE DEF F, f
      <4> QED  BY <3>1, <3>2, FreeFrameHalts
    <3>4. CASE f \in RamFrames
      <4>1. f \in F(i) => \E j \in DOMAIN frames : j # i + 1 /\ frames[j] = f
        <5> SUFFICES ASSUME f \in F(i) PROVE \E j \in DOMAIN frames : j # i + 1 /\ frames[j] = f
          OBVIOUS
        <5>1. PICK j \in 1..i : frames[j] = f
          OBVIOUS
        <5>2. j \in DOMAIN frames /\ j # i + 1
          BY <1>0, <2>1
        <5> QED  BY <5>1, <5>2
      <4>2. NotOnce(frames, m)
        BY <1>0, <2>1, <3>2, <3>4, <4>1 DEF NotOnce
      <4> QED  BY <2>2, <3>3, <3>4, <4>2
    <3>5. CASE f \notin RamFrames
      <4>1. NotRam(frames)
        BY <1>0, <2>1, <3>5 DEF NotRam
      <4> QED  BY <2>2, <3>3, <3>5, <4>1
    <3> QED  BY <3>4, <3>5
  <2>6. CASE B(i) \/ C(i)
    <3>1. h[i].panic # "no"
      BY <2>6 DEF Halted
    <3>2. h[i + 1] = h[i]
      BY <2>2, <3>1 DEF FreeFrame
    <3> QED  BY <2>6, <3>2
  <2> QED  BY <2>3, <2>4, <2>5, <2>6
<1>4. Len(frames) \in T
  <2> HIDE DEF T
  <2> QED  BY <1>0, <1>2, <1>3, SetInduction
<1>5. G(Len(frames))
  <2> HIDE DEF G
  <2> QED  BY <1>0, <1>4
<1>6. F(Len(frames)) = Range(frames)
  BY <1>0 DEF Range
<1>7. Gone(frames, Len(frames), m) => Distinct(frames) /\ Range(frames) \subseteq Used(m.fa)
  BY <1>0 DEF Gone, Distinct, Range
<1> HIDE DEF F
<1> QED  BY <1>1, <1>5, <1>6, <1>7

-----------------------------------------------------------------------------
(* Pages are mapped.                                                       *)

\* A stopped kernel maps nothing.
LEMMA StoppedAt ==
  ASSUME NEW m, Stopped(m), NEW to
  PROVE  Stopped(GoTo(m, to)) /\ GoTo(m, to).panic # "no"
<1> DEFINE k == GoTo(m, to)
<1>0. Mem(m)
  BY DEF Stopped
<1>1. k = [m EXCEPT !.at = to]
  BY DEF GoTo
<1> HIDE DEF k
<1>2. k = [fa |-> m.fa, tables |-> m.tables, panic |-> m.panic, at |-> to, got |-> m.got]
  BY <1>0, <1>1 DEF Mem
<1>3. k.fa = m.fa /\ k.tables = m.tables /\ k.panic = m.panic /\ k.at = to /\ k.got = m.got
  BY <1>2
<1>4. Mem(k)
  BY <1>2, <1>3 DEF Mem
<1>5. Stopped(k) /\ k.panic # "no"
  BY <1>3, <1>4 DEF Stopped
<1> QED  BY <1>5 DEF k

\* The same for the mapping of a page.
LEMMA StoppedMap ==
  ASSUME NEW m, Stopped(m), NEW root, NEW page
  PROVE  Stopped(MapAnonymous(m, root, page))
<1> DEFINE k == GoTo(m, root)
<1>1. Stopped(k) /\ k.panic # "no"
  BY StoppedAt
<1>2. DownTo(m, root, page, FALSE) = Down(Down(Down(k, page, 4, FALSE), page, 3, FALSE), page, 2, FALSE)
  BY DEF DownTo
<1> HIDE DEF k
<1>3. \A level : Down(k, page, level, FALSE) = k
  BY <1>1 DEF Down
<1>5. DownTo(m, root, page, FALSE) = k
  BY <1>2, <1>3
<1>6. NewFrame(k, Blank) = k
  BY <1>1 DEF NewFrame
<1>7. SetLeaf(k, page, {"w", "user"}) = k
  BY <1>1 DEF SetLeaf
<1> QED  BY <1>1, <1>5, <1>6, <1>7 DEF MapAnonymous

\* The pages of X are mapped, to frames the process did not have.
PagesMapped(r, m, root, D, R, high, X) ==
  /\ r = [m |-> r.m, got |-> r.got]
  /\ \/ Stopped(r.m)
     \/ /\ Mid(r.m, root, D \union Range(r.got), R, TRUE, high)
        /\ r.got \in Seq(RamFrames) /\ Distinct(r.got) /\ Range(r.got) \cap D = {}
        /\ \A o \in Pages : InUse(r.m.tables, root, o) <=> InUse(m.tables, root, o) \/ o \in X

\* A frame more.
LEMMA OneMore ==
  ASSUME NEW S, NEW s \in Seq(S), NEW x \in S
  PROVE  /\ Append(s, x) \in Seq(S) /\ Range(Append(s, x)) = Range(s) \union {x}
         /\ Distinct(s) /\ x \notin Range(s) => Distinct(Append(s, x))
<1> DEFINE q == Append(s, x)
<1>1. /\ q \in Seq(S) /\ Len(q) = Len(s) + 1 /\ q[Len(q)] = x /\ \A i \in 1..Len(s) : q[i] = s[i]
      /\ Len(s) \in Nat /\ DOMAIN s = 1..Len(s) /\ DOMAIN q = 1..Len(q)
  OBVIOUS
<1> HIDE DEF q
<1>2. \A i \in 1..Len(q) : (i = Len(q) /\ q[i] = x) \/ (i \in 1..Len(s) /\ q[i] = s[i])
  BY <1>1
<1>3. ASSUME NEW y \in Range(q) PROVE y \in Range(s) \union {x}
  BY <1>1, <1>2 DEF Range
<1>4. ASSUME NEW y \in Range(s) PROVE y \in Range(q)
  <2>1. PICK i \in 1..Len(s) : y = s[i]
    BY <1>1 DEF Range
  <2>2. i \in 1..Len(q) /\ q[i] = y
    BY <1>1, <2>1
  <2> QED  BY <1>1, <2>2 DEF Range
<1>5. x \in Range(q)
  <2>1. Len(q) \in 1..Len(q)
    BY <1>1
  <2> QED  BY <1>1, <2>1 DEF Range
<1>6. Range(q) = Range(s) \union {x}
  BY <1>3, <1>4, <1>5
<1>7. ASSUME Distinct(s), x \notin Range(s) PROVE Distinct(q)
  <2>1. \A i \in 1..Len(s) : s[i] # x
    BY <1>1, <1>7 DEF Range
  <2> QED  BY <1>1, <1>2, <1>7, <2>1 DEF Distinct
<1> QED  BY <1>1, <1>6, <1>7 DEF q

\* One page of mmap more.
LEMMA MapMoreOK ==
  ASSUME NEW r, NEW m, NEW root, NEW D, NEW R, NEW high, NEW X, PagesMapped(r, m, root, D, R, high, X),
         KernelMet(high), NEW page \in Pages, page >= 8
  PROVE  PagesMapped(MapMore(r, root, page), m, root, D, R, high, X \union {page})
<1> DEFINE k == MapAnonymous(r.m, root, page)
           n == MapMore(r, root, page)
           E == D \union Range(r.got)
<1>1. n = [m |-> k, got |-> Append(r.got, k.got)]
  BY DEF MapMore
<1> HIDE DEF k, n
<1>2. n.m = k /\ n.got = Append(r.got, k.got) /\ n = [m |-> n.m, got |-> n.got]
  BY <1>1
<1>3. CASE Stopped(r.m)
  <2>1. Stopped(k)
    BY <1>3, StoppedMap DEF k
  <2> QED  BY <1>2, <2>1 DEF PagesMapped, n
<1>4. CASE /\ Mid(r.m, root, E, R, TRUE, high)
           /\ r.got \in Seq(RamFrames) /\ Distinct(r.got) /\ Range(r.got) \cap D = {}
           /\ \A o \in Pages : InUse(r.m.tables, root, o) <=> InUse(m.tables, root, o) \/ o \in X
  <2>1. /\ PagesMapped(r, m, root, D, R, high, X) /\ PageMapped(k, r.m, root, E, R, high, page)
        /\ k.panic = "no" => k.got \notin E
    <3> HIDE DEF E
    <3> QED  BY <1>4, MapAnonymousOK DEF k
  <2>2. CASE Stopped(k)
    BY <1>2, <2>2 DEF PagesMapped, n
  <2>3. CASE ~Stopped(k)
    <3>1. k.got \in RamFrames /\ Mid(k, root, E \union {k.got}, R, TRUE, high)
      BY <2>1, <2>3 DEF PageMapped
    <3>2. k.got \in RamFrames /\ k.got \notin E /\ Mid(k, root, E \union {k.got}, R, TRUE, high)
      BY <2>1, <3>1 DEF Mid
    <3>3. \A o \in Pages : InUse(k.tables, root, o) <=> InUse(m.tables, root, o) \/ o \in X \union {page}
      BY <1>4, <2>1, <2>3 DEF PageMapped
    <3>4. /\ n.got \in Seq(RamFrames) /\ Range(n.got) = Range(r.got) \union {k.got} /\ Distinct(n.got)
      BY <1>2, <1>4, <3>2, OneMore
    <3>5. D \union Range(n.got) = E \union {k.got} /\ Range(n.got) \cap D = {}
      BY <1>4, <3>2, <3>4
    <3>6. Mid(n.m, root, D \union Range(n.got), R, TRUE, high)
      BY <1>2, <3>2, <3>5
    <3> QED  BY <1>2, <3>3, <3>4, <3>5, <3>6 DEF PagesMapped, n
  <2> QED  BY <2>2, <2>3
<1> QED  BY <1>3, <1>4 DEF PagesMapped

\* mmap: the pages become the process's, or the frames run out.
LEMMA MapPagesOK ==
  ASSUME NEW m, NEW root, NEW D, NEW R, NEW high, Mid(m, root, D, R, TRUE, high), KernelMet(high),
         NEW at \in Nat, NEW z \in Nat, 8 <= at, at + z <= 16
  PROVE  PagesMapped(MapPages(m, root, at, z), m, root, D, R, high, at..at + z - 1)
<1>1. PICK h : /\ MapPages(m, root, at, z) = h[z]
               /\ \A i \in 0..z : h[i] = IF i = 0 THEN [m |-> m, got |-> <<>>] ELSE MapMore(h[i - 1], root, at + i - 1)
  BY MapSteps
<1> DEFINE T == {i \in Nat : i <= z => PagesMapped(h[i], m, root, D, R, high, at..at + i - 1)}
<1>2. 0 \in T
  <2>1. h[0] = [m |-> m, got |-> <<>>]
    BY <1>1
  <2>2. h[0] = [m |-> h[0].m, got |-> h[0].got] /\ h[0].m = m /\ h[0].got = <<>>
    BY <2>1
  <2>3. at..at + 0 - 1 = {}
    OBVIOUS
  <2>4. <<>> \in Seq(RamFrames) /\ Distinct(<<>>) /\ Range(<<>>) = {} /\ D \union {} = D
    BY DEF Distinct, Range
  <2>5. PagesMapped(h[0], m, root, D, R, high, {})
    BY <2>2, <2>4 DEF PagesMapped
  <2> QED  BY <2>3, <2>5
<1>3. ASSUME NEW i \in Nat, i \in T PROVE i + 1 \in T
  <2> SUFFICES ASSUME i + 1 <= z PROVE PagesMapped(h[i + 1], m, root, D, R, high, at..at + (i + 1) - 1)
    OBVIOUS
  <2>1. i + 1 \in 0..z /\ i + 1 # 0 /\ (i + 1) - 1 = i /\ i <= z /\ at + (i + 1) - 1 = at + i
        /\ at + i \in Pages /\ at + i >= 8
    BY DEF Pages
  <2>2. h[i + 1] = MapMore(h[i], root, at + i)
    BY <1>1, <2>1
  <2>3. PagesMapped(h[i], m, root, D, R, high, at..at + i - 1)
    BY <1>3, <2>1
  <2>4. at..at + (i + 1) - 1 = (at..at + i - 1) \union {at + i}
    BY <2>1
  <2> QED  BY <2>1, <2>2, <2>3, <2>4, MapMoreOK
<1>4. z \in T
  <2> HIDE DEF T
  <2> QED  BY <1>2, <1>3, SetInduction
<1> QED  BY <1>1, <1>4

-----------------------------------------------------------------------------
(* Pages are unmapped.                                                     *)

\* The kernel's tables, in tables t.
KernelAs(t, high) ==
  /\ t[K3][0] = Entry(K2, {"w", "x"}) /\ t[K3][1] = Entry(4, {"w", "x", "huge"})
  /\ t[K2][0] = Entry(0, {"w", "x", "huge"}) /\ t[K2][1] = Entry(K1, {"w", "x"})
  /\ t[K1][0] = Entry(2, {"w", "x"}) /\ t[K1][1] = Entry(3, {"w", "x"})
  /\ t[K3High][0] = IF high THEN Entry(8, {"w", "x", "huge"}) ELSE Unused
  /\ t[K3High][1] = Unused

\* What a walk finds is the process's own, or the kernel's and out of user mode's reach.
WalkFinds(t, root, page, high) ==
  /\ "user" \in LeafAt(t, root, page).flags <=> InUse(t, root, page)
  /\ Has1(t, root, page) => LeafAt(t, root, page) = t[At1(t, root, page)][Index(page, 1)]
  /\ page >= 8 /\ LeafAt(t, root, page) # Unused /\ ~InUse(t, root, page)
       => high /\ Has1(t, root, page) /\ LeafAt(t, root, page).to \in 8..11

\* What a walk of the hardware finds is what the invariant says of the page.
LEMMA MappedIs ==
  ASSUME NEW t, NEW root, NEW high, IsTables(t), Forest(t, root), Node4(t, root, high), KernelAs(t, high),
         NEW page \in Pages
  PROVE  WalkFinds(t, root, page, high)
<1> DEFINE a == Index(page, 4)
           b == Index(page, 3)
           c == Index(page, 2)
           l == Index(page, 1)
           e4 == t[root][a]
           e3 == t[e4.to][b]
           e2 == t[e3.to][c]
           e == LeafAt(t, root, page)
<1>0. a \in 0..1 /\ b \in 0..1 /\ c \in 0..1 /\ l \in 0..1 /\ (a = 1 <=> page >= 8)
  BY IndexIs
<1>1. e = IF e4 = Unused \/ e3 = Unused \/ Huge(e3) \/ e2 = Unused \/ Huge(e2) THEN Unused ELSE t[e2.to][l]
  BY DEF LeafAt
<1>2. /\ Has3(t, root, page) <=> Linked(e4)
      /\ Has2(t, root, page) <=> Linked(e4) /\ Linked(e3)
      /\ Has1(t, root, page) <=> Linked(e4) /\ Linked(e3) /\ Linked(e2)
      /\ At3(t, root, page) = e4.to /\ At2(t, root, page) = e3.to /\ At1(t, root, page) = e2.to
  BY DEF Has1, Has2, Has3, At1, At2, At3
<1>3. InUse(t, root, page) <=> Linked(e4) /\ Linked(e3) /\ Linked(e2) /\ "user" \in t[e2.to][l].flags
  BY <1>2 DEF InUse, Leaf
<1>4. /\ ~Huge(e4) /\ (Shared(e4) => e4.to = (IF a = 0 THEN K3 ELSE K3High) /\ (a = 1 => high))
      /\ Linked(e4) => Node3(t, e4.to, a, high)
  BY <1>0 DEF Node4
<1>5. Linked(e4) =>
        /\ Huge(e3) => (a = 0 /\ b = 1) \/ (a = 1 /\ high)
        /\ Shared(e3) => a = 0 /\ b = 0 /\ e3.to = K2
        /\ Linked(e3) => Node2(t, e3.to, a, b, high)
  BY <1>0, <1>4 DEF Node3
<1>6. Linked(e4) /\ Linked(e3) =>
        /\ Shared(e2) => a = 0 /\ b = 0 /\ c = 1 /\ e2.to = K1
        /\ Linked(e2) => Node1(t, e2.to, a, high)
  BY <1>0, <1>5 DEF Node2
<1>7. Own(t, root) \subseteq RamFrames
  BY DEF Forest
<1>8. e4 = Unused \/ Linked(e4) \/ Shared(e4)
  <2>1. root \in RamFrames \union KernelTables
    BY <1>7, LevelsAre
  <2> QED  BY <1>0, <1>4, <2>1, EntryIs
<1>9. Linked(e4) => e3 = Unused \/ Huge(e3) \/ Linked(e3) \/ Shared(e3)
  <2> SUFFICES ASSUME Linked(e4) PROVE e3 = Unused \/ Huge(e3) \/ Linked(e3) \/ Shared(e3)
    OBVIOUS
  <2>1. e4.to \in RamFrames \union KernelTables
    BY <1>2, <1>7, LevelsAre, WalkIs
  <2> QED  BY <1>0, <2>1, EntryIs
<1>10. Linked(e4) /\ Linked(e3) => e2 = Unused \/ Huge(e2) \/ Linked(e2) \/ Shared(e2)
  <2> SUFFICES ASSUME Linked(e4), Linked(e3) PROVE e2 = Unused \/ Huge(e2) \/ Linked(e2) \/ Shared(e2)
    OBVIOUS
  <2>1. e3.to \in RamFrames \union KernelTables
    BY <1>2, <1>7, LevelsAre, WalkIs
  <2> QED  BY <1>0, <2>1, EntryIs
<1>11. \A i \in 0..1 : "user" \notin t[K1][i].flags
  BY KernelEntries DEF KernelAs
<1>12. "user" \notin Unused.flags
  BY KernelEntries
<1>13. e3.to = K2 /\ e3 # Unused /\ ~Huge(e3) => e = Unused \/ (c = 1 /\ e = t[K1][l])
  <2> SUFFICES ASSUME e3.to = K2 PROVE Huge(e2) \/ (c = 1 /\ e2.to = K1)
    BY <1>1
  <2> QED  BY <1>0, KernelEntries DEF KernelAs
<1>14. \A x \in KernelTables : \A d : Linked(d) => d.to # x
  BY DEF Linked
<1>15. ~Linked(e2) \/ e2.to # K1
  BY <1>14, KernelEntries
<1> HIDE DEF e, e4, e3, e2
<1>16. CASE e4 = Unused
  BY <1>1, <1>2, <1>3, <1>12, <1>16, KernelEntries DEF WalkFinds, e
<1>17. CASE Shared(e4)
  <2>1. ~Linked(e4) /\ ~InUse(t, root, page) /\ ~Has1(t, root, page)
    BY <1>2, <1>3, <1>17 DEF Shared, Linked
  <2>2. CASE a = 0
    <3>1. e3 = t[K3][b]
      BY <1>4, <1>17, <2>2 DEF e3
    <3>2. CASE b = 1
      <4>1. Huge(e3)
        BY <3>1, <3>2, KernelEntries DEF KernelAs
      <4>2. e = Unused
        BY <1>1, <4>1
      <4> QED  BY <1>12, <2>1, <4>2 DEF WalkFinds, e
    <3>3. CASE b = 0
      <4>1. e3.to = K2 /\ e3 # Unused /\ ~Huge(e3)
        BY <3>1, <3>3, KernelEntries DEF KernelAs
      <4>2. e = Unused \/ e = t[K1][l]
        BY <1>13, <4>1
      <4>3. "user" \notin e.flags
        BY <1>0, <1>11, <1>12, <4>2
      <4> QED  BY <1>0, <2>1, <2>2, <4>3 DEF WalkFinds, e
    <3> QED  BY <1>0, <3>2, <3>3
  <2>3. CASE a = 1
    <3>1. e3 = t[K3High][b] /\ high
      BY <1>4, <1>17, <2>3 DEF e3
    <3>2. Huge(e3) \/ e3 = Unused
      BY <1>0, <3>1, KernelEntries DEF KernelAs
    <3>3. e = Unused
      BY <1>1, <3>2
    <3> QED  BY <1>12, <2>1, <3>3 DEF WalkFinds, e
  <2> QED  BY <1>0, <2>2, <2>3
<1>18. CASE Linked(e4)
  <2>1. CASE e3 = Unused \/ Huge(e3)
    <3>1. ~Linked(e3) /\ e = Unused
      BY <1>1, <2>1 DEF Linked
    <3> QED  BY <1>2, <1>3, <1>12, <3>1 DEF WalkFinds, e
  <2>2. CASE Shared(e3) /\ e3 # Unused
    <3>1. a = 0 /\ e3.to = K2 /\ ~Huge(e3) /\ ~Linked(e3)
      BY <1>5, <1>18, <2>2 DEF Shared, Linked
    <3>2. e = Unused \/ e = t[K1][l]
      BY <1>13, <2>2, <3>1
    <3>3. "user" \notin e.flags
      BY <1>0, <1>11, <1>12, <3>2
    <3> QED  BY <1>0, <1>2, <1>3, <3>1, <3>3 DEF WalkFinds, e
  <2>3. CASE Linked(e3)
    <3>0. e4 # Unused /\ e3 # Unused /\ ~Huge(e3)
      BY <1>18, <2>3 DEF Linked
    <3>1. CASE e2 = Unused \/ Huge(e2)
      <4>1. ~Linked(e2) /\ e = Unused
        BY <1>1, <3>1 DEF Linked
      <4> QED  BY <1>2, <1>3, <1>12, <4>1 DEF WalkFinds, e
    <3>2. CASE Shared(e2) /\ e2 # Unused
      <4>1. a = 0 /\ e2.to = K1 /\ ~Huge(e2)
        BY <1>6, <1>18, <2>3, <3>2 DEF Shared
      <4>2. e = t[K1][l]
        BY <1>1, <3>0, <3>2, <4>1
      <4>3. "user" \notin e.flags /\ ~Linked(e2)
        BY <1>0, <1>11, <1>15, <4>1, <4>2
      <4> QED  BY <1>0, <1>2, <1>3, <4>1, <4>3 DEF WalkFinds, e
    <3>3. CASE Linked(e2)
      <4>1. e = t[e2.to][l]
        BY <1>1, <3>0, <3>3 DEF Linked
      <4>2. Node1(t, e2.to, a, high)
        BY <1>6, <1>18, <2>3, <3>3
      <4>3. a = 1 /\ e # Unused /\ "user" \notin e.flags => high /\ e.to \in 8..11
        BY <1>0, <4>1, <4>2 DEF Node1
      <4> QED  BY <1>0, <1>2, <1>3, <1>18, <2>3, <3>3, <4>1, <4>3 DEF WalkFinds, e
    <3> QED  BY <1>10, <1>18, <2>3, <3>1, <3>2, <3>3
  <2> QED  BY <1>9, <1>18, <2>1, <2>2, <2>3
<1> QED  BY <1>8, <1>16, <1>17, <1>18

\* In the middle of a call, the kernel's tables are as they were.
LEMMA KernelInMid ==
  ASSUME NEW m, NEW root, NEW D, NEW R, NEW elf, NEW high, Mid(m, root, D, R, elf, high), KernelMet(high)
  PROVE  KernelAs(m.tables, high)
BY MidKernel DEF KernelAs

\* So a walk finds the same then.
LEMMA FoundInMid ==
  ASSUME NEW m, NEW root, NEW D, NEW R, NEW elf, NEW high, Mid(m, root, D, R, elf, high), KernelMet(high),
         NEW page \in Pages
  PROVE  WalkFinds(m.tables, root, page, high)
<1>1. KernelAs(m.tables, high)
  BY KernelInMid
<1>2. IsTables(m.tables) /\ Forest(m.tables, root) /\ Node4(m.tables, root, high)
  BY DEF Mid, TreeOK
<1> QED  BY <1>1, <1>2, MappedIs

\* The frames of a process are in a sequence once.
OnceIn(s, D) == \A i, j \in DOMAIN s : s[i] = s[j] /\ s[i] \in D => i = j

\* The pages of X have been taken from the process, whose frames freed they had, but
\* for those of the kernel's.
PagesCleared(x, m, root, D, R, high, X) ==
  /\ x = [m |-> x.m, freed |-> x.freed]
  /\ Mid(x.m, root, D, R, FALSE, high)
  /\ x.freed \in Seq(D \union 8..11) /\ OnceIn(x.freed, D) /\ (~high => Range(x.freed) \subseteq D)
  /\ ElfOK(x.m.tables, root, D \ Range(x.freed))
  /\ \A o \in Pages : InUse(x.m.tables, root, o) <=> InUse(m.tables, root, o) /\ o \notin X

Cleared(m, f, l) == [m EXCEPT !.tables[f][l] = Unused]

\* What clearing an entry leaves of the memory.
LEMMA ClearedIs ==
  ASSUME NEW m, Mem(m), NEW f, NEW l
  PROVE  /\ Mem(Cleared(m, f, l)) /\ Cleared(m, f, l).fa = m.fa
         /\ Cleared(m, f, l).tables = SetEntry(m.tables, f, l, Unused)
         /\ Cleared(m, f, l).panic = m.panic
<1> DEFINE u == SetEntry(m.tables, f, l, Unused)
           n == Cleared(m, f, l)
<1>1. n = [m EXCEPT !.tables = u]
  BY DEF Cleared, SetEntry
<1> HIDE DEF n, u
<1>2. n = [fa |-> m.fa, tables |-> u, panic |-> m.panic, at |-> m.at, got |-> m.got]
  BY <1>1 DEF Mem
<1>3. n.fa = m.fa /\ n.tables = u /\ n.panic = m.panic /\ n.at = m.at /\ n.got = m.got
  BY <1>2
<1>4. Mem(n)
  BY <1>2, <1>3 DEF Mem
<1> QED  BY <1>3, <1>4 DEF n, u

\* A sequence with an element more.
LEMMA OnceMore ==
  ASSUME NEW S, NEW s \in Seq(S), NEW x \in S, NEW D, OnceIn(s, D), x \notin D \/ x \notin Range(s)
  PROVE  OnceIn(Append(s, x), D)
<1> DEFINE q == Append(s, x)
<1>1. /\ q \in Seq(S) /\ Len(q) = Len(s) + 1 /\ q[Len(q)] = x /\ \A i \in 1..Len(s) : q[i] = s[i]
      /\ Len(s) \in Nat /\ DOMAIN s = 1..Len(s) /\ DOMAIN q = 1..Len(q)
  OBVIOUS
<1> HIDE DEF q
<1>2. \A i \in 1..Len(q) : (i = Len(q) /\ q[i] = x) \/ (i \in 1..Len(s) /\ q[i] = s[i])
  BY <1>1
<1>3. x \notin D \/ \A i \in 1..Len(s) : s[i] # x
  BY <1>1 DEF Range
<1>4. OnceIn(q, D)
  BY <1>1, <1>2, <1>3 DEF OnceIn
<1> QED  BY <1>4 DEF q

\* One page of munmap more.
LEMMA ClearLeafOK ==
  ASSUME NEW x, NEW m, NEW root, NEW D, NEW R, NEW high, NEW X, PagesCleared(x, m, root, D, R, high, X),
         KernelMet(high), NEW page \in Pages, page >= 8, page \notin X
  PROVE  PagesCleared(ClearLeaf(x, root, page), m, root, D, R, high, X \union {page})
<1> DEFINE k == x.m
           t == k.tables
           f == At1(t, root, page)
           l == Index(page, 1)
           e == LeafAt(t, root, page)
           n == ClearLeaf(x, root, page)
           C == D \ Range(x.freed)
<1>0. /\ x = [m |-> x.m, freed |-> x.freed]
      /\ Mid(k, root, D, R, FALSE, high) /\ x.freed \in Seq(D \union 8..11) /\ OnceIn(x.freed, D)
      /\ ~high => Range(x.freed) \subseteq D
      /\ ElfOK(t, root, C)
      /\ \A o \in Pages : InUse(t, root, o) <=> InUse(m.tables, root, o) /\ o \notin X
  BY DEF PagesCleared
<1>1. /\ Mem(k) /\ k.panic = "no" /\ AllocOK(k.fa) /\ TreeOK(t, root, high)
      /\ Used(k.fa) = R \union Own(t, root) \union D
      /\ R \cap (Own(t, root) \union D) = {} /\ Own(t, root) \cap D = {}
      /\ \A y \in R \union KernelTables : t[y] = tables[y]
  BY <1>0 DEF Mid
<1>2. n = IF e = Unused THEN x ELSE [m |-> Cleared(k, f, l), freed |-> Append(x.freed, e.to)]
  BY DEF ClearLeaf, Cleared, At1, At2, At3
<1>3. WalkFinds(t, root, page, high)
  BY <1>0, FoundInMid
<1>4. InUse(t, root, page) <=> InUse(m.tables, root, page)
  BY <1>0
<1> HIDE DEF n, e, C
<1>5. CASE e = Unused
  <2>1. ~InUse(t, root, page)
    BY <1>3, <1>5, KernelEntries DEF WalkFinds, e
  <2>2. \A o \in Pages : InUse(t, root, o) <=> InUse(m.tables, root, o) /\ o \notin X \union {page}
    BY <1>0, <2>1
  <2>3. n = x
    BY <1>2, <1>5
  <2> QED  BY <1>0, <2>2, <2>3 DEF PagesCleared, n, C
<1>6. CASE e # Unused
  <2>1. Has1(t, root, page) /\ ("user" \notin e.flags => high /\ e.to \in 8..11)
    BY <1>3, <1>6 DEF WalkFinds, InUse, e
  <2>2. Has1(t, root, page) /\ e = t[f][l] /\ ("user" \in e.flags <=> Leaf(t, f, l))
    BY <1>3, <2>1 DEF WalkFinds, e, Leaf
  <2> DEFINE g == Cleared(k, f, l)
             u == g.tables
  <2>3. n = [m |-> g, freed |-> Append(x.freed, e.to)]
    BY <1>2, <1>6
  <2>4. Mem(g) /\ g.fa = k.fa /\ u = SetEntry(t, f, l, Unused) /\ g.panic = "no"
    BY <1>1, ClearedIs
  <2> HIDE DEF g
  <2>5. n.m = g /\ n.freed = Append(x.freed, e.to) /\ n = [m |-> n.m, freed |-> n.freed]
    BY <2>3
  <2>6. PageSet(u, t, root, high, page, Unused)
    <3>1. Unused \in Entries
      BY BlankIs DEF Entries, Unused
    <3> QED  BY <1>1, <2>2, <2>4, <3>1, PageSetIs
  <2>7. f \in Level1(t, root) /\ l \in 0..1
    BY <2>2, WalkIs, IndexIs
  <2>8. Leaves(t, root, C) /\ Plain(t, root)
    BY <1>0 DEF ElfOK
  <2>a. D \subseteq RamFrames /\ C \subseteq D /\ \A y \in D : y \notin 8..11
    BY <1>1, RamIs DEF C
  <2>9. /\ "user" \in e.flags => e.to \in D /\ e.to \notin Range(x.freed)
        /\ "user" \notin e.flags => high /\ e.to \notin D
        /\ e.to \in D \union 8..11
    BY <2>1, <2>2, <2>7, <2>8, <2>a DEF Leaves, C
  <2>10. /\ n.freed \in Seq(D \union 8..11) /\ Range(n.freed) = Range(x.freed) \union {e.to} /\ OnceIn(n.freed, D)
         /\ ~high => Range(n.freed) \subseteq D
    <3>1. n.freed \in Seq(D \union 8..11) /\ Range(n.freed) = Range(x.freed) \union {e.to}
      BY <1>0, <2>5, <2>9, OneMore
    <3>2. e.to \notin D \/ e.to \notin Range(x.freed)
      BY <2>9
    <3>3. OnceIn(n.freed, D)
      BY <1>0, <2>5, <2>9, <3>2, OnceMore
    <3>4. ~high => e.to \in D
      BY <2>9
    <3> QED  BY <1>0, <3>1, <3>3, <3>4
  <2>11. D \ Range(n.freed) = C \ {e.to}
    BY <2>10 DEF C
  <2>12. \A h \in Level1(t, root) : \A j \in 0..1 : (h # f \/ j # l) /\ Leaf(t, h, j) =>
           t[h][j].to \in C \ {e.to}
    <3> SUFFICES ASSUME NEW h \in Level1(t, root), NEW j \in 0..1, h # f \/ j # l, Leaf(t, h, j)
                 PROVE  t[h][j].to \in C /\ t[h][j].to # e.to
      OBVIOUS
    <3>1. t[h][j].to \in C
      BY <2>8 DEF Leaves
    <3>2. CASE "user" \in e.flags
      BY <2>2, <2>7, <2>8, <3>2 DEF Leaves
    <3>3. CASE "user" \notin e.flags
      BY <2>9, <2>a, <3>1, <3>3
    <3> QED  BY <3>1, <3>2, <3>3
  <2>13. Leaves(u, root, C \ {e.to})
    <3>1. "user" \notin Unused.flags
      BY KernelEntries
    <3> DEFINE E == C \ {e.to}
    <3>2. \A h \in Level1(t, root) : \A j \in 0..1 : (h # f \/ j # l) /\ Leaf(t, h, j) =>
            t[h][j].to \in E /\ ("user" \in Unused.flags => t[h][j].to # Unused.to)
      BY <2>12, <3>1
    <3> HIDE DEF E, C, e, u
    <3>3. Leaves(u, root, E)
      BY <1>1, <2>2, <2>6, <2>8, <3>1, <3>2, LeavesSet
    <3> QED  BY <3>3 DEF E
  <2>14. ElfOK(u, root, D \ Range(n.freed))
    BY <2>6, <2>8, <2>11, <2>13 DEF ElfOK, PageSet
  <2>15. \A o \in Pages : InUse(u, root, o) <=> InUse(m.tables, root, o) /\ o \notin X \union {page}
    <3>1. "user" \notin Unused.flags
      BY KernelEntries
    <3> QED  BY <1>0, <2>6, <3>1 DEF PageSet
  <2>16. /\ TreeOK(u, root, high) /\ Own(u, root) = Own(t, root)
         /\ \A y \in RamFrames \union KernelTables : y # f => u[y] = t[y]
    BY <2>6 DEF PageSet
  <2>17. \A y \in R \union KernelTables : u[y] = tables[y]
    <3>1. f \in Own(t, root) /\ Own(t, root) \subseteq RamFrames
      BY <1>1, <2>7, LevelsAre DEF TreeOK, Forest
    <3>2. f \notin KernelTables /\ f \notin R
      BY <1>1, <3>1, RamIs
    <3>3. R \subseteq RamFrames
      BY <1>1, RamIs
    <3> QED  BY <1>1, <2>16, <3>2, <3>3
  <2>18. Mid(g, root, D, R, FALSE, high)
    BY <1>1, <2>4, <2>16, <2>17 DEF Mid
  <2> QED  BY <2>5, <2>10, <2>14, <2>15, <2>18 DEF PagesCleared, n
<1> QED  BY <1>5, <1>6

\* unmap_pages_in_process()
LEMMA UnmappedOK ==
  ASSUME NEW m, NEW root, NEW D, NEW R, NEW high, Mid(m, root, D, R, TRUE, high), KernelMet(high),
         NEW at \in Nat, NEW z \in Nat, 8 <= at, at + z <= 16
  PROVE  PagesCleared(Unmapped(m, root, at, z), m, root, D, R, high, at..at + z - 1)
<1>1. PICK h : /\ Unmapped(m, root, at, z) = h[z]
               /\ \A i \in 0..z : h[i] = IF i = 0 THEN [m |-> m, freed |-> <<>>] ELSE ClearLeaf(h[i - 1], root, at + i - 1)
  BY UnmappedSteps
<1> DEFINE T == {i \in Nat : i <= z => PagesCleared(h[i], m, root, D, R, high, at..at + i - 1)}
<1>2. 0 \in T
  <2>1. h[0] = [m |-> m, freed |-> <<>>]
    BY <1>1
  <2>2. h[0] = [m |-> h[0].m, freed |-> h[0].freed] /\ h[0].m = m /\ h[0].freed = <<>>
    BY <2>1
  <2>3. at..at + 0 - 1 = {}
    OBVIOUS
  <2>4. <<>> \in Seq(D \union 8..11) /\ OnceIn(<<>>, D) /\ Range(<<>>) = {} /\ D \ {} = D
    BY DEF OnceIn, Range
  <2>5. Mid(m, root, D, R, FALSE, high) /\ ElfOK(m.tables, root, D)
    BY DEF Mid
  <2>6. PagesCleared(h[0], m, root, D, R, high, {})
    BY <2>2, <2>4, <2>5 DEF PagesCleared
  <2> QED  BY <2>3, <2>6
<1>3. ASSUME NEW i \in Nat, i \in T PROVE i + 1 \in T
  <2> SUFFICES ASSUME i + 1 <= z PROVE PagesCleared(h[i + 1], m, root, D, R, high, at..at + (i + 1) - 1)
    OBVIOUS
  <2>1. i + 1 \in 0..z /\ i + 1 # 0 /\ (i + 1) - 1 = i /\ i <= z /\ at + (i + 1) - 1 = at + i
        /\ at + i \in Pages /\ at + i >= 8 /\ at + i \notin at..at + i - 1 /\ at + i \in at..at + z - 1
    BY DEF Pages
  <2>2. h[i + 1] = ClearLeaf(h[i], root, at + i)
    BY <1>1, <2>1
  <2>3. PagesCleared(h[i], m, root, D, R, high, at..at + i - 1)
    BY <1>3, <2>1
  <2>4. at..at + (i + 1) - 1 = (at..at + i - 1) \union {at + i}
    BY <2>1
  <2> QED  BY <2>1, <2>2, <2>3, <2>4, ClearLeafOK
<1>4. z \in T
  <2> HIDE DEF T
  <2> QED  BY <1>2, <1>3, SetInduction
<1> QED  BY <1>1, <1>4

\* Data frames of the process are given back.
LEMMA ReleaseMid ==
  ASSUME NEW m, NEW root, NEW D, NEW R, NEW high, Mid(m, root, D, R, FALSE, high),
         NEW freed \in Seq(D), Distinct(freed), NEW elf,
         elf => ElfOK(m.tables, root, D \ Range(freed)),
         NEW n, n = Release(m, freed)
  PROVE  /\ Mid(n, root, D \ Range(freed), R, elf, high)
         /\ \A o \in Pages : InUse(n.tables, root, o) <=> InUse(m.tables, root, o)
<1> DEFINE t == m.tables
           u == n.tables
           F == Range(freed)
<1>1. /\ Mem(m) /\ m.panic = "no" /\ AllocOK(m.fa) /\ TreeOK(t, root, high)
      /\ Used(m.fa) = R \union Own(t, root) \union D
      /\ R \cap (Own(t, root) \union D) = {} /\ Own(t, root) \cap D = {}
      /\ \A y \in R \union KernelTables : t[y] = tables[y]
  BY DEF Mid
<1>2. IsTables(t) /\ Forest(t, root) /\ Node4(t, root, high) /\ t[root][0] # Unused
  BY <1>1 DEF TreeOK
<1>3. freed \in Seq(Used(m.fa)) /\ F \subseteq D
  BY <1>1 DEF Range
<1>4. Released(n, m, F)
  BY <1>1, <1>2, <1>3, ReleaseOK
<1>5. /\ Mem(n) /\ n.panic = "no" /\ AllocOK(n.fa) /\ Used(n.fa) = Used(m.fa) \ F
      /\ IsTables(u) /\ \A x \in RamFrames \union KernelTables : x \notin F => u[x] = t[x]
  BY <1>4 DEF Released
<1>6. Own(t, root) \subseteq RamFrames /\ R \subseteq RamFrames /\ D \subseteq RamFrames
  BY <1>1, <1>2, RamIs DEF Forest
<1>7. \A g \in Own(t, root) : u[g] = t[g]
  BY <1>1, <1>3, <1>5, <1>6
<1>8. Undisturbed(u, t, root, high)
  BY <1>7, Outside
<1>9. TreeOK(u, root, high) /\ Own(u, root) = Own(t, root)
  BY <1>2, <1>5, <1>8 DEF Undisturbed, TreeOK
<1>10. elf => ElfOK(u, root, D \ F)
  BY <1>8 DEF Undisturbed
<1>11. \A y \in R \union KernelTables : u[y] = tables[y]
  <2>1. \A y \in R \union KernelTables : y \notin F /\ y \in RamFrames \union KernelTables
    BY <1>1, <1>3, <1>6, RamIs
  <2> QED  BY <1>1, <1>5, <2>1
<1>12. /\ Used(n.fa) = R \union Own(u, root) \union (D \ F)
       /\ R \cap (Own(u, root) \union (D \ F)) = {} /\ Own(u, root) \cap (D \ F) = {}
  BY <1>1, <1>3, <1>5, <1>9
<1>13. Mid(n, root, D \ F, R, elf, high)
  BY <1>5, <1>9, <1>10, <1>11, <1>12 DEF Mid
<1>14. \A o \in Pages : InUse(u, root, o) <=> InUse(t, root, o)
  BY <1>8 DEF Undisturbed
<1> QED  BY <1>13, <1>14

-----------------------------------------------------------------------------
(* The tables of one entry of the root.                                    *)

\* The table an entry leads to, if it is the process's own.
Led(t, f, i) == IF Linked(t[f][i]) THEN {t[f][i].to} ELSE {}
Part2(t, root, i) == Below(t, Led(t, root, i))
Part1(t, root, i) == Below(t, Part2(t, root, i))
Part(t, root, i) == Led(t, root, i) \union Part2(t, root, i) \union Part1(t, root, i)

\* What is below two sets of tables is what is below each.
LEMMA BelowJoin ==
  ASSUME NEW t, NEW A, NEW B
  PROVE  Below(t, A \union B) = Below(t, A) \union Below(t, B)
BY BelowIs

\* What is below one table is what its two entries lead to.
LEMMA BelowOne ==
  ASSUME NEW t, NEW f
  PROVE  Below(t, {f}) = Led(t, f, 0) \union Led(t, f, 1) /\ Below(t, {}) = {}
<1>1. \A x : x \in Below(t, {f}) <=> \E i \in 0..1 : Linked(t[f][i]) /\ x = t[f][i].to
  BY BelowIs
<1>2. \A x : (\E i \in 0..1 : Linked(t[f][i]) /\ x = t[f][i].to)
             <=> x \in Led(t, f, 0) \union Led(t, f, 1)
  <2>1. \A i \in 0..1 : i = 0 \/ i = 1
    OBVIOUS
  <2>2. 0 \in 0..1 /\ 1 \in 0..1
    OBVIOUS
  <2> QED  BY <2>1, <2>2 DEF Led
<1>3. \A x : x \notin Below(t, {})
  BY BelowIs
<1> QED  BY <1>1, <1>2, <1>3

\* The levels of a process's tables are those of the two entries of the root.
LEMMA PartsAre ==
  ASSUME NEW t, NEW root
  PROVE  /\ Level3(t, root) = Led(t, root, 0) \union Led(t, root, 1)
         /\ Level2(t, root) = Part2(t, root, 0) \union Part2(t, root, 1)
         /\ Level1(t, root) = Part1(t, root, 0) \union Part1(t, root, 1)
         /\ Own(t, root) = {root} \union Part(t, root, 0) \union Part(t, root, 1)
<1>1. Level3(t, root) = Led(t, root, 0) \union Led(t, root, 1)
  BY BelowOne DEF Level3
<1>2. Level2(t, root) = Part2(t, root, 0) \union Part2(t, root, 1)
  BY <1>1, BelowJoin DEF Level2, Part2
<1>3. Level1(t, root) = Part1(t, root, 0) \union Part1(t, root, 1)
  BY <1>2, BelowJoin DEF Level1, Part1
<1> QED  BY <1>1, <1>2, <1>3 DEF Own, Inner, Part

\* Below different tables there are different tables.
LEMMA BelowApart ==
  ASSUME NEW t, NEW root, Forest(t, root), NEW A, NEW B, A \subseteq Inner(t, root), B \subseteq Inner(t, root),
         A \cap B = {}
  PROVE  Below(t, A) \cap Below(t, B) = {}
<1> SUFFICES ASSUME NEW x, x \in Below(t, A), x \in Below(t, B) PROVE FALSE
  OBVIOUS
<1>1. PICK f \in A : \E i \in 0..1 : Linked(t[f][i]) /\ x = t[f][i].to
  BY BelowIs
<1>2. PICK g \in B : \E i \in 0..1 : Linked(t[g][i]) /\ x = t[g][i].to
  BY BelowIs
<1>3. f = g
  BY <1>1, <1>2 DEF Forest
<1> QED  BY <1>3

\* The tables below the two entries of the root are different ones.
LEMMA PartsApart ==
  ASSUME NEW t, NEW root, Forest(t, root)
  PROVE  /\ Part(t, root, 0) \cap Part(t, root, 1) = {}
         /\ root \notin Part(t, root, 0) /\ root \notin Part(t, root, 1)
         /\ \A f \in Inner(t, root) : Led(t, f, 0) \cap Led(t, f, 1) = {}
<1>1. \A f \in Inner(t, root) : Led(t, f, 0) \cap Led(t, f, 1) = {}
  <2>1. 0 \in 0..1 /\ 1 \in 0..1 /\ 0 # 1
    OBVIOUS
  <2> QED  BY <2>1 DEF Forest, Led
<1>2. Led(t, root, 0) \cap Led(t, root, 1) = {}
  BY <1>1, LevelsAre
<1>3. /\ Led(t, root, 0) \subseteq Inner(t, root) /\ Led(t, root, 1) \subseteq Inner(t, root)
      /\ Part2(t, root, 0) \subseteq Inner(t, root) /\ Part2(t, root, 1) \subseteq Inner(t, root)
  BY PartsAre DEF Inner
<1>4. Part2(t, root, 0) \cap Part2(t, root, 1) = {}
  BY <1>2, <1>3, BelowApart DEF Part2
<1>5. Part1(t, root, 0) \cap Part1(t, root, 1) = {}
  BY <1>3, <1>4, BelowApart DEF Part1
<1>6. /\ root \notin Level3(t, root) \union Level2(t, root) \union Level1(t, root)
      /\ Level3(t, root) \cap (Level2(t, root) \union Level1(t, root)) = {}
      /\ Level2(t, root) \cap Level1(t, root) = {}
  BY DEF Forest
<1> QED  BY <1>1, <1>2, <1>4, <1>5, <1>6, PartsAre DEF Part

\* The tables below an entry of a root, as destroy_process_page_table() could find them.
LEMMA TablesBelowIs ==
  ASSUME NEW root, NEW high, IsTables(tables), Forest(tables, root), Node4(tables, root, high), NEW i \in 0..1
  PROVE  TablesBelow(tables[root][i]) = Part(tables, root, i)
<1> DEFINE e == tables[root][i]
           next(ts) == {x.to : x \in {y \in UNION {Range(tables[t]) : t \in ts} : y # Unused /\ ~Huge(y)}}
                       \ KernelTables
           own == {e.to} \ ({-1} \union KernelTables)
           l2(a) == a \union next(a)
           l1(a, b) == a \union next(b)
<1>1. TablesBelow(e) = IF own = {} THEN {} ELSE l1(l2(own), l2(own))
  BY DEF TablesBelow
<1>2. ASSUME NEW ts, ts \subseteq RamFrames PROVE next(ts) = Below(tables, ts)
  <2>1. ASSUME NEW t \in ts PROVE Range(tables[t]) = {tables[t][0], tables[t][1]}
    <3>1. tables[t] \in [0..1 -> Entries]
      BY <1>2, <2>1 DEF IsTables
    <3> QED  BY <3>1 DEF Range
  <2>2. ASSUME NEW x, x \in next(ts) PROVE x \in Below(tables, ts)
    <3>1. PICK t \in ts : \E y \in Range(tables[t]) : y # Unused /\ ~Huge(y) /\ x = y.to /\ x \notin KernelTables
      BY <2>2
    <3>2. PICK j \in 0..1 : tables[t][j] # Unused /\ ~Huge(tables[t][j]) /\ x = tables[t][j].to /\ x \notin KernelTables
      BY <2>1, <3>1
    <3> QED  BY <3>2, BelowIs DEF Linked
  <2>3. ASSUME NEW x, x \in Below(tables, ts) PROVE x \in next(ts)
    <3>1. PICK t \in ts : \E j \in 0..1 : Linked(tables[t][j]) /\ x = tables[t][j].to
      BY <2>3, BelowIs
    <3>2. PICK j \in 0..1 : Linked(tables[t][j]) /\ x = tables[t][j].to
      BY <3>1
    <3>3. tables[t][j] \in Range(tables[t])
      BY <2>1
    <3> QED  BY <3>2, <3>3 DEF Linked
  <2> QED  BY <2>2, <2>3
<1>3. ~Huge(e)
  BY DEF Node4
<1>4. own = Led(tables, root, i)
  <2>1. root \in RamFrames \union KernelTables
    BY LevelsAre DEF Forest
  <2>2. e \in Entries /\ (e # Unused => e.to \in Nat) /\ Unused.to = -1
    BY <2>1, EntryIs, BlankIs
  <2> QED  BY <1>3, <2>2 DEF Led, Linked
<1> HIDE DEF next, own
<1>5. /\ Led(tables, root, i) \subseteq RamFrames /\ Part2(tables, root, i) \subseteq RamFrames
  <2>1. i = 0 \/ i = 1
    OBVIOUS
  <2> QED  BY <2>1, PartsAre DEF Forest, Part
<1>6. CASE own = {}
  BY <1>1, <1>4, <1>6, BelowOne DEF Part, Part2, Part1
<1>7. CASE own # {}
  <2>1. l2(own) = Led(tables, root, i) \union Part2(tables, root, i)
    BY <1>2, <1>4, <1>5 DEF Part2
  <2>2. next(l2(own)) = Part2(tables, root, i) \union Part1(tables, root, i)
    <3>1. l2(own) \subseteq RamFrames
      BY <1>5, <2>1
    <3>2. next(l2(own)) = Below(tables, Led(tables, root, i) \union Part2(tables, root, i))
      BY <1>2, <2>1, <3>1
    <3> QED  BY <3>2, BelowJoin DEF Part2, Part1
  <2> QED  BY <1>1, <1>7, <2>1, <2>2 DEF Part
<1> QED  BY <1>6, <1>7

\* An entry of the root is cleared: the tables below it are the process's no longer.
CutAt(v, t, root, i, high) ==
  /\ IsTables(v) /\ Forest(v, root) /\ Node4(v, root, high)
  /\ Own(v, root) = Own(t, root) \ Part(t, root, i)
  /\ v[root][i] = Unused /\ (\A j \in 0..1 : j # i => v[root][j] = t[root][j])
  /\ \A x \in RamFrames \union KernelTables : x # root => v[x] = t[x]

\* Clearing an entry of the root cuts off the tables below it and nothing else.
LEMMA CutTree ==
  ASSUME NEW t, NEW root, NEW high, IsTables(t), Forest(t, root), Node4(t, root, high), NEW i \in 0..1,
         NEW v, v = SetEntry(t, root, i, Unused)
  PROVE  CutAt(v, t, root, i, high)
<1> DEFINE j == 1 - i
<1>0. root \in RamFrames /\ j \in 0..1 /\ j # i /\ (\A k \in 0..1 : k = i \/ k = j) /\ Own(t, root) \subseteq RamFrames
  BY LevelsAre DEF Forest
<1>1. /\ IsTables(v) /\ v[root][i] = Unused /\ v[root][j] = t[root][j]
      /\ \A x \in RamFrames \union KernelTables : x # root => v[x] = t[x]
  <2>1. Unused \in Entries
    BY BlankIs DEF Entries, Unused
  <2> QED  BY <1>0, <2>1 DEF IsTables, SetEntry
<1>2. Led(v, root, i) = {} /\ Led(v, root, j) = Led(t, root, j)
  BY <1>1, KernelEntries DEF Led
<1>3. Part2(v, root, i) = {} /\ Part1(v, root, i) = {}
  BY <1>2, BelowOne DEF Part2, Part1
<1>4. /\ root \notin Led(t, root, j) /\ root \notin Part2(t, root, j) /\ root \notin Part1(t, root, j)
      /\ Led(t, root, j) \subseteq RamFrames /\ Part2(t, root, j) \subseteq RamFrames
      /\ Led(t, root, j) \subseteq Level3(t, root) /\ Part2(t, root, j) \subseteq Level2(t, root)
      /\ Part1(t, root, j) \subseteq Level1(t, root)
  <2>1. (i = 0 /\ j = 1) \/ (i = 1 /\ j = 0)
    BY <1>0
  <2> QED  BY <1>0, <2>1, PartsAre, PartsApart DEF Part
<1>5. ASSUME NEW T, T \subseteq RamFrames, root \notin T PROVE Below(v, T) = Below(t, T)
  <2>1. \A f \in T : \A k \in 0..1 : Alike(v[f][k], t[f][k])
    BY <1>1, <1>5 DEF Alike
  <2> QED  BY <2>1, BelowSame
<1>6. Part2(v, root, j) = Part2(t, root, j)
  BY <1>2, <1>4, <1>5 DEF Part2
<1>7. Part1(v, root, j) = Part1(t, root, j)
  BY <1>4, <1>5, <1>6 DEF Part1
<1>8. /\ Level3(v, root) = Led(t, root, j) /\ Level2(v, root) = Part2(t, root, j)
      /\ Level1(v, root) = Part1(t, root, j) /\ Own(v, root) = {root} \union Part(t, root, j)
  <2>1. (i = 0 /\ j = 1) \/ (i = 1 /\ j = 0)
    BY <1>0
  <2>2. Part(v, root, i) = {} /\ Part(v, root, j) = Part(t, root, j)
    BY <1>2, <1>3, <1>6, <1>7 DEF Part
  <2>3. /\ Level3(v, root) = Led(v, root, 0) \union Led(v, root, 1)
        /\ Level2(v, root) = Part2(v, root, 0) \union Part2(v, root, 1)
        /\ Level1(v, root) = Part1(v, root, 0) \union Part1(v, root, 1)
        /\ Own(v, root) = {root} \union Part(v, root, 0) \union Part(v, root, 1)
    BY PartsAre
  <2> HIDE DEF j
  <2>4. CASE i = 0 /\ j = 1
    BY <1>2, <1>3, <1>6, <1>7, <2>2, <2>3, <2>4
  <2>5. CASE i = 1 /\ j = 0
    BY <1>2, <1>3, <1>6, <1>7, <2>2, <2>3, <2>5
  <2> QED  BY <2>1, <2>4, <2>5
<1>9. Own(v, root) = Own(t, root) \ Part(t, root, i)
  <2>1. (i = 0 /\ j = 1) \/ (i = 1 /\ j = 0)
    BY <1>0
  <2> HIDE DEF j
  <2> QED  BY <1>8, <2>1, PartsAre, PartsApart
<1>10. Level3(v, root) \subseteq Level3(t, root) /\ Level2(v, root) \subseteq Level2(t, root)
       /\ Level1(v, root) \subseteq Level1(t, root) /\ Inner(v, root) \subseteq Inner(t, root)
  BY <1>4, <1>8 DEF Inner
<1>11. Forest(v, root)
  <2>1. ASSUME NEW f \in Inner(v, root), NEW k \in 0..1, Linked(v[f][k])
        PROVE  Linked(t[f][k]) /\ v[f][k].to = t[f][k].to
    <3>1. CASE f = root
      BY <1>0, <1>1, <2>1, <3>1, KernelEntries
    <3>2. CASE f # root
      <4>1. f \in RamFrames
        BY <1>0, <1>10, LevelsAre
      <4> QED  BY <1>1, <2>1, <3>2, <4>1
    <3> QED  BY <3>1, <3>2
  <2>2. Own(v, root) \subseteq RamFrames
    BY <1>0, <1>9
  <2>3. \A f, g \in Inner(v, root) : \A k, l \in 0..1 :
          Linked(v[f][k]) /\ Linked(v[g][l]) /\ v[f][k].to = v[g][l].to => f = g /\ k = l
    <3> SUFFICES ASSUME NEW f \in Inner(v, root), NEW g \in Inner(v, root), NEW k \in 0..1, NEW l \in 0..1,
                        Linked(v[f][k]), Linked(v[g][l]), v[f][k].to = v[g][l].to
                 PROVE  f = g /\ k = l
      OBVIOUS
    <3>1. Linked(t[f][k]) /\ Linked(t[g][l]) /\ t[f][k].to = t[g][l].to
      BY <2>1
    <3>2. f \in Inner(t, root) /\ g \in Inner(t, root)
      BY <1>10
    <3> QED  BY <3>1, <3>2 DEF Forest
  <2> QED  BY <1>10, <2>2, <2>3 DEF Forest
<1>12. Node4(v, root, high)
  <2>1. \A g \in Own(t, root) : g # root => v[g] = t[g]
    BY <1>0, <1>1
  <2>2. ~Huge(v[root][i]) /\ ~Shared(v[root][i]) /\ ~Linked(v[root][i])
    BY <1>1, KernelEntries
  <2>3. Linked(t[root][j]) => Node3(v, t[root][j].to, j, high)
    <3> SUFFICES ASSUME Linked(t[root][j]) PROVE Node3(v, t[root][j].to, j, high)
      OBVIOUS
    <3> DEFINE x == t[root][j].to
    <3>1. x \in Level3(t, root) /\ x # root /\ Node3(t, x, j, high) /\ root \in Inner(t, root)
      BY <1>0, LevelsAre DEF Forest, Node4
    <3>2. \A k \in 0..1 : Linked(t[x][k]) => t[x][k].to # root
      BY <3>1, LevelsAre DEF Forest
    <3> HIDE DEF x, j
    <3> QED  BY <2>1, <3>1, <3>2, Node3Kept DEF x
  <2> HIDE DEF j
  <2> QED  BY <1>0, <1>1, <2>2, <2>3 DEF Node4
<1> QED  BY <1>0, <1>1, <1>9, <1>11, <1>12 DEF CutAt

-----------------------------------------------------------------------------
(* What destroy_process_page_table() finds.                                *)

\* The sequence holds the elements of X, each once.
Enumerates(s, X) == s \in Seq(X) /\ Range(s) = X /\ Distinct(s)

\* The empty sequence and the sequence of one element.
LEMMA EnumeratesSmall ==
  /\ Enumerates(<<>>, {})
  /\ \A x : Enumerates(<<x>>, {x})
BY DEF Enumerates, Range, Distinct

\* One sequence after another.
LEMMA EnumeratesJoin ==
  ASSUME NEW a, NEW b, NEW X, NEW Y, Enumerates(a, X), Enumerates(b, Y), X \cap Y = {}
  PROVE  Enumerates(a \o b, X \union Y)
<1> DEFINE q == a \o b
<1>0. /\ a \in Seq(X \union Y) /\ b \in Seq(X \union Y) /\ a \in Seq(X) /\ b \in Seq(Y)
      /\ Range(a) = X /\ Range(b) = Y /\ Distinct(a) /\ Distinct(b)
  BY DEF Enumerates
<1>1. q \in Seq(X \union Y) /\ Len(q) = Len(a) + Len(b) /\ Len(a) \in Nat /\ Len(b) \in Nat
      /\ DOMAIN a = 1..Len(a) /\ DOMAIN b = 1..Len(b)
  BY <1>0, ConcatProperties
<1>2. \A i \in 1..Len(q) : q[i] = IF i <= Len(a) THEN a[i] ELSE b[i - Len(a)]
  BY <1>0, <1>1, ConcatProperties
<1>3. DOMAIN q = 1..Len(q)
  BY <1>1
<1> HIDE DEF q
<1>4. ASSUME NEW i \in 1..Len(q)
      PROVE  \/ i \in 1..Len(a) /\ q[i] = a[i] /\ q[i] \in X
             \/ i - Len(a) \in 1..Len(b) /\ q[i] = b[i - Len(a)] /\ q[i] \in Y /\ ~(i <= Len(a))
  <2>1. CASE i <= Len(a)
    BY <1>0, <1>1, <1>2, <2>1
  <2>2. CASE ~(i <= Len(a))
    <3>1. i - Len(a) \in 1..Len(b) /\ q[i] = b[i - Len(a)]
      BY <1>1, <1>2, <2>2
    <3> QED  BY <1>0, <2>2, <3>1
  <2> QED  BY <2>1, <2>2
<1>5. Distinct(q)
  <2> SUFFICES ASSUME NEW i \in 1..Len(q), NEW j \in 1..Len(q), q[i] = q[j] PROVE i = j
    BY <1>3 DEF Distinct
  <2>1. CASE i \in 1..Len(a) /\ j \in 1..Len(a)
    <3>1. i <= Len(a) /\ j <= Len(a)
      BY <1>1, <2>1
    <3>2. a[i] = a[j]
      BY <1>2, <3>1
    <3> QED  BY <1>0, <1>1, <2>1, <3>2 DEF Distinct
  <2>2. CASE ~(i <= Len(a)) /\ ~(j <= Len(a))
    <3>1. b[i - Len(a)] = b[j - Len(a)] /\ i - Len(a) \in 1..Len(b) /\ j - Len(a) \in 1..Len(b)
      BY <1>1, <1>2, <1>4, <2>2
    <3>2. i - Len(a) = j - Len(a)
      BY <1>0, <1>1, <3>1 DEF Distinct
    <3> QED  BY <1>1, <3>2
  <2>3. CASE (i <= Len(a) /\ ~(j <= Len(a))) \/ (~(i <= Len(a)) /\ j <= Len(a))
    BY <1>1, <1>4, <2>3
  <2> QED  BY <1>1, <2>1, <2>2, <2>3
<1>6. ASSUME NEW x \in X PROVE x \in Range(q)
  <2>1. PICK i \in 1..Len(a) : a[i] = x
    BY <1>0, <1>1 DEF Range
  <2>2. i \in 1..Len(q) /\ i <= Len(a)
    BY <1>1
  <2>3. q[i] = x
    BY <1>2, <2>1, <2>2
  <2> QED  BY <1>3, <2>2, <2>3 DEF Range
<1>7. ASSUME NEW x \in Y PROVE x \in Range(q)
  <2>1. PICK i \in 1..Len(b) : b[i] = x
    BY <1>0, <1>1 DEF Range
  <2>2. Len(a) + i \in 1..Len(q) /\ ~(Len(a) + i <= Len(a)) /\ (Len(a) + i) - Len(a) = i
    BY <1>1
  <2>3. q[Len(a) + i] = x
    BY <1>2, <2>1, <2>2
  <2> QED  BY <1>3, <2>2, <2>3 DEF Range
<1>8. ASSUME NEW x \in Range(q) PROVE x \in X \union Y
  BY <1>1 DEF Range
<1>9. Range(q) = X \union Y
  BY <1>6, <1>7, <1>8
<1> QED  BY <1>1, <1>5, <1>9 DEF Enumerates, q

\* One level below.
LEMMA FreedBelow2Is ==
  ASSUME NEW root, NEW high, IsTables(tables), Forest(tables, root), KernelAs(tables, high),
         NEW f, f \in Level2(tables, root), Node2(tables, f, 0, 0, high), NEW i \in 0..1
  PROVE  Enumerates(FreedBelow2(f, K2, i), Led(tables, f, i))
<1> DEFINE e == tables[f][i]
           k == tables[K2][i]
<1>1. FreedBelow2(f, K2, i) = IF e = Unused \/ Huge(e) \/ (~Huge(k) /\ e.to = k.to) THEN <<>> ELSE <<e.to>>
  BY DEF FreedBelow2
<1>2. f \in RamFrames \union KernelTables
  BY LevelsAre DEF Forest
<1>3. e = Unused \/ Huge(e) \/ Linked(e) \/ Shared(e)
  BY <1>2, EntryIs
<1>4. Shared(e) => i = 1 /\ e.to = K1
  BY DEF Node2
<1>5. i = 0 \/ i = 1
  OBVIOUS
<1>6. (i = 0 => Huge(k)) /\ (i = 1 => ~Huge(k) /\ k.to = K1)
  BY KernelEntries DEF KernelAs
<1>7. Linked(e) => e # Unused /\ ~Huge(e) /\ e.to # K1
  BY KernelEntries DEF Linked
<1>8. (e = Unused \/ Huge(e) \/ Shared(e)) => ~Linked(e)
  BY DEF Linked, Shared
<1>9. Shared(e) => FreedBelow2(f, K2, i) = <<>>
  BY <1>1, <1>4, <1>6
<1>10. Linked(e) => FreedBelow2(f, K2, i) = <<e.to>>
  BY <1>1, <1>5, <1>6, <1>7
<1>11. e = Unused \/ Huge(e) => FreedBelow2(f, K2, i) = <<>>
  BY <1>1
<1>12. Led(tables, f, i) = IF Linked(e) THEN {e.to} ELSE {}
  BY DEF Led
<1> HIDE DEF e, k
<1> QED  BY <1>3, <1>8, <1>9, <1>10, <1>11, <1>12, EnumeratesSmall

\* What is freed below a table of level 3 in the low half: the tables below it.
LEMMA LowBelow3 ==
  ASSUME NEW root, NEW high, IsTables(tables), Forest(tables, root), KernelAs(tables, high),
         NEW f, f \in Level3(tables, root), Node3(tables, f, 0, high)
  PROVE  /\ Enumerates(FreedBelow3(f, K3, 0), Below(tables, {f}) \union Below(tables, Below(tables, {f})))
         /\ FreedBelow3(f, K3, 1) = <<>>
<1> DEFINE e == tables[f][0]
           k == tables[K3][0]
           g == e.to
           B == Below(tables, {f})
<1>1. FreedBelow3(f, K3, 0) = IF e = Unused \/ Huge(e) \/ e.to = k.to THEN <<>>
                              ELSE IF k = Unused \/ Huge(k) THEN <<e.to>>
                              ELSE FreedBelow2(e.to, k.to, 0) \o FreedBelow2(e.to, k.to, 1) \o <<e.to>>
  BY DEF FreedBelow3
<1>2. f \in RamFrames \union KernelTables
  BY LevelsAre DEF Forest
<1>3. e = Unused \/ Huge(e) \/ Linked(e) \/ Shared(e)
  <2>1. 0 \in 0..1
    OBVIOUS
  <2> QED  BY <1>2, <2>1, EntryIs
<1>4. /\ Shared(e) => e.to = K2
      /\ Linked(e) => Node2(tables, e.to, 0, 0, high)
      /\ Huge(tables[f][1])
  BY DEF Node3
<1>5. FreedBelow3(f, K3, 1) = <<>>
  BY <1>4 DEF FreedBelow3
<1>6. k.to = K2 /\ k # Unused /\ ~Huge(k)
  BY KernelEntries DEF KernelAs
<1>7. ~Linked(tables[f][1])
  BY <1>4 DEF Linked
<1>8. B = IF Linked(e) THEN {g} ELSE {}
  BY <1>7, BelowOne DEF Led
<1>9. CASE ~Linked(e)
  <2>1. FreedBelow3(f, K3, 0) = <<>>
    BY <1>1, <1>3, <1>4, <1>6, <1>9
  <2>2. B = {} /\ Below(tables, B) = {}
    BY <1>8, <1>9, BelowOne
  <2>3. Enumerates(FreedBelow3(f, K3, 0), B \union Below(tables, B))
    <3> HIDE DEF B
    <3>1. B \union Below(tables, B) = {}
      BY <2>2
    <3> QED  BY <2>1, <3>1, EnumeratesSmall
  <2> QED  BY <1>5, <2>3
<1>10. CASE Linked(e)
  <2>1. e # Unused /\ ~Huge(e) /\ e.to # K2
    BY <1>10, KernelEntries DEF Linked
  <2>2. FreedBelow3(f, K3, 0) = FreedBelow2(g, K2, 0) \o FreedBelow2(g, K2, 1) \o <<g>>
    BY <1>1, <1>6, <2>1
  <2>3. g \in Level2(tables, root)
    BY <1>10, LevelsAre
  <2>4. B = {g} /\ Below(tables, B) = Led(tables, g, 0) \union Led(tables, g, 1)
    BY <1>8, <1>10, BelowOne
  <2>5. /\ Enumerates(FreedBelow2(g, K2, 0), Led(tables, g, 0)) /\ Enumerates(FreedBelow2(g, K2, 1), Led(tables, g, 1))
    BY <1>4, <1>10, <2>3, FreedBelow2Is
  <2>6. Led(tables, g, 0) \cap Led(tables, g, 1) = {}
    BY <2>3, PartsApart, LevelsAre
  <2>7. Led(tables, g, 0) \subseteq Level1(tables, root) /\ Led(tables, g, 1) \subseteq Level1(tables, root)
    BY <2>3, LevelsAre DEF Led
  <2>8. g \notin Level1(tables, root)
    BY <2>3 DEF Forest
  <2> HIDE DEF g, B, e, k
  <2>9. Enumerates(FreedBelow2(g, K2, 0) \o FreedBelow2(g, K2, 1), Led(tables, g, 0) \union Led(tables, g, 1))
    BY <2>5, <2>6, EnumeratesJoin
  <2>10. Enumerates(<<g>>, {g}) /\ (Led(tables, g, 0) \union Led(tables, g, 1)) \cap {g} = {}
    BY <2>7, <2>8, EnumeratesSmall
  <2>11. Enumerates((FreedBelow2(g, K2, 0) \o FreedBelow2(g, K2, 1)) \o <<g>>,
               (Led(tables, g, 0) \union Led(tables, g, 1)) \union {g})
    BY <2>9, <2>10, EnumeratesJoin
  <2>12. B \union Below(tables, B) = (Led(tables, g, 0) \union Led(tables, g, 1)) \union {g}
    BY <2>4
  <2> QED  BY <1>5, <2>2, <2>11, <2>12 DEF B
<1> QED  BY <1>9, <1>10

\* In the half of the mmap area nothing is looked at below a table of level 2.
LEMMA HighBelow3 ==
  ASSUME NEW root, IsTables(tables), Forest(tables, root), KernelAs(tables, TRUE),
         NEW f, f \in Level3(tables, root), Node3(tables, f, 1, TRUE), NEW i \in 0..1
  PROVE  Enumerates(FreedBelow3(f, K3High, i), Led(tables, f, i))
<1> DEFINE e == tables[f][i]
           k == tables[K3High][i]
<1>1. FreedBelow3(f, K3High, i) = IF e = Unused \/ Huge(e) \/ e.to = k.to THEN <<>>
                                  ELSE IF k = Unused \/ Huge(k) THEN <<e.to>>
                                  ELSE FreedBelow2(e.to, k.to, 0) \o FreedBelow2(e.to, k.to, 1) \o <<e.to>>
  BY DEF FreedBelow3
<1>2. f \in RamFrames \union KernelTables
  BY LevelsAre DEF Forest
<1>3. e = Unused \/ Huge(e) \/ Linked(e) \/ Shared(e)
  BY <1>2, EntryIs
<1>4. ~Shared(e)
  BY DEF Node3
<1>5. (k = Unused \/ Huge(k)) /\ (k.to = -1 \/ k.to = 8)
  <2>1. i = 0 \/ i = 1
    OBVIOUS
  <2> QED  BY <2>1, KernelEntries, BlankIs DEF KernelAs
<1>6. Linked(e) => e.to \in RamFrames
  BY LevelsAre DEF Forest
<1>7. Linked(e) => e.to # k.to
  BY <1>5, <1>6, RamIs
<1>8. Linked(e) => e # Unused /\ ~Huge(e)
  BY DEF Linked
<1>9. Linked(e) => FreedBelow3(f, K3High, i) = <<e.to>>
  BY <1>1, <1>5, <1>7, <1>8
<1>10. ~Linked(e) => FreedBelow3(f, K3High, i) = <<>>
  BY <1>1, <1>3, <1>4
<1>11. Led(tables, f, i) = IF Linked(e) THEN {e.to} ELSE {}
  BY DEF Led
<1> HIDE DEF e, k
<1> QED  BY <1>9, <1>10, <1>11, EnumeratesSmall

\* destroy_process_page_table() gives back tables below the entry, each once, and in
\* the low half all of them.
FreedIs(root, i) ==
  \E X : /\ Enumerates(FreedBelow4(root, i), X) /\ X \subseteq Part(tables, root, i)
         /\ i = 0 => X = Part(tables, root, i)

\* What destroy_process_page_table() gives back for an entry of the root.
LEMMA FreedBelow4Is ==
  ASSUME NEW root, NEW high, IsTables(tables), Forest(tables, root), Node4(tables, root, high), KernelMet(high),
         KernelAs(tables, high), high \in BOOLEAN, NEW i \in 0..1
  PROVE  FreedIs(root, i)
<1> DEFINE e == tables[root][i]
           k == tables[K4][i]
           f == e.to
<1>0. i = 0 \/ i = 1
  OBVIOUS
<1>1. FreedBelow4(root, i) = IF e = Unused \/ e.to = k.to THEN <<>>
                             ELSE IF k = Unused THEN <<e.to>>
                             ELSE FreedBelow3(e.to, k.to, 0) \o FreedBelow3(e.to, k.to, 1) \o <<e.to>>
  BY DEF FreedBelow4
<1>2. root \in RamFrames \union KernelTables
  BY LevelsAre DEF Forest
<1>3. e = Unused \/ Huge(e) \/ Linked(e) \/ Shared(e)
  BY <1>2, EntryIs
<1>4. /\ ~Huge(e)
      /\ Shared(e) => e.to = (IF i = 0 THEN K3 ELSE K3High) /\ (i = 1 => high)
      /\ Linked(e) => Node3(tables, e.to, i, high)
  BY DEF Node4
<1>5. /\ i = 0 => k = Entry(K3, {"w", "x"})
      /\ i = 1 => k = IF high THEN Entry(K3High, {"w", "x"}) ELSE Unused
  BY KernelIs DEF KernelMet
<1>6. CASE ~Linked(e)
  <2>1. FreedBelow4(root, i) = <<>>
    BY <1>0, <1>1, <1>3, <1>4, <1>5, <1>6, KernelEntries
  <2>2. Part(tables, root, i) = {}
    BY <1>6, BelowOne DEF Part, Part1, Part2, Led
  <2>3. Enumerates(FreedBelow4(root, i), {})
    BY <2>1, EnumeratesSmall
  <2> QED  BY <2>2, <2>3 DEF FreedIs
<1>7. CASE Linked(e)
  <2>1. e # Unused /\ f \notin KernelTables /\ f \in Level3(tables, root) /\ f \in RamFrames /\ f # -1
    <3>1. f \in Level3(tables, root)
      BY <1>7, LevelsAre
    <3>2. f \in RamFrames
      BY <3>1, LevelsAre DEF Forest
    <3> QED  BY <1>7, <3>1, <3>2, RamIs DEF Linked
  <2>2. Led(tables, root, i) = {f} /\ Part2(tables, root, i) = Below(tables, {f})
        /\ Part1(tables, root, i) = Below(tables, Below(tables, {f}))
    BY <1>7 DEF Part1, Part2, Led
  <2>3. f \notin Level2(tables, root) /\ f \notin Level1(tables, root)
    BY <2>1 DEF Forest
  <2>4. Enumerates(<<f>>, {f})
    BY EnumeratesSmall
  <2>5. Below(tables, {f}) \subseteq Level2(tables, root) /\ Below(tables, Below(tables, {f})) \subseteq Level1(tables, root)
    <3>1. Part2(tables, root, i) \subseteq Level2(tables, root) /\ Part1(tables, root, i) \subseteq Level1(tables, root)
      BY <1>0, PartsAre
    <3> QED  BY <2>2, <3>1
  <2>6. CASE i = 0
    <3> DEFINE Y == Below(tables, {f}) \union Below(tables, Below(tables, {f}))
    <3>1. k # Unused /\ k.to = K3 /\ f # K3
      BY <1>5, <2>1, <2>6, KernelEntries
    <3>2. FreedBelow4(root, i) = FreedBelow3(f, K3, 0) \o FreedBelow3(f, K3, 1) \o <<f>>
      BY <1>1, <2>1, <3>1
    <3>3. Enumerates(FreedBelow3(f, K3, 0), Y) /\ FreedBelow3(f, K3, 1) = <<>>
      BY <1>4, <1>7, <2>1, <2>6, LowBelow3
    <3> HIDE DEF Y
    <3>4. Enumerates(FreedBelow3(f, K3, 0) \o FreedBelow3(f, K3, 1), Y \union {})
      BY <3>3, EnumeratesSmall, EnumeratesJoin
    <3>5. Y \cap {f} = {}
      BY <2>3, <2>5 DEF Y
    <3>6. Enumerates(FreedBelow3(f, K3, 0) \o FreedBelow3(f, K3, 1), Y)
      BY <3>4
    <3>7. Enumerates((FreedBelow3(f, K3, 0) \o FreedBelow3(f, K3, 1)) \o <<f>>, Y \union {f})
      BY <2>4, <3>5, <3>6, EnumeratesJoin
    <3>8. Part(tables, root, i) = Y \union {f}
      BY <2>2 DEF Y, Part
    <3> QED  BY <3>2, <3>7, <3>8 DEF FreedIs
  <2>7. CASE i = 1 /\ ~high
    <3>1. k = Unused /\ k.to = -1
      BY <1>5, <2>7, BlankIs
    <3>2. FreedBelow4(root, i) = <<f>>
      BY <1>1, <2>1, <3>1
    <3>3. {f} \subseteq Part(tables, root, i) /\ i # 0
      BY <2>2, <2>7 DEF Part
    <3>4. Enumerates(FreedBelow4(root, i), {f})
      BY <2>4, <3>2
    <3> QED  BY <3>3, <3>4 DEF FreedIs
  <2>8. CASE i = 1 /\ high
    <3>1. k # Unused /\ k.to = K3High /\ f # K3High
      BY <1>5, <2>1, <2>8, KernelEntries
    <3>2. FreedBelow4(root, i) = FreedBelow3(f, K3High, 0) \o FreedBelow3(f, K3High, 1) \o <<f>>
      BY <1>1, <2>1, <3>1
    <3>3. KernelAs(tables, TRUE) /\ Node3(tables, f, 1, TRUE)
      BY <1>4, <1>7, <2>8
    <3>4. Enumerates(FreedBelow3(f, K3High, 0), Led(tables, f, 0)) /\ Enumerates(FreedBelow3(f, K3High, 1), Led(tables, f, 1))
      <4>1. 0 \in 0..1 /\ 1 \in 0..1
        OBVIOUS
      <4> HIDE DEF f, e
      <4> QED  BY <2>1, <3>3, <4>1, HighBelow3
    <3>5. Led(tables, f, 0) \cap Led(tables, f, 1) = {}
      BY <2>1, PartsApart, LevelsAre
    <3>6. Enumerates(FreedBelow3(f, K3High, 0) \o FreedBelow3(f, K3High, 1), Below(tables, {f}))
      BY <3>4, <3>5, EnumeratesJoin, BelowOne
    <3>7. Below(tables, {f}) \cap {f} = {}
      BY <2>3, <2>5
    <3>8. Enumerates((FreedBelow3(f, K3High, 0) \o FreedBelow3(f, K3High, 1)) \o <<f>>, Below(tables, {f}) \union {f})
      BY <2>4, <3>6, <3>7, EnumeratesJoin
    <3>9. Below(tables, {f}) \union {f} \subseteq Part(tables, root, i) /\ i # 0
      BY <2>2, <2>8 DEF Part
    <3> QED  BY <3>2, <3>8, <3>9 DEF FreedIs
  <2> QED  BY <1>0, <2>6, <2>7, <2>8
<1> QED  BY <1>6, <1>7

-----------------------------------------------------------------------------
(* The list of ranges.                                                     *)

\* What Vec::retain() leaves.
LEMMA PickedIs ==
  ASSUME NEW S, NEW s \in Seq(S), NEW K
  PROVE  /\ Picked(s, K) \in Seq(S) /\ Range(Picked(s, K)) = {s[i] : i \in K \cap DOMAIN s}
         /\ Distinct(s) => Distinct(Picked(s, K))
<1>0. Len(s) \in Nat /\ DOMAIN s = 1..Len(s)
  OBVIOUS
<1>1. PICK h : /\ Picked(s, K) = h[Len(s)]
               /\ \A i \in 0..Len(s) : h[i] = IF i = 0 THEN <<>> ELSE IF i \in K THEN Append(h[i - 1], s[i]) ELSE h[i - 1]
  BY PickedSteps
<1> DEFINE F(i) == {s[j] : j \in K \cap (1..i)}
           G(i) == h[i] \in Seq(S) /\ Range(h[i]) = F(i) /\ (Distinct(s) => Distinct(h[i]))
           T == {i \in Nat : i <= Len(s) => G(i)}
<1>2. 0 \in T
  <2>1. h[0] = <<>>
    BY <1>0, <1>1
  <2>2. F(0) = {}
    OBVIOUS
  <2>3. <<>> \in Seq(S) /\ Range(<<>>) = {} /\ Distinct(<<>>)
    BY DEF Range, Distinct
  <2> QED  BY <2>1, <2>2, <2>3
<1>3. ASSUME NEW i \in Nat, i \in T PROVE i + 1 \in T
  <2> SUFFICES ASSUME i + 1 <= Len(s) PROVE G(i + 1)
    OBVIOUS
  <2>1. i + 1 \in 0..Len(s) /\ i + 1 # 0 /\ (i + 1) - 1 = i /\ i <= Len(s) /\ i + 1 \in 1..Len(s)
    BY <1>0
  <2>2. h[i + 1] = IF i + 1 \in K THEN Append(h[i], s[i + 1]) ELSE h[i]
    BY <1>1, <2>1
  <2>3. h[i] \in Seq(S) /\ Range(h[i]) = F(i) /\ (Distinct(s) => Distinct(h[i]))
    BY <1>3, <2>1
  <2>4. s[i + 1] \in S
    BY <2>1
  <2>5. Distinct(s) => s[i + 1] \notin F(i)
    BY <1>0, <2>1 DEF Distinct
  <2>6. F(i + 1) = IF i + 1 \in K THEN F(i) \union {s[i + 1]} ELSE F(i)
    <3>1. K \cap (1..i + 1) = IF i + 1 \in K THEN (K \cap (1..i)) \union {i + 1} ELSE K \cap (1..i)
      OBVIOUS
    <3> QED  BY <3>1
  <2> HIDE DEF F
  <2>7. CASE i + 1 \in K
    <3>1. h[i + 1] = Append(h[i], s[i + 1])
      BY <2>2, <2>7
    <3>2. h[i + 1] \in Seq(S) /\ Range(h[i + 1]) = F(i) \union {s[i + 1]} /\ (Distinct(s) => Distinct(h[i + 1]))
      BY <2>3, <2>4, <2>5, <3>1, OneMore
    <3> QED  BY <2>6, <2>7, <3>2
  <2>8. CASE i + 1 \notin K
    BY <2>2, <2>3, <2>6, <2>8
  <2> QED  BY <2>7, <2>8
<1>4. Len(s) \in T
  <2> HIDE DEF T
  <2> QED  BY <1>0, <1>2, <1>3, SetInduction
<1>5. G(Len(s))
  BY <1>0, <1>4
<1>6. F(Len(s)) = {s[i] : i \in K \cap DOMAIN s}
  BY <1>0
<1> HIDE DEF F
<1> QED  BY <1>1, <1>5, <1>6

\* The elements of one sequence after another.
LEMMA RangeJoin ==
  ASSUME NEW S, NEW a \in Seq(S), NEW b \in Seq(S)
  PROVE  a \o b \in Seq(S) /\ Range(a \o b) = Range(a) \union Range(b)
<1> DEFINE q == a \o b
<1>1. q \in Seq(S) /\ Len(q) = Len(a) + Len(b) /\ Len(a) \in Nat /\ Len(b) \in Nat
      /\ DOMAIN a = 1..Len(a) /\ DOMAIN b = 1..Len(b) /\ DOMAIN q = 1..Len(q)
  BY ConcatProperties
<1>2. \A i \in 1..Len(q) : q[i] = IF i <= Len(a) THEN a[i] ELSE b[i - Len(a)]
  BY <1>1, ConcatProperties
<1> HIDE DEF q
<1>3. ASSUME NEW x \in Range(a) PROVE x \in Range(q)
  <2>1. PICK i \in 1..Len(a) : a[i] = x
    BY <1>1 DEF Range
  <2>2. i \in 1..Len(q) /\ i <= Len(a)
    BY <1>1
  <2> QED  BY <1>1, <1>2, <2>1, <2>2 DEF Range
<1>4. ASSUME NEW x \in Range(b) PROVE x \in Range(q)
  <2>1. PICK i \in 1..Len(b) : b[i] = x
    BY <1>1 DEF Range
  <2>2. Len(a) + i \in 1..Len(q) /\ ~(Len(a) + i <= Len(a)) /\ (Len(a) + i) - Len(a) = i
    BY <1>1
  <2>3. q[Len(a) + i] = x
    BY <1>2, <2>1, <2>2
  <2> QED  BY <1>1, <2>2, <2>3 DEF Range
<1>5. ASSUME NEW x \in Range(q) PROVE x \in Range(a) \union Range(b)
  <2>1. PICK i \in 1..Len(q) : q[i] = x
    BY <1>1 DEF Range
  <2>2. CASE i <= Len(a)
    <3>1. i \in 1..Len(a) /\ a[i] = x
      BY <1>1, <1>2, <2>1, <2>2
    <3> QED  BY <1>1, <3>1 DEF Range
  <2>3. CASE ~(i <= Len(a))
    <3>1. i - Len(a) \in 1..Len(b) /\ b[i - Len(a)] = x
      BY <1>1, <1>2, <2>1, <2>3
    <3> QED  BY <1>1, <3>1 DEF Range
  <2> QED  BY <2>2, <2>3
<1>6. Range(q) = Range(a) \union Range(b)
  BY <1>3, <1>4, <1>5
<1> QED  BY <1>1, <1>6 DEF q

Ranges == {v \in [from : Nat, to : Nat] : v.from < v.to /\ v.to <= MapLimit}
Covers(v, x) == v.from <= x /\ x < v.to
Cover(vmas, x) == \E v \in Range(vmas) : Covers(v, x)

\* A range was put into the list, unless some of it was covered.
Inserted(q, s, v) ==
  /\ q \in Seq(Ranges)
  /\ \/ /\ q = s /\ (\E w \in Range(s) : Overlaps(v, w)) /\ (\E x \in v.from..v.to - 1 : Cover(s, x))
     \/ Range(q) = Range(s) \union {v}

\* VmaList::insert()
LEMMA InsertVmaOK ==
  ASSUME NEW s \in Seq(Ranges), NEW v \in Ranges
  PROVE  Inserted(InsertVma(s, v), s, v)
<1> DEFINE before == {i \in DOMAIN s : s[i].from < v.from}
           a == Picked(s, before)
           b == Picked(s, DOMAIN s \ before)
<1>0. MapLimit \in Nat /\ v.from \in Nat /\ v.to \in Nat /\ v.from < v.to
  BY SpaceConstants DEF Ranges
<1>00. \A w \in Range(s) : w \in Ranges /\ w.from \in Nat /\ w.to \in Nat /\ w.from < w.to
  BY DEF Range, Ranges
<1>1. CASE \E i \in DOMAIN s : Overlaps(v, s[i])
  <2>1. InsertVma(s, v) = s
    BY <1>1 DEF InsertVma
  <2>2. PICK w \in Range(s) : Overlaps(v, w)
    BY <1>1 DEF Range
  <2>3. w.from \in Nat /\ w.to \in Nat /\ w.from < w.to /\ v.from < w.to /\ w.from < v.to
    BY <1>00, <2>2 DEF Overlaps
  <2>4. \E x \in v.from..v.to - 1 : Covers(w, x)
    <3>1. CASE v.from <= w.from
      <4>1. w.from \in v.from..v.to - 1 /\ Covers(w, w.from)
        BY <1>0, <2>3, <3>1 DEF Covers
      <4> QED  BY <4>1
    <3>2. CASE ~(v.from <= w.from)
      <4>1. v.from \in v.from..v.to - 1 /\ Covers(w, v.from)
        BY <1>0, <2>3, <3>2 DEF Covers
      <4> QED  BY <4>1
    <3> QED  BY <3>1, <3>2
  <2>5. \E x \in v.from..v.to - 1 : Cover(s, x)
    BY <2>4 DEF Cover
  <2> QED  BY <2>1, <2>2, <2>5 DEF Inserted
<1>2. CASE ~(\E i \in DOMAIN s : Overlaps(v, s[i]))
  <2>1. InsertVma(s, v) = a \o <<v>> \o b
    BY <1>2 DEF InsertVma
  <2>2. /\ a \in Seq(Ranges) /\ b \in Seq(Ranges) /\ Range(a) = {s[i] : i \in before \cap DOMAIN s}
        /\ Range(b) = {s[i] : i \in (DOMAIN s \ before) \cap DOMAIN s}
    BY PickedIs
  <2>3. Range(a) \union Range(b) = Range(s)
    <3>1. DOMAIN s = (before \cap DOMAIN s) \union ((DOMAIN s \ before) \cap DOMAIN s)
      OBVIOUS
    <3> QED  BY <2>2, <3>1 DEF Range
  <2> HIDE DEF a, b
  <2> DEFINE q == <<v>>
             c == a \o q
  <2>4. q \in Seq(Ranges) /\ Range(q) = {v}
    BY DEF Range
  <2> HIDE DEF q
  <2>5. c \in Seq(Ranges) /\ Range(c) = Range(a) \union {v}
    BY <2>2, <2>4, RangeJoin
  <2> HIDE DEF c
  <2>6. c \o b \in Seq(Ranges) /\ Range(c \o b) = Range(a) \union {v} \union Range(b)
    BY <2>2, <2>5, RangeJoin
  <2>7. InsertVma(s, v) \in Seq(Ranges) /\ Range(InsertVma(s, v)) = Range(s) \union {v}
    BY <2>1, <2>3, <2>6 DEF c, q
  <2> QED  BY <2>7 DEF Inserted
<1> QED  BY <1>1, <1>2

\* find_free_region() keeps to the area.
LEMMA FindFreeIs ==
  ASSUME NEW s \in Seq(Ranges), NEW z \in Nat, FindFree(s, z) # -1
  PROVE  FindFree(s, z) \in Nat /\ MapBase <= FindFree(s, z) /\ FindFree(s, z) + z <= MapLimit
<1> DEFINE ends == {MapBase} \union {s[i].to : i \in {k \in DOMAIN s : s[k].to > MapBase}}
           free(c) == /\ c + z <= MapLimit
                      /\ \A i \in DOMAIN s : ~Overlaps(Vma(c, c + z), s[i])
           C == {c \in ends : free(c)}
<1>1. FindFree(s, z) = IF \E c \in ends : free(c) THEN Min(C) ELSE -1
  BY DEF FindFree
<1>2. \E c \in ends : free(c)
  BY <1>1
<1>3. MapBase \in Nat /\ \A c \in ends : c \in Nat /\ MapBase <= c
  <2>1. \A i \in DOMAIN s : s[i].to \in Nat
    BY DEF Ranges
  <2> QED  BY <2>1, SpaceConstants
<1> HIDE DEF ends
<1>4. \E c \in C : TRUE
  BY <1>2
<1>5. C \subseteq Nat
  BY <1>3
<1>6. \A c \in C : c \in Nat /\ MapBase <= c /\ c + z <= MapLimit
  BY <1>3
<1> HIDE DEF C
<1>7. Min(C) \in C
  <2>1. C # {} /\ \A y \in C : y \in Nat
    BY <1>4, <1>5
  <2> QED  BY <2>1, MinIs
<1> QED  BY <1>1, <1>2, <1>6, <1>7
\* The lesser and the greater of two numbers.
LEMMA LeastAndGreatest ==
  ASSUME NEW a \in Nat, NEW b \in Nat
  PROVE  Min({a, b}) = (IF a <= b THEN a ELSE b) /\ Max({a, b}) = (IF a <= b THEN b ELSE a)
<1> DEFINE T == {a, b}
<1>1. Min(T) = CHOOSE x \in T : \A y \in T : x <= y
  BY DEF Min
<1>2. Max(T) = CHOOSE x \in T : \A y \in T : x >= y
  BY DEF Max
<1>3. \E x \in T : \A y \in T : x <= y
  OBVIOUS
<1>4. \E x \in T : \A y \in T : x >= y
  OBVIOUS
<1>5. Min(T) \in T /\ \A y \in T : Min(T) <= y
  BY <1>1, <1>3
<1>6. Max(T) \in T /\ \A y \in T : Max(T) >= y
  BY <1>2, <1>4
<1> QED  BY <1>5, <1>6

\* What is left of one range.
Rest(s, v, from, to) ==
  /\ s \in Seq(Ranges)
  /\ \A x \in Nat : Cover(s, x) <=> Covers(v, x) /\ ~(from <= x /\ x < to)

\* What remove_range() leaves of one range.
LEMMA LeftIs ==
  ASSUME NEW v \in Ranges, NEW from \in Nat, NEW to \in Nat, from < to
  PROVE  Rest(Left(v, from, to), v, from, to)
<1> DEFINE lo == Vma(v.from, Min({v.to, from}))
           hi == Vma(Max({v.from, to}), v.to)
           below == IF v.from < from THEN <<lo>> ELSE <<>>
           above == IF v.to > to THEN <<hi>> ELSE <<>>
<1>0. MapLimit \in Nat /\ v.from \in Nat /\ v.to \in Nat /\ v.from < v.to /\ v.to <= MapLimit
  BY SpaceConstants DEF Ranges
<1>1. /\ Min({v.to, from}) = (IF v.to <= from THEN v.to ELSE from)
      /\ Max({v.from, to}) = (IF v.from <= to THEN to ELSE v.from)
  BY <1>0, LeastAndGreatest
<1>2. Overlaps(v, Vma(from, to)) <=> v.from < to /\ from < v.to
  BY DEF Overlaps, Vma
<1>3. CASE ~Overlaps(v, Vma(from, to))
  <2>1. Left(v, from, to) = <<v>>
    BY <1>3 DEF Left
  <2>2. <<v>> \in Seq(Ranges) /\ Range(<<v>>) = {v}
    BY DEF Range
  <2>3. \A x \in Nat : Cover(<<v>>, x) <=> Covers(v, x)
    BY <2>2 DEF Cover
  <2>4. \A x \in Nat : Covers(v, x) => ~(from <= x /\ x < to)
    BY <1>0, <1>2, <1>3 DEF Covers
  <2> QED  BY <2>1, <2>2, <2>3, <2>4 DEF Rest
<1>4. CASE Overlaps(v, Vma(from, to))
  <2>1. Left(v, from, to) = below \o above
    BY <1>4 DEF Left
  <2>2. v.from < from => lo \in Ranges /\ \A x \in Nat : Covers(lo, x) <=> Covers(v, x) /\ x < from
    <3> SUFFICES ASSUME v.from < from
                 PROVE  lo \in Ranges /\ \A x \in Nat : Covers(lo, x) <=> Covers(v, x) /\ x < from
      OBVIOUS
    <3>1. lo = [from |-> v.from, to |-> from]
      BY <1>0, <1>1, <1>2, <1>4 DEF Vma
    <3>2. from <= MapLimit
      BY <1>0, <1>2, <1>4
    <3>3. lo.from = v.from /\ lo.to = from
      BY <3>1
    <3>4. lo \in Ranges
      BY <1>0, <3>1, <3>2 DEF Ranges
    <3> HIDE DEF lo
    <3> QED  BY <1>0, <1>2, <1>4, <3>3, <3>4 DEF Covers
  <2>3. v.to > to => hi \in Ranges /\ \A x \in Nat : Covers(hi, x) <=> Covers(v, x) /\ to <= x
    <3> SUFFICES ASSUME v.to > to
                 PROVE  hi \in Ranges /\ \A x \in Nat : Covers(hi, x) <=> Covers(v, x) /\ to <= x
      OBVIOUS
    <3>1. hi = [from |-> to, to |-> v.to]
      BY <1>0, <1>1, <1>2, <1>4 DEF Vma
    <3>3. hi.from = to /\ hi.to = v.to
      BY <3>1
    <3>4. hi \in Ranges
      BY <1>0, <3>1 DEF Ranges
    <3> HIDE DEF hi
    <3> QED  BY <1>0, <1>2, <1>4, <3>3, <3>4 DEF Covers
  <2> HIDE DEF lo, hi
  <2>4. /\ below \in Seq(Ranges) /\ Range(below) = IF v.from < from THEN {lo} ELSE {}
    BY <2>2 DEF Range
  <2>5. above \in Seq(Ranges) /\ Range(above) = IF v.to > to THEN {hi} ELSE {}
    BY <2>3 DEF Range
  <2> HIDE DEF below, above
  <2>6. below \o above \in Seq(Ranges) /\ Range(below \o above) = Range(below) \union Range(above)
    BY <2>4, <2>5, RangeJoin
  <2>7. \A x \in Nat : Cover(below \o above, x) <=>
          (v.from < from /\ Covers(lo, x)) \/ (v.to > to /\ Covers(hi, x))
    BY <2>4, <2>5, <2>6 DEF Cover
  <2>8. \A x \in Nat : Cover(below \o above, x) <=>
          (v.from < from /\ Covers(v, x) /\ x < from) \/ (v.to > to /\ Covers(v, x) /\ to <= x)
    BY <2>2, <2>3, <2>7
  <2>9. \A x \in Nat : Cover(below \o above, x) <=> Covers(v, x) /\ ~(from <= x /\ x < to)
    BY <1>0, <2>8 DEF Covers
  <2> QED  BY <2>1, <2>6, <2>9 DEF Rest
<1> QED  BY <1>3, <1>4

\* VmaList::remove_range(): the range is covered no more, and the rest as before.
LEMMA RemoveRangeOK ==
  ASSUME NEW s \in Seq(Ranges), NEW from \in Nat, NEW to \in Nat, from < to
  PROVE  /\ RemoveRange(s, from, to) \in Seq(Ranges)
         /\ \A x \in Nat : Cover(RemoveRange(s, from, to), x) <=> Cover(s, x) /\ ~(from <= x /\ x < to)
<1>0. Len(s) \in Nat /\ DOMAIN s = 1..Len(s)
  OBVIOUS
<1>1. PICK h : /\ RemoveRange(s, from, to) = h[Len(s)]
               /\ \A i \in 0..Len(s) : h[i] = IF i = 0 THEN <<>> ELSE h[i - 1] \o Left(s[i], from, to)
  BY RemoveSteps
<1> DEFINE Up(i, x) == \E j \in 1..i : Covers(s[j], x)
           G(i) == h[i] \in Seq(Ranges) /\ \A x \in Nat : Cover(h[i], x) <=> Up(i, x) /\ ~(from <= x /\ x < to)
           T == {i \in Nat : i <= Len(s) => G(i)}
<1>2. 0 \in T
  <2>1. h[0] = <<>>
    BY <1>0, <1>1
  <2>2. \A x : ~Up(0, x)
    OBVIOUS
  <2>3. <<>> \in Seq(Ranges) /\ \A x : ~Cover(<<>>, x)
    BY DEF Range, Cover
  <2> HIDE DEF Up
  <2> QED  BY <2>1, <2>2, <2>3
<1>3. ASSUME NEW i \in Nat, i \in T PROVE i + 1 \in T
  <2> SUFFICES ASSUME i + 1 <= Len(s) PROVE G(i + 1)
    OBVIOUS
  <2>1. i + 1 \in 0..Len(s) /\ i + 1 # 0 /\ (i + 1) - 1 = i /\ i <= Len(s) /\ i + 1 \in 1..Len(s)
    BY <1>0
  <2>2. h[i + 1] = h[i] \o Left(s[i + 1], from, to)
    BY <1>1, <2>1
  <2>3. h[i] \in Seq(Ranges) /\ \A x \in Nat : Cover(h[i], x) <=> Up(i, x) /\ ~(from <= x /\ x < to)
    BY <1>3, <2>1
  <2>4. s[i + 1] \in Ranges
    BY <2>1
  <2> DEFINE l == Left(s[i + 1], from, to)
  <2>5. l \in Seq(Ranges) /\ \A x \in Nat : Cover(l, x) <=> Covers(s[i + 1], x) /\ ~(from <= x /\ x < to)
    BY <2>4, LeftIs DEF Rest
  <2>6. \A x : Up(i + 1, x) <=> Up(i, x) \/ Covers(s[i + 1], x)
    BY <2>1
  <2> HIDE DEF Up, l
  <2>7. h[i] \o l \in Seq(Ranges) /\ Range(h[i] \o l) = Range(h[i]) \union Range(l)
    BY <2>3, <2>5, RangeJoin
  <2>8. \A x : Cover(h[i] \o l, x) <=> Cover(h[i], x) \/ Cover(l, x)
    BY <2>7 DEF Cover
  <2>9. h[i + 1] = h[i] \o l
    BY <2>2 DEF l
  <2> QED  BY <2>3, <2>5, <2>6, <2>7, <2>8, <2>9
<1>4. Len(s) \in T
  <2> HIDE DEF T
  <2> QED  BY <1>0, <1>2, <1>3, SetInduction
<1>5. G(Len(s))
  BY <1>0, <1>4
<1>6. \A x : Up(Len(s), x) <=> Cover(s, x)
  BY <1>0 DEF Range, Cover
<1> HIDE DEF Up
<1> QED  BY <1>1, <1>5, <1>6

-----------------------------------------------------------------------------
(* The invariant.                                                          *)

Shaped(P) ==
  P = [st |-> P.st, root |-> P.root, frames |-> P.frames, vmas |-> P.vmas, todo |-> P.todo, elf |-> P.elf, prog |-> P.prog]

\* How far the loading of a program has come, and what is left of it.
Done(P) == Len(P.prog) - Len(P.todo)
Awaited(P) ==
  /\ P.todo \in Seq(Items) /\ Len(P.todo) <= Len(P.prog)
  /\ \A i \in 1..Len(P.todo) : P.todo[i] = P.prog[Done(P) + i]

\* Ranges that are segments of a program.
SegsOf(vmas, g) == \A v \in Range(vmas) : \E j \in DOMAIN g : v = g[j].seg

\* The lists of a process.
Listed(P) ==
  /\ P.frames \in Seq(RamFrames) /\ (~OnStack(P.prog) => Distinct(P.frames)) /\ (~P.elf => P.frames = <<>>)
  /\ P.vmas \in Seq(Ranges) /\ (P.elf => P.prog \in Programs)
  /\ P.st = "loading" /\ P.elf => Awaited(P) /\ SegsOf(P.vmas, P.prog)
  /\ P.st = "loading" /\ ~P.elf => P.todo \in Seq(Pages)
  /\ P.st = "dying" => P.frames = <<>> /\ P.todo \in {<<0, 1>>, <<1>>, <<>>}

\* While it is loaded, the pages it has are those that are done.
Loaded(t, P) ==
  \A o \in Pages : InUse(t, P.root, o) <=> \E j \in 1..Done(P) : P.prog[j].page = o

\* Its ranges are pages it has, once it is loaded, and the pages it has are in its
\* ranges, when its segments are apart.
Matched(t, P) ==
  /\ P.st = "live" => \A o \in 0..MapLimit - 1 : Cover(P.vmas, o) => InUse(t, P.root, o)
  /\ NoOverlap(P.prog) => \A o \in 0..MapLimit - 1 : InUse(t, P.root, o) => Cover(P.vmas, o)

ProcOK(t, P, high, sh) ==
  /\ Shaped(P) /\ P.st \in {"none", "loading", "live", "dying"} /\ P.elf \in BOOLEAN
  /\ P.st = "none" => P = NoProcess
  /\ P.st # "none" =>
       /\ Listed(P) /\ Forest(t, P.root) /\ Node4(t, P.root, high)
       /\ P.st # "dying" => t[P.root][0] # Unused
       /\ P.st = "dying" => \A i \in 0..1 : i \notin Range(P.todo) => t[P.root][i] = Unused
       /\ P.st = "loading" /\ P.elf => Loaded(t, P)
       /\ P.st # "dying" /\ P.elf => ElfOK(t, P.root, Range(P.frames)) /\ (~sh => Matched(t, P))

\* The frames a process has.
Has(t, P) == IF P.st = "none" THEN {} ELSE Own(t, P.root) \union Range(P.frames)
OwnApart(t, P) == P.st # "none" => Own(t, P.root) \cap Range(P.frames) = {}
Others(t, pr, l, p) == Reserved \union l \union UNION {Has(t, pr[q]) : q \in Procs \ {p}}

\* Every process is in order, and every frame in use has one owner.
SpaceOK(f, t, pr, l, sh) ==
  /\ IsTables(t) /\ KernelOK(t) /\ sh \in BOOLEAN
  /\ pr = [p \in Procs |-> pr[p]]
  /\ \A p \in Procs : ProcOK(t, pr[p], t[K4][1] # Unused, sh) /\ OwnApart(t, pr[p])
  /\ Used(f) = Reserved \union l \union UNION {Has(t, pr[p]) : p \in Procs}
  /\ \A p \in Procs : Has(t, pr[p]) \cap (Reserved \union l) = {}
  /\ \A p, q \in Procs : p # q => Has(t, pr[p]) \cap Has(t, pr[q]) = {}

SpaceInv ==
  /\ AllocOK(fa)
  /\ panic = "double free" => \E p \in Procs : OnStack(procs[p].prog)
  /\ panic = "unknown frame" => tables[K4][1] # Unused
  /\ panic = "no" => SpaceOK(fa, tables, procs, lost, shadowed)

\* A process whose tables do not change is in order as before.
LEMMA ProcKept ==
  ASSUME NEW t, NEW u, NEW P, NEW high, NEW sh, NEW s, sh => s, ProcOK(t, P, high, sh),
         \A x \in Has(t, P) : u[x] = t[x]
  PROVE  ProcOK(u, P, high, s) /\ Has(u, P) = Has(t, P) /\ (OwnApart(t, P) => OwnApart(u, P))
<1>1. CASE P.st = "none"
  BY <1>1 DEF ProcOK, Has, OwnApart
<1>2. CASE P.st # "none"
  <2>1. Undisturbed(u, t, P.root, high)
    <3>1. \A g \in Own(t, P.root) : u[g] = t[g]
      BY <1>2 DEF Has
    <3> QED  BY <3>1, Outside
  <2>2. /\ Own(u, P.root) = Own(t, P.root) /\ u[P.root] = t[P.root]
        /\ Forest(t, P.root) => Forest(u, P.root)
        /\ Forest(t, P.root) /\ Node4(t, P.root, high) => Node4(u, P.root, high)
        /\ \A o \in Pages : InUse(u, P.root, o) <=> InUse(t, P.root, o)
        /\ ElfOK(t, P.root, Range(P.frames)) => ElfOK(u, P.root, Range(P.frames))
    BY <2>1 DEF Undisturbed
  <2>3. Matched(t, P) => Matched(u, P)
    <3>1. 0..MapLimit - 1 \subseteq Pages
      BY SpaceConstants DEF Pages
    <3> QED  BY <2>2, <3>1 DEF Matched
  <2>3a. Loaded(t, P) => Loaded(u, P)
    BY <2>2 DEF Loaded
  <2>4. Has(u, P) = Has(t, P) /\ (OwnApart(t, P) => OwnApart(u, P))
    BY <2>2 DEF Has, OwnApart
  <2>5. ProcOK(u, P, high, s)
    BY <1>2, <2>2, <2>3, <2>3a DEF ProcOK
  <2> QED  BY <2>4, <2>5
<1> QED  BY <1>1, <1>2

Put(pr, p, P) == [pr EXCEPT ![p] = P]

\* What a step of one process does: its own frames and tables become Has(u, P), the
\* frames G are lost, and the frames R of the others are left alone.
OwnStep(t, R, g, u, P, G, sh, s, high) ==
  /\ IsTables(u) /\ \A x \in R \union KernelTables : u[x] = t[x]
  /\ s \in BOOLEAN /\ (sh => s) /\ ProcOK(u, P, high, s) /\ OwnApart(u, P)
  /\ Used(g) = R \union G \union Has(u, P)
  /\ R \cap (G \union Has(u, P)) = {} /\ G \cap Has(u, P) = {}

\* A step of one process keeps all of them in order.
LEMMA Settle ==
  ASSUME NEW f, NEW t, NEW pr, NEW l, NEW sh, SpaceOK(f, t, pr, l, sh), NEW p \in Procs,
         NEW g, NEW u, NEW P, NEW G, NEW s, NEW high, high = (t[K4][1] # Unused),
         OwnStep(t, Others(t, pr, l, p), g, u, P, G, sh, s, high)
  PROVE  SpaceOK(g, u, Put(pr, p, P), l \union G, s)
<1> DEFINE R == Others(t, pr, l, p)
<1>a. /\ IsTables(u) /\ \A x \in R \union KernelTables : u[x] = t[x]
      /\ s \in BOOLEAN /\ (sh => s) /\ ProcOK(u, P, high, s) /\ OwnApart(u, P)
      /\ Used(g) = R \union G \union Has(u, P)
      /\ R \cap (G \union Has(u, P)) = {} /\ G \cap Has(u, P) = {}
  BY DEF OwnStep
<1>b. R = Others(t, pr, l, p)
  OBVIOUS
<1> HIDE DEF R
<1> DEFINE n == [pr EXCEPT ![p] = P]
<1>0. K4 \in KernelTables
  BY KernelEntries
<1>1. KernelOK(u) /\ u[K4] = t[K4]
  BY <1>0, <1>a DEF SpaceOK, KernelOK
<1>2. n = [q \in Procs |-> n[q]] /\ n[p] = P /\ \A q \in Procs : q # p => n[q] = pr[q]
  BY DEF SpaceOK
<1> HIDE DEF n
<1>3. \A q \in Procs : q # p => Has(t, pr[q]) \subseteq R
  BY <1>b DEF Others
<1>4. ASSUME NEW q \in Procs, q # p
      PROVE  ProcOK(u, n[q], u[K4][1] # Unused, s) /\ Has(u, n[q]) = Has(t, pr[q]) /\ OwnApart(u, n[q])
  <2>1. \A x \in Has(t, pr[q]) : u[x] = t[x]
    BY <1>3, <1>4, <1>a
  <2>2. ProcOK(t, pr[q], t[K4][1] # Unused, sh) /\ OwnApart(t, pr[q])
    BY DEF SpaceOK
  <2>3. ProcOK(u, pr[q], t[K4][1] # Unused, s) /\ Has(u, pr[q]) = Has(t, pr[q]) /\ OwnApart(u, pr[q])
    BY <1>a, <2>1, <2>2, ProcKept
  <2> QED  BY <1>1, <1>2, <1>4, <2>3
<1>5. \A q \in Procs : ProcOK(u, n[q], u[K4][1] # Unused, s) /\ OwnApart(u, n[q])
  BY <1>1, <1>2, <1>4, <1>a
<1>6. R = Reserved \union l \union UNION {Has(u, n[q]) : q \in Procs \ {p}}
  BY <1>4, <1>b DEF Others
<1>7. Has(u, n[p]) = Has(u, P)
  BY <1>2
<1>8. Used(g) = Reserved \union (l \union G) \union UNION {Has(u, n[q]) : q \in Procs}
  <2>1. UNION {Has(u, n[q]) : q \in Procs} = Has(u, n[p]) \union UNION {Has(u, n[q]) : q \in Procs \ {p}}
    OBVIOUS
  <2> QED  BY <1>6, <1>7, <1>a, <2>1
<1>9. \A q \in Procs : Has(u, n[q]) \cap (Reserved \union (l \union G)) = {}
  <2> TAKE q \in Procs
  <2>1. CASE q = p
    <3>1. Reserved \union l \subseteq R
      BY <1>b DEF Others
    <3> QED  BY <1>7, <1>a, <2>1, <3>1
  <2>2. CASE q # p
    <3>1. Has(u, n[q]) = Has(t, pr[q]) /\ Has(t, pr[q]) \subseteq R
      BY <1>3, <1>4, <2>2
    <3>2. Has(t, pr[q]) \cap (Reserved \union l) = {}
      BY DEF SpaceOK
    <3> QED  BY <1>a, <3>1, <3>2
  <2> QED  BY <2>1, <2>2
<1>10. \A q, r \in Procs : q # r => Has(u, n[q]) \cap Has(u, n[r]) = {}
  <2> TAKE q, r \in Procs
  <2> HAVE q # r
  <2>1. CASE q # p /\ r # p
    <3>1. Has(u, n[q]) = Has(t, pr[q]) /\ Has(u, n[r]) = Has(t, pr[r])
      BY <1>4, <2>1
    <3> QED  BY <3>1 DEF SpaceOK
  <2>2. CASE q = p
    <3>1. Has(u, n[r]) \subseteq R
      BY <1>3, <1>4, <2>2
    <3> QED  BY <1>7, <1>a, <2>2, <3>1
  <2>3. CASE r = p
    <3>1. Has(u, n[q]) \subseteq R
      BY <1>3, <1>4, <2>3
    <3> QED  BY <1>7, <1>a, <2>3, <3>1
  <2> QED  BY <2>1, <2>2, <2>3
<1>11. SpaceOK(g, u, n, l \union G, s)
  BY <1>1, <1>2, <1>5, <1>a, <1>8, <1>9, <1>10 DEF SpaceOK
<1> QED  BY <1>11 DEF n, Put

\* A call for a process starts.
LEMMA MidIn ==
  ASSUME SpaceOK(fa, tables, procs, lost, shadowed), AllocOK(fa), panic = "no", NEW p \in Procs,
         NEW P, P = procs[p], P.st \in {"loading", "live"}, NEW high, high = (tables[K4][1] # Unused)
  PROVE  /\ Mid(Snapshot, P.root, Range(P.frames), Others(tables, procs, lost, p), P.elf, high)
         /\ KernelMet(high) /\ ProcOK(tables, P, high, shadowed) /\ P \in {procs[p]}
         /\ Snapshot.tables = tables
<1> DEFINE R == Others(tables, procs, lost, p)
<1>1. /\ Mem(Snapshot) /\ Snapshot.panic = "no" /\ Snapshot.fa = fa /\ Snapshot.tables = tables
  BY DEF Snapshot, Mem
<1>2. ProcOK(tables, P, high, shadowed) /\ OwnApart(tables, P) /\ IsTables(tables) /\ KernelOK(tables)
  BY DEF SpaceOK
<1>3. TreeOK(tables, P.root, high) /\ (P.elf => ElfOK(tables, P.root, Range(P.frames)))
  BY <1>2 DEF ProcOK, TreeOK
<1>4. Has(tables, P) = Own(tables, P.root) \union Range(P.frames)
  BY DEF Has
<1>5. Used(fa) = R \union Own(tables, P.root) \union Range(P.frames)
  <2>1. UNION {Has(tables, procs[q]) : q \in Procs}
          = Has(tables, P) \union UNION {Has(tables, procs[q]) : q \in Procs \ {p}}
    OBVIOUS
  <2> QED  BY <1>4, <2>1 DEF SpaceOK, Others
<1>6. R \cap (Own(tables, P.root) \union Range(P.frames)) = {}
  <2>1. \A q \in Procs \ {p} : Has(tables, procs[q]) \cap Has(tables, P) = {}
    BY DEF SpaceOK
  <2>2. Has(tables, P) \cap (Reserved \union lost) = {}
    BY DEF SpaceOK
  <2> QED  BY <1>4, <2>1, <2>2 DEF Others
<1>7. Own(tables, P.root) \cap Range(P.frames) = {}
  BY <1>2 DEF OwnApart
<1> HIDE DEF R
<1>8. Mid(Snapshot, P.root, Range(P.frames), R, P.elf, high)
  BY <1>1, <1>3, <1>5, <1>6, <1>7 DEF Mid
<1> QED  BY <1>1, <1>2, <1>8 DEF KernelMet, R

\* And ends.
EndsAs(P, t, elf, sh, s) ==
  /\ Shaped(P) /\ P.st \in {"loading", "live", "dying"} /\ P.elf \in BOOLEAN /\ Listed(P)
  /\ P.st = "dying" => P.todo = <<0, 1>>
  /\ s \in BOOLEAN /\ (sh => s)
  /\ P.st = "loading" /\ P.elf => Loaded(t, P)
  /\ P.st # "dying" /\ P.elf => elf /\ (~s => Matched(t, P))

\* Then all processes are in order.
LEMMA MidOut ==
  ASSUME SpaceOK(fa, tables, procs, lost, shadowed), NEW p \in Procs,
         NEW high, high = (tables[K4][1] # Unused), NEW n, NEW elf, NEW P, NEW s,
         Mid(n, P.root, Range(P.frames), Others(tables, procs, lost, p), elf, high),
         EndsAs(P, n.tables, elf, shadowed, s)
  PROVE  SpaceOK(n.fa, n.tables, Put(procs, p, P), lost, s)
<1> DEFINE D == Range(P.frames)
<1>0. /\ Shaped(P) /\ P.st \in {"loading", "live", "dying"} /\ P.elf \in BOOLEAN /\ Listed(P)
      /\ P.st = "dying" => P.todo = <<0, 1>>
      /\ s \in BOOLEAN /\ (shadowed => s)
      /\ P.st = "loading" /\ P.elf => Loaded(n.tables, P)
      /\ P.st # "dying" /\ P.elf => elf /\ (~s => Matched(n.tables, P))
  BY DEF EndsAs
<1> DEFINE R == Others(tables, procs, lost, p)
<1>1. /\ TreeOK(n.tables, P.root, high) /\ Used(n.fa) = R \union Own(n.tables, P.root) \union D
      /\ R \cap (Own(n.tables, P.root) \union D) = {} /\ Own(n.tables, P.root) \cap D = {}
      /\ \A x \in R \union KernelTables : n.tables[x] = tables[x]
      /\ elf => ElfOK(n.tables, P.root, D)
  BY DEF Mid
<1>2. Has(n.tables, P) = Own(n.tables, P.root) \union D /\ OwnApart(n.tables, P)
  BY <1>0, <1>1 DEF Has, OwnApart
<1>3. P.st = "dying" => \A i \in 0..1 : i \in Range(P.todo)
  <2>1. Range(<<0, 1>>) = {0, 1}
    BY DEF Range
  <2> QED  BY <1>0, <2>1
<1>4. ProcOK(n.tables, P, high, s)
  BY <1>0, <1>1, <1>3 DEF ProcOK, TreeOK
<1>5. IsTables(n.tables)
  BY <1>1 DEF TreeOK
<1> DEFINE G == {}
           X == Others(tables, procs, lost, p)
           g == n.fa
           u == n.tables
<1>6. OwnStep(tables, X, g, u, P, G, shadowed, s, high)
  BY <1>0, <1>1, <1>2, <1>4, <1>5 DEF OwnStep
<1>7. SpaceOK(g, u, Put(procs, p, P), lost \union G, s)
  <2> HIDE DEF G, g, u, D, R, X
  <2>1. OwnStep(tables, Others(tables, procs, lost, p), g, u, P, G, shadowed, s, high)
    BY <1>6 DEF X
  <2> QED  BY <2>1, Settle
<1>8. lost \union G = lost
  OBVIOUS
<1> QED  BY <1>7, <1>8

-----------------------------------------------------------------------------
(* The steps.                                                              *)

\* A call that ends with memory in order keeps the invariant.
LEMMA CommitOK ==
  ASSUME NEW n, Commit(n), AllocOK(n.fa), n.panic # "double free", n.panic # "unknown frame",
         n.panic = "no" => SpaceOK(n.fa, n.tables, procs', lost', shadowed')
  PROVE  SpaceInv'
BY DEF SpaceInv, Commit

\* A call in which the kernel stops keeps the invariant.
LEMMA StoppedOK ==
  ASSUME NEW n, Commit(n), Stopped(n)
  PROVE  SpaceInv'
<1>1. AllocOK(n.fa) /\ n.panic # "double free" /\ n.panic # "unknown frame" /\ n.panic # "no"
  BY DEF Stopped
<1> QED  BY <1>1, CommitOK

\* The kernel stops at a frame of no region.
LEMMA UnknownOK ==
  ASSUME NEW n, NEW m, Commit(n), Halted(n, m, "unknown frame"), m.tables[K4][1] # Unused
  PROVE  SpaceInv'
<1>1. AllocOK(n.fa) /\ n.panic = "unknown frame" /\ n.tables[K4] = m.tables[K4]
  BY KernelEntries DEF Halted
<1> QED  BY <1>1 DEF SpaceInv, Commit

\* The kernel stops at a frame that is given back twice.
LEMMA DoubleOK ==
  ASSUME NEW n, NEW m, Commit(n), Halted(n, m, "double free"), NEW p \in Procs, OnStack(procs'[p].prog)
  PROVE  SpaceInv'
<1>1. AllocOK(n.fa) /\ n.panic = "double free"
  BY DEF Halted
<1> QED  BY <1>1 DEF SpaceInv, Commit

\* A call that ends with the process in order keeps the invariant.
LEMMA MidEnds ==
  ASSUME SpaceOK(fa, tables, procs, lost, shadowed), NEW p \in Procs,
         NEW high, high = (tables[K4][1] # Unused), NEW n, NEW elf, NEW P, NEW s,
         Mid(n, P.root, Range(P.frames), Others(tables, procs, lost, p), elf, high),
         EndsAs(P, n.tables, elf, shadowed, s),
         Commit(n), procs' = Put(procs, p, P), lost' = lost, shadowed' = s
  PROVE  SpaceInv'
<1>1. SpaceOK(n.fa, n.tables, Put(procs, p, P), lost, s)
  BY MidOut
<1>2. AllocOK(n.fa) /\ n.panic = "no"
  BY DEF Mid
<1> QED  BY <1>1, <1>2, CommitOK

\* What a process is when a call starts.
LEMMA ProcIs ==
  ASSUME SpaceInv, Running, NEW p \in Procs, NEW P, P = procs[p]
  PROVE  /\ SpaceOK(fa, tables, procs, lost, shadowed) /\ AllocOK(fa) /\ panic = "no" /\ shadowed \in BOOLEAN
         /\ ProcOK(tables, P, tables[K4][1] # Unused, shadowed) /\ Shaped(P) /\ P.elf \in BOOLEAN
         /\ P.st # "none" => Listed(P)
         /\ procs = [q \in Procs |-> procs[q]]
BY DEF SpaceInv, Running, SpaceOK, ProcOK

\* Fields of a process change.
LoadedAs(pr, p, a, b, c, d) == [pr EXCEPT ![p].todo = a, ![p].frames = b, ![p].vmas = c, ![p].st = d]

\* The record of the process whose page was loaded.
LEMMA PageLoaded ==
  ASSUME NEW pr, pr = [q \in Procs |-> pr[q]], NEW p \in Procs, Shaped(pr[p]), NEW a, NEW b, NEW c, NEW d
  PROVE  LET P == pr[p]
         IN  LoadedAs(pr, p, a, b, c, d) = Put(pr, p, [st |-> d, root |-> P.root, frames |-> b, vmas |-> c, todo |-> a, elf |-> P.elf, prog |-> P.prog])
<1> DEFINE P == pr[p]
           L == [pr EXCEPT ![p].todo = a, ![p].frames = b, ![p].vmas = c, ![p].st = d]
           M == [pr EXCEPT ![p] = [st |-> d, root |-> P.root, frames |-> b, vmas |-> c, todo |-> a, elf |-> P.elf, prog |-> P.prog]]
<1>1. L = [q \in Procs |-> L[q]] /\ M = [q \in Procs |-> M[q]]
  OBVIOUS
<1>2. \A q \in Procs : q # p => L[q] = M[q]
  OBVIOUS
<1>3. L[p] = [st |-> d, root |-> P.root, frames |-> b, vmas |-> c, todo |-> a, elf |-> P.elf, prog |-> P.prog]
  BY DEF Shaped
<1>4. M[p] = [st |-> d, root |-> P.root, frames |-> b, vmas |-> c, todo |-> a, elf |-> P.elf, prog |-> P.prog]
  OBVIOUS
<1> HIDE DEF L, M
<1>5. \A q \in Procs : L[q] = M[q]
  BY <1>2, <1>3, <1>4
<1>6. L = M
  BY <1>1, <1>5
<1> QED  BY <1>6 DEF L, M, LoadedAs, Put

OpenedAs(pr, p, a, d) == [pr EXCEPT ![p].todo = a, ![p].st = d]

\* The record of the process whose page was opened.
LEMMA PageOpened ==
  ASSUME NEW pr, pr = [q \in Procs |-> pr[q]], NEW p \in Procs, Shaped(pr[p]), NEW a, NEW d
  PROVE  LET P == pr[p]
         IN  OpenedAs(pr, p, a, d) = Put(pr, p, [st |-> d, root |-> P.root, frames |-> P.frames, vmas |-> P.vmas, todo |-> a, elf |-> P.elf, prog |-> P.prog])
<1> DEFINE P == pr[p]
           L == [pr EXCEPT ![p].todo = a, ![p].st = d]
           M == [pr EXCEPT ![p] = [st |-> d, root |-> P.root, frames |-> P.frames, vmas |-> P.vmas, todo |-> a, elf |-> P.elf, prog |-> P.prog]]
<1>1. L = [q \in Procs |-> L[q]] /\ M = [q \in Procs |-> M[q]]
  OBVIOUS
<1>2. \A q \in Procs : q # p => L[q] = M[q]
  OBVIOUS
<1>3. L[p] = [st |-> d, root |-> P.root, frames |-> P.frames, vmas |-> P.vmas, todo |-> a, elf |-> P.elf, prog |-> P.prog]
  BY DEF Shaped
<1>4. M[p] = [st |-> d, root |-> P.root, frames |-> P.frames, vmas |-> P.vmas, todo |-> a, elf |-> P.elf, prog |-> P.prog]
  OBVIOUS
<1> HIDE DEF L, M
<1>5. \A q \in Procs : L[q] = M[q]
  BY <1>2, <1>3, <1>4
<1>6. L = M
  BY <1>1, <1>5
<1> QED  BY <1>6 DEF L, M, OpenedAs, Put

MappedAs(pr, p, b, c) == [pr EXCEPT ![p].frames = b, ![p].vmas = c]

\* The record of the process that has mapped pages.
LEMMA PagesAdded ==
  ASSUME NEW pr, pr = [q \in Procs |-> pr[q]], NEW p \in Procs, Shaped(pr[p]), NEW b, NEW c
  PROVE  LET P == pr[p]
         IN  MappedAs(pr, p, b, c) = Put(pr, p, [st |-> P.st, root |-> P.root, frames |-> b, vmas |-> c, todo |-> P.todo, elf |-> P.elf, prog |-> P.prog])
<1> DEFINE P == pr[p]
           L == [pr EXCEPT ![p].frames = b, ![p].vmas = c]
           M == [pr EXCEPT ![p] = [st |-> P.st, root |-> P.root, frames |-> b, vmas |-> c, todo |-> P.todo, elf |-> P.elf, prog |-> P.prog]]
<1>1. L = [q \in Procs |-> L[q]] /\ M = [q \in Procs |-> M[q]]
  OBVIOUS
<1>2. \A q \in Procs : q # p => L[q] = M[q]
  OBVIOUS
<1>3. L[p] = [st |-> P.st, root |-> P.root, frames |-> b, vmas |-> c, todo |-> P.todo, elf |-> P.elf, prog |-> P.prog]
  BY DEF Shaped
<1>4. M[p] = [st |-> P.st, root |-> P.root, frames |-> b, vmas |-> c, todo |-> P.todo, elf |-> P.elf, prog |-> P.prog]
  OBVIOUS
<1> HIDE DEF L, M
<1>5. \A q \in Procs : L[q] = M[q]
  BY <1>2, <1>3, <1>4
<1>6. L = M
  BY <1>1, <1>5
<1> QED  BY <1>6 DEF L, M, MappedAs, Put

UnmappedAs(pr, p, c, b) == [pr EXCEPT ![p].vmas = c, ![p].frames = b]

\* The record of the process that has unmapped pages.
LEMMA PagesRemoved ==
  ASSUME NEW pr, pr = [q \in Procs |-> pr[q]], NEW p \in Procs, Shaped(pr[p]), NEW c, NEW b
  PROVE  LET P == pr[p]
         IN  UnmappedAs(pr, p, c, b) = Put(pr, p, [st |-> P.st, root |-> P.root, frames |-> b, vmas |-> c, todo |-> P.todo, elf |-> P.elf, prog |-> P.prog])
<1> DEFINE P == pr[p]
           L == [pr EXCEPT ![p].vmas = c, ![p].frames = b]
           M == [pr EXCEPT ![p] = [st |-> P.st, root |-> P.root, frames |-> b, vmas |-> c, todo |-> P.todo, elf |-> P.elf, prog |-> P.prog]]
<1>1. L = [q \in Procs |-> L[q]] /\ M = [q \in Procs |-> M[q]]
  OBVIOUS
<1>2. \A q \in Procs : q # p => L[q] = M[q]
  OBVIOUS
<1>3. L[p] = [st |-> P.st, root |-> P.root, frames |-> b, vmas |-> c, todo |-> P.todo, elf |-> P.elf, prog |-> P.prog]
  BY DEF Shaped
<1>4. M[p] = [st |-> P.st, root |-> P.root, frames |-> b, vmas |-> c, todo |-> P.todo, elf |-> P.elf, prog |-> P.prog]
  OBVIOUS
<1> HIDE DEF L, M
<1>5. \A q \in Procs : L[q] = M[q]
  BY <1>2, <1>3, <1>4
<1>6. L = M
  BY <1>1, <1>5
<1> QED  BY <1>6 DEF L, M, UnmappedAs, Put

EndingAs(pr, p, d, b, a) == [pr EXCEPT ![p].st = d, ![p].frames = b, ![p].todo = a]

\* The record of the process that is ended.
LEMMA Ending ==
  ASSUME NEW pr, pr = [q \in Procs |-> pr[q]], NEW p \in Procs, Shaped(pr[p]), NEW d, NEW b, NEW a
  PROVE  LET P == pr[p]
         IN  EndingAs(pr, p, d, b, a) = Put(pr, p, [st |-> d, root |-> P.root, frames |-> b, vmas |-> P.vmas, todo |-> a, elf |-> P.elf, prog |-> P.prog])
<1> DEFINE P == pr[p]
           L == [pr EXCEPT ![p].st = d, ![p].frames = b, ![p].todo = a]
           M == [pr EXCEPT ![p] = [st |-> d, root |-> P.root, frames |-> b, vmas |-> P.vmas, todo |-> a, elf |-> P.elf, prog |-> P.prog]]
<1>1. L = [q \in Procs |-> L[q]] /\ M = [q \in Procs |-> M[q]]
  OBVIOUS
<1>2. \A q \in Procs : q # p => L[q] = M[q]
  OBVIOUS
<1>3. L[p] = [st |-> d, root |-> P.root, frames |-> b, vmas |-> P.vmas, todo |-> a, elf |-> P.elf, prog |-> P.prog]
  BY DEF Shaped
<1>4. M[p] = [st |-> d, root |-> P.root, frames |-> b, vmas |-> P.vmas, todo |-> a, elf |-> P.elf, prog |-> P.prog]
  OBVIOUS
<1> HIDE DEF L, M
<1>5. \A q \in Procs : L[q] = M[q]
  BY <1>2, <1>3, <1>4
<1>6. L = M
  BY <1>1, <1>5
<1> QED  BY <1>6 DEF L, M, EndingAs, Put

DoneAs(pr, p, a) == [pr EXCEPT ![p].todo = a]

\* The record of the process one of whose root's entries is done.
LEMMA EntryDone ==
  ASSUME NEW pr, pr = [q \in Procs |-> pr[q]], NEW p \in Procs, Shaped(pr[p]), NEW a
  PROVE  LET P == pr[p]
         IN  DoneAs(pr, p, a) = Put(pr, p, [st |-> P.st, root |-> P.root, frames |-> P.frames, vmas |-> P.vmas, todo |-> a, elf |-> P.elf, prog |-> P.prog])
<1> DEFINE P == pr[p]
           L == [pr EXCEPT ![p].todo = a]
           M == [pr EXCEPT ![p] = [st |-> P.st, root |-> P.root, frames |-> P.frames, vmas |-> P.vmas, todo |-> a, elf |-> P.elf, prog |-> P.prog]]
<1>1. L = [q \in Procs |-> L[q]] /\ M = [q \in Procs |-> M[q]]
  OBVIOUS
<1>2. \A q \in Procs : q # p => L[q] = M[q]
  OBVIOUS
<1>3. L[p] = [st |-> P.st, root |-> P.root, frames |-> P.frames, vmas |-> P.vmas, todo |-> a, elf |-> P.elf, prog |-> P.prog]
  BY DEF Shaped
<1>4. M[p] = [st |-> P.st, root |-> P.root, frames |-> P.frames, vmas |-> P.vmas, todo |-> a, elf |-> P.elf, prog |-> P.prog]
  OBVIOUS
<1> HIDE DEF L, M
<1>5. \A q \in Procs : L[q] = M[q]
  BY <1>2, <1>3, <1>4
<1>6. L = M
  BY <1>1, <1>5
<1> QED  BY <1>6 DEF L, M, DoneAs, Put

\* A page below the limit.
LEMMA BelowLimit ==
  ASSUME NEW x \in 0..MapLimit - 1, MapLimit \in Nat, MapLimit <= 16
  PROVE  x \in Nat /\ x < MapLimit /\ x \in Pages
<1>1. x \in Nat /\ x < MapLimit /\ x \in 0..15
  OBVIOUS
<1> QED  BY <1>1 DEF Pages

\* A sequence over a set is one over any larger set.
LEMMA Widen ==
  ASSUME NEW S, NEW T, S \subseteq T, NEW w \in Seq(S)
  PROVE  w \in Seq(T)
<1>1. Len(w) \in Nat /\ w \in [1..Len(w) -> S]
  OBVIOUS
<1>2. w \in [1..Len(w) -> T]
  BY <1>1
<1> QED  BY <1>1, <1>2

\* What a program is.
LEMMA ProgramIs ==
  ASSUME NEW g \in Programs
  PROVE  /\ g \in Seq(Items) /\ Len(g) \in Nat /\ DOMAIN g = 1..Len(g)
         /\ \A i \in DOMAIN g :
              /\ g[i].page \in Nat /\ g[i].page < MapLimit /\ g[i].page \in Pages /\ g[i].perm \in SUBSET {"w", "x"}
              /\ g[i].seg \in Ranges /\ Covers(g[i].seg, g[i].page)
              /\ \A o \in Nat : Covers(g[i].seg, o) => \E j \in DOMAIN g : g[j].page = o
<1>1. g \in Seq(Items) /\ MapLimit \in Nat /\ MapLimit <= 16
  BY SpaceConstants
<1>2. Len(g) \in Nat /\ DOMAIN g = 1..Len(g)
  BY <1>1
<1>3. ASSUME NEW i \in DOMAIN g
      PROVE  /\ g[i].page \in Nat /\ g[i].page < MapLimit /\ g[i].page \in Pages /\ g[i].perm \in SUBSET {"w", "x"}
             /\ g[i].seg \in Ranges /\ Covers(g[i].seg, g[i].page)
             /\ \A o \in Nat : Covers(g[i].seg, o) => \E j \in DOMAIN g : g[j].page = o
  <2> DEFINE e == g[i]
             w == e.seg
  <2>1. e \in Items
    BY <1>1, <1>2
  <2>2. /\ e.page \in w.from .. w.to - 1
        /\ \A o \in w.from .. w.to - 1 : \E j \in DOMAIN g : g[j].page = o
    BY SpaceConstants
  <2> HIDE DEF e
  <2>3. e.page \in 0..MapLimit - 1 /\ e.perm \in SUBSET {"w", "x"} /\ w \in [from : 0..MapLimit, to : 0..MapLimit]
    BY <2>1 DEF Items
  <2> HIDE DEF w
  <2>4. w.from \in 0..MapLimit /\ w.to \in 0..MapLimit /\ w \in [from : Nat, to : Nat]
    BY <1>1, <2>3
  <2>5. w \in Ranges /\ Covers(w, e.page)
    BY <1>1, <2>2, <2>3, <2>4 DEF Ranges, Covers
  <2>6. \A o \in Nat : Covers(w, o) => o \in w.from .. w.to - 1
    BY <1>1, <2>4 DEF Covers
  <2>7. e.page \in Nat /\ e.page < MapLimit /\ e.page \in Pages
    BY <1>1, <2>3, BelowLimit
  <2>8. \A o \in Nat : Covers(w, o) => \E j \in DOMAIN g : g[j].page = o
    BY <2>2, <2>6
  <2> QED  BY <2>3, <2>5, <2>7, <2>8 DEF e, w
<1> QED  BY <1>1, <1>2, <1>3

\* The next page of a program is taken.
LEMMA NextItem ==
  ASSUME NEW P, Awaited(P), P.prog \in Seq(Items), P.todo # <<>>, NEW N, N.prog = P.prog, N.todo = Tail(P.todo)
  PROVE  /\ Done(P) \in Nat /\ Done(P) + 1 \in DOMAIN P.prog /\ Head(P.todo) = P.prog[Done(P) + 1]
         /\ Awaited(N) /\ Done(N) = Done(P) + 1 /\ (Len(P.todo) = 1 => Done(N) = Len(P.prog))
<1> DEFINE g == P.prog
           q == P.todo
           r == Tail(q)
<1>1. q \in Seq(Items) /\ g \in Seq(Items) /\ q # <<>> /\ Len(q) <= Len(g)
      /\ Done(P) = Len(g) - Len(q) /\ Done(N) = Len(g) - Len(r)
      /\ \A i \in 1..Len(q) : q[i] = g[(Len(g) - Len(q)) + i]
  BY DEF Awaited, Done
<1>2. /\ Len(q) \in Nat /\ Len(g) \in Nat /\ DOMAIN g = 1..Len(g) /\ Len(q) # 0
      /\ r \in Seq(Items) /\ Len(r) = Len(q) - 1 /\ Head(q) = q[1]
      /\ \A i \in 1..Len(r) : r[i] = q[i + 1]
  <2> HIDE DEF g, q
  <2> QED  BY <1>1, HeadTailProperties
<1>3. N.todo = r /\ N.prog = g
  OBVIOUS
<1> HIDE DEF g, q, r
<1>4. /\ Done(P) \in Nat /\ Done(P) + 1 \in DOMAIN g /\ Done(N) = Done(P) + 1
      /\ (Len(q) = 1 => Done(N) = Len(g)) /\ 1 \in 1..Len(q)
  BY <1>1, <1>2
<1>5. Head(q) = g[Done(P) + 1]
  BY <1>1, <1>2, <1>4
<1>6. \A i \in 1..Len(r) : r[i] = g[Done(N) + i]
  <2> TAKE i \in 1..Len(r)
  <2>1. i + 1 \in 1..Len(q) /\ (Len(g) - Len(q)) + (i + 1) = Done(N) + i
    BY <1>1, <1>2
  <2> QED  BY <1>1, <1>2, <2>1
<1>7. Len(r) <= Len(g)
  BY <1>1, <1>2
<1>8. Awaited(N)
  BY <1>2, <1>3, <1>6, <1>7 DEF Awaited
<1> QED  BY <1>4, <1>5, <1>8 DEF g, q

\* The range of a segment is put into the list.
LEMMA SegInserted ==
  ASSUME NEW g \in Programs, NEW s \in Seq(Ranges), SegsOf(s, g), NEW i \in DOMAIN g
  PROVE  LET q == InsertVma(s, g[i].seg)
         IN  /\ q \in Seq(Ranges) /\ SegsOf(q, g) /\ Range(s) \subseteq Range(q)
             /\ NoOverlap(g) => g[i].seg \in Range(q)
<1> DEFINE v == g[i].seg
           q == InsertVma(s, v)
<1>1. v \in Ranges
  BY ProgramIs
<1>2. Inserted(q, s, v)
  <2> HIDE DEF v
  <2> QED  BY <1>1, InsertVmaOK
<1> HIDE DEF q
<1>3. /\ q \in Seq(Ranges)
      /\ \/ q = s /\ \E w \in Range(s) : Overlaps(v, w)
         \/ Range(q) = Range(s) \union {v}
  BY <1>2 DEF Inserted
<1>4. CASE q = s /\ \E w \in Range(s) : Overlaps(v, w)
  <2>1. PICK w \in Range(s) : Overlaps(v, w)
    BY <1>4
  <2>2. PICK j \in DOMAIN g : w = g[j].seg
    BY DEF SegsOf
  <2>3. NoOverlap(g) => v = w
    BY <2>1, <2>2 DEF NoOverlap
  <2> QED  BY <1>3, <1>4, <2>3 DEF q
<1>5. CASE Range(q) = Range(s) \union {v}
  BY <1>3, <1>5 DEF SegsOf, q
<1> QED  BY <1>3, <1>4, <1>5

\* map_user_pages_in_process(), for a page of a program.
LEMMA LoadPageStep ==
  ASSUME SpaceInv, NEW p \in Procs, LoadPage(p)
  PROVE  SpaceInv'
<1> DEFINE P == procs[p]
           item == Head(P.todo)
           D == Range(P.frames)
           R == Others(tables, procs, lost, p)
           high == tables[K4][1] # Unused
           n == MapLoaded(Snapshot, P.root, item, D)
           b == IF ~item.stack /\ n.got \in D THEN P.frames ELSE Append(P.frames, n.got)
           c == InsertVma(P.vmas, item.seg)
           d == IF Len(P.todo) = 1 THEN "live" ELSE P.st
           N == [st |-> d, root |-> P.root, frames |-> b, vmas |-> c, todo |-> Tail(P.todo), elf |-> P.elf,
                 prog |-> P.prog]
<1>1. Running /\ P.st = "loading" /\ P.todo # <<>> /\ P.elf
  BY DEF LoadPage
<1>2. /\ SpaceOK(fa, tables, procs, lost, shadowed) /\ AllocOK(fa) /\ panic = "no" /\ shadowed \in BOOLEAN
      /\ ProcOK(tables, P, high, shadowed) /\ Shaped(P) /\ P.elf \in BOOLEAN /\ Listed(P)
      /\ procs = [q \in Procs |-> procs[q]]
  BY <1>1, ProcIs
<1>3. Commit(n) /\ lost' = lost /\ shadowed' = shadowed
  BY DEF LoadPage
<1>4. procs' = Put(procs, p, N)
  <2> DEFINE a == Tail(P.todo)
  <2>1. procs' = [procs EXCEPT
            ![p].todo = Tail(@),
            ![p].frames = IF ~item.stack /\ n.got \in Range(@) THEN @ ELSE Append(@, n.got),
            ![p].vmas = InsertVma(@, item.seg),
            ![p].st = IF Len(P.todo) = 1 THEN "live" ELSE @]
    BY DEF LoadPage
  <2>2. procs' = LoadedAs(procs, p, a, b, c, d)
    <3> HIDE DEF n, item
    <3> QED  BY <1>2, <2>1 DEF LoadedAs
  <2> HIDE DEF a, b, c, d
  <2>3. procs' = Put(procs, p, [st |-> d, root |-> P.root, frames |-> b, vmas |-> c, todo |-> a, elf |-> P.elf, prog |-> P.prog])
    BY <1>2, <2>2, PageLoaded
  <2> QED  BY <2>3 DEF a
<1>5. /\ Mid(Snapshot, P.root, D, R, TRUE, high) /\ KernelMet(high) /\ Snapshot.tables = tables
  <2>1. P.st \in {"loading", "live"} /\ P.elf = TRUE
    BY <1>1, <1>2
  <2>2. P = procs[p] /\ high = (tables[K4][1] # Unused)
    OBVIOUS
  <2> HIDE DEF P, high
  <2>3. /\ Mid(Snapshot, P.root, Range(P.frames), Others(tables, procs, lost, p), P.elf, high)
        /\ KernelMet(high) /\ Snapshot.tables = tables
    BY <1>2, <2>1, <2>2, MidIn
  <2> QED  BY <2>1, <2>3
<1> DEFINE g == P.prog
           k == Done(P)
<1>6. /\ g \in Programs /\ Awaited(P) /\ SegsOf(P.vmas, g) /\ P.vmas \in Seq(Ranges) /\ Loaded(tables, P)
      /\ P.frames \in Seq(RamFrames) /\ (~OnStack(g) => Distinct(P.frames))
  BY <1>1, <1>2 DEF Listed, ProcOK
<1>7. /\ k \in Nat /\ k + 1 \in DOMAIN g /\ item = g[k + 1]
      /\ Awaited(N) /\ Done(N) = k + 1 /\ (Len(P.todo) = 1 => k + 1 = Len(g))
  <2>1. N.prog = P.prog /\ N.todo = Tail(P.todo) /\ P.prog \in Seq(Items)
    BY <1>6, ProgramIs
  <2> HIDE DEF N, P
  <2> QED  BY <1>1, <1>6, <2>1, NextItem
<1>8. /\ item.page \in Nat /\ item.page \in Pages /\ item.perm \in SUBSET {"w", "x"} /\ Covers(item.seg, item.page)
  <2> HIDE DEF item, P
  <2> QED  BY <1>6, <1>7, ProgramIs
<1>9. PageMapped(n, Snapshot, P.root, D, R, high, item.page)
  <2> HIDE DEF P, item, D, R, high
  <2> QED  BY <1>5, <1>8, MapLoadedOK
<1>10. /\ c \in Seq(Ranges) /\ SegsOf(c, g) /\ Range(P.vmas) \subseteq Range(c)
       /\ NoOverlap(g) => item.seg \in Range(c)
  <2> DEFINE i == k + 1
             s == P.vmas
  <2>1. g \in Programs /\ s \in Seq(Ranges) /\ SegsOf(s, g) /\ i \in DOMAIN g /\ item = g[i] /\ c = InsertVma(s, item.seg)
    BY <1>6, <1>7
  <2> HIDE DEF g, i, s, item, c
  <2>2. LET q == InsertVma(s, g[i].seg)
        IN  /\ q \in Seq(Ranges) /\ SegsOf(q, g) /\ Range(s) \subseteq Range(q)
            /\ NoOverlap(g) => g[i].seg \in Range(q)
    BY <2>1, SegInserted
  <2>3. c \in Seq(Ranges) /\ SegsOf(c, g) /\ Range(s) \subseteq Range(c) /\ (NoOverlap(g) => item.seg \in Range(c))
    BY <2>1, <2>2
  <2> QED  BY <2>3 DEF s
<1>11. /\ N.st = d /\ N.root = P.root /\ N.vmas = c /\ N.elf = P.elf /\ N.todo = Tail(P.todo) /\ N.frames = b
       /\ N.prog = g /\ Shaped(N) /\ d \in {"loading", "live"} /\ (d = "live" => Len(P.todo) = 1)
  BY <1>1 DEF Shaped
<1> HIDE DEF n, item, c, d, N, k
<1>12. CASE Stopped(n)
  BY <1>3, <1>12, StoppedOK
<1>13. CASE ~Stopped(n)
  <2>1. /\ n.got \in RamFrames /\ Mid(n, P.root, D \union {n.got}, R, TRUE, high)
        /\ n.got \in D => InUse(tables, P.root, item.page)
        /\ \A o \in Pages : InUse(n.tables, P.root, o) <=> InUse(tables, P.root, o) \/ o = item.page
    BY <1>5, <1>9, <1>13 DEF PageMapped
  <2>2. n.got \in D /\ item.stack => OnStack(g)
    <3> SUFFICES ASSUME n.got \in D, item.stack PROVE OnStack(g)
      OBVIOUS
    <3>1. PICK j \in 1..k : g[j].page = item.page
      BY <1>6, <1>8, <2>1 DEF Loaded, k
    <3>2. Len(g) \in Nat /\ DOMAIN g = 1..Len(g)
      BY <1>6, ProgramIs
    <3>3. j \in DOMAIN g /\ k + 1 \in DOMAIN g /\ j < k + 1
      BY <1>7, <3>2
    <3> QED  BY <1>7, <3>1, <3>3 DEF OnStack
  <2>3. b \in Seq(RamFrames) /\ (~OnStack(g) => Distinct(b)) /\ Range(b) = D \union {n.got}
    <3>1. CASE ~item.stack /\ n.got \in D
      BY <1>6, <3>1
    <3>2. CASE ~(~item.stack /\ n.got \in D)
      <4>1. /\ Append(P.frames, n.got) \in Seq(RamFrames) /\ Range(Append(P.frames, n.got)) = D \union {n.got}
            /\ Distinct(P.frames) /\ n.got \notin D => Distinct(Append(P.frames, n.got))
        BY <1>6, <2>1, OneMore
      <4>2. ~OnStack(g) => n.got \notin D
        BY <2>2, <3>2
      <4> QED  BY <1>6, <3>2, <4>1, <4>2
    <3> QED  BY <3>1, <3>2
  <2> HIDE DEF b
  <2>4. Listed(N)
    <3>1. N.st # "dying" /\ N.elf = TRUE
      BY <1>1, <1>2, <1>11
    <3> QED  BY <1>6, <1>7, <1>10, <1>11, <2>3, <3>1 DEF Listed
  <2>5. \A o \in Pages : InUse(n.tables, P.root, o) <=> \E j \in 1..k + 1 : g[j].page = o
    <3> TAKE o \in Pages
    <3>1. InUse(tables, P.root, o) <=> \E j \in 1..k : g[j].page = o
      BY <1>6 DEF Loaded, k
    <3>2. 1..k + 1 = (1..k) \union {k + 1}
      BY <1>7
    <3> QED  BY <1>7, <2>1, <3>1, <3>2
  <2>6. Loaded(n.tables, N)
    BY <1>7, <1>11, <2>5 DEF Loaded
  <2>7. ~shadowed => Matched(n.tables, N)
    <3> SUFFICES ASSUME ~shadowed PROVE Matched(n.tables, N)
      OBVIOUS
    <3>1. \A o \in 0..MapLimit - 1 : o \in Pages /\ o \in Nat
      BY SpaceConstants DEF Pages
    <3>2. ASSUME d = "live", NEW o \in 0..MapLimit - 1, Cover(c, o) PROVE InUse(n.tables, P.root, o)
      <4>1. PICK v \in Range(c) : Covers(v, o)
        BY <3>2 DEF Cover
      <4>2. PICK i \in DOMAIN g : v = g[i].seg
        BY <1>10 DEF SegsOf
      <4>3. PICK j \in DOMAIN g : g[j].page = o
        <5> HIDE DEF g
        <5> QED  BY <1>6, <3>1, <4>1, <4>2, ProgramIs
      <4>4. j \in 1..k + 1
        <5>1. DOMAIN g = 1..Len(g)
          BY <1>6, ProgramIs
        <5> QED  BY <1>7, <1>11, <3>2, <5>1
      <4> QED  BY <2>5, <3>1, <4>3, <4>4
    <3>3. ASSUME NoOverlap(g), NEW o \in 0..MapLimit - 1, InUse(n.tables, P.root, o) PROVE Cover(c, o)
      <4>1. CASE o = item.page
        BY <1>8, <1>10, <3>3, <4>1 DEF Cover
      <4>2. CASE InUse(tables, P.root, o)
        <5>1. Matched(tables, P)
          BY <1>1, <1>2 DEF ProcOK
        <5>2. Cover(P.vmas, o)
          BY <3>3, <4>2, <5>1 DEF Matched
        <5> QED  BY <1>10, <5>2 DEF Cover
      <4> QED  BY <2>1, <3>1, <3>3, <4>1, <4>2
    <3> HIDE DEF P, g
    <3> QED  BY <1>11, <3>2, <3>3 DEF Matched
  <2> HIDE DEF P, D, R
  <2>8. EndsAs(N, n.tables, TRUE, shadowed, shadowed)
    BY <1>2, <1>11, <2>4, <2>6, <2>7 DEF EndsAs
  <2>9. Mid(n, N.root, Range(N.frames), Others(tables, procs, lost, p), TRUE, high)
    BY <1>11, <2>1, <2>3 DEF R
  <2> QED  BY <1>2, <1>3, <1>4, <2>8, <2>9, MidEnds
<1> QED  BY <1>12, <1>13

\* The memory a call for a process starts with.
Starts(P, p, high) ==
  /\ SpaceOK(fa, tables, procs, lost, shadowed) /\ shadowed \in BOOLEAN
  /\ ProcOK(tables, P, high, shadowed) /\ Shaped(P) /\ P.elf \in BOOLEAN /\ Listed(P)
  /\ procs = [q \in Procs |-> procs[q]]
  /\ Mid(Snapshot, P.root, Range(P.frames), Others(tables, procs, lost, p), P.elf, high)
  /\ KernelMet(high) /\ Snapshot.tables = tables

\* The start of such a call.
LEMMA StartIn ==
  ASSUME SpaceInv, Running, NEW p \in Procs, NEW P, P = procs[p], P.st \in {"loading", "live"},
         NEW high, high = (tables[K4][1] # Unused)
  PROVE  Starts(P, p, high)
<1>1. /\ SpaceOK(fa, tables, procs, lost, shadowed) /\ AllocOK(fa) /\ panic = "no" /\ shadowed \in BOOLEAN
      /\ ProcOK(tables, P, high, shadowed) /\ Shaped(P) /\ P.elf \in BOOLEAN /\ Listed(P)
      /\ procs = [q \in Procs |-> procs[q]]
  BY ProcIs
<1>2. /\ Mid(Snapshot, P.root, Range(P.frames), Others(tables, procs, lost, p), P.elf, high)
      /\ KernelMet(high) /\ Snapshot.tables = tables
  BY <1>1, MidIn
<1> QED  BY <1>1, <1>2 DEF Starts

\* Nothing asks for the pages of a program inside the kernel.
LEMMA MidLess ==
  ASSUME NEW m, NEW root, NEW D, NEW R, NEW elf, NEW high, Mid(m, root, D, R, elf, high)
  PROVE  Mid(m, root, D, R, FALSE, high)
BY DEF Mid

\* set_user_accessible_in_process(), for a page of a program inside the kernel.
LEMMA OpenPageStep ==
  ASSUME SpaceInv, NEW p \in Procs, OpenPage(p)
  PROVE  SpaceInv'
<1> DEFINE P == procs[p]
           page == Head(P.todo)
           D == Range(P.frames)
           R == Others(tables, procs, lost, p)
           high == tables[K4][1] # Unused
           n == Accessible(Snapshot, P.root, page)
           a == Tail(P.todo)
           d == IF Len(P.todo) = 1 THEN "live" ELSE P.st
           N == [st |-> d, root |-> P.root, frames |-> P.frames, vmas |-> P.vmas, todo |-> a, elf |-> P.elf, prog |-> P.prog]
<1>1. Running /\ P.st = "loading" /\ P.todo # <<>> /\ ~P.elf
  BY DEF OpenPage
<1>2. Starts(P, p, high)
  BY <1>1, StartIn
<1>3. /\ SpaceOK(fa, tables, procs, lost, shadowed) /\ shadowed \in BOOLEAN
      /\ Shaped(P) /\ P.elf \in BOOLEAN /\ Listed(P) /\ procs = [q \in Procs |-> procs[q]]
      /\ Mid(Snapshot, P.root, D, R, P.elf, high) /\ KernelMet(high)
  BY <1>2 DEF Starts
<1>4. Commit(n) /\ lost' = lost /\ shadowed' = shadowed
  BY DEF OpenPage
<1>5. procs' = Put(procs, p, N)
  <2>1. procs' = [procs EXCEPT ![p].todo = Tail(@), ![p].st = IF Len(P.todo) = 1 THEN "live" ELSE @]
    BY DEF OpenPage
  <2>2. procs' = OpenedAs(procs, p, a, d)
    BY <1>3, <2>1 DEF OpenedAs
  <2> HIDE DEF a, d
  <2> QED  BY <1>3, <2>2, PageOpened
<1>6. page \in Pages /\ a \in Seq(Pages)
  <2>1. P.todo \in Seq(Pages) /\ P.todo # <<>>
    BY <1>1, <1>3 DEF Listed
  <2> HIDE DEF P
  <2> QED  BY <2>1, HeadTailProperties
<1>7. Mid(Snapshot, P.root, D, R, FALSE, high)
  BY <1>3, MidLess
<1>8. Stopped(n) \/ Mid(n, P.root, D, R, FALSE, high)
  <2> HIDE DEF P, page, D, R, high
  <2> QED  BY <1>3, <1>6, <1>7, AccessibleOK
<1> HIDE DEF n
<1>9. CASE Stopped(n)
  BY <1>4, <1>9, StoppedOK
<1>10. CASE ~Stopped(n)
  <2>1. /\ N.st \in {"loading", "live"} /\ N.root = P.root /\ N.vmas = P.vmas /\ N.elf = P.elf
        /\ N.todo = a /\ N.frames = P.frames /\ N.prog = P.prog /\ Shaped(N)
    BY <1>1 DEF Shaped
  <2> HIDE DEF N
  <2>2. Listed(N)
    BY <1>1, <1>3, <1>6, <2>1 DEF Listed
  <2>3. EndsAs(N, n.tables, FALSE, shadowed, shadowed)
    BY <1>1, <1>3, <2>1, <2>2 DEF EndsAs
  <2>4. Mid(n, N.root, Range(N.frames), Others(tables, procs, lost, p), FALSE, high)
    BY <1>8, <1>10, <2>1
  <2> HIDE DEF P, D, R
  <2> QED  BY <1>3, <1>4, <1>5, <2>3, <2>4, MidEnds
<1> QED  BY <1>9, <1>10

\* A sequence is one of its elements.
LEMMA EnumeratesRange ==
  ASSUME NEW S, NEW s \in Seq(S), Distinct(s)
  PROVE  Enumerates(s, Range(s))
<1>1. s \in Seq(Range(s))
  <2>1. Len(s) \in Nat /\ DOMAIN s = 1..Len(s)
    OBVIOUS
  <2>2. \A i \in 1..Len(s) : s[i] \in Range(s)
    BY <2>1 DEF Range
  <2>3. s \in [1..Len(s) -> Range(s)]
    BY <2>1, <2>2
  <2> QED  BY <2>1, <2>3
<1> QED  BY <1>1 DEF Enumerates

\* The frames a process gains.
LEMMA MoreFrames ==
  ASSUME NEW a \in Seq(RamFrames), NEW b \in Seq(RamFrames), Distinct(b), Range(b) \cap Range(a) = {}
  PROVE  a \o b \in Seq(RamFrames) /\ (Distinct(a) => Distinct(a \o b)) /\ Range(a \o b) = Range(a) \union Range(b)
<1>1. Distinct(a) => Enumerates(a, Range(a)) /\ Enumerates(b, Range(b)) /\ Range(a) \cap Range(b) = {}
  BY EnumeratesRange
<1>2. Distinct(a) => Enumerates(a \o b, Range(a) \union Range(b))
  BY <1>1, EnumeratesJoin
<1>3. a \o b \in Seq(RamFrames) /\ Range(a \o b) = Range(a) \union Range(b)
  BY RangeJoin
<1> QED  BY <1>2, <1>3 DEF Enumerates

\* Which pages user mode reaches.
LEMMA MappedInUse ==
  ASSUME NEW p \in Procs, NEW high, Starts(procs[p], p, high), NEW page \in Pages
  PROVE  Mapped(p, page) <=> InUse(tables, procs[p].root, page)
<1> DEFINE P == procs[p]
<1>1. /\ Mid(Snapshot, P.root, Range(P.frames), Others(tables, procs, lost, p), P.elf, high)
      /\ KernelMet(high) /\ Snapshot.tables = tables
  BY DEF Starts
<1>2. WalkFinds(Snapshot.tables, P.root, page, high)
  BY <1>1, FoundInMid
<1>3. "user" \in LeafAt(tables, P.root, page).flags <=> InUse(tables, P.root, page)
  BY <1>1, <1>2 DEF WalkFinds
<1> QED  BY <1>3 DEF Mapped

\* sys_mmap(), with a hint or without.
LEMMA MapAtStep ==
  ASSUME SpaceInv, Running, NEW p \in Procs, procs[p].st = "live", procs[p].elf,
         NEW at \in Nat, NEW z \in Nat, z # 0, MapBase <= at, at + z <= MapLimit, MapAt(p, at, z)
  PROVE  SpaceInv'
<1> DEFINE P == procs[p]
           D == Range(P.frames)
           R == Others(tables, procs, lost, p)
           high == tables[K4][1] # Unused
           r == MapPages(Snapshot, P.root, at, z)
           v == Vma(at, at + z)
           X == at..at + z - 1
           s == shadowed \/ \E page \in X : Mapped(p, page)
           b == P.frames \o r.got
           c == InsertVma(P.vmas, v)
           N == [st |-> P.st, root |-> P.root, frames |-> b, vmas |-> c, todo |-> P.todo, elf |-> P.elf, prog |-> P.prog]
<1>0. MapBase \in Nat /\ MapLimit \in Nat /\ 8 <= MapBase /\ MapLimit <= 16
  BY SpaceConstants
<1>2. Starts(P, p, high)
  BY StartIn
<1>3. /\ SpaceOK(fa, tables, procs, lost, shadowed) /\ shadowed \in BOOLEAN
      /\ Shaped(P) /\ P.elf = TRUE /\ Listed(P) /\ procs = [q \in Procs |-> procs[q]]
      /\ Mid(Snapshot, P.root, D, R, TRUE, high) /\ KernelMet(high) /\ Snapshot.tables = tables
      /\ (~shadowed => Matched(tables, P))
  <2>1. P.elf = TRUE
    BY <1>2 DEF Starts
  <2> QED  BY <1>2, <2>1 DEF Starts, ProcOK
<1>4. Commit(r.m) /\ lost' = lost /\ shadowed' = s
  BY DEF MapAt
<1>5. procs' = Put(procs, p, N)
  <2>1. procs' = [procs EXCEPT ![p].frames = @ \o r.got, ![p].vmas = InsertVma(@, v)]
    BY DEF MapAt
  <2>2. procs' = MappedAs(procs, p, b, c)
    <3> HIDE DEF r, v
    <3> QED  BY <1>3, <2>1 DEF MappedAs
  <2> HIDE DEF b, c
  <2>3. MappedAs(procs, p, b, c)
        = Put(procs, p, [st |-> P.st, root |-> P.root, frames |-> b, vmas |-> c, todo |-> P.todo, elf |-> P.elf, prog |-> P.prog])
    <3>1. procs = [q \in Procs |-> procs[q]] /\ Shaped(procs[p])
      BY <1>3
    <3> QED  BY <3>1, PagesAdded, Zenon
  <2> QED  BY <2>2, <2>3
<1>6. PagesMapped(r, Snapshot, P.root, D, R, high, X)
  <2>1. 8 <= at /\ at + z <= 16
    BY <1>0
  <2> HIDE DEF P, D, R, high
  <2> QED  BY <1>3, <2>1, MapPagesOK
<1>7. \A page \in X : page \in Pages /\ page \in Nat /\ page \in 0..MapLimit - 1
  BY <1>0 DEF Pages
<1>8. v \in Ranges /\ v.from = at /\ v.to = at + z
  <2>1. v = [from |-> at, to |-> at + z]
    BY DEF Vma
  <2> QED  BY <1>0, <2>1 DEF Ranges
<1>9. \A x \in Nat : Covers(v, x) <=> x \in X
  <2> HIDE DEF v
  <2> QED  BY <1>8 DEF Covers
<1>10. c \in Seq(Ranges) /\ ((\A x \in X : ~Cover(P.vmas, x)) =>
                              \A x \in Nat : Cover(c, x) <=> Cover(P.vmas, x) \/ x \in X)
  <2>1. P.vmas \in Seq(Ranges) /\ v.from..v.to - 1 = X
    BY <1>3, <1>8 DEF Listed
  <2> HIDE DEF v, P, X
  <2>2. Inserted(c, P.vmas, v)
    BY <1>8, <2>1, InsertVmaOK
  <2> HIDE DEF c
  <2>3. c \in Seq(Ranges) /\ ((\A x \in X : ~Cover(P.vmas, x)) => Range(c) = Range(P.vmas) \union {v})
    BY <2>1, <2>2 DEF Inserted
  <2> QED  BY <1>9, <2>3 DEF Cover
<1>11. s \in BOOLEAN /\ (shadowed => s)
  BY <1>3
<1>12. ~s => \A x \in X : ~Cover(P.vmas, x)
  <2> SUFFICES ASSUME ~s, NEW x \in X PROVE ~Cover(P.vmas, x)
    OBVIOUS
  <2>1. ~shadowed /\ ~Mapped(p, x)
    OBVIOUS
  <2>2. ~InUse(tables, P.root, x)
    BY <1>2, <1>7, <2>1, MappedInUse
  <2> QED  BY <1>3, <1>7, <2>1, <2>2 DEF Matched
<1> HIDE DEF r, s, X, c
<1>13. CASE Stopped(r.m)
  BY <1>4, <1>13, StoppedOK
<1>14. CASE ~Stopped(r.m)
  <2>1. /\ Mid(r.m, P.root, D \union Range(r.got), R, TRUE, high)
        /\ r.got \in Seq(RamFrames) /\ Distinct(r.got) /\ Range(r.got) \cap D = {}
        /\ \A o \in Pages : InUse(r.m.tables, P.root, o) <=> InUse(tables, P.root, o) \/ o \in X
    BY <1>3, <1>6, <1>14 DEF PagesMapped
  <2>2. b \in Seq(RamFrames) /\ (~OnStack(P.prog) => Distinct(b)) /\ Range(b) = D \union Range(r.got)
    <3>1. P.frames \in Seq(RamFrames) /\ (~OnStack(P.prog) => Distinct(P.frames))
      BY <1>3 DEF Listed
    <3> QED  BY <2>1, <3>1, MoreFrames
  <2> HIDE DEF b
  <2>3. /\ N.st = "live" /\ N.root = P.root /\ N.vmas = c /\ N.elf = TRUE /\ N.todo = P.todo
        /\ N.frames = b /\ N.prog = P.prog /\ Shaped(N)
    BY <1>3 DEF Shaped
  <2> HIDE DEF N
  <2>4. Listed(N)
    <3>1. P.prog \in Programs
      BY <1>3 DEF Listed
    <3> QED  BY <1>10, <2>2, <2>3, <3>1 DEF Listed
  <2>5. ~s => Matched(r.m.tables, N)
    <3> SUFFICES ASSUME ~s, NEW o \in 0..MapLimit - 1
                 PROVE  /\ Cover(c, o) => InUse(r.m.tables, P.root, o)
                        /\ NoOverlap(P.prog) => (InUse(r.m.tables, P.root, o) => Cover(c, o))
      BY <2>3 DEF Matched
    <3>1. Cover(c, o) <=> Cover(P.vmas, o) \/ o \in X
      BY <1>10, <1>12
    <3>2. /\ Cover(P.vmas, o) => InUse(tables, P.root, o)
          /\ NoOverlap(P.prog) => (InUse(tables, P.root, o) => Cover(P.vmas, o))
      BY <1>3, <1>11 DEF Matched
    <3>3. o \in Pages
      BY <1>0 DEF Pages
    <3> QED  BY <2>1, <3>1, <3>2, <3>3
  <2>6. EndsAs(N, r.m.tables, TRUE, shadowed, s)
    BY <1>11, <2>3, <2>4, <2>5 DEF EndsAs
  <2>7. Mid(r.m, N.root, Range(N.frames), Others(tables, procs, lost, p), TRUE, high)
    BY <2>1, <2>2, <2>3
  <2> DEFINE n == r.m
  <2>8. Commit(n) /\ EndsAs(N, n.tables, TRUE, shadowed, s)
        /\ Mid(n, N.root, Range(N.frames), Others(tables, procs, lost, p), TRUE, high)
    BY <1>4, <2>6, <2>7
  <2> HIDE DEF n, P, D, R
  <2> QED  BY <1>3, <1>4, <1>5, <2>8, MidEnds
<1> QED  BY <1>13, <1>14

\* sys_munmap()
LEMMA MunmapStep ==
  ASSUME SpaceInv, NEW p \in Procs, NEW at \in Nat, NEW z \in Nat, z # 0, Munmap(p, at, z)
  PROVE  SpaceInv'
<1> DEFINE P == procs[p]
           D == Range(P.frames)
           R == Others(tables, procs, lost, p)
           high == tables[K4][1] # Unused
           u == Unmapped(Snapshot, P.root, at, z)
           n == Release(u.m, u.freed)
           X == at..at + z - 1
           b == Picked(P.frames, {i \in DOMAIN P.frames : P.frames[i] \notin Range(u.freed)})
           c == RemoveRange(P.vmas, at, at + z)
           N == [st |-> P.st, root |-> P.root, frames |-> b, vmas |-> c, todo |-> P.todo, elf |-> P.elf, prog |-> P.prog]
<1>0. MapBase \in Nat /\ MapLimit \in Nat /\ 8 <= MapBase /\ MapLimit <= 16
  BY SpaceConstants
<1>1. Running /\ P.st = "live" /\ P.elf /\ MapBase <= at /\ at + z <= MapLimit
  BY <1>0 DEF Munmap, MayCall
<1>2. Starts(P, p, high)
  BY <1>1, StartIn
<1>3. /\ SpaceOK(fa, tables, procs, lost, shadowed) /\ shadowed \in BOOLEAN
      /\ Shaped(P) /\ P.elf = TRUE /\ Listed(P) /\ procs = [q \in Procs |-> procs[q]]
      /\ Mid(Snapshot, P.root, D, R, TRUE, high) /\ KernelMet(high) /\ Snapshot.tables = tables
      /\ (~shadowed => Matched(tables, P))
  <2>1. P.elf = TRUE
    BY <1>1, <1>2 DEF Starts
  <2> QED  BY <1>1, <1>2, <2>1 DEF Starts, ProcOK
<1>4. Commit(n) /\ lost' = lost /\ shadowed' = shadowed
  BY DEF Munmap
<1>5. procs' = Put(procs, p, N)
  <2>1. procs' = [procs EXCEPT ![p].vmas = RemoveRange(@, at, at + z),
                               ![p].frames = Picked(@, {i \in DOMAIN @ : @[i] \notin Range(u.freed)})]
    BY DEF Munmap
  <2>2. procs' = UnmappedAs(procs, p, c, b)
    <3> HIDE DEF u
    <3> QED  BY <1>3, <2>1 DEF UnmappedAs
  <2> HIDE DEF b, c
  <2> QED  BY <1>3, <2>2, PagesRemoved
<1>6. \A page \in X : page \in Pages
  BY <1>0, <1>1 DEF Pages
<1>8. PagesCleared(u, Snapshot, P.root, D, R, high, X)
  <2>1. 8 <= at /\ at + z <= 16
    BY <1>0, <1>1
  <2> HIDE DEF P, D, R, high
  <2> QED  BY <1>3, <2>1, UnmappedOK
<1> HIDE DEF u
<1>9. /\ Mid(u.m, P.root, D, R, FALSE, high) /\ ElfOK(u.m.tables, P.root, D \ Range(u.freed))
      /\ u.freed \in Seq(D \union 8..11) /\ OnceIn(u.freed, D) /\ (~high => Range(u.freed) \subseteq D)
      /\ \A o \in Pages : InUse(u.m.tables, P.root, o) <=> InUse(tables, P.root, o) /\ o \notin X
  BY <1>3, <1>8 DEF PagesCleared
<1>10. \/ Released(n, u.m, Range(u.freed)) /\ Distinct(u.freed) /\ Range(u.freed) \subseteq D
       \/ Halted(n, u.m, "unknown frame") /\ high
  <2> DEFINE k == u.m
             w == u.freed
  <2>1. Mem(k) /\ k.panic = "no" /\ AllocOK(k.fa) /\ IsTables(k.tables) /\ D \subseteq Used(k.fa)
    BY <1>9 DEF Mid, TreeOK
  <2>2. D \subseteq RamFrames /\ RamFrames \subseteq Int /\ \A x \in 8..11 : x \notin RamFrames /\ x \in Int
    <3>1. P.frames \in Seq(RamFrames)
      BY <1>3 DEF Listed
    <3> QED  BY <3>1, RamIs DEF Range
  <2>3. w \in Seq(D \union 8..11) /\ OnceIn(w, D) /\ (~high => Range(w) \subseteq D)
    BY <1>9
  <2>4. n = Release(k, w)
    OBVIOUS
  <2> HIDE DEF k, w, P, D, R, n
  <2>5. w \in Seq(Int)
    <3>1. D \union 8..11 \subseteq Int
      BY <2>2
    <3> QED  BY <2>3, <3>1, Widen
  <2>6. \A i \in DOMAIN w : w[i] \in D \union 8..11 /\ w[i] \in Range(w)
    BY <2>3 DEF Range
  <2>7. \/ Released(n, k, Range(w)) /\ Distinct(w) /\ Range(w) \subseteq Used(k.fa)
        \/ Halted(n, k, "unknown frame") /\ NotRam(w)
        \/ Halted(n, k, "double free") /\ NotOnce(w, k)
    BY <2>1, <2>4, <2>5, ReleaseEnds
  <2>8. ~NotOnce(w, k)
    <3> SUFFICES ASSUME NotOnce(w, k) PROVE FALSE
      OBVIOUS
    <3>1. PICK i \in DOMAIN w : /\ w[i] \in RamFrames
                                /\ w[i] \notin Used(k.fa) \/ \E j \in DOMAIN w : j # i /\ w[j] = w[i]
      BY DEF NotOnce
    <3>2. w[i] \in D
      BY <2>2, <2>6, <3>1
    <3> QED  BY <2>1, <2>3, <3>1, <3>2 DEF OnceIn
  <2>9. NotRam(w) => high
    BY <2>2, <2>3, <2>6 DEF NotRam
  <2>10. Range(w) \subseteq Used(k.fa) => Range(w) \subseteq D
    <3>1. Used(k.fa) \subseteq RamFrames
      BY <2>1, RamIs
    <3>2. \A x \in Range(w) : x \in D \union 8..11
      BY <2>6 DEF Range
    <3> QED  BY <2>2, <3>1, <3>2
  <2> QED  BY <2>7, <2>8, <2>9, <2>10 DEF k, w
<1>11. CASE Halted(n, u.m, "unknown frame") /\ high
  <2> DEFINE k == u.m
  <2>1. k.tables[K4] = tables[K4]
    BY <1>9, KernelEntries DEF Mid
  <2>2. k.tables[K4][1] # Unused /\ Halted(n, k, "unknown frame") /\ Commit(n)
    BY <1>4, <1>11, <2>1
  <2> HIDE DEF k, n
  <2> QED  BY <2>2, UnknownOK
<1>12. CASE Released(n, u.m, Range(u.freed)) /\ Distinct(u.freed) /\ Range(u.freed) \subseteq D
  <2>10. /\ Mid(n, P.root, D \ Range(u.freed), R, TRUE, high)
         /\ \A o \in Pages : InUse(n.tables, P.root, o) <=> InUse(u.m.tables, P.root, o)
    <3> DEFINE k == u.m
               w == u.freed
    <3>0. w \in Seq(D)
      <4>1. w \in Seq(D \union 8..11) /\ Range(w) \subseteq D
        BY <1>9, <1>12
      <4> HIDE DEF w, D
      <4>2. Len(w) \in Nat /\ DOMAIN w = 1..Len(w)
        BY <4>1
      <4>3. \A i \in 1..Len(w) : w[i] \in D
        BY <4>1, <4>2 DEF Range
      <4>4. w \in [1..Len(w) -> D]
        BY <4>1, <4>2, <4>3
      <4> QED  BY <4>2, <4>4
    <3>1. /\ Mid(k, P.root, D, R, FALSE, high) /\ w \in Seq(D) /\ Distinct(w)
          /\ ElfOK(k.tables, P.root, D \ Range(w)) /\ n = Release(k, w)
      BY <1>9, <1>12, <3>0
    <3> HIDE DEF k, w, P, D, R, high, n
    <3>2. /\ Mid(n, P.root, D \ Range(w), R, TRUE, high)
          /\ \A o \in Pages : InUse(n.tables, P.root, o) <=> InUse(k.tables, P.root, o)
      BY <3>1, ReleaseMid
    <3> QED  BY <3>2 DEF k, w
  <2>11. b \in Seq(RamFrames) /\ (~OnStack(P.prog) => Distinct(b)) /\ Range(b) = D \ Range(u.freed)
    <3> DEFINE K == {i \in DOMAIN P.frames : P.frames[i] \notin Range(u.freed)}
    <3>1. P.frames \in Seq(RamFrames) /\ (~OnStack(P.prog) => Distinct(P.frames))
      BY <1>3 DEF Listed
    <3>2. b \in Seq(RamFrames) /\ (Distinct(P.frames) => Distinct(b))
          /\ Range(b) = {P.frames[i] : i \in K \cap DOMAIN P.frames}
      <4> HIDE DEF P
      <4> QED  BY <3>1, PickedIs
    <3>3. {P.frames[i] : i \in K \cap DOMAIN P.frames} = D \ Range(u.freed)
      BY DEF Range
    <3> HIDE DEF b, K
    <3> QED  BY <3>1, <3>2, <3>3
  <2>12. c \in Seq(Ranges) /\ \A x \in Nat : Cover(c, x) <=> Cover(P.vmas, x) /\ x \notin X
    <3>1. P.vmas \in Seq(Ranges)
      BY <1>3 DEF Listed
    <3>2. c \in Seq(Ranges) /\ \A x \in Nat : Cover(c, x) <=> Cover(P.vmas, x) /\ ~(at <= x /\ x < at + z)
      <4>1. at + z \in Nat /\ at < at + z
        OBVIOUS
      <4> HIDE DEF P
      <4> QED  BY <3>1, <4>1, RemoveRangeOK
    <3>3. \A x \in Nat : x \notin X <=> ~(at <= x /\ x < at + z)
      OBVIOUS
    <3> HIDE DEF c, X
    <3> QED  BY <3>2, <3>3
  <2> HIDE DEF n, X, b, c
  <2>13. /\ N.st = "live" /\ N.root = P.root /\ N.vmas = c /\ N.elf = TRUE /\ N.todo = P.todo
         /\ N.frames = b /\ N.prog = P.prog /\ Shaped(N)
    BY <1>1, <1>3 DEF Shaped
  <2> HIDE DEF N
  <2>14. Listed(N)
    <3>1. P.prog \in Programs
      BY <1>3 DEF Listed
    <3> QED  BY <2>11, <2>12, <2>13, <3>1 DEF Listed
  <2>15. ~shadowed => Matched(n.tables, N)
    <3> SUFFICES ASSUME ~shadowed, NEW o \in 0..MapLimit - 1
                 PROVE  /\ Cover(c, o) => InUse(n.tables, P.root, o)
                        /\ NoOverlap(P.prog) => (InUse(n.tables, P.root, o) => Cover(c, o))
      BY <2>13 DEF Matched
    <3>1. /\ Cover(P.vmas, o) => InUse(tables, P.root, o)
          /\ NoOverlap(P.prog) => (InUse(tables, P.root, o) => Cover(P.vmas, o))
      BY <1>1, <1>3 DEF Matched
    <3>2. o \in Pages /\ o \in Nat
      BY <1>0 DEF Pages
    <3> QED  BY <1>9, <2>10, <2>12, <3>1, <3>2
  <2>16. EndsAs(N, n.tables, TRUE, shadowed, shadowed)
    BY <1>3, <2>13, <2>14, <2>15 DEF EndsAs
  <2>17. Mid(n, N.root, Range(N.frames), Others(tables, procs, lost, p), TRUE, high)
    BY <2>10, <2>11, <2>13
  <2> HIDE DEF P, D, R
  <2> QED  BY <1>3, <1>4, <1>5, <2>16, <2>17, MidEnds
<1> HIDE DEF n
<1> QED  BY <1>10, <1>11, <1>12

\* destroy_user_process(), the data frames.
LEMMA DestroyStep ==
  ASSUME SpaceInv, NEW p \in Procs, Destroy(p)
  PROVE  SpaceInv'
<1> DEFINE P == procs[p]
           D == Range(P.frames)
           R == Others(tables, procs, lost, p)
           high == tables[K4][1] # Unused
           n == Release(Snapshot, P.frames)
           N == [st |-> "dying", root |-> P.root, frames |-> <<>>, vmas |-> P.vmas, todo |-> <<0, 1>>, elf |-> P.elf, prog |-> P.prog]
<1>1. Running /\ P.st = "live"
  BY DEF Destroy
<1>2. Starts(P, p, high)
  BY <1>1, StartIn
<1>3. /\ SpaceOK(fa, tables, procs, lost, shadowed) /\ shadowed \in BOOLEAN
      /\ Shaped(P) /\ P.elf \in BOOLEAN /\ Listed(P) /\ procs = [q \in Procs |-> procs[q]]
      /\ Mid(Snapshot, P.root, D, R, P.elf, high)
  BY <1>2 DEF Starts
<1>4. Commit(n) /\ lost' = lost /\ shadowed' = shadowed
  BY DEF Destroy
<1>5. procs' = Put(procs, p, N)
  <2>1. procs' = [procs EXCEPT ![p].st = "dying", ![p].frames = <<>>, ![p].todo = <<0, 1>>]
    BY DEF Destroy
  <2> DEFINE b == <<>>
             a == <<0, 1>>
             d == "dying"
  <2>2. procs' = EndingAs(procs, p, d, b, a)
    BY <1>3, <2>1 DEF EndingAs
  <2> HIDE DEF a, b, d
  <2>3. procs' = Put(procs, p, [st |-> d, root |-> P.root, frames |-> b, vmas |-> P.vmas, todo |-> a, elf |-> P.elf, prog |-> P.prog])
    BY <1>3, <2>2, Ending
  <2> QED  BY <2>3 DEF a, b, d
<1>6. Mid(Snapshot, P.root, D, R, FALSE, high)
  BY <1>3, MidLess
<1>7. P.frames \in Seq(RamFrames) /\ (~OnStack(P.prog) => Distinct(P.frames)) /\ (P.elf => P.prog \in Programs)
      /\ P.vmas \in Seq(Ranges)
  BY <1>3 DEF Listed
<1>8. \/ Distinct(P.frames)
      \/ Halted(n, Snapshot, "double free") /\ OnStack(P.prog)
  <2> DEFINE w == P.frames
             m == Snapshot
  <2>1. Mem(m) /\ m.panic = "no" /\ AllocOK(m.fa) /\ IsTables(m.tables) /\ Range(w) \subseteq Used(m.fa)
    BY <1>6 DEF Mid, TreeOK
  <2>2. w \in Seq(Int) /\ \A i \in DOMAIN w : w[i] \in RamFrames /\ w[i] \in Range(w)
    <3>1. w \in Seq(RamFrames) /\ RamFrames \subseteq Int
      BY <1>7, RamIs
    <3> HIDE DEF w
    <3>2. w \in Seq(Int)
      BY <3>1, Widen
    <3>3. \A i \in DOMAIN w : w[i] \in RamFrames
      BY <3>1
    <3>4. \A i \in DOMAIN w : w[i] \in Range(w)
      BY DEF Range
    <3> QED  BY <3>2, <3>3, <3>4
  <2>3. n = Release(m, w) /\ (~OnStack(P.prog) => Distinct(w))
    BY <1>7
  <2> HIDE DEF w, m, n
  <2>4. \/ Released(n, m, Range(w)) /\ Distinct(w) /\ Range(w) \subseteq Used(m.fa)
        \/ Halted(n, m, "unknown frame") /\ NotRam(w)
        \/ Halted(n, m, "double free") /\ NotOnce(w, m)
    BY <2>1, <2>2, <2>3, ReleaseEnds
  <2>5. ~NotRam(w)
    BY <2>2 DEF NotRam
  <2> HIDE DEF P
  <2> QED  BY <2>3, <2>4, <2>5 DEF w, m
<1>9. /\ N.st = "dying" /\ N.root = P.root /\ N.vmas = P.vmas /\ N.elf = P.elf /\ N.todo = <<0, 1>>
      /\ N.frames = <<>> /\ N.prog = P.prog /\ Shaped(N)
  BY DEF Shaped
<1>10. CASE Halted(n, Snapshot, "double free") /\ OnStack(P.prog)
  <2>1. procs'[p] = N
    BY <1>3, <1>5 DEF Put
  <2>2. OnStack(procs'[p].prog)
    BY <1>9, <1>10, <2>1
  <2> DEFINE m == Snapshot
  <2>3. Halted(n, m, "double free") /\ Commit(n)
    BY <1>4, <1>10
  <2> HIDE DEF n, m
  <2> QED  BY <2>2, <2>3, DoubleOK
<1>11. CASE Distinct(P.frames)
  <2>1. P.frames \in Seq(D)
    <3>1. Enumerates(P.frames, D)
      BY <1>7, <1>11, EnumeratesRange
    <3> QED  BY <3>1 DEF Enumerates
  <2>2. Mid(n, P.root, D \ D, R, FALSE, high)
    <3> DEFINE w == P.frames
    <3>1. w \in Seq(D) /\ Distinct(w) /\ Range(w) = D /\ n = Release(Snapshot, w)
      BY <1>11, <2>1
    <3> HIDE DEF w, P, D, R, high, n
    <3>2. Mid(n, P.root, D \ Range(w), R, FALSE, high)
      BY <1>6, <3>1, ReleaseMid
    <3> QED  BY <3>1, <3>2
  <2> HIDE DEF n, N
  <2>3. Listed(N)
    <3>1. <<>> \in Seq(RamFrames) /\ Distinct(<<>>)
      BY DEF Distinct
    <3> QED  BY <1>7, <1>9, <3>1 DEF Listed
  <2>4. EndsAs(N, n.tables, FALSE, shadowed, shadowed)
    BY <1>3, <1>9, <2>3 DEF EndsAs
  <2>5. Mid(n, N.root, Range(N.frames), Others(tables, procs, lost, p), FALSE, high)
    <3>1. Range(<<>>) = {} /\ D \ D = {}
      BY DEF Range
    <3> QED  BY <1>9, <2>2, <3>1
  <2> HIDE DEF P, D, R
  <2> QED  BY <1>3, <1>4, <1>5, <2>4, <2>5, MidEnds
<1> HIDE DEF n
<1> QED  BY <1>8, <1>10, <1>11

\* A step of one process that keeps it in order keeps the invariant.
LEMMA StepEnds ==
  ASSUME SpaceOK(fa, tables, procs, lost, shadowed), NEW p \in Procs,
         NEW high, high = (tables[K4][1] # Unused), NEW n, NEW P, NEW G,
         AllocOK(n.fa), n.panic = "no",
         OwnStep(tables, Others(tables, procs, lost, p), n.fa, n.tables, P, G, shadowed, shadowed, high),
         Commit(n), procs' = Put(procs, p, P), lost' = lost \union G, shadowed' = shadowed
  PROVE  SpaceInv'
<1> DEFINE g == n.fa
           u == n.tables
<1>1. OwnStep(tables, Others(tables, procs, lost, p), g, u, P, G, shadowed, shadowed, high)
  OBVIOUS
<1>2. SpaceOK(g, u, Put(procs, p, P), lost \union G, shadowed)
  <2> HIDE DEF g, u
  <2> QED  BY <1>1, Settle
<1>3. SpaceOK(n.fa, n.tables, procs', lost', shadowed')
  BY <1>2
<1> QED  BY <1>3, CommitOK

\* The frames in use are the process's and the others'.
LEMMA UsedParts ==
  ASSUME SpaceOK(fa, tables, procs, lost, shadowed), NEW p \in Procs, NEW P, P = procs[p],
         NEW R, R = Others(tables, procs, lost, p)
  PROVE  Used(fa) = R \union Has(tables, P) /\ R \cap Has(tables, P) = {}
<1>1. UNION {Has(tables, procs[q]) : q \in Procs}
        = Has(tables, P) \union UNION {Has(tables, procs[q]) : q \in Procs \ {p}}
  OBVIOUS
<1>2. \A q \in Procs \ {p} : Has(tables, procs[q]) \cap Has(tables, P) = {}
  BY DEF SpaceOK
<1>3. Has(tables, P) \cap (Reserved \union lost) = {}
  BY DEF SpaceOK
<1>4. Used(fa) = R \union Has(tables, P)
  BY <1>1 DEF SpaceOK, Others
<1>5. R \cap Has(tables, P) = {}
  BY <1>2, <1>3 DEF Others
<1> QED  BY <1>4, <1>5

\* destroy_process_page_table(), the root.
LEMMA FreeRootStep ==
  ASSUME SpaceInv, NEW p \in Procs, FreeRoot(p)
  PROVE  SpaceInv'
<1> DEFINE P == procs[p]
           R == Others(tables, procs, lost, p)
           high == tables[K4][1] # Unused
           n == Release(Snapshot, <<P.root>>)
<1>1. Running /\ P.st = "dying" /\ P.todo = <<>>
  BY DEF FreeRoot
<1>2. /\ SpaceOK(fa, tables, procs, lost, shadowed) /\ AllocOK(fa) /\ panic = "no" /\ shadowed \in BOOLEAN
      /\ ProcOK(tables, P, high, shadowed) /\ IsTables(tables) /\ Listed(P)
  <2>1. SpaceOK(fa, tables, procs, lost, shadowed)
    BY <1>1, ProcIs
  <2> QED  BY <1>1, <2>1, ProcIs DEF SpaceOK
<1>3. Commit(n) /\ lost' = lost /\ shadowed' = shadowed /\ procs' = Put(procs, p, NoProcess)
  BY DEF FreeRoot, Put
<1>4. tables[P.root][0] = Unused /\ tables[P.root][1] = Unused
  <2>1. \A i \in 0..1 : i \notin Range(P.todo) => tables[P.root][i] = Unused
    BY <1>1, <1>2 DEF ProcOK
  <2>2. Range(<<>>) = {}
    BY DEF Range
  <2> QED  BY <1>1, <2>1, <2>2
<1>5. Own(tables, P.root) = {P.root}
  <2>1. Led(tables, P.root, 0) = {} /\ Led(tables, P.root, 1) = {}
    BY <1>4, KernelEntries DEF Led
  <2>2. Part(tables, P.root, 0) = {} /\ Part(tables, P.root, 1) = {}
    BY <2>1, BelowOne DEF Part, Part1, Part2
  <2> QED  BY <2>2, PartsAre
<1>6. Has(tables, P) = {P.root}
  <2>1. P.frames = <<>> /\ Range(<<>>) = {}
    BY <1>1, <1>2 DEF Listed, Range
  <2> QED  BY <1>1, <1>5, <2>1 DEF Has
<1>7. Used(fa) = R \union {P.root} /\ P.root \notin R
  BY <1>2, <1>6, UsedParts
<1>8. Released(n, Snapshot, {P.root})
  <2>1. Mem(Snapshot) /\ Snapshot.panic = "no" /\ Snapshot.fa = fa /\ Snapshot.tables = tables
    BY <1>2 DEF Snapshot, Mem
  <2> DEFINE w == <<P.root>>
  <2>2. Enumerates(w, {P.root})
    BY EnumeratesSmall
  <2>3. w \in Seq(Used(fa)) /\ Distinct(w) /\ Range(w) = {P.root}
    BY <1>7, <2>2 DEF Enumerates
  <2> HIDE DEF P, w
  <2>4. Released(Release(Snapshot, w), Snapshot, Range(w))
    BY <1>2, <2>1, <2>3, ReleaseOK
  <2> QED  BY <2>3, <2>4 DEF w
<1> HIDE DEF n
<1>9. /\ n.panic = "no" /\ AllocOK(n.fa) /\ Used(n.fa) = Used(fa) \ {P.root} /\ IsTables(n.tables)
      /\ \A x \in RamFrames \union KernelTables : x \notin {P.root} => n.tables[x] = tables[x]
  BY <1>8 DEF Released, Snapshot
<1>10. P.root \notin KernelTables /\ R \subseteq RamFrames
  BY <1>2, <1>7, RamIs
<1>11. \A x \in R \union KernelTables : n.tables[x] = tables[x]
  BY <1>7, <1>9, <1>10
<1>12. ProcOK(n.tables, NoProcess, high, shadowed) /\ Has(n.tables, NoProcess) = {} /\ OwnApart(n.tables, NoProcess)
  BY DEF ProcOK, NoProcess, Has, OwnApart, Shaped
<1>13. OwnStep(tables, R, n.fa, n.tables, NoProcess, {}, shadowed, shadowed, high)
  <2>1. Used(n.fa) = R \union {} \union {}
    BY <1>7, <1>9
  <2> HIDE DEF R, P
  <2> QED  BY <1>2, <1>9, <1>11, <1>12, <2>1 DEF OwnStep
<1>14. lost' = lost \union {}
  BY <1>3
<1> DEFINE N == NoProcess
           G == {}
<1>15. OwnStep(tables, Others(tables, procs, lost, p), n.fa, n.tables, N, G, shadowed, shadowed, high)
       /\ lost' = lost \union G /\ procs' = Put(procs, p, N)
  BY <1>3, <1>13, <1>14
<1> HIDE DEF P, R, N, G
<1> QED  BY <1>2, <1>3, <1>9, <1>15, StepEnds

\* One entry of the root is cleared, and what was found below it given back.
EntryOut(u, t, root, i, high, X) ==
  /\ IsTables(u) /\ Forest(u, root) /\ Node4(u, root, high)
  /\ Own(u, root) = Own(t, root) \ Part(t, root, i)
  /\ u[root][i] = Unused /\ (\A j \in 0..1 : j # i => u[root][j] = t[root][j])
  /\ \A x \in RamFrames \union KernelTables : x # root /\ x \notin X => u[x] = t[x]

\* The tables after an entry of the root is done.
LEMMA EntryCut ==
  ASSUME NEW t, NEW root, NEW high, IsTables(t), Forest(t, root), Node4(t, root, high), NEW i \in 0..1,
         NEW X, X \subseteq Part(t, root, i), NEW w, IsTables(w),
         \A x \in RamFrames \union KernelTables : x \notin X => w[x] = t[x],
         NEW u, u = SetEntry(w, root, i, Unused)
  PROVE  EntryOut(u, t, root, i, high, X)
<1> DEFINE v == SetEntry(t, root, i, Unused)
<1>1. CutAt(v, t, root, i, high)
  BY CutTree
<1>2. /\ IsTables(v) /\ Forest(v, root) /\ Node4(v, root, high)
      /\ Own(v, root) = Own(t, root) \ Part(t, root, i)
      /\ v[root][i] = Unused /\ (\A j \in 0..1 : j # i => v[root][j] = t[root][j])
      /\ \A x \in RamFrames \union KernelTables : x # root => v[x] = t[x]
  BY <1>1 DEF CutAt
<1>3. root \in RamFrames /\ root \notin X /\ Own(t, root) \subseteq RamFrames /\ w[root] = t[root]
  <2>1. root \in RamFrames /\ Own(t, root) \subseteq RamFrames
    BY LevelsAre DEF Forest
  <2>2. root \notin Part(t, root, i)
    <3>1. i = 0 \/ i = 1
      OBVIOUS
    <3> QED  BY <3>1, PartsApart
  <2> QED  BY <2>1, <2>2
<1>4. /\ IsTables(u) /\ \A x \in RamFrames \union KernelTables : x # root => u[x] = w[x]
  <2>1. Unused \in Entries
    BY DEF Entries, Unused
  <2>2. w \in [RamFrames \union KernelTables -> [0..1 -> Entries]]
    BY DEF IsTables
  <2>3. u \in [RamFrames \union KernelTables -> [0..1 -> Entries]]
    BY <1>3, <2>1, <2>2 DEF SetEntry
  <2>4. \A x \in RamFrames \union KernelTables : x # root => u[x] = w[x]
    BY <2>2 DEF SetEntry
  <2> QED  BY <2>3, <2>4 DEF IsTables
<1>5. u[root] = v[root]
  <2>1. root \in DOMAIN w /\ root \in DOMAIN t
    BY <1>3 DEF IsTables
  <2>2. u[root] = [w[root] EXCEPT ![i] = Unused] /\ v[root] = [t[root] EXCEPT ![i] = Unused]
    BY <2>1 DEF SetEntry
  <2> QED  BY <1>3, <2>2
<1> HIDE DEF v
<1>6. \A g \in Own(v, root) : u[g] = v[g]
  <2> TAKE g \in Own(v, root)
  <2>1. g \in RamFrames /\ g \notin X
    BY <1>2, <1>3
  <2>2. CASE g = root
    BY <1>5, <2>2
  <2>3. CASE g # root
    BY <1>2, <1>4, <2>1, <2>3
  <2> QED  BY <2>2, <2>3
<1>7. Undisturbed(u, v, root, high)
  BY <1>6, Outside
<1>8. Own(u, root) = Own(v, root) /\ Forest(u, root) /\ Node4(u, root, high)
  BY <1>2, <1>7 DEF Undisturbed
<1>9. \A x \in RamFrames \union KernelTables : x # root /\ x \notin X => u[x] = t[x]
  BY <1>4
<1>10. u[root][i] = Unused /\ (\A j \in 0..1 : j # i => u[root][j] = t[root][j])
  BY <1>2, <1>5
<1> QED  BY <1>2, <1>4, <1>8, <1>9, <1>10 DEF EntryOut

\* destroy_process_page_table(), one entry of the root.
LEMMA FreeEntryStep ==
  ASSUME SpaceInv, NEW p \in Procs, FreeEntry(p)
  PROVE  SpaceInv'
<1> DEFINE P == procs[p]
           root == P.root
           R == Others(tables, procs, lost, p)
           high == tables[K4][1] # Unused
           i == Head(P.todo)
           freed == FreedBelow4(root, i)
           k == Release(Snapshot, freed)
           n == Cleared(k, root, i)
           N == [st |-> P.st, root |-> P.root, frames |-> P.frames, vmas |-> P.vmas, todo |-> Tail(P.todo), elf |-> P.elf, prog |-> P.prog]
<1>1. Running /\ P.st = "dying" /\ P.todo # <<>>
  BY DEF FreeEntry
<1>2. /\ SpaceOK(fa, tables, procs, lost, shadowed) /\ AllocOK(fa) /\ panic = "no" /\ shadowed \in BOOLEAN
      /\ ProcOK(tables, P, high, shadowed) /\ Shaped(P) /\ P.elf \in BOOLEAN /\ Listed(P)
      /\ procs = [q \in Procs |-> procs[q]]
  BY <1>1, ProcIs
<1>3. /\ IsTables(tables) /\ KernelOK(tables) /\ Forest(tables, root) /\ Node4(tables, root, high)
      /\ \A j \in 0..1 : j \notin Range(P.todo) => tables[root][j] = Unused
  BY <1>1, <1>2 DEF SpaceOK, ProcOK
<1>4. Commit(n) /\ shadowed' = shadowed
      /\ lost' = IF i = 0 THEN lost ELSE lost \union (TablesBelow(tables[root][i]) \ Range(freed))
  BY DEF FreeEntry, Cleared
<1>5. procs' = Put(procs, p, N)
  <2>1. procs' = [procs EXCEPT ![p].todo = Tail(@)]
    BY DEF FreeEntry
  <2> DEFINE a == Tail(P.todo)
  <2>2. procs' = DoneAs(procs, p, a)
    BY <1>2, <2>1 DEF DoneAs
  <2> HIDE DEF a
  <2>3. procs' = Put(procs, p, [st |-> P.st, root |-> P.root, frames |-> P.frames, vmas |-> P.vmas, todo |-> a, elf |-> P.elf, prog |-> P.prog])
    BY <1>2, <2>2, EntryDone
  <2> QED  BY <2>3 DEF a
<1>6. /\ i \in 0..1 /\ Tail(P.todo) \in {<<1>>, <<>>}
      /\ \A j \in 0..1 : j \notin Range(Tail(P.todo)) => j = i \/ j \notin Range(P.todo)
  <2>1. P.todo = <<0, 1>> \/ P.todo = <<1>>
    BY <1>1, <1>2 DEF Listed
  <2>2. Range(<<1>>) = {1} /\ Range(<<0, 1>>) = {0, 1} /\ Range(<<>>) = {}
    BY DEF Range
  <2>3. Head(<<0, 1>>) = 0 /\ Tail(<<0, 1>>) = <<1>> /\ Head(<<1>>) = 1 /\ Tail(<<1>>) = <<>>
    OBVIOUS
  <2>4. CASE P.todo = <<0, 1>>
    <3>1. i = 0 /\ Tail(P.todo) = <<1>> /\ Range(Tail(P.todo)) = {1}
      BY <2>2, <2>3, <2>4
    <3> HIDE DEF i, P
    <3> QED  BY <3>1
  <2>5. CASE P.todo = <<1>>
    <3>1. i = 1 /\ Tail(P.todo) = <<>> /\ Range(P.todo) = {1}
      BY <2>2, <2>3, <2>5
    <3> HIDE DEF i, P
    <3> QED  BY <3>1
  <2> QED  BY <2>1, <2>4, <2>5
<1>7. KernelMet(high) /\ KernelAs(tables, high) /\ high \in BOOLEAN
  BY <1>3, KernelIs DEF KernelMet, KernelAs
<1>8. PICK X : /\ Enumerates(freed, X) /\ X \subseteq Part(tables, root, i)
               /\ i = 0 => X = Part(tables, root, i)
  <2> HIDE DEF i, root, high
  <2>1. FreedIs(root, i)
    BY <1>3, <1>6, <1>7, FreedBelow4Is
  <2> QED  BY <2>1 DEF FreedIs
<1>9. /\ P.frames = <<>> /\ Range(P.frames) = {} /\ Has(tables, P) = Own(tables, root)
  <2>1. P.frames = <<>> /\ Range(<<>>) = {}
    BY <1>1, <1>2 DEF Listed, Range
  <2> QED  BY <1>1, <2>1 DEF Has
<1>10. Used(fa) = R \union Own(tables, root) /\ R \cap Own(tables, root) = {}
  BY <1>2, <1>9, UsedParts
<1>11. Part(tables, root, i) \subseteq Own(tables, root)
  <2>1. i = 0 \/ i = 1
    BY <1>6
  <2> QED  BY <2>1, PartsAre
<1>12. Released(k, Snapshot, X)
  <2>1. Mem(Snapshot) /\ Snapshot.panic = "no" /\ Snapshot.fa = fa /\ Snapshot.tables = tables
    BY <1>2 DEF Snapshot, Mem
  <2>2. freed \in Seq(X) /\ Range(freed) = X /\ Distinct(freed) /\ X \subseteq Used(fa)
    BY <1>8, <1>10, <1>11 DEF Enumerates
  <2> HIDE DEF freed
  <2>3. freed \in Seq(Used(fa))
    BY <2>2
  <2>4. Released(Release(Snapshot, freed), Snapshot, Range(freed))
    BY <1>2, <1>3, <2>1, <2>2, <2>3, ReleaseOK
  <2> QED  BY <2>2, <2>4
<1>13. /\ Mem(k) /\ k.panic = "no" /\ AllocOK(k.fa) /\ Used(k.fa) = Used(fa) \ X /\ IsTables(k.tables)
       /\ \A x \in RamFrames \union KernelTables : x \notin X => k.tables[x] = tables[x]
  BY <1>12 DEF Released, Snapshot
<1>14. Range(freed) = X
  BY <1>8 DEF Enumerates
<1>15. TablesBelow(tables[root][i]) = Part(tables, root, i)
  <2> HIDE DEF i, root, high
  <2> QED  BY <1>3, <1>6, TablesBelowIs
<1>16. lost' = lost \union (Part(tables, root, i) \ X)
  BY <1>4, <1>8, <1>14, <1>15
<1> HIDE DEF k
<1>17. n.fa = k.fa /\ n.tables = SetEntry(k.tables, root, i, Unused) /\ n.panic = "no"
  BY <1>13, ClearedIs
<1> HIDE DEF n, i, freed
<1>18. /\ IsTables(n.tables) /\ Forest(n.tables, root) /\ Node4(n.tables, root, high)
       /\ Own(n.tables, root) = Own(tables, root) \ Part(tables, root, i)
       /\ n.tables[root][i] = Unused /\ (\A j \in 0..1 : j # i => n.tables[root][j] = tables[root][j])
       /\ \A x \in RamFrames \union KernelTables : x # root /\ x \notin X => n.tables[x] = tables[x]
  <2> DEFINE w == k.tables
             u == n.tables
  <2>1. IsTables(w) /\ (\A x \in RamFrames \union KernelTables : x \notin X => w[x] = tables[x])
        /\ u = SetEntry(w, root, i, Unused)
    BY <1>13, <1>17
  <2> HIDE DEF w, u, root, high
  <2>2. EntryOut(u, tables, root, i, high, X)
    BY <1>3, <1>6, <1>8, <2>1, EntryCut
  <2> QED  BY <2>2 DEF u, EntryOut
<1>19. /\ N.st = "dying" /\ N.root = root /\ N.vmas = P.vmas /\ N.elf = P.elf /\ N.todo = Tail(P.todo)
       /\ N.frames = <<>> /\ N.prog = P.prog /\ Shaped(N)
  BY <1>1, <1>9 DEF Shaped
<1> HIDE DEF N
<1>20. Listed(N)
  <2>1. <<>> \in Seq(RamFrames) /\ Distinct(<<>>)
    BY DEF Distinct
  <2>2. P.vmas \in Seq(Ranges) /\ (P.elf => P.prog \in Programs)
    BY <1>2 DEF Listed
  <2> QED  BY <1>6, <1>19, <2>1, <2>2 DEF Listed
<1>21. ProcOK(n.tables, N, high, shadowed)
  <2>1. \A j \in 0..1 : j \notin Range(N.todo) => n.tables[N.root][j] = Unused
    BY <1>3, <1>6, <1>18, <1>19
  <2> HIDE DEF P
  <2> QED  BY <1>2, <1>18, <1>19, <1>20, <2>1 DEF ProcOK
<1>22. Has(n.tables, N) = Own(tables, root) \ Part(tables, root, i) /\ OwnApart(n.tables, N)
  <2>1. Range(<<>>) = {}
    BY DEF Range
  <2> QED  BY <1>18, <1>19, <2>1 DEF Has, OwnApart
<1>23. \A x \in R \union KernelTables : n.tables[x] = tables[x]
  <2> TAKE x \in R \union KernelTables
  <2>1. Used(fa) \subseteq RamFrames
    BY <1>2, RamIs
  <2>2. Own(tables, root) \subseteq RamFrames /\ root \in Own(tables, root)
    BY <1>3, LevelsAre DEF Forest
  <2>3. x \notin Own(tables, root) /\ x \in RamFrames \union KernelTables
    BY <1>10, <2>1, <2>2, RamIs
  <2>4. x # root /\ x \notin X
    BY <1>8, <1>11, <2>2, <2>3
  <2> QED  BY <1>18, <2>3, <2>4
<1> DEFINE G == Part(tables, root, i) \ X
<1>24. /\ Used(n.fa) = R \union G \union Has(n.tables, N)
       /\ R \cap (G \union Has(n.tables, N)) = {} /\ G \cap Has(n.tables, N) = {}
  BY <1>8, <1>10, <1>11, <1>13, <1>17, <1>22
<1>25. OwnStep(tables, R, n.fa, n.tables, N, G, shadowed, shadowed, high)
  <2> HIDE DEF P, R, G
  <2> QED  BY <1>2, <1>18, <1>21, <1>22, <1>23, <1>24 DEF OwnStep
<1>26. AllocOK(n.fa) /\ lost' = lost \union G
  BY <1>13, <1>16, <1>17
<1>27. OwnStep(tables, Others(tables, procs, lost, p), n.fa, n.tables, N, G, shadowed, shadowed, high)
  BY <1>25
<1> HIDE DEF P, R, G, root
<1> QED  BY <1>2, <1>4, <1>5, <1>17, <1>26, <1>27, StepEnds

\* A process starts with a copy of the kernel's L4 table.
LEMMA NewSpace ==
  ASSUME NEW t, NEW u, NEW high, IsTables(u), NEW f \in RamFrames, u[f] = t[K4],
         t[K4][0] = Entry(K3, {"w", "x"}), t[K4][1] = IF high THEN Entry(K3High, {"w", "x"}) ELSE Unused
  PROVE  /\ Own(u, f) = {f} /\ Forest(u, f) /\ Node4(u, f, high) /\ u[f][0] # Unused
         /\ ElfOK(u, f, {}) /\ \A o \in Pages : ~InUse(u, f, o)
<1>1. \A i \in 0..1 : ~Huge(u[f][i]) /\ ~Linked(u[f][i])
                      /\ (Shared(u[f][i]) => u[f][i].to = (IF i = 0 THEN K3 ELSE K3High) /\ (i = 1 => high))
  <2> TAKE i \in 0..1
  <2>1. CASE i = 0
    <3>1. u[f][i] = Entry(K3, {"w", "x"})
      BY <2>1
    <3> QED  BY <2>1, <3>1, KernelEntries
  <2>2. CASE i = 1 /\ high
    <3>1. u[f][i] = Entry(K3High, {"w", "x"})
      BY <2>2
    <3> QED  BY <2>2, <3>1, KernelEntries
  <2>3. CASE i = 1 /\ ~high
    <3>1. u[f][i] = Unused
      BY <2>3
    <3> QED  BY <3>1, KernelEntries
  <2> QED  BY <2>1, <2>2, <2>3
<1>2. Led(u, f, 0) = {} /\ Led(u, f, 1) = {}
  BY <1>1 DEF Led
<1>3. Level3(u, f) = {} /\ Level2(u, f) = {} /\ Level1(u, f) = {}
  <2>1. Level3(u, f) = {}
    BY <1>2, BelowOne DEF Level3
  <2> QED  BY <2>1, BelowOne DEF Level2, Level1
<1>4. Own(u, f) = {f} /\ Inner(u, f) = {f}
  BY <1>3 DEF Own, Inner
<1>5. Forest(u, f)
  BY <1>1, <1>3, <1>4 DEF Forest
<1>6. Node4(u, f, high)
  BY <1>1 DEF Node4
<1>7. u[f][0] # Unused
  BY KernelEntries
<1>8. ElfOK(u, f, {})
  BY <1>1, <1>3, <1>4 DEF ElfOK, Leaves, Plain
<1>9. \A o \in Pages : ~InUse(u, f, o)
  <2> TAKE o \in Pages
  <2>1. Index(o, 4) \in 0..1
    BY IndexIs
  <2> QED  BY <1>1, <2>1 DEF InUse, Has1, Has2, Has3
<1> QED  BY <1>4, <1>5, <1>6, <1>7, <1>8, <1>9

\* The record of a process that is being made.
NewAs(M, st, g, todo, elf, prog) == [M EXCEPT !.st = st, !.root = g, !.todo = todo, !.elf = elf, !.prog = prog]

\* Its fields, whatever it was before.
LEMMA NewRecord ==
  ASSUME NEW M, Shaped(M), NEW st, NEW g, NEW todo, NEW elf, NEW prog
  PROVE  NewAs(M, st, g, todo, elf, prog)
         = [st |-> st, root |-> g, frames |-> M.frames, vmas |-> M.vmas, todo |-> todo, elf |-> elf, prog |-> prog]
<1> DEFINE a == [M EXCEPT !.st = st]
           b == [a EXCEPT !.root = g]
           c == [b EXCEPT !.todo = todo]
           d == [c EXCEPT !.elf = elf]
           e == [d EXCEPT !.prog = prog]
<1>1. a = [st |-> st, root |-> M.root, frames |-> M.frames, vmas |-> M.vmas, todo |-> M.todo, elf |-> M.elf, prog |-> M.prog]
  BY DEF Shaped
<1> HIDE DEF a
<1>2. b = [st |-> st, root |-> g, frames |-> M.frames, vmas |-> M.vmas, todo |-> M.todo, elf |-> M.elf, prog |-> M.prog]
  BY <1>1
<1> HIDE DEF b
<1>3. c = [st |-> st, root |-> g, frames |-> M.frames, vmas |-> M.vmas, todo |-> todo, elf |-> M.elf, prog |-> M.prog]
  BY <1>2
<1> HIDE DEF c
<1>4. d = [st |-> st, root |-> g, frames |-> M.frames, vmas |-> M.vmas, todo |-> todo, elf |-> elf, prog |-> M.prog]
  BY <1>3
<1> HIDE DEF d
<1>5. e = [st |-> st, root |-> g, frames |-> M.frames, vmas |-> M.vmas, todo |-> todo, elf |-> elf, prog |-> prog]
  BY <1>4
<1>6. NewAs(M, st, g, todo, elf, prog) = e
  BY DEF a, b, c, d, e, NewAs
<1> QED  BY <1>5, <1>6

\* Its fields, when there was no process.
LEMMA NewProcess ==
  ASSUME NEW g, NEW todo, NEW elf, NEW prog
  PROVE  NewAs(NoProcess, "loading", g, todo, elf, prog)
         = [st |-> "loading", root |-> g, frames |-> <<>>, vmas |-> <<>>, todo |-> todo, elf |-> elf, prog |-> prog]
<1>1. Shaped(NoProcess) /\ NoProcess.frames = <<>> /\ NoProcess.vmas = <<>>
  BY DEF Shaped, NoProcess
<1> QED  BY <1>1, NewRecord

\* create_process_page_table()
LEMMA CreateStep ==
  ASSUME SpaceInv, NEW p \in Procs, NEW todo, NEW elf \in BOOLEAN, NEW prog, CreatePageTable(p, todo, prog, elf),
         elf => prog \in Programs /\ todo = prog, ~elf => todo = CodePages
  PROVE  SpaceInv'
<1> DEFINE R == Others(tables, procs, lost, p)
           high == tables[K4][1] # Unused
           n == NewFrame(Snapshot, tables[K4])
           N == [st |-> "loading", root |-> n.got, frames |-> <<>>, vmas |-> <<>>, todo |-> todo, elf |-> elf, prog |-> prog]
<1>1. Running /\ procs[p] = NoProcess
  BY DEF CreatePageTable
<1>2. /\ SpaceOK(fa, tables, procs, lost, shadowed) /\ AllocOK(fa) /\ panic = "no" /\ shadowed \in BOOLEAN
  BY <1>1, ProcIs
<1>3. IsTables(tables) /\ KernelOK(tables)
  BY <1>2 DEF SpaceOK
<1>4. Commit(n) /\ lost' = lost /\ shadowed' = shadowed
  BY DEF CreatePageTable
<1>5. procs' = Put(procs, p, N)
  <2>1. procs' = Put(procs, p, NewAs(NoProcess, "loading", n.got, todo, elf, prog))
    BY DEF CreatePageTable, Put, NewAs
  <2>2. NewAs(NoProcess, "loading", n.got, todo, elf, prog) = N
    <3> HIDE DEF n
    <3> QED  BY NewProcess
  <2> QED  BY <2>1, <2>2
<1>6. Mem(Snapshot) /\ Snapshot.panic = "no" /\ Snapshot.fa = fa /\ Snapshot.tables = tables
  BY <1>2 DEF Snapshot, Mem
<1> DEFINE c == tables[K4]
<1>7. \/ n.panic = "no frame" /\ AllocOK(n.fa) /\ Mem(n)
      \/ /\ n = [fa |-> n.fa, tables |-> [tables EXCEPT ![n.got] = c], panic |-> "no", at |-> Snapshot.at, got |-> n.got]
         /\ n.got \in RamFrames /\ n.got \notin Used(fa)
         /\ AllocOK(n.fa) /\ Used(n.fa) = Used(fa) \union {n.got}
  <2> DEFINE m == Snapshot
  <2>1. n = NewFrame(m, c)
    OBVIOUS
  <2> HIDE DEF n, m, c
  <2>2. \/ n.panic = "no frame" /\ AllocOK(n.fa) /\ Mem(n)
        \/ /\ n = [fa |-> n.fa, tables |-> [m.tables EXCEPT ![n.got] = c], panic |-> "no", at |-> m.at, got |-> n.got]
           /\ n.got \in RamFrames /\ n.got \notin Used(m.fa)
           /\ AllocOK(n.fa) /\ Used(n.fa) = Used(m.fa) \union {n.got}
    BY <1>2, <1>6, <2>1, NewFrameIs DEF m
  <2> QED  BY <1>6, <2>2 DEF m
<1> HIDE DEF n
<1>8. CASE n.panic = "no frame" /\ AllocOK(n.fa) /\ Mem(n)
  <2>1. Stopped(n)
    BY <1>8 DEF Stopped
  <2> QED  BY <1>4, <2>1, StoppedOK
<1>9. CASE /\ n = [fa |-> n.fa, tables |-> [tables EXCEPT ![n.got] = c], panic |-> "no", at |-> Snapshot.at, got |-> n.got]
           /\ n.got \in RamFrames /\ n.got \notin Used(fa)
           /\ AllocOK(n.fa) /\ Used(n.fa) = Used(fa) \union {n.got}
  <2> DEFINE f == n.got
             u == n.tables
  <2>1. u = [tables EXCEPT ![f] = c] /\ n.panic = "no"
    BY <1>9
  <2>2. f \in RamFrames /\ f \notin Used(fa) /\ Used(n.fa) = Used(fa) \union {f} /\ AllocOK(n.fa)
        /\ K4 \in KernelTables /\ f \notin KernelTables
    BY <1>9, RamIs, KernelEntries
  <2>3. /\ c \in [0..1 -> Entries] /\ tables \in [RamFrames \union KernelTables -> [0..1 -> Entries]]
    BY <1>3, <2>2 DEF IsTables
  <2> HIDE DEF f, u, c
  <2>4. IsTables(u) /\ u[f] = c /\ \A x \in RamFrames \union KernelTables : x # f => u[x] = tables[x]
    BY <2>1, <2>2, <2>3 DEF IsTables
  <2>5. tables[K4][0] = Entry(K3, {"w", "x"}) /\ tables[K4][1] = IF high THEN Entry(K3High, {"w", "x"}) ELSE Unused
    BY <1>3, KernelIs
  <2>6. /\ Own(u, f) = {f} /\ Forest(u, f) /\ Node4(u, f, high) /\ u[f][0] # Unused
        /\ ElfOK(u, f, {}) /\ \A o \in Pages : ~InUse(u, f, o)
    <3>1. u[f] = tables[K4]
      BY <2>4 DEF c
    <3> HIDE DEF high
    <3> QED  BY <2>2, <2>4, <2>5, <3>1, NewSpace
  <2>7. /\ N.st = "loading" /\ N.root = f /\ N.vmas = <<>> /\ N.elf = elf /\ N.todo = todo
        /\ N.frames = <<>> /\ N.prog = prog /\ Shaped(N)
    BY DEF Shaped, f
  <2> HIDE DEF N
  <2>8. Listed(N)
    <3>1. <<>> \in Seq(RamFrames) /\ Distinct(<<>>) /\ <<>> \in Seq(Ranges)
      BY DEF Distinct
    <3>2. elf => Awaited(N) /\ Done(N) = 0
      <4> SUFFICES ASSUME elf PROVE Awaited(N) /\ Done(N) = 0
        OBVIOUS
      <4>1. prog \in Seq(Items) /\ todo = prog
        BY SpaceConstants
      <4>2. Len(prog) \in Nat
        BY <4>1
      <4>3. Done(N) = 0
        BY <2>7, <4>1, <4>2 DEF Done
      <4> QED  BY <2>7, <4>1, <4>2, <4>3 DEF Awaited
    <3>3. ~elf => todo \in Seq(Pages)
      BY SpaceConstants DEF Pages
    <3>4. SegsOf(<<>>, prog)
      BY DEF SegsOf, Range
    <3> QED  BY <2>7, <3>1, <3>2, <3>3, <3>4 DEF Listed
  <2>9. Range(<<>>) = {}
    BY DEF Range
  <2>10. Matched(u, N)
    <3>1. \A o : ~Cover(<<>>, o)
      BY <2>9 DEF Cover
    <3>2. \A o \in 0..MapLimit - 1 : o \in Pages
      BY SpaceConstants DEF Pages
    <3> QED  BY <2>6, <2>7, <3>1, <3>2 DEF Matched
  <2>10a. elf => Loaded(u, N)
    <3> SUFFICES ASSUME elf PROVE Loaded(u, N)
      OBVIOUS
    <3>1. prog \in Seq(Items) /\ todo = prog
      BY SpaceConstants
    <3>2. Len(prog) \in Nat
      BY <3>1
    <3>3. Done(N) = 0
      BY <2>7, <3>1, <3>2 DEF Done
    <3> QED  BY <2>6, <2>7, <3>3 DEF Loaded
  <2>11. ProcOK(u, N, high, shadowed)
    BY <2>6, <2>7, <2>8, <2>9, <2>10, <2>10a DEF ProcOK
  <2>12. Has(u, N) = {f} /\ OwnApart(u, N)
    BY <2>6, <2>7, <2>9 DEF Has, OwnApart
  <2>13. Used(fa) = R
    <3>1. Has(tables, procs[p]) = {}
      BY <1>1 DEF Has, NoProcess
    <3> DEFINE P == procs[p]
    <3>2. P = procs[p] /\ R = Others(tables, procs, lost, p)
      OBVIOUS
    <3> HIDE DEF R, P
    <3>3. Used(fa) = R \union Has(tables, P)
      BY <1>2, <3>2, UsedParts
    <3> QED  BY <3>1, <3>2, <3>3
  <2>14. R \subseteq RamFrames
    BY <1>2, <2>13, RamIs
  <2>15. \A x \in R \union KernelTables : u[x] = tables[x]
    BY <2>2, <2>4, <2>13, <2>14
  <2> DEFINE G == {}
  <2>16. /\ Used(n.fa) = R \union G \union Has(u, N)
         /\ R \cap (G \union Has(u, N)) = {} /\ G \cap Has(u, N) = {}
    BY <2>2, <2>12, <2>13
  <2>17. OwnStep(tables, R, n.fa, u, N, G, shadowed, shadowed, high)
    <3> HIDE DEF R, G
    <3> QED  BY <1>2, <2>4, <2>11, <2>12, <2>15, <2>16 DEF OwnStep
  <2>18. OwnStep(tables, Others(tables, procs, lost, p), n.fa, n.tables, N, G, shadowed, shadowed, high)
         /\ lost' = lost \union G
    BY <1>4, <2>17 DEF u
  <2> HIDE DEF R, G
  <2> QED  BY <1>2, <1>4, <1>5, <2>1, <2>2, <2>18, StepEnds
<1> QED  BY <1>7, <1>8, <1>9

-----------------------------------------------------------------------------
(* The results.                                                            *)

\* At boot there are no processes, and the frames are in order.
LEMMA SpaceStarts ==
  SpaceInit => SpaceInv
<1> SUFFICES ASSUME SpaceInit PROVE SpaceInv
  OBVIOUS
<1>1. /\ fa = BootAllocator /\ procs = [p \in Procs |-> NoProcess] /\ lost = {} /\ shadowed = FALSE /\ panic = "no"
  BY DEF SpaceInit
<1>2. PICK high \in BOOLEAN : tables = KernelMap(high)
  BY DEF SpaceInit
<1>3. AllocOK(fa) /\ Used(fa) = Reserved
  BY <1>1, BootOK
<1>4. IsTables(tables) /\ KernelOK(tables)
  <2>1. Entry(K3, {"w", "x"}) \in Entries /\ Entry(K3High, {"w", "x"}) \in Entries /\ Entry(K2, {"w", "x"}) \in Entries
        /\ Entry(4, {"w", "x", "huge"}) \in Entries /\ Entry(0, {"w", "x", "huge"}) \in Entries
        /\ Entry(K1, {"w", "x"}) \in Entries /\ Entry(2, {"w", "x"}) \in Entries /\ Entry(3, {"w", "x"}) \in Entries
        /\ Entry(8, {"w", "x", "huge"}) \in Entries /\ Unused \in Entries
    BY DEF Entries, Entry, Unused, K1, K2, K3, K3High
  <2> DEFINE rw == {"w", "x"}
             page == {"w", "x", "huge"}
             a == TableOf(Entry(K3, rw), IF high THEN Entry(K3High, rw) ELSE Unused)
             b == TableOf(Entry(K2, rw), Entry(4, page))
             c == TableOf(Entry(0, page), Entry(K1, rw))
             d == TableOf(Entry(2, rw), Entry(3, rw))
             e == TableOf(IF high THEN Entry(8, page) ELSE Unused, Unused)
             made == <<a, b, c, d, e>>
  <2>2. \A x, y \in Entries : TableOf(x, y) \in [0..1 -> Entries]
    BY DEF TableOf
  <2>3. a \in [0..1 -> Entries] /\ b \in [0..1 -> Entries] /\ c \in [0..1 -> Entries]
        /\ d \in [0..1 -> Entries] /\ e \in [0..1 -> Entries] /\ Blank \in [0..1 -> Entries]
    <3>1. (IF high THEN Entry(K3High, rw) ELSE Unused) \in Entries /\ (IF high THEN Entry(8, page) ELSE Unused) \in Entries
      BY <2>1
    <3> QED  BY <2>1, <2>2, <3>1, BlankIs
  <2>4. tables = [f \in RamFrames \union KernelTables |-> IF f \in KernelTables THEN made[f - K4 + 1] ELSE Blank]
    BY <1>2 DEF KernelMap
  <2>5. a[1] = IF high THEN Entry(K3High, rw) ELSE Unused
    BY DEF TableOf
  <2> HIDE DEF a, b, c, d, e
  <2>6. \A f \in KernelTables : made[f - K4 + 1] \in [0..1 -> Entries]
    <3> TAKE f \in KernelTables
    <3>1. f - K4 + 1 \in 1..5
      BY DEF KernelTables, K4, K3High
    <3>2. made \in [1..5 -> [0..1 -> Entries]]
      BY <2>3
    <3> QED  BY <3>1, <3>2
  <2>7. IsTables(tables)
    <3> HIDE DEF made
    <3> QED  BY <2>3, <2>4, <2>6 DEF IsTables
  <2>8. tables[K4] = a
    BY <2>4 DEF KernelTables, K4, K3High
  <2>9. high <=> tables[K4][1] # Unused
    BY <2>5, <2>8, KernelEntries
  <2>10. high = (tables[K4][1] # Unused)
    BY <2>9
  <2>11. tables = KernelMap(tables[K4][1] # Unused)
    BY <1>2, <2>10
  <2> QED  BY <2>7, <2>11 DEF KernelOK
<1>5. \A p \in Procs : procs[p] = NoProcess
  BY <1>1
<1>6. \A h : ProcOK(tables, NoProcess, h, shadowed) /\ OwnApart(tables, NoProcess) /\ Has(tables, NoProcess) = {}
  BY DEF ProcOK, NoProcess, OwnApart, Has, Shaped
<1>7. procs = [p \in Procs |-> procs[p]]
  BY <1>1
<1>8. UNION {Has(tables, procs[p]) : p \in Procs} = {}
  BY <1>5, <1>6
<1>9. Used(fa) = Reserved \union lost \union UNION {Has(tables, procs[p]) : p \in Procs}
  BY <1>1, <1>3, <1>8
<1>10. SpaceOK(fa, tables, procs, lost, shadowed)
  BY <1>1, <1>4, <1>5, <1>6, <1>7, <1>9 DEF SpaceOK
<1> QED  BY <1>1, <1>3, <1>10 DEF SpaceInv

\* Every operation on frames and address spaces keeps the invariant.
LEMMA SpaceSteps ==
  ASSUME SpaceInv, SpaceStep
  PROVE  SpaceInv'
<1>1. PICK p \in Procs :
        \/ \E prog \in Programs : CreatePageTable(p, prog, prog, TRUE)
        \/ CreatePageTable(p, CodePages, <<>>, FALSE)
        \/ LoadPage(p) \/ OpenPage(p)
        \/ \E n \in MapSizes : Mmap(p, n) \/ \E at \in MapBase .. MapLimit - 1 : MmapHint(p, at, n) \/ Munmap(p, at, n)
        \/ Destroy(p) \/ FreeEntry(p) \/ FreeRoot(p)
  BY DEF SpaceStep
<1>0. MapBase \in Nat /\ MapLimit \in Nat /\ 8 <= MapBase /\ MapLimit <= 16 /\ \A n \in MapSizes : n \in Nat /\ n # 0
  BY SpaceConstants
<1>2. ASSUME NEW prog \in Programs, CreatePageTable(p, prog, prog, TRUE) PROVE SpaceInv'
  BY <1>2, CreateStep
<1>3. CASE CreatePageTable(p, CodePages, <<>>, FALSE)
  BY <1>3, CreateStep
<1>4. CASE LoadPage(p)
  BY <1>4, LoadPageStep
<1>5. CASE OpenPage(p)
  BY <1>5, OpenPageStep
<1>6. ASSUME NEW n \in MapSizes, Mmap(p, n) PROVE SpaceInv'
  <2> DEFINE at == FindFree(procs[p].vmas, n)
  <2>1. /\ Running /\ procs[p].st = "live" /\ procs[p].elf /\ at # -1 /\ MapAt(p, at, n)
    BY <1>6 DEF Mmap, MayCall
  <2>2. procs[p].vmas \in Seq(Ranges)
    BY <2>1, ProcIs DEF Listed
  <2>3. at \in Nat /\ MapBase <= at /\ at + n <= MapLimit
    BY <1>0, <2>1, <2>2, FindFreeIs
  <2> HIDE DEF at
  <2> QED  BY <1>0, <2>1, <2>3, MapAtStep
<1>7. ASSUME NEW n \in MapSizes, NEW at \in MapBase .. MapLimit - 1, MmapHint(p, at, n) PROVE SpaceInv'
  <2>1. /\ Running /\ procs[p].st = "live" /\ procs[p].elf /\ MapAt(p, at, n) /\ at >= MapBase /\ at + n <= MapLimit
    BY <1>7 DEF MmapHint, MayCall
  <2>2. at \in Nat /\ MapBase <= at
    BY <1>0, <2>1
  <2> QED  BY <1>0, <2>1, <2>2, MapAtStep
<1>8. ASSUME NEW n \in MapSizes, NEW at \in MapBase .. MapLimit - 1, Munmap(p, at, n) PROVE SpaceInv'
  <2>1. at \in Nat
    BY <1>0
  <2> QED  BY <1>0, <1>8, <2>1, MunmapStep
<1>9. CASE Destroy(p)
  BY <1>9, DestroyStep
<1>10. CASE FreeEntry(p)
  BY <1>10, FreeEntryStep
<1>11. CASE FreeRoot(p)
  BY <1>11, FreeRootStep
<1> QED  BY <1>1, <1>2, <1>3, <1>4, <1>5, <1>6, <1>7, <1>8, <1>9, <1>10, <1>11

\* Frames that are listed once each are as many as the list is long.
LEMMA ListedOnce ==
  ASSUME NEW S, NEW s \in Seq(S), Distinct(s)
  PROVE  Len(s) = Cardinality(Range(s))
<1>1. Len(s) \in Nat /\ DOMAIN s = 1..Len(s) /\ s = [i \in 1..Len(s) |-> s[i]]
  OBVIOUS
<1>2. s \in [1..Len(s) -> Range(s)] /\ \A y \in Range(s) : \E i \in 1..Len(s) : s[i] = y
  BY <1>1 DEF Range
<1>3. s \in Bijection(1..Len(s), Range(s))
  BY <1>1, <1>2 DEF Bijection, Injection, Surjection, IsInjective, Distinct
<1>4. ExistsBijection(1..Len(s), Range(s))
  BY <1>3 DEF ExistsBijection
<1> QED  BY <1>1, <1>4, FS_CountingElements

\* Who is alive, and what is whose.
LEMMA AliveHas ==
  ASSUME SpaceOK(fa, tables, procs, lost, shadowed), NEW p \in Procs
  PROVE  /\ p \in Alive <=> procs[p].st # "none"
         /\ p \in Alive => /\ OwnTables(p) = Own(tables, procs[p].root)
                           /\ Has(tables, procs[p]) = OwnTables(p) \union Range(procs[p].frames)
                           /\ OwnTables(p) \cap Range(procs[p].frames) = {}
                           /\ ~OnStack(procs[p].prog) => Len(procs[p].frames) = Cardinality(Range(procs[p].frames))
         /\ p \notin Alive => Has(tables, procs[p]) = {}
<1> DEFINE P == procs[p]
           high == tables[K4][1] # Unused
<1>1. ProcOK(tables, P, high, shadowed) /\ OwnApart(tables, P) /\ IsTables(tables)
  BY DEF SpaceOK
<1>2. P.st = "none" => p \notin Alive /\ Has(tables, P) = {}
  BY DEF Alive, Has
<1>3. ASSUME P.st # "none"
      PROVE  /\ p \in Alive /\ OwnTables(p) = Own(tables, P.root)
             /\ Has(tables, P) = OwnTables(p) \union Range(P.frames)
             /\ OwnTables(p) \cap Range(P.frames) = {}
             /\ ~OnStack(P.prog) => Len(P.frames) = Cardinality(Range(P.frames))
  <2>1. Listed(P) /\ Forest(tables, P.root) /\ Node4(tables, P.root, high)
    BY <1>1, <1>3 DEF ProcOK
  <2>2. P.root \in RamFrames
    BY <2>1, LevelsAre DEF Forest
  <2>3. p \in Alive
    BY <1>3, <2>2, RamIs DEF Alive
  <2>4. OwnTables(p) = Own(tables, P.root)
    <3> HIDE DEF high
    <3>1. \A i \in 0..1 : TablesBelow(tables[P.root][i]) = Part(tables, P.root, i)
      BY <1>1, <2>1, TablesBelowIs
    <3>2. UNION {TablesBelow(tables[P.root][i]) : i \in 0..1}
          = Part(tables, P.root, 0) \union Part(tables, P.root, 1)
      <4>1. 0..1 = {0, 1}
        OBVIOUS
      <4>2. {TablesBelow(tables[P.root][i]) : i \in 0..1} = {Part(tables, P.root, 0), Part(tables, P.root, 1)}
        BY <3>1, <4>1
      <4> QED  BY <4>2
    <3>3. Own(tables, P.root) = {P.root} \union Part(tables, P.root, 0) \union Part(tables, P.root, 1)
      BY PartsAre
    <3> QED  BY <3>2, <3>3 DEF OwnTables
  <2>5. ~OnStack(P.prog) => Len(P.frames) = Cardinality(Range(P.frames))
    BY <2>1, ListedOnce DEF Listed
  <2> QED  BY <1>1, <1>3, <2>3, <2>4, <2>5 DEF Has, OwnApart
<1> QED  BY <1>2, <1>3

\* The invariant says what Accounted says.
LEMMA AccountedIfOK ==
  ASSUME SpaceInv
  PROVE  Accounted
<1>1. /\ panic = "double free" => \E p \in Procs : OnStack(procs[p].prog)
      /\ panic = "unknown frame" => tables[K4][1] # Unused
      /\ ListsExact
  BY ExactIfOK DEF SpaceInv
<1>2. CASE panic # "no"
  BY <1>1, <1>2 DEF Accounted
<1>3. CASE panic = "no"
  <2>1. SpaceOK(fa, tables, procs, lost, shadowed)
    BY <1>3 DEF SpaceInv
  <2> DEFINE H(p) == Has(tables, procs[p])
             T(p) == OwnTables(p)
             F(p) == Range(procs[p].frames)
  <2>2. \A p \in Procs : p \notin Alive => H(p) = {}
    BY <2>1, AliveHas
  <2>3. \A p \in Alive : /\ p \in Procs /\ H(p) = T(p) \union F(p) /\ T(p) \cap F(p) = {}
                         /\ ~OnStack(procs[p].prog) => Len(procs[p].frames) = Cardinality(F(p))
    <3>1. \A p \in Alive : p \in Procs
      BY DEF Alive
    <3> QED  BY <2>1, <3>1, AliveHas
  <2>4. /\ UsedFrames = Reserved \union lost \union UNION {H(p) : p \in Procs}
        /\ \A p \in Procs : H(p) \cap (Reserved \union lost) = {}
        /\ \A p, q \in Procs : p # q => H(p) \cap H(q) = {}
    <3>1. UsedFrames = Used(fa)
      BY DEF UsedFrames, Used
    <3> QED  BY <2>1, <3>1 DEF SpaceOK
  <2> HIDE DEF H, T, F
  <2>5. UNION {H(p) : p \in Procs} = UNION {T(p) \union F(p) : p \in Alive}
    <3>1. ASSUME NEW x, x \in UNION {H(p) : p \in Procs} PROVE x \in UNION {T(p) \union F(p) : p \in Alive}
      <4>1. PICK p \in Procs : x \in H(p)
        BY <3>1
      <4> QED  BY <2>2, <2>3, <4>1
    <3>2. ASSUME NEW x, x \in UNION {T(p) \union F(p) : p \in Alive} PROVE x \in UNION {H(p) : p \in Procs}
      <4>1. PICK p \in Alive : x \in T(p) \union F(p)
        BY <3>2
      <4> QED  BY <2>3, <4>1
    <3> QED  BY <3>1, <3>2
  <2>6. UsedFrames = Reserved \union lost \union UNION {T(p) \union F(p) : p \in Alive}
    BY <2>4, <2>5
  <2>7. ASSUME NEW p \in Alive, NEW q \in Alive
        PROVE  /\ T(p) \cap (F(q) \union Reserved \union lost) = {}
               /\ F(p) \cap (Reserved \union lost) = {}
               /\ p # q => T(p) \cap T(q) = {} /\ F(p) \cap F(q) = {}
    <3>1. /\ p \in Procs /\ q \in Procs /\ H(p) = T(p) \union F(p) /\ H(q) = T(q) \union F(q)
          /\ T(p) \cap F(p) = {} /\ H(p) \cap (Reserved \union lost) = {} /\ (p # q => H(p) \cap H(q) = {})
      BY <2>3, <2>4
    <3>2. CASE p = q
      BY <3>1, <3>2
    <3>3. CASE p # q
      BY <3>1, <3>3
    <3> QED  BY <3>2, <3>3
  <2> QED  BY <1>1, <2>3, <2>6, <2>7 DEF Accounted, T, F
<1> QED  BY <1>2, <1>3

\* The invariant says what Isolation says.
LEMMA IsolationIfOK ==
  ASSUME SpaceInv
  PROVE  Isolation
<1> SUFFICES ASSUME panic = "no" PROVE Isolation
  BY DEF Isolation
<1> DEFINE high == tables[K4][1] # Unused
<1>1. SpaceOK(fa, tables, procs, lost, shadowed)
  BY DEF SpaceInv
<1>2. IsTables(tables) /\ KernelOK(tables)
  BY <1>1 DEF SpaceOK
<1>3. \A k \in KernelTables : tables[k] = KernelMap(tables[K4][1] # Unused)[k]
  BY <1>2 DEF KernelOK
<1>4. KernelAs(tables, high)
  BY <1>2, KernelIs DEF KernelAs
<1>5. ASSUME NEW p \in Alive, procs[p].elf, procs[p].st # "dying"
      PROVE  LET frame(page) == LeafAt(tables, procs[p].root, page).to
             IN  /\ \A page \in UserPages(p) : frame(page) \in Range(procs[p].frames)
                 /\ \A a, b \in UserPages(p) : a # b => frame(a) # frame(b)
                 /\ ~shadowed /\ procs[p].st = "live" => Covered(p) \subseteq UserPages(p)
                 /\ ~shadowed /\ NoOverlap(procs[p].prog) => UserPages(p) \subseteq Covered(p)
  <2> DEFINE P == procs[p]
             user == {page \in 0 .. MapLimit - 1 : Mapped(p, page)}
             covered == UNION {P.vmas[i].from .. P.vmas[i].to - 1 : i \in DOMAIN P.vmas}
             at(page) == At1(tables, P.root, page)
  <2>1. p \in Procs /\ P.st # "none"
    BY DEF Alive
  <2>2. /\ Listed(P) /\ Forest(tables, P.root) /\ Node4(tables, P.root, high)
        /\ ElfOK(tables, P.root, Range(P.frames)) /\ (~shadowed => Matched(tables, P))
    BY <1>1, <1>5, <2>1 DEF SpaceOK, ProcOK
  <2>3. MapLimit \in Nat /\ \A o \in 0..MapLimit - 1 : o \in Pages
    BY SpaceConstants DEF Pages
  <2>4. \A o \in 0..MapLimit - 1 : WalkFinds(tables, P.root, o, high)
    <3> HIDE DEF high
    <3> QED  BY <1>2, <1>4, <2>2, <2>3, MappedIs
  <2>5. \A o \in 0..MapLimit - 1 : Mapped(p, o) <=> InUse(tables, P.root, o)
    BY <2>4 DEF WalkFinds, Mapped
  <2>6. ASSUME NEW o \in user
        PROVE  /\ o \in Pages /\ Has1(tables, P.root, o) /\ at(o) \in Level1(tables, P.root) /\ Index(o, 1) \in 0..1
               /\ Leaf(tables, at(o), Index(o, 1))
               /\ LeafAt(tables, P.root, o) = tables[at(o)][Index(o, 1)]
    <3>1. o \in 0..MapLimit - 1 /\ o \in Pages /\ InUse(tables, P.root, o) /\ WalkFinds(tables, P.root, o, high)
      BY <2>3, <2>4, <2>5
    <3>2. Has1(tables, P.root, o) /\ Leaf(tables, at(o), Index(o, 1))
      BY <3>1 DEF InUse
    <3> QED  BY <3>1, <3>2, WalkIs, IndexIs DEF WalkFinds
  <2>7. \A f \in Level1(tables, P.root) : \A l \in 0..1 : Leaf(tables, f, l) =>
          /\ tables[f][l].to \in Range(P.frames)
          /\ \A g \in Level1(tables, P.root) : \A k \in 0..1 :
               Leaf(tables, g, k) /\ tables[g][k].to = tables[f][l].to => g = f /\ k = l
    BY <2>2 DEF ElfOK, Leaves
  <2>8. \A o \in user : LeafAt(tables, P.root, o).to \in Range(P.frames)
    BY <2>6, <2>7
  <2>9. ASSUME NEW a \in user, NEW b \in user, a # b
        PROVE  LeafAt(tables, P.root, a).to # LeafAt(tables, P.root, b).to
    <3> SUFFICES ASSUME LeafAt(tables, P.root, a).to = LeafAt(tables, P.root, b).to PROVE FALSE
      OBVIOUS
    <3>1. at(a) = at(b) /\ Index(a, 1) = Index(b, 1)
      <4> HIDE DEF at, user
      <4> QED  BY <2>6, <2>7
    <3> QED  BY <2>2, <2>6, <2>9, <3>1, OneWalk
  <2>10. ASSUME ~shadowed
         PROVE  (P.st = "live" => covered \subseteq user) /\ (NoOverlap(P.prog) => user \subseteq covered)
    <3>1. /\ P.st = "live" => \A o \in 0..MapLimit - 1 : Cover(P.vmas, o) => Mapped(p, o)
          /\ NoOverlap(P.prog) => \A o \in 0..MapLimit - 1 : Mapped(p, o) => Cover(P.vmas, o)
      BY <2>2, <2>5, <2>10 DEF Matched
    <3>2. P.vmas \in Seq(Ranges)
      BY <2>2 DEF Listed
    <3>3. ASSUME NoOverlap(P.prog), NEW x \in user PROVE x \in covered
      <4>1. x \in Nat /\ Cover(P.vmas, x)
        BY <2>3, <3>1, <3>3
      <4>2. PICK v \in Range(P.vmas) : Covers(v, x)
        BY <4>1 DEF Cover
      <4>3. PICK i \in DOMAIN P.vmas : v = P.vmas[i]
        BY DEF Range
      <4>4. P.vmas[i].from \in Nat /\ P.vmas[i].to \in Nat
        BY <3>2 DEF Ranges
      <4>5. x \in P.vmas[i].from .. P.vmas[i].to - 1
        BY <4>1, <4>2, <4>3, <4>4 DEF Covers
      <4> QED  BY <4>5
    <3>4. ASSUME P.st = "live", NEW x \in covered PROVE x \in user
      <4>1. PICK i \in DOMAIN P.vmas : x \in P.vmas[i].from .. P.vmas[i].to - 1
        OBVIOUS
      <4>2. P.vmas[i] \in Ranges /\ P.vmas[i] \in Range(P.vmas)
        BY <3>2 DEF Range
      <4>3. P.vmas[i].from \in Nat /\ P.vmas[i].to \in Nat /\ P.vmas[i].to <= MapLimit
        BY <4>2 DEF Ranges
      <4>4. x \in 0..MapLimit - 1 /\ Covers(P.vmas[i], x)
        BY <2>3, <4>1, <4>3 DEF Covers
      <4> QED  BY <3>1, <3>4, <4>2, <4>4 DEF Cover
    <3> QED  BY <3>3, <3>4
  <2>11. user = UserPages(p) /\ covered = Covered(p)
    BY DEF UserPages, Covered
  <2> HIDE DEF user, covered
  <2> QED  BY <2>8, <2>9, <2>10, <2>11
<1> QED  BY <1>3, <1>5 DEF Isolation

\* Whatever processes are made, loaded, mapped, unmapped and ended, in whatever order and
\* however often memory runs out, the allocator's lists agree with its bitmap, the page
\* tables of every process are its own or the kernel's, and every frame in use has one owner
\* (usermode.rs, paging.rs, syscall/misc.rs).
THEOREM SpaceInvariant == Spec => []SpaceInv
<1>1. Init => SpaceInv
  BY SpaceStarts DEF Init
<1>2. SpaceInv /\ [Next]_vars => SpaceInv'
  <2> SUFFICES ASSUME SpaceInv, [Next]_vars PROVE SpaceInv'
    OBVIOUS
  <2>1. CASE SpaceStep
    BY <2>1, SpaceSteps
  <2>2. CASE UNCHANGED spaceVars
    BY <2>2 DEF spaceVars, SpaceInv
  <2> QED  BY <2>1, <2>2 DEF Next, vars
<1> QED  BY <1>1, <1>2, PTL DEF Spec

\* The blocks on the allocator's free lists are aligned, share no frame and hold exactly the
\* frames whose bit is clear, and the counter is the number of bits, for regions of any
\* number and size (BuddyFrameAllocator::allocate_order(), deallocate_order()).
THEOREM AllocatorIsExact == Spec => []ListsExact
<1>1. SpaceInv => ListsExact
  BY ExactIfOK DEF SpaceInv
<1> QED  BY <1>1, SpaceInvariant, PTL

\* Every frame has one owner, whatever programs are loaded, whatever they map and unmap,
\* and however their ends interleave; a frame is given back twice only for a program with a
\* segment on its stack (usermode.rs lists the stack's frame again), and one that is not RAM
\* only where the firmware maps the mmap area to itself (munmap asks no one).
THEOREM FramesAccounted == Spec => []Accounted
BY AccountedIfOK, SpaceInvariant, PTL

\* The kernel's tables never change, and a process loaded from a file reaches its own data
\* frames only, each at one page; as long as no mmap took a page that was mapped, the list
\* of its ranges covers nothing else, and all of it when no two segments of its program
\* overlap (usermode.rs drops the range of one that does).
THEOREM SpacesIsolated == Spec => []Isolation
BY IsolationIfOK, SpaceInvariant, PTL
=============================================================================
