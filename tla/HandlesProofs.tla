---------------------------- MODULE HandlesProofs ----------------------------
(***************************************************************************)
(* Proofs about Handles, for any number of processes, handles, pipes and   *)
(* writes.  HandleInv is inductive for every set Restricted; the writer    *)
(* counts are right as long as no program restricts a write end.           *)
(***************************************************************************)
EXTENDS Handles, FiniteSetTheorems, SequenceTheorems, TLAPS

-----------------------------------------------------------------------------
(* The two tables.                                                         *)

\* A set of natural numbers that is not empty has a least element.
LEMMA Least ==
  ASSUME NEW S \in SUBSET Nat, S # {}
  PROVE  \E x \in S : \A y \in S : x <= y
<1> DEFINE R == {ss \in Nat \X Nat : ss[1] < ss[2]}
<1>1. IsWellFoundedOn(R, Nat)
  BY NatLessThanWellFounded DEF OpToRel
<1> HIDE DEF R
<1>2. PICK x \in S : \A y \in S : ~(<<y, x>> \in R)
  BY <1>1, WFMin
<1>3. ASSUME NEW y \in S PROVE x <= y
  <2>1. <<y, x>> \in R <=> y < x
    BY DEF R
  <2> QED  BY <1>2, <2>1
<1> QED  BY <1>3

\* r is s with x in slot k, which was free or one past the end.
Grown(s, r, k, x) ==
  /\ k \in 1..Len(r) /\ r[k] = x
  /\ Len(s) <= Len(r)
  /\ k <= Len(s) => s[k] = Free
  /\ \A i \in 1..Len(r) : i # k => i \in 1..Len(s) /\ r[i] = s[i]

\* The number of entries.
OpenIn(s) == Len(s) - Cardinality(FreeSlots(s))

\* The first free slot, or one more.
LEMMA SlotIs ==
  ASSUME NEW S, NEW s \in Seq(S)
  PROVE  \/ FreeSlots(s) = {} /\ Slot(s) = Len(s) + 1
         \/ Slot(s) \in FreeSlots(s)
<1>1. CASE FreeSlots(s) = {}
  BY <1>1 DEF Slot
<1>2. CASE FreeSlots(s) # {}
  <2>1. FreeSlots(s) \in SUBSET Nat
    BY DEF FreeSlots
  <2>2. \E i \in FreeSlots(s) : \A j \in FreeSlots(s) : i <= j
    BY <1>2, <2>1, Least
  <2> QED  BY <1>2, <2>2 DEF Slot
<1> QED  BY <1>1, <1>2

\* insert_entry(), and the allocation of a pipe: one slot changes, the Vec grows
\* only when no slot is free, and there is one entry more.
LEMMA PutIs ==
  ASSUME NEW E, Free \notin E, NEW s \in Seq(E \cup {Free}), NEW x \in E
  PROVE  /\ Put(s, x) \in Seq(E \cup {Free})
         /\ Grown(s, Put(s, x), Slot(s), x)
         /\ OpenIn(Put(s, x)) = OpenIn(s) + 1
         /\ Len(Put(s, x)) \in {Len(s), OpenIn(s) + 1}
         /\ Len(Put(s, x)) <= Len(s) + 1
<1> DEFINE r == Put(s, x)
           k == Slot(s)
<1>0. FreeSlots(s) \subseteq 1..Len(s) /\ IsFiniteSet(FreeSlots(s))
  <2>1. IsFiniteSet(1..Len(s))
    BY FS_Interval
  <2> QED  BY <2>1, FS_Subset DEF FreeSlots
<1>1. CASE FreeSlots(s) = {} /\ k = Len(s) + 1
  <2>1. r = Append(s, x)
    BY <1>1 DEF Put
  <2>2. /\ r \in Seq(E \cup {Free}) /\ Len(r) = Len(s) + 1 /\ r[Len(s) + 1] = x
        /\ \A i \in 1..Len(s) : r[i] = s[i]
    BY <2>1
  <2>3. FreeSlots(r) = {}
    BY <1>1, <2>2 DEF FreeSlots
  <2>4. Cardinality(FreeSlots(s)) = 0 /\ Cardinality(FreeSlots(r)) = 0
    BY <1>1, <2>3, FS_EmptySet
  <2>5. Grown(s, r, k, x)
    BY <1>1, <2>2 DEF Grown
  <2> QED  BY <2>2, <2>4, <2>5 DEF OpenIn
<1>2. CASE k \in FreeSlots(s)
  <2>1. k \in 1..Len(s) /\ s[k] = Free
    BY <1>2 DEF FreeSlots
  <2>2. r = [s EXCEPT ![k] = x]
    BY <2>1 DEF Put
  <2>3. r \in Seq(E \cup {Free}) /\ Len(r) = Len(s)
    BY <2>1, <2>2
  <2>4. \A i \in 1..Len(s) : r[i] = IF i = k THEN x ELSE s[i]
    BY <2>1, <2>2
  <2>5. FreeSlots(r) = FreeSlots(s) \ {k}
    BY <2>1, <2>3, <2>4 DEF FreeSlots
  <2>6. Cardinality(FreeSlots(r)) = Cardinality(FreeSlots(s)) - 1
    BY <1>0, <1>2, <2>5, FS_RemoveElement
  <2>7. Grown(s, r, k, x)
    BY <2>1, <2>3, <2>4 DEF Grown
  <2>8. Cardinality(FreeSlots(s)) \in Nat
    BY <1>0, FS_CardinalityType
  <2> HIDE DEF r, k
  <2>9. OpenIn(r) = OpenIn(s) + 1
    BY <2>3, <2>6, <2>8 DEF OpenIn
  <2> QED  BY <2>3, <2>7, <2>9 DEF r, k
<1> QED  BY <1>1, <1>2, SlotIs

\* The records of the two tables are not the mark of a free slot.
LEMMA NotFree == Free \notin Entry /\ Free \notin Pipe
BY DEF Free, Entry, Pipe

-----------------------------------------------------------------------------
(* The open ends in a table.                                               *)

EntryTab == Seq(Entry \cup {Free})

EndsIn(tab, k, p) ==
  {i \in 1..Len(tab) : tab[i] # Free /\ tab[i].kind = k /\ tab[i].pipe = p}

\* The set of open ends is finite.
LEMMA EndsFinite ==
  ASSUME NEW tab \in EntryTab, NEW k, NEW p
  PROVE  IsFiniteSet(EndsIn(tab, k, p)) /\ Cardinality(EndsIn(tab, k, p)) \in Nat
<1>1. IsFiniteSet(1..Len(tab))
  BY FS_Interval DEF EntryTab
<1>2. EndsIn(tab, k, p) \in SUBSET (1..Len(tab))
  BY DEF EndsIn
<1>3. IsFiniteSet(EndsIn(tab, k, p))
  BY <1>1, <1>2, FS_Subset
<1> QED  BY <1>3, FS_CardinalityType

\* A new entry is one more end of its kind and pipe, and of no other.
LEMMA EndsGrown ==
  ASSUME NEW s \in EntryTab, NEW r \in EntryTab,
         NEW j, NEW e \in Entry, Grown(s, r, j, e), NEW k, NEW p
  PROVE  /\ e.kind = k /\ e.pipe = p =>
              Cardinality(EndsIn(r, k, p)) = Cardinality(EndsIn(s, k, p)) + 1
         /\ ~(e.kind = k /\ e.pipe = p) => EndsIn(r, k, p) = EndsIn(s, k, p)
<1>0. e # Free
  BY NotFree
<1>1. ASSUME e.kind = k, e.pipe = p PROVE EndsIn(r, k, p) = EndsIn(s, k, p) \cup {j}
  BY <1>0, <1>1 DEF EndsIn, Grown, EntryTab
<1>2. j \notin EndsIn(s, k, p)
  BY DEF EndsIn, Grown, EntryTab
<1>3. ASSUME ~(e.kind = k /\ e.pipe = p) PROVE EndsIn(r, k, p) = EndsIn(s, k, p)
  BY <1>0, <1>3 DEF EndsIn, Grown, EntryTab
<1> QED  BY <1>1, <1>2, <1>3, EndsFinite, FS_AddElement

-----------------------------------------------------------------------------
(* The invariant.                                                          *)

TabOK(tab) == tab \in EntryTab /\ Len(tab) <= MaxOpen

\* The buffer holds what was written and not yet read.
PipeSound(q) ==
  /\ Len(q.buf) = q.wrote - q.got
  /\ \A i \in 1..Len(q.buf) : q.buf[i] = q.got + i

\* No more slots than pipes created, and every pipe is sound.
PipesOK(pps, b) ==
  /\ pps \in Seq(Pipe \cup {Free}) /\ Len(pps) <= b
  /\ \A p \in 1..Len(pps) : pps[p] # Free => PipeSound(pps[p])

\* What the processes keep; every handle carries a token that has been given out.
Owners ==
  /\ holds \in [Tasks -> SUBSET Handle] /\ inbox \in [Tasks -> SUBSET Handle]
  /\ stdio \in [Tasks -> [in : Handle \cup {NoHandle}, out : Handle \cup {NoHandle}]]
  /\ life \in [Tasks -> {"unborn", "live", "dead"}]
  /\ reading \in [Tasks -> [handle : Handle \cup {NoHandle}, pipe : 0..MaxPipes]]
  /\ pc \in [Tasks -> {"idle", "lookup", "pipe"}]
  /\ \A t \in Tasks : \A h \in holds[t] \cup inbox[t] : h.token <= token

HandleInv ==
  /\ TabOK(table) /\ PipesOK(pipes, born)
  /\ token \in 0..MaxTokens /\ born \in 0..MaxPipes
  /\ Owners

\* WriterCount and WriteEndValid of explicit tables.
Writers(tab, pps) ==
  /\ \A p \in 1..Len(pps) :
       pps[p] # Free => pps[p].writer_count = Cardinality(EndsIn(tab, "PipeWrite", p))
  /\ \A i \in 1..Len(tab) :
       tab[i] # Free /\ tab[i].kind = "PipeWrite" =>
         /\ tab[i].pipe \in 1..Len(pps) /\ pps[tab[i].pipe] # Free
         /\ pps[tab[i].pipe].gen = tab[i].gen

\* Entries are created with new tokens only.
Fresh(tab, new) ==
  \A i \in 1..Len(new) :
    \/ new[i] = Free
    \/ i \in 1..Len(tab) /\ new[i] = tab[i]
    \/ new[i].token > token

\* What every step does.
Keeps ==
  /\ HandleInv'
  /\ Fresh(table, table')
  /\ "PipeWrite" \notin Restricted /\ Writers(table, pipes) => Writers(table', pipes')

\* The invariants that the runs check, in these terms.
LEMMA InvIs ==
  /\ HandleInv => TypeOK /\ DataInOrder
  /\ Writers(table, pipes) <=> WriterCount /\ WriteEndValid
<1>1. ASSUME HandleInv PROVE TypeOK /\ DataInOrder
  <2>1. TypeOK
    BY <1>1, HandleConstants DEF HandleInv, TabOK, EntryTab, PipesOK, Owners, TypeOK
  <2>2. DataInOrder
    BY <1>1 DEF HandleInv, PipesOK, PipeSound, DataInOrder
  <2> QED  BY <2>1, <2>2
<1>2. \A k, p : Ends(k, p) = EndsIn(table, k, p)
  BY DEF Ends, EndsIn
<1> QED
  BY <1>1, <1>2 DEF Writers, WriterCount, WriteEndValid, Exists

-----------------------------------------------------------------------------
(* Copies.                                                                 *)

\* One writer more for the pipes of P.
Bump(pps, P) ==
  [p \in 1..Len(pps) |->
     IF pps[p] = Free THEN Free
     ELSE [pps[p] EXCEPT !.writer_count = @ + IF p \in P THEN 1 ELSE 0]]

\* duplicate_handle() of handles among which at most one is a write end.
LEMMA AddWritersIs ==
  ASSUME pipes \in Seq(Pipe \cup {Free}), NEW hs, NEW P,
         \/ Writable(hs) = {} /\ P = {}
         \/ \E j : Writable(hs) = {j} /\ P = {table[hs[j].id].pipe}
  PROVE  AddWriters(hs) = Bump(pipes, P)
<1>1. ASSUME NEW p
      PROVE  Cardinality({i \in Writable(hs) : table[hs[i].id].pipe = p}) =
               IF p \in P THEN 1 ELSE 0
  <2>1. CASE Writable(hs) = {} /\ P = {}
    <3>1. {i \in Writable(hs) : table[hs[i].id].pipe = p} = {}
      BY <2>1
    <3> QED  BY <2>1, <3>1, FS_EmptySet
  <2>2. CASE \E j : Writable(hs) = {j} /\ P = {table[hs[j].id].pipe}
    <3>1. PICK j : Writable(hs) = {j} /\ P = {table[hs[j].id].pipe}
      BY <2>2
    <3>2. CASE p \in P
      <4>1. {i \in Writable(hs) : table[hs[i].id].pipe = p} = {j}
        BY <3>1, <3>2
      <4> QED  BY <3>2, <4>1, FS_Singleton
    <3>3. CASE p \notin P
      <4>1. {i \in Writable(hs) : table[hs[i].id].pipe = p} = {}
        BY <3>1, <3>3
      <4> QED  BY <3>3, <4>1, FS_EmptySet
    <3> QED  BY <3>2, <3>3
  <2> QED  BY <2>1, <2>2
<1> QED  BY <1>1 DEF AddWriters, Bump

\* n is pps but for the counts of P.
Counted(pps, n, P) ==
  /\ Len(n) = Len(pps)
  /\ \A p \in 1..Len(pps) :
       /\ n[p] = Free <=> pps[p] = Free
       /\ pps[p] # Free =>
            /\ n[p].writer_count = pps[p].writer_count + IF p \in P THEN 1 ELSE 0
            /\ n[p].gen = pps[p].gen

\* A count more leaves the contents of the pipes alone.
LEMMA BumpIs ==
  ASSUME NEW pps, NEW b, NEW P, PipesOK(pps, b)
  PROVE  PipesOK(Bump(pps, P), b) /\ Counted(pps, Bump(pps, P), P)
<1> DEFINE n == Bump(pps, P)
<1>0. pps \in Seq(Pipe \cup {Free})
  BY DEF PipesOK
<1>1. ASSUME NEW p \in 1..Len(pps), pps[p] # Free
      PROVE  /\ n[p] \in Pipe
             /\ n[p].writer_count = pps[p].writer_count + IF p \in P THEN 1 ELSE 0
             /\ n[p].gen = pps[p].gen
             /\ n[p].buf = pps[p].buf /\ n[p].wrote = pps[p].wrote /\ n[p].got = pps[p].got
  <2>1. pps[p] \in Pipe
    BY <1>0, <1>1
  <2>2. n[p] = [pps[p] EXCEPT !.writer_count = @ + IF p \in P THEN 1 ELSE 0]
    BY <1>1 DEF Bump
  <2> HIDE DEF n
  <2> QED  BY <2>1, <2>2 DEF Pipe
<1>2. \A p \in 1..Len(pps) : pps[p] = Free => n[p] = Free
  BY DEF Bump
<1>3. n \in Seq(Pipe \cup {Free}) /\ Len(n) = Len(pps)
  <2>1. \A p \in 1..Len(pps) : n[p] \in Pipe \cup {Free}
    BY <1>1, <1>2
  <2>2. n = [p \in 1..Len(pps) |-> n[p]]
    BY DEF Bump
  <2> HIDE DEF n
  <2>3. Len(pps) \in Nat
    BY <1>0
  <2>4. n \in [1..Len(pps) -> Pipe \cup {Free}]
    BY <2>1, <2>2
  <2> QED  BY <2>3, <2>4
<1> HIDE DEF n
<1>4. \A p \in 1..Len(pps) : pps[p] # Free => n[p] # Free
  BY <1>1, NotFree
<1>5. ASSUME NEW p \in 1..Len(n), n[p] # Free PROVE PipeSound(n[p])
  <2>1. pps[p] # Free /\ p \in 1..Len(pps)
    BY <1>2, <1>3, <1>5
  <2>2. PipeSound(pps[p])
    BY <2>1 DEF PipesOK
  <2> QED  BY <1>1, <2>1, <2>2 DEF PipeSound
<1>6. PipesOK(n, b)
  BY <1>3, <1>5 DEF PipesOK
<1>7. Counted(pps, n, P)
  BY <1>1, <1>2, <1>3, <1>4 DEF Counted
<1> QED  BY <1>6, <1>7 DEF n

\* A copy of an open end: with its writer counted, the counts stay right.
LEMMA CopyWriters ==
  ASSUME NEW tab \in EntryTab, NEW new \in EntryTab,
         NEW pps, NEW b, PipesOK(pps, b), Writers(tab, pps),
         NEW i \in 1..Len(tab), tab[i] # Free, NEW j, NEW e \in Entry, Grown(tab, new, j, e),
         e.kind = tab[i].kind, e.pipe = tab[i].pipe, e.gen = tab[i].gen
  PROVE  Writers(new, Bump(pps, IF e.kind = "PipeWrite" THEN {e.pipe} ELSE {}))
<1> DEFINE P == IF e.kind = "PipeWrite" THEN {e.pipe} ELSE {}
           n == Bump(pps, P)
<1>0. \A p : p \in P <=> e.kind = "PipeWrite" /\ e.pipe = p
  OBVIOUS
<1> HIDE DEF P
<1>1. Counted(pps, n, P)
  BY BumpIs
<1> HIDE DEF n
<1>2. ASSUME NEW p \in 1..Len(n), n[p] # Free
      PROVE  n[p].writer_count = Cardinality(EndsIn(new, "PipeWrite", p))
  <2>1. pps[p] # Free /\ pps[p].writer_count = Cardinality(EndsIn(tab, "PipeWrite", p))
    BY <1>1, <1>2 DEF Writers, Counted
  <2>2. /\ p \in P => Cardinality(EndsIn(new, "PipeWrite", p)) =
                        Cardinality(EndsIn(tab, "PipeWrite", p)) + 1
        /\ p \notin P => EndsIn(new, "PipeWrite", p) = EndsIn(tab, "PipeWrite", p)
    <3>1. /\ e.kind = "PipeWrite" /\ e.pipe = p =>
               Cardinality(EndsIn(new, "PipeWrite", p)) =
                 Cardinality(EndsIn(tab, "PipeWrite", p)) + 1
          /\ ~(e.kind = "PipeWrite" /\ e.pipe = p) =>
               EndsIn(new, "PipeWrite", p) = EndsIn(tab, "PipeWrite", p)
      BY EndsGrown
    <3> QED  BY <1>0, <3>1
  <2>3. Cardinality(EndsIn(tab, "PipeWrite", p)) \in Nat
    BY EndsFinite
  <2> QED  BY <1>1, <1>2, <2>1, <2>2, <2>3 DEF Counted
<1>3. ASSUME NEW k \in 1..Len(new), new[k] # Free, new[k].kind = "PipeWrite"
      PROVE  /\ new[k].pipe \in 1..Len(n) /\ n[new[k].pipe] # Free
             /\ n[new[k].pipe].gen = new[k].gen
  <2>1. PICK m \in 1..Len(tab) :
          tab[m] # Free /\ tab[m].kind = "PipeWrite"
            /\ tab[m].pipe = new[k].pipe /\ tab[m].gen = new[k].gen
    <3>1. CASE k = j
      BY <1>3, <3>1 DEF Grown
    <3>2. CASE k # j
      <4>1. k \in 1..Len(tab) /\ new[k] = tab[k]
        BY <3>2 DEF Grown
      <4> QED  BY <1>3, <4>1
    <3> QED  BY <3>1, <3>2
  <2>2. /\ tab[m].pipe \in 1..Len(pps) /\ pps[tab[m].pipe] # Free
        /\ pps[tab[m].pipe].gen = tab[m].gen
    BY <2>1 DEF Writers
  <2> QED  BY <1>1, <2>1, <2>2 DEF Counted
<1> QED  BY <1>2, <1>3 DEF Writers, n, P

-----------------------------------------------------------------------------
(* Closing.                                                                *)

\* The slots that closing hs frees.
Closed(hs) == {h.id : h \in {x \in hs : Valid(x)}}

\* The writers left of pipe p, and whether its reader is gone.
Left(S, p) ==
  LET w == Cardinality(S \cap EndsIn(table, "PipeWrite", p))
  IN  IF pipes[p].writer_count >= w THEN pipes[p].writer_count - w ELSE 0
Lost(S, p) == pipes[p].reader_closed \/ S \cap EndsIn(table, "PipeRead", p) # {}

\* PipesWithout in these terms.
LEMMA PipesWithoutIs ==
  ASSUME NEW hs, NEW p \in 1..Len(pipes)
  PROVE  PipesWithout(hs)[p] =
           LET S == Closed(hs)
           IN  IF pipes[p] = Free
                    \/ S \cap (EndsIn(table, "PipeWrite", p) \cup EndsIn(table, "PipeRead", p)) = {}
               THEN pipes[p]
               ELSE IF Gone(Left(S, p), Lost(S, p)) THEN Free
               ELSE [pipes[p] EXCEPT !.writer_count = Left(S, p), !.reader_closed = Lost(S, p)]
<1>1. \A k, x : Ends(k, x) = EndsIn(table, k, x)
  BY DEF Ends, EndsIn
<1>2. Ends("PipeWrite", p) = EndsIn(table, "PipeWrite", p)
  BY <1>1
<1>3. Ends("PipeRead", p) = EndsIn(table, "PipeRead", p)
  BY <1>1
<1> QED  BY <1>2, <1>3, Zenon DEF PipesWithout, Closed, Left, Lost

\* What handle::close() frees are slots of the table.
LEMMA TableWithoutIs ==
  ASSUME NEW hs, table \in EntryTab
  PROVE  /\ Closed(hs) \subseteq 1..Len(table)
         /\ TableWithout(hs) \in EntryTab /\ Len(TableWithout(hs)) = Len(table)
         /\ \A i \in 1..Len(table) :
              TableWithout(hs)[i] = IF i \in Closed(hs) THEN Free ELSE table[i]
<1> DEFINE tab == TableWithout(hs)
<1>1. Closed(hs) \subseteq 1..Len(table)
  BY DEF Closed, Valid
<1>2. ASSUME NEW i \in 1..Len(table)
      PROVE  tab[i] = IF i \in Closed(hs) THEN Free ELSE table[i]
  BY DEF TableWithout, Closed
<1>3. \A i \in 1..Len(table) : tab[i] \in Entry \cup {Free}
  BY <1>2 DEF EntryTab
<1>4. tab = [i \in 1..Len(table) |-> tab[i]]
  BY DEF TableWithout
<1> HIDE DEF tab
<1>5. Len(table) \in Nat
  BY DEF EntryTab
<1>6. tab \in [1..Len(table) -> Entry \cup {Free}]
  BY <1>3, <1>4
<1>7. tab \in Seq(Entry \cup {Free}) /\ Len(tab) = Len(table)
  BY <1>5, <1>6
<1> QED  BY <1>1, <1>2, <1>7 DEF tab, EntryTab

\* After a close the ends that are left are those whose slots it did not free.
LEMMA EndsWithout ==
  ASSUME NEW hs, table \in EntryTab, NEW k, NEW p
  PROVE  EndsIn(TableWithout(hs), k, p) = EndsIn(table, k, p) \ Closed(hs)
<1> DEFINE tab == TableWithout(hs)
           S == Closed(hs)
<1>1. /\ Len(tab) = Len(table)
      /\ \A i \in 1..Len(table) : tab[i] = IF i \in S THEN Free ELSE table[i]
  BY TableWithoutIs
<1> HIDE DEF tab, S
<1>2. EndsIn(tab, k, p) = EndsIn(table, k, p) \ S
  BY <1>1 DEF EndsIn
<1> QED  BY <1>2 DEF tab, S

\* What a close leaves of a pipe.
LEMMA PipeWithout ==
  ASSUME NEW hs, table \in EntryTab, NEW b, PipesOK(pipes, b), NEW p \in 1..Len(pipes)
  PROVE  /\ pipes[p] = Free => PipesWithout(hs)[p] = Free
         /\ pipes[p] # Free /\ PipesWithout(hs)[p] # Free =>
              /\ PipesWithout(hs)[p] \in Pipe
              /\ PipeSound(PipesWithout(hs)[p])
              /\ PipesWithout(hs)[p].gen = pipes[p].gen
<1> DEFINE q == PipesWithout(hs)[p]
           S == Closed(hs)
           n == Left(S, p)
           c == Lost(S, p)
<1>1. \/ q = pipes[p] \/ q = Free
      \/ pipes[p] # Free /\ q = [pipes[p] EXCEPT !.writer_count = n, !.reader_closed = c]
  BY PipesWithoutIs
<1>2. c \in BOOLEAN
  BY DEF Lost
<1>3. ASSUME pipes[p] # Free PROVE pipes[p] \in Pipe /\ PipeSound(pipes[p])
  BY <1>3 DEF PipesOK
<1>4. ASSUME pipes[p] # Free PROVE n \in Nat
  <2> DEFINE w == Cardinality(S \cap EndsIn(table, "PipeWrite", p))
  <2>1. w \in Nat
    <3>1. IsFiniteSet(EndsIn(table, "PipeWrite", p))
      BY EndsFinite
    <3>2. IsFiniteSet(S \cap EndsIn(table, "PipeWrite", p))
      BY <3>1, FS_Intersection
    <3> QED  BY <3>2, FS_CardinalityType
  <2>2. pipes[p].writer_count \in Nat
    BY <1>3, <1>4 DEF Pipe
  <2>3. n = IF pipes[p].writer_count >= w THEN pipes[p].writer_count - w ELSE 0
    BY DEF Left
  <2> HIDE DEF w, n
  <2> QED  BY <2>1, <2>2, <2>3
<1> HIDE DEF q, n, c
<1>5. pipes[p] = Free => q = Free
  BY <1>1
<1>6. ASSUME pipes[p] # Free, q # Free
      PROVE  q \in Pipe /\ PipeSound(q) /\ q.gen = pipes[p].gen
  <2>1. CASE q = pipes[p]
    BY <1>3, <1>6, <2>1
  <2>2. CASE q = [pipes[p] EXCEPT !.writer_count = n, !.reader_closed = c]
    <3>1. /\ q \in Pipe /\ q.gen = pipes[p].gen
          /\ q.buf = pipes[p].buf /\ q.wrote = pipes[p].wrote /\ q.got = pipes[p].got
      BY <1>2, <1>3, <1>4, <1>6, <2>2 DEF Pipe
    <3> QED  BY <1>3, <1>6, <3>1 DEF PipeSound
  <2> QED  BY <1>1, <1>6, <2>1, <2>2
<1> QED  BY <1>5, <1>6 DEF q

\* close_writer(): the count that is left is the number of write ends that are
\* left, and the pipe stays while there is one.
LEMMA CountWithout ==
  ASSUME NEW hs, table \in EntryTab, NEW b, PipesOK(pipes, b), NEW p \in 1..Len(pipes),
         pipes[p] # Free, Writers(table, pipes)
  PROVE  LET E == EndsIn(TableWithout(hs), "PipeWrite", p)
         IN  /\ PipesWithout(hs)[p] # Free =>
                  PipesWithout(hs)[p].writer_count = Cardinality(E)
             /\ E # {} => PipesWithout(hs)[p] # Free
<1> DEFINE S == Closed(hs)
           A == EndsIn(table, "PipeWrite", p)
           E == EndsIn(TableWithout(hs), "PipeWrite", p)
           q == PipesWithout(hs)[p]
           n == Left(S, p)
           c == Lost(S, p)
<1>1. E = A \ S
  BY EndsWithout
<1>2. pipes[p].writer_count = Cardinality(A)
  BY DEF Writers
<1>3. IsFiniteSet(A) /\ Cardinality(A) \in Nat
  BY EndsFinite
<1>4. IsFiniteSet(E) /\ Cardinality(E) = Cardinality(A) - Cardinality(S \cap A)
  <2>1. A \cap S = S \cap A
    OBVIOUS
  <2> QED  BY <1>1, <1>3, <2>1, FS_Difference
<1>5. Cardinality(E) \in Nat /\ Cardinality(S \cap A) \in Nat
  <2>1. IsFiniteSet(S \cap A)
    BY <1>3, FS_Intersection
  <2> QED  BY <1>4, <2>1, FS_CardinalityType
<1>6. n = Cardinality(E)
  <2>1. n = IF pipes[p].writer_count >= Cardinality(S \cap A)
            THEN pipes[p].writer_count - Cardinality(S \cap A) ELSE 0
    BY DEF Left
  <2> HIDE DEF n, S, A, E
  <2> QED  BY <1>2, <1>3, <1>4, <1>5, <2>1
<1>7. q = IF S \cap (A \cup EndsIn(table, "PipeRead", p)) = {} THEN pipes[p]
          ELSE IF Gone(n, c) THEN Free
          ELSE [pipes[p] EXCEPT !.writer_count = n, !.reader_closed = c]
  BY PipesWithoutIs
<1>8. pipes[p] \in Pipe
  BY DEF PipesOK
<1> HIDE DEF q, n, c
<1>9. q # Free => q.writer_count = Cardinality(E)
  <2>1. CASE S \cap (A \cup EndsIn(table, "PipeRead", p)) = {}
    <3>1. A \ S = A
      BY <2>1
    <3> QED  BY <1>1, <1>2, <1>7, <2>1, <3>1
  <2>2. CASE S \cap (A \cup EndsIn(table, "PipeRead", p)) # {}
    BY <1>6, <1>7, <1>8, <2>2 DEF Pipe
  <2> QED  BY <2>1, <2>2
<1>10. E # {} => q # Free
  <2>1. ASSUME E # {} PROVE n # 0
    BY <1>4, <1>6, <2>1, FS_EmptySet
  <2>2. [pipes[p] EXCEPT !.writer_count = n, !.reader_closed = c] # Free
    BY <1>8 DEF Pipe, Free
  <2> QED  BY <1>7, <2>1, <2>2 DEF Gone
<1> QED  BY <1>9, <1>10 DEF q

\* close(), of any set of handles.
LEMMA CloseKeeps ==
  ASSUME HandleInv, NEW hs, CloseAll(hs)
  PROVE  /\ TabOK(table') /\ PipesOK(pipes', born) /\ Fresh(table, table')
         /\ Writers(table, pipes) => Writers(table', pipes')
<1> DEFINE tab == TableWithout(hs)
           pps == PipesWithout(hs)
<1>0. table \in EntryTab /\ PipesOK(pipes, born) /\ Len(table) <= MaxOpen
  BY DEF HandleInv, TabOK
<1>1. /\ tab \in EntryTab /\ Len(tab) = Len(table)
      /\ \A i \in 1..Len(table) : tab[i] = Free \/ tab[i] = table[i]
  BY <1>0, TableWithoutIs
<1>2. \A p \in 1..Len(pipes) :
        /\ pipes[p] = Free => pps[p] = Free
        /\ pps[p] # Free => pps[p] \in Pipe /\ PipeSound(pps[p]) /\ pps[p].gen = pipes[p].gen
  BY <1>0, PipeWithout
<1>3. pps \in Seq(Pipe \cup {Free}) /\ Len(pps) = Len(pipes)
  <2>1. pps = [p \in 1..Len(pipes) |-> pps[p]]
    BY DEF PipesWithout
  <2>2. \A p \in 1..Len(pipes) : pps[p] \in Pipe \cup {Free}
    BY <1>2
  <2> HIDE DEF pps
  <2>3. Len(pipes) \in Nat
    BY <1>0 DEF PipesOK
  <2>4. pps \in [1..Len(pipes) -> Pipe \cup {Free}]
    BY <2>1, <2>2
  <2> QED  BY <2>3, <2>4
<1>4. ASSUME Writers(table, pipes), NEW p \in 1..Len(pipes), pipes[p] # Free
      PROVE  /\ pps[p] # Free => pps[p].writer_count = Cardinality(EndsIn(tab, "PipeWrite", p))
             /\ EndsIn(tab, "PipeWrite", p) # {} => pps[p] # Free
  BY <1>0, <1>4, CountWithout
<1> HIDE DEF tab, pps
<1>5. PipesOK(pps, born)
  BY <1>0, <1>2, <1>3 DEF PipesOK
<1>6. TabOK(tab) /\ Fresh(table, tab)
  BY <1>0, <1>1 DEF TabOK, Fresh
<1>7. ASSUME Writers(table, pipes) PROVE Writers(tab, pps)
  <2>1. ASSUME NEW p \in 1..Len(pps), pps[p] # Free
        PROVE  pps[p].writer_count = Cardinality(EndsIn(tab, "PipeWrite", p))
    BY <1>2, <1>3, <1>4, <1>7, <2>1
  <2>2. ASSUME NEW i \in 1..Len(tab), tab[i] # Free, tab[i].kind = "PipeWrite"
        PROVE  /\ tab[i].pipe \in 1..Len(pps) /\ pps[tab[i].pipe] # Free
               /\ pps[tab[i].pipe].gen = tab[i].gen
    <3> DEFINE p == tab[i].pipe
    <3>1. i \in 1..Len(table) /\ tab[i] = table[i]
      BY <1>1, <2>2
    <3>2. p \in 1..Len(pipes) /\ pipes[p] # Free /\ pipes[p].gen = tab[i].gen
      BY <1>7, <2>2, <3>1 DEF Writers
    <3>3. i \in EndsIn(tab, "PipeWrite", p)
      BY <2>2 DEF EndsIn
    <3> HIDE DEF p
    <3>4. pps[p] # Free
      BY <1>4, <1>7, <3>2, <3>3
    <3>5. p \in 1..Len(pps) /\ pps[p].gen = tab[i].gen
      BY <1>2, <1>3, <3>2, <3>4
    <3> QED  BY <3>4, <3>5 DEF p
  <2> QED  BY <2>1, <2>2 DEF Writers
<1> QED  BY <1>5, <1>6, <1>7 DEF CloseAll, tab, pps

-----------------------------------------------------------------------------
(* New entries.                                                            *)

\* insert_entry() when there is room: the handle table keeps its bound.
LEMMA PutTab ==
  ASSUME NEW tab, NEW e \in Entry, TabOK(tab), OpenIn(tab) + 1 <= MaxOpen
  PROVE  /\ TabOK(Put(tab, e)) /\ Grown(tab, Put(tab, e), Slot(tab), e)
         /\ OpenIn(Put(tab, e)) = OpenIn(tab) + 1
         /\ Slot(tab) \in 1..MaxOpen
<1>1. /\ Put(tab, e) \in EntryTab
      /\ Grown(tab, Put(tab, e), Slot(tab), e)
      /\ OpenIn(Put(tab, e)) = OpenIn(tab) + 1
      /\ Len(Put(tab, e)) \in {Len(tab), OpenIn(tab) + 1}
  BY NotFree, PutIs DEF TabOK, EntryTab
<1>2. Len(Put(tab, e)) <= MaxOpen /\ Len(Put(tab, e)) \in Nat
  BY <1>1 DEF TabOK, EntryTab
<1>3. Slot(tab) \in 1..MaxOpen
  BY <1>1, <1>2, HandleConstants DEF Grown
<1> QED  BY <1>1, <1>2, <1>3 DEF TabOK

\* A table that grows by a new token stays fresh.
LEMMA FreshGrown ==
  ASSUME NEW tab, NEW s, NEW r, NEW k, NEW e, Fresh(tab, s), Grown(s, r, k, e),
         e.token > token
  PROVE  Fresh(tab, r)
<1> SUFFICES ASSUME NEW i \in 1..Len(r)
             PROVE  \/ r[i] = Free
                    \/ i \in 1..Len(tab) /\ r[i] = tab[i]
                    \/ r[i].token > token
  BY DEF Fresh
<1>1. CASE i = k
  BY <1>1 DEF Grown
<1>2. CASE i # k
  <2>1. i \in 1..Len(s) /\ r[i] = s[i]
    BY <1>2 DEF Grown
  <2>2. s[i] = Free \/ (i \in 1..Len(tab) /\ s[i] = tab[i]) \/ s[i].token > token
    BY <2>1 DEF Fresh
  <2> QED  BY <2>1, <2>2
<1> QED  BY <1>1, <1>2

\* The number of open handles is an integer.
LEMMA OpenType ==
  ASSUME NEW tab \in EntryTab
  PROVE  OpenIn(tab) \in Int
<1>1. IsFiniteSet(1..Len(tab)) /\ Len(tab) \in Nat
  BY FS_Interval DEF EntryTab
<1>2. IsFiniteSet(FreeSlots(tab))
  BY <1>1, FS_Subset DEF FreeSlots
<1>3. Cardinality(FreeSlots(tab)) \in Nat
  BY <1>2, FS_CardinalityType
<1> QED  BY <1>1, <1>3 DEF OpenIn

\* A copy of an open entry with the n-th next token.
CopyOf(h, n, keep) == [table[h.id] EXCEPT !.token = token + n, !.usable = @ /\ keep]

\* duplicate_handle() and restrict_rights(): the copy is an entry for the same end.
LEMMA CopyIs ==
  ASSUME table \in EntryTab, NEW h, Valid(h), token \in 0..MaxTokens, NEW n \in 1..2,
         token + n <= MaxTokens, NEW keep \in BOOLEAN
  PROVE  /\ CopyOf(h, n, keep) \in Entry /\ CopyOf(h, n, keep).token = token + n
         /\ CopyOf(h, n, keep).kind = table[h.id].kind
         /\ CopyOf(h, n, keep).pipe = table[h.id].pipe
         /\ CopyOf(h, n, keep).gen = table[h.id].gen
<1> DEFINE x == table[h.id]
<1>1. x \in Entry
  BY DEF Valid, EntryTab
<1>2. (x.usable /\ keep) \in BOOLEAN
  OBVIOUS
<1>3. token + n \in 1..MaxTokens
  BY HandleConstants
<1>4. CopyOf(h, n, keep) = [x EXCEPT !.token = token + n, !.usable = x.usable /\ keep]
  BY <1>1 DEF CopyOf, Entry
<1> HIDE DEF x
<1> QED  BY <1>1, <1>2, <1>3, <1>4 DEF Entry, x

\* What copying one handle does to the tables.
LEMMA CopyOne ==
  ASSUME HandleInv, NEW h, Valid(h), NEW n \in 1..2, Room(n), NEW keep \in BOOLEAN,
         NEW tab, TabOK(tab), OpenIn(tab) = OpenIn(table) + n - 1,
         Fresh(table, tab), h.id \in 1..Len(tab), tab[h.id] = table[h.id]
  PROVE  LET e == CopyOf(h, n, keep)
             P == IF table[h.id].kind = "PipeWrite" THEN {table[h.id].pipe} ELSE {}
         IN  /\ TabOK(Put(tab, e)) /\ Fresh(table, Put(tab, e))
             /\ OpenIn(Put(tab, e)) = OpenIn(table) + n
             /\ [id |-> Slot(tab), token |-> token + n] \in Handle
             /\ Grown(tab, Put(tab, e), Slot(tab), e)
             /\ \A pps : PipesOK(pps, born) /\ Writers(tab, pps) =>
                           Writers(Put(tab, e), Bump(pps, P))
<1> DEFINE e == CopyOf(h, n, keep)
           P == IF table[h.id].kind = "PipeWrite" THEN {table[h.id].pipe} ELSE {}
<1>1. table \in EntryTab /\ token \in 0..MaxTokens /\ OpenIn(table) \in Int
  BY OpenType DEF HandleInv, TabOK
<1>2. OpenIn(table) + n <= MaxOpen /\ token + n <= MaxTokens
  BY DEF Room, OpenCount, OpenIn
<1>3. /\ e \in Entry /\ e.token = token + n
      /\ e.kind = table[h.id].kind /\ e.pipe = table[h.id].pipe /\ e.gen = table[h.id].gen
  BY <1>1, <1>2, CopyIs
<1>4. table[h.id] # Free
  BY DEF Valid
<1> HIDE DEF e
<1>5. /\ TabOK(Put(tab, e)) /\ Grown(tab, Put(tab, e), Slot(tab), e)
      /\ OpenIn(Put(tab, e)) = OpenIn(table) + n
      /\ Slot(tab) \in 1..MaxOpen
  <2>1. OpenIn(tab) + 1 = OpenIn(table) + n
    BY <1>1
  <2> QED  BY <1>2, <1>3, <2>1, PutTab
<1>6. Fresh(table, Put(tab, e))
  <2>1. e.token > token
    BY <1>1, <1>3
  <2> QED  BY <1>5, <2>1, FreshGrown
<1>7. [id |-> Slot(tab), token |-> token + n] \in Handle
  BY <1>1, <1>2, <1>5, HandleConstants DEF Handle
<1>8. ASSUME NEW pps, PipesOK(pps, born), Writers(tab, pps)
      PROVE  Writers(Put(tab, e), Bump(pps, P))
  <2>1. tab \in EntryTab /\ Put(tab, e) \in EntryTab
    BY <1>5 DEF TabOK
  <2>2. P = IF e.kind = "PipeWrite" THEN {e.pipe} ELSE {}
    BY <1>3
  <2>3. /\ tab[h.id] # Free /\ e.kind = tab[h.id].kind /\ e.pipe = tab[h.id].pipe
        /\ e.gen = tab[h.id].gen
    BY <1>3, <1>4
  <2> HIDE DEF P
  <2>4. Writers(Put(tab, e), Bump(pps, IF e.kind = "PipeWrite" THEN {e.pipe} ELSE {}))
    BY <1>3, <1>5, <1>8, <2>1, <2>3, CopyWriters
  <2> QED  BY <2>2, <2>4
<1> QED  BY <1>5, <1>6, <1>7, <1>8 DEF e

-----------------------------------------------------------------------------
(* One lemma per action.                                                   *)

\* A step that changes neither table.
LEMMA TablesKept ==
  ASSUME HandleInv, UNCHANGED <<table, pipes, token, born>>, Owners'
  PROVE  Keeps
BY DEF Keeps, HandleInv, TabOK, EntryTab, PipesOK, PipeSound, Fresh, Writers, EndsIn

\* SYS_HANDLE_READ begins.
LEMMA ReadStartKeeps ==
  ASSUME HandleInv, NEW t \in Tasks, NEW h, ReadStart(t, h)
  PROVE  Keeps
<1>1. h \in Handle \cup {NoHandle}
  BY DEF HandleInv, Owners, ReadStart
<1>2. 0 \in 0..MaxPipes
  BY HandleConstants
<1>3. [handle |-> h, pipe |-> 0] \in [handle : Handle \cup {NoHandle}, pipe : 0..MaxPipes]
  BY <1>1, <1>2
<1>4. Owners'
  BY <1>3 DEF HandleInv, Owners, ReadStart
<1> QED  BY <1>4, TablesKept DEF ReadStart

\* The return from a read keeps the types of the owners.
LEMMA ReturnType ==
  ASSUME Owners, NEW t \in Tasks, ReadReturn(t)
  PROVE  /\ reading' \in [Tasks -> [handle : Handle \cup {NoHandle}, pipe : 0..MaxPipes]]
         /\ pc' \in [Tasks -> {"idle", "lookup", "pipe"}]
<1>1. NoRead \in [handle : Handle \cup {NoHandle}, pipe : 0..MaxPipes]
  BY HandleConstants DEF NoRead
<1> QED  BY <1>1 DEF Owners, ReadReturn

\* The lookup of the handle of a read.
LEMMA ReadLookupKeeps ==
  ASSUME HandleInv, NEW t \in Tasks, ReadLookup(t)
  PROVE  Keeps
<1> DEFINE h == reading[t].handle
<1>0. Owners
  BY DEF HandleInv
<1>1. CASE ReadReturn(t)
  <2>1. Owners'
    BY <1>0, <1>1, ReturnType DEF Owners, ReadLookup
  <2> QED  BY <2>1, TablesKept DEF ReadLookup
<1>2. CASE /\ Valid(h)
           /\ reading' = [reading EXCEPT ![t].pipe = table[h.id].pipe]
           /\ pc' = [pc EXCEPT ![t] = "pipe"]
  <2>1. table[h.id] \in Entry
    BY <1>2 DEF HandleInv, TabOK, EntryTab, Valid
  <2>2. table[h.id].pipe \in 0..MaxPipes
    BY <2>1, HandleConstants DEF Entry
  <2> DEFINE x == table[h.id].pipe
             R == [handle : Handle \cup {NoHandle}, pipe : 0..MaxPipes]
  <2> HIDE DEF x
  <2>3. [reading[t] EXCEPT !.pipe = x] \in R
    BY <1>0, <2>2 DEF Owners, x
  <2>4. reading' = [reading EXCEPT ![t] = [reading[t] EXCEPT !.pipe = x]]
    BY <1>0, <1>2 DEF Owners, x
  <2>5. reading' \in [Tasks -> R]
    BY <1>0, <2>3, <2>4 DEF Owners
  <2>6. Owners'
    BY <1>0, <1>2, <2>5 DEF Owners, ReadLookup
  <2> QED  BY <2>6, TablesKept DEF ReadLookup
<1> QED  BY <1>1, <1>2 DEF ReadLookup

\* A step that changes one pipe in place, and neither its count nor its number.
LEMMA PipeChanged ==
  ASSUME HandleInv, NEW p \in 1..Len(pipes), pipes[p] # Free, NEW q \in Pipe, PipeSound(q),
         q.writer_count = pipes[p].writer_count, q.gen = pipes[p].gen,
         pipes' = [pipes EXCEPT ![p] = q], UNCHANGED <<table, token, born>>, Owners'
  PROVE  Keeps
<1>0. pipes \in Seq(Pipe \cup {Free}) /\ q # Free
  BY NotFree DEF HandleInv, PipesOK
<1>1. /\ pipes' \in Seq(Pipe \cup {Free}) /\ Len(pipes') = Len(pipes)
      /\ \A x \in 1..Len(pipes) : pipes'[x] = IF x = p THEN q ELSE pipes[x]
  BY <1>0
<1>2. PipesOK(pipes', born')
  BY <1>1 DEF HandleInv, PipesOK
<1>3. ASSUME Writers(table, pipes) PROVE Writers(table, pipes')
  BY <1>0, <1>1, <1>3 DEF Writers
<1>4. Fresh(table, table') /\ TabOK(table')
  BY DEF Fresh, HandleInv, TabOK, EntryTab
<1>5. HandleInv'
  BY <1>2, <1>4 DEF HandleInv
<1>6. Writers(table, pipes') <=> Writers(table', pipes')
  BY DEF Writers, EndsIn
<1> QED  BY <1>3, <1>4, <1>5, <1>6 DEF Keeps

\* What is left of a buffer when n items have been read.
LEMMA DropIs ==
  ASSUME NEW S, NEW q \in Seq(S), NEW n \in 1..Len(q)
  PROVE  /\ SubSeq(q, n + 1, Len(q)) \in Seq(S)
         /\ Len(SubSeq(q, n + 1, Len(q))) = Len(q) - n
         /\ \A i \in 1..Len(q) - n : SubSeq(q, n + 1, Len(q))[i] = q[n + i]
OBVIOUS

\* handle::write().
LEMMA WriteKeeps ==
  ASSUME HandleInv, NEW t \in Tasks, NEW h, Write(t, h)
  PROVE  Keeps
<1> DEFINE p == table[h.id].pipe
           x == pipes[p]
           b == Append(x.buf, x.wrote + 1)
           q == [x EXCEPT !.buf = b, !.wrote = x.wrote + 1]
<1>1. /\ p \in 1..Len(pipes) /\ x # Free /\ x.wrote < MaxWrites
      /\ pipes' = [pipes EXCEPT ![p] = q]
  <2>1. p \in 1..Len(pipes) /\ x # Free /\ x.wrote < MaxWrites
    BY DEF Write, Exists
  <2>2. pipes' = [pipes EXCEPT ![p].buf = Append(@, pipes[p].wrote + 1), ![p].wrote = @ + 1]
    BY DEF Write
  <2>3. pipes \in Seq(Pipe \cup {Free})
    BY DEF HandleInv, PipesOK
  <2>4. x \in Pipe
    BY <2>1, <2>3
  <2> HIDE DEF p
  <2>5. pipes' = [pipes EXCEPT ![p] = q]
    BY <2>1, <2>2, <2>3, <2>4 DEF Pipe
  <2> QED  BY <2>1, <2>5
<1>2. x \in Pipe /\ PipeSound(x)
  BY <1>1 DEF HandleInv, PipesOK
<1> HIDE DEF x, p
<1>3. /\ x.buf \in Seq(1..MaxWrites) /\ x.wrote \in 0..MaxWrites /\ x.got \in 0..MaxWrites
      /\ Len(x.buf) \in Nat
  BY <1>2 DEF Pipe
<1>4. b \in Seq(1..MaxWrites) /\ x.wrote + 1 \in 0..MaxWrites
  BY <1>1, <1>3, HandleConstants
<1>5. /\ Len(b) = Len(x.buf) + 1 /\ b[Len(x.buf) + 1] = x.wrote + 1
      /\ \A i \in 1..Len(x.buf) : b[i] = x.buf[i]
  BY <1>3
<1> HIDE DEF b
<1>6. /\ q \in Pipe /\ q.buf = b /\ q.wrote = x.wrote + 1 /\ q.got = x.got
      /\ q.writer_count = x.writer_count /\ q.gen = x.gen
  BY <1>2, <1>4 DEF Pipe
<1> HIDE DEF q
<1>7. PipeSound(q)
  <2>1. Len(x.buf) = x.wrote - x.got /\ \A i \in 1..Len(x.buf) : x.buf[i] = x.got + i
    BY <1>2 DEF PipeSound
  <2>2. x.wrote \in Int /\ x.got \in Int
    BY <1>3, HandleConstants
  <2>3. Len(b) = x.wrote + 1 - x.got
    BY <1>3, <1>5, <2>1, <2>2
  <2>4. ASSUME NEW i \in 1..Len(b) PROVE b[i] = x.got + i
    <3>1. CASE i \in 1..Len(x.buf)
      BY <1>5, <2>1, <3>1
    <3>2. CASE i = Len(x.buf) + 1
      <4>1. b[i] = x.wrote + 1
        BY <1>5, <3>2
      <4>2. i = x.wrote - x.got + 1
        BY <2>1, <3>2
      <4> QED  BY <2>2, <4>1, <4>2
    <3> QED  BY <1>3, <1>5, <3>1, <3>2
  <2>5. Len(q.buf) = q.wrote - q.got
    BY <1>6, <2>2, <2>3
  <2>6. \A i \in 1..Len(q.buf) : q.buf[i] = q.got + i
    BY <1>6, <2>4
  <2> QED  BY <2>5, <2>6 DEF PipeSound
<1>8. Owners'
  BY DEF HandleInv, Owners, Write
<1> QED  BY <1>1, <1>6, <1>7, <1>8, PipeChanged DEF Write, x, p

\* pipe::read().
LEMMA ReadPipeKeeps ==
  ASSUME HandleInv, NEW t \in Tasks, ReadPipe(t)
  PROVE  Keeps
<1> DEFINE p == reading[t].pipe
           x == pipes[p]
<1>0. Owners
  BY DEF HandleInv
<1>1. CASE ~(Exists(p) /\ x.buf # << >>)
  <2>1. UNCHANGED <<table, pipes, token, born>>
    BY <1>1 DEF ReadPipe
  <2>2. CASE ReadReturn(t)
    <3>1. Owners'
      BY <1>0, <2>2, ReturnType DEF Owners, ReadPipe
    <3> QED  BY <2>1, <3>1, TablesKept
  <2>3. CASE pc' = [pc EXCEPT ![t] = "lookup"] /\ UNCHANGED reading
    <3>1. Owners'
      BY <1>0, <2>3 DEF Owners, ReadPipe
    <3> QED  BY <2>1, <3>1, TablesKept
  <2> QED  BY <1>1, <2>2, <2>3 DEF ReadPipe
<1>2. CASE Exists(p) /\ x.buf # << >>
  <2>1. PICK n \in 1..Len(x.buf) :
          pipes' = [pipes EXCEPT ![p].buf = Received(@, n), ![p].got = @ + n]
    BY <1>2 DEF ReadPipe
  <2>2. ReadReturn(t) /\ UNCHANGED <<table, token, born, holds, inbox, stdio, life>>
    BY <1>2 DEF ReadPipe
  <2>3. p \in 1..Len(pipes) /\ x # Free /\ pipes \in Seq(Pipe \cup {Free})
    BY <1>2 DEF Exists, HandleInv, PipesOK
  <2>4. x \in Pipe /\ PipeSound(x)
    BY <2>3 DEF HandleInv, PipesOK
  <2> DEFINE b == SubSeq(x.buf, n + 1, Len(x.buf))
             q == [x EXCEPT !.buf = b, !.got = x.got + n]
  <2> HIDE DEF p
  <2>5. pipes' = [pipes EXCEPT ![p] = q]
    BY <2>1, <2>3, <2>4 DEF Pipe, Received
  <2> HIDE DEF x
  <2>6. /\ x.buf \in Seq(1..MaxWrites) /\ x.wrote \in 0..MaxWrites /\ x.got \in 0..MaxWrites
        /\ Len(x.buf) \in Nat
    BY <2>4 DEF Pipe
  <2>7. x.got + n \in 0..MaxWrites
    BY <2>4, <2>6, HandleConstants DEF PipeSound
  <2>8. /\ b \in Seq(1..MaxWrites) /\ Len(b) = Len(x.buf) - n
        /\ \A i \in 1..Len(x.buf) - n : b[i] = x.buf[n + i]
    <3> DEFINE B == x.buf
               S == 1..MaxWrites
    <3> HIDE DEF B, S
    <3>1. B \in Seq(S) /\ n \in 1..Len(B)
      BY <2>6 DEF B, S
    <3>2. /\ SubSeq(B, n + 1, Len(B)) \in Seq(S)
          /\ Len(SubSeq(B, n + 1, Len(B))) = Len(B) - n
          /\ \A i \in 1..Len(B) - n : SubSeq(B, n + 1, Len(B))[i] = B[n + i]
      BY <3>1, DropIs
    <3> QED  BY <3>2 DEF B, S
  <2> HIDE DEF b
  <2>9. /\ q \in Pipe /\ q.buf = b /\ q.got = x.got + n /\ q.wrote = x.wrote
        /\ q.writer_count = x.writer_count /\ q.gen = x.gen
    BY <2>4, <2>7, <2>8 DEF Pipe
  <2> HIDE DEF q
  <2>10. PipeSound(q)
    <3>1. Len(q.buf) = q.wrote - q.got
      BY <2>4, <2>6, <2>8, <2>9, HandleConstants DEF PipeSound
    <3>2. ASSUME NEW i \in 1..Len(b) PROVE b[i] = x.got + n + i
      <4>1. n + i \in 1..Len(x.buf) /\ b[i] = x.buf[n + i]
        BY <2>6, <2>8
      <4>2. x.buf[n + i] = x.got + (n + i)
        BY <2>4, <4>1 DEF PipeSound
      <4>3. x.got \in Int /\ n \in Int /\ i \in Int
        BY <2>6, <2>8, HandleConstants
      <4> QED  BY <4>1, <4>2, <4>3
    <3> QED  BY <2>9, <3>1, <3>2 DEF PipeSound
  <2>11. Owners'
    BY <1>0, <2>2, ReturnType DEF Owners
  <2> QED  BY <2>2, <2>3, <2>5, <2>9, <2>10, <2>11, PipeChanged DEF x
<1> QED  BY <1>1, <1>2

\* SYS_HANDLE_CLOSE.
LEMMA CloseStep ==
  ASSUME HandleInv, NEW t \in Tasks, NEW h, Close(t, h)
  PROVE  Keeps
<1>1. /\ TabOK(table') /\ PipesOK(pipes', born) /\ Fresh(table, table')
      /\ Writers(table, pipes) => Writers(table', pipes')
  BY CloseKeeps DEF Close
<1>2. Owners'
  BY DEF HandleInv, Owners, Close
<1>3. HandleInv'
  BY <1>1, <1>2 DEF HandleInv, Close
<1> QED  BY <1>1, <1>3 DEF Keeps

\* Exit, kill and fault: the handles of the task are dropped, hs closed.
LEMMA EndKeeps ==
  ASSUME HandleInv, NEW t \in Tasks, NEW hs, End(t, hs)
  PROVE  Keeps
<1>0. Owners /\ token' = token /\ born' = born
  BY DEF HandleInv, End
<1>1. /\ TabOK(table') /\ PipesOK(pipes', born) /\ Fresh(table, table')
      /\ Writers(table, pipes) => Writers(table', pipes')
  BY CloseKeeps DEF End
<1>2. /\ holds' \in [Tasks -> SUBSET Handle] /\ inbox' \in [Tasks -> SUBSET Handle]
      /\ life' \in [Tasks -> {"unborn", "live", "dead"}]
      /\ \A u \in Tasks : holds'[u] \subseteq holds[u] /\ inbox'[u] \subseteq inbox[u]
  BY <1>0 DEF End, Owners
<1>3. stdio' \in [Tasks -> [in : Handle \cup {NoHandle}, out : Handle \cup {NoHandle}]]
  BY <1>0 DEF End, Owners
<1>4. Owners'
  BY <1>0, <1>2, <1>3, ReturnType DEF End, Owners
<1>5. HandleInv'
  BY <1>0, <1>1, <1>4 DEF HandleInv
<1> QED  BY <1>1, <1>5 DEF Keeps

\* try_recv_with_handle().
LEMMA ReceiveKeeps ==
  ASSUME HandleInv, NEW t \in Tasks, NEW h, ReceiveHandle(t, h)
  PROVE  Keeps
<1>0. Owners /\ h \in inbox[t]
  BY DEF HandleInv, ReceiveHandle
<1>1. holds' \in [Tasks -> SUBSET Handle] /\ inbox' \in [Tasks -> SUBSET Handle]
  BY <1>0 DEF Owners, ReceiveHandle
<1>2. \A u \in Tasks : holds'[u] \cup inbox'[u] \subseteq holds[u] \cup inbox[u]
  BY <1>0 DEF Owners, ReceiveHandle
<1>3. Owners'
  BY <1>0, <1>1, <1>2 DEF Owners, ReceiveHandle
<1> QED  BY <1>3, TablesKept DEF ReceiveHandle

\* Copies of one handle.
LEMMA CopiesOne ==
  ASSUME NEW h, NEW keep
  PROVE  /\ Copies(<<h>>, keep).tab = Put(table, CopyOf(h, 1, keep))
         /\ Copies(<<h>>, keep).handles[1] = [id |-> Slot(table), token |-> token + 1]
         /\ Writable(<<h>>) = IF table[h.id].kind = "PipeWrite" THEN {1} ELSE {}
<1>1. Len(<<h>>) = 1 /\ <<h>>[1] = h
  OBVIOUS
<1>2. Writable(<<h>>) = IF table[h.id].kind = "PipeWrite" THEN {1} ELSE {}
  BY <1>1 DEF Writable
<1> QED  BY <1>1, <1>2 DEF Copies, CopyOf

\* The table a single copy is put in.
LEMMA FirstCopy ==
  ASSUME HandleInv, NEW h, Valid(h), Room(1), NEW keep \in BOOLEAN
  PROVE  LET e == CopyOf(h, 1, keep)
             P == IF table[h.id].kind = "PipeWrite" THEN {table[h.id].pipe} ELSE {}
         IN  /\ TabOK(Put(table, e)) /\ Fresh(table, Put(table, e))
             /\ OpenIn(Put(table, e)) = OpenIn(table) + 1
             /\ [id |-> Slot(table), token |-> token + 1] \in Handle
             /\ Grown(table, Put(table, e), Slot(table), e)
             /\ \A pps : PipesOK(pps, born) /\ Writers(table, pps) =>
                           Writers(Put(table, e), Bump(pps, P))
<1>1. TabOK(table) /\ OpenIn(table) = OpenIn(table) + 1 - 1
  <2>1. TabOK(table) /\ OpenIn(table) \in Int
    BY OpenType DEF HandleInv, TabOK
  <2> QED  BY <2>1
<1>2. Fresh(table, table)
  BY DEF Fresh
<1>3. h.id \in 1..Len(table)
  BY DEF Valid
<1>4. 1 \in 1..2
  OBVIOUS
<1> QED  BY <1>1, <1>2, <1>3, <1>4, CopyOne

\* One writer more when the copy is a write end.
LEMMA AddOne ==
  ASSUME HandleInv, NEW h
  PROVE  AddWriters(<<h>>) =
           Bump(pipes, IF table[h.id].kind = "PipeWrite" THEN {table[h.id].pipe} ELSE {})
<1> DEFINE P == IF table[h.id].kind = "PipeWrite" THEN {table[h.id].pipe} ELSE {}
<1>1. Writable(<<h>>) = IF table[h.id].kind = "PipeWrite" THEN {1} ELSE {}
  BY CopiesOne
<1>2. <<h>>[1] = h
  OBVIOUS
<1>3. \/ Writable(<<h>>) = {} /\ P = {}
      \/ \E j : Writable(<<h>>) = {j} /\ P = {table[<<h>>[j].id].pipe}
  <2>1. CASE table[h.id].kind = "PipeWrite"
    <3>1. Writable(<<h>>) = {1} /\ P = {table[<<h>>[1].id].pipe}
      BY <1>1, <1>2, <2>1
    <3> QED  BY <3>1
  <2>2. CASE table[h.id].kind # "PipeWrite"
    BY <1>1, <2>2
  <2> QED  BY <2>1, <2>2
<1>4. pipes \in Seq(Pipe \cup {Free})
  BY DEF HandleInv, PipesOK
<1> HIDE DEF P
<1>5. AddWriters(<<h>>) = Bump(pipes, P)
  BY <1>3, <1>4, AddWritersIs
<1> QED  BY <1>5 DEF P

\* A handle with the next token is given to a process.
LEMMA GiveOne ==
  ASSUME Owners, token \in 0..MaxTokens, token + 1 <= MaxTokens, token' = token + 1,
         NEW h \in Handle, h.token = token + 1, NEW t \in Tasks,
         \/ holds' = [holds EXCEPT ![t] = @ \cup {h}] /\ UNCHANGED inbox
         \/ inbox' = [inbox EXCEPT ![t] = @ \cup {h}] /\ UNCHANGED holds,
         UNCHANGED <<stdio, life, reading, pc>>
  PROVE  Owners' /\ token' \in 0..MaxTokens
<1>1. holds' \in [Tasks -> SUBSET Handle] /\ inbox' \in [Tasks -> SUBSET Handle]
  <2>1. CASE holds' = [holds EXCEPT ![t] = @ \cup {h}] /\ UNCHANGED inbox
    BY <2>1 DEF Owners
  <2>2. CASE inbox' = [inbox EXCEPT ![t] = @ \cup {h}] /\ UNCHANGED holds
    BY <2>2 DEF Owners
  <2> QED  BY <2>1, <2>2
<1>2. \A u \in Tasks : holds'[u] \cup inbox'[u] \subseteq holds[u] \cup inbox[u] \cup {h}
  <2>1. CASE holds' = [holds EXCEPT ![t] = @ \cup {h}] /\ UNCHANGED inbox
    BY <2>1 DEF Owners
  <2>2. CASE inbox' = [inbox EXCEPT ![t] = @ \cup {h}] /\ UNCHANGED holds
    BY <2>2 DEF Owners
  <2> QED  BY <2>1, <2>2
<1>3. ASSUME NEW u \in Tasks, NEW x \in holds'[u] \cup inbox'[u] PROVE x.token <= token'
  <2>1. x = h \/ x \in holds[u] \cup inbox[u]
    BY <1>2
  <2>2. CASE x = h
    BY <2>2
  <2>3. CASE x \in holds[u] \cup inbox[u]
    <3>1. x.token <= token /\ x.token \in Nat
      BY <2>3, HandleConstants DEF Owners, Handle
    <3> QED  BY <3>1, HandleConstants
  <2> QED  BY <2>1, <2>2, <2>3
<1> QED  BY <1>1, <1>3, HandleConstants DEF Owners

\* send_with_handle().
LEMMA SendKeeps ==
  ASSUME HandleInv, NEW t \in Tasks, NEW u \in Tasks, NEW h, SendHandle(t, u, h)
  PROVE  Keeps
<1> DEFINE e == CopyOf(h, 1, TRUE)
           P == IF table[h.id].kind = "PipeWrite" THEN {table[h.id].pipe} ELSE {}
           n == [id |-> Slot(table), token |-> token + 1]
<1>0. /\ Valid(h) /\ Room(1) /\ token' = token + 1 /\ token \in 0..MaxTokens
      /\ token + 1 <= MaxTokens /\ Owners /\ PipesOK(pipes, born)
  BY DEF HandleInv, SendHandle, Room
<1>1. /\ table' = Put(table, e) /\ pipes' = Bump(pipes, P)
      /\ inbox' = [inbox EXCEPT ![u] = @ \cup {n}]
  BY CopiesOne, AddOne DEF SendHandle
<1>2. /\ TabOK(Put(table, e)) /\ Fresh(table, Put(table, e)) /\ n \in Handle
      /\ \A pps : PipesOK(pps, born) /\ Writers(table, pps) =>
                    Writers(Put(table, e), Bump(pps, P))
  BY <1>0, FirstCopy
<1>3. n.token = token + 1
  OBVIOUS
<1> HIDE DEF e, P, n
<1>4. Owners' /\ token' \in 0..MaxTokens
  BY <1>0, <1>1, <1>2, <1>3, GiveOne DEF SendHandle
<1>5. PipesOK(pipes', born)
  BY <1>0, <1>1, BumpIs
<1>6. HandleInv'
  BY <1>1, <1>2, <1>4, <1>5 DEF HandleInv, SendHandle
<1> QED  BY <1>0, <1>1, <1>2, <1>6 DEF Keeps

\* restrict_rights(): the copy is not counted as a writer, which is why the counts
\* are right only if it is not one.
LEMMA RestrictKeeps ==
  ASSUME HandleInv, NEW t \in Tasks, NEW h, NEW keep \in BOOLEAN, RestrictRights(t, h, keep)
  PROVE  Keeps
<1> DEFINE e == CopyOf(h, 1, keep)
           P == IF table[h.id].kind = "PipeWrite" THEN {table[h.id].pipe} ELSE {}
           n == [id |-> Slot(table), token |-> token + 1]
<1>0. /\ Valid(h) /\ Room(1) /\ token' = token + 1 /\ token \in 0..MaxTokens
      /\ token + 1 <= MaxTokens /\ Owners /\ PipesOK(pipes, born)
      /\ table[h.id].kind \in Restricted /\ pipes' = pipes
  BY DEF HandleInv, RestrictRights, Room
<1>1. table' = Put(table, e) /\ holds' = [holds EXCEPT ![t] = @ \cup {n}]
  BY CopiesOne DEF RestrictRights
<1>2. /\ TabOK(Put(table, e)) /\ Fresh(table, Put(table, e)) /\ n \in Handle
      /\ \A pps : PipesOK(pps, born) /\ Writers(table, pps) =>
                    Writers(Put(table, e), Bump(pps, P))
  BY <1>0, FirstCopy
<1>3. n.token = token + 1
  OBVIOUS
<1>4. ASSUME "PipeWrite" \notin Restricted PROVE P = {}
  BY <1>0, <1>4
<1> HIDE DEF e, P, n
<1>5. Owners' /\ token' \in 0..MaxTokens
  BY <1>0, <1>1, <1>2, <1>3, GiveOne DEF RestrictRights
<1>6. PipesOK(pipes', born)
  BY <1>0
<1>7. HandleInv'
  BY <1>1, <1>2, <1>5, <1>6 DEF HandleInv, RestrictRights
<1>8. ASSUME "PipeWrite" \notin Restricted, Writers(table, pipes)
      PROVE  Writers(table', pipes')
  <2>1. Writers(Put(table, e), Bump(pipes, {}))
    BY <1>0, <1>2, <1>4, <1>8
  <2>2. Counted(pipes, Bump(pipes, {}), {})
    BY <1>0, BumpIs
  <2>3. \A p \in 1..Len(pipes) : pipes[p] # Free => pipes[p].writer_count \in Nat
    BY <1>0 DEF PipesOK, Pipe
  <2>4. Writers(Put(table, e), pipes)
    BY <2>1, <2>2, <2>3 DEF Writers, Counted
  <2> QED  BY <1>0, <1>1, <2>4
<1> QED  BY <1>1, <1>2, <1>7, <1>8 DEF Keeps

\* Copies of no handle, and the write ends among a read end and a write end.
LEMMA CopiesTwo ==
  ASSUME NEW g, NEW h, NEW keep
  PROVE  /\ Copies(<< >>, keep).tab = table /\ Writable(<< >>) = {}
         /\ table[g.id].kind = "PipeRead" /\ table[h.id].kind = "PipeWrite" =>
              Writable(<<g, h>>) = {2}
<1>1. Len(<<g, h>>) = 2 /\ <<g, h>>[1] = g /\ <<g, h>>[2] = h /\ Len(<< >>) = 0
  OBVIOUS
<1>2. Copies(<< >>, keep).tab = table /\ Writable(<< >>) = {}
  BY <1>1 DEF Copies, Writable
<1>3. table[g.id].kind = "PipeRead" /\ table[h.id].kind = "PipeWrite" =>
        Writable(<<g, h>>) = {2}
  BY <1>1 DEF Writable
<1> QED  BY <1>2, <1>3

\* With no writer more the pipes are what they were.
LEMMA BumpNone ==
  ASSUME NEW pps, NEW b, PipesOK(pps, b)
  PROVE  Bump(pps, {}) = pps
<1>0. pps \in Seq(Pipe \cup {Free})
  BY DEF PipesOK
<1>1. ASSUME NEW p \in 1..Len(pps) PROVE Bump(pps, {})[p] = pps[p]
  <2>1. CASE pps[p] = Free
    BY <2>1 DEF Bump
  <2>2. CASE pps[p] # Free
    <3> DEFINE x == pps[p]
    <3>1. x \in Pipe
      BY <1>0, <2>2
    <3>2. Bump(pps, {})[p] = [x EXCEPT !.writer_count = x.writer_count + 0]
      BY <2>2, <3>1 DEF Bump, Pipe
    <3> HIDE DEF x
    <3>3. x.writer_count + 0 = x.writer_count
      BY <3>1 DEF Pipe
    <3>4. [x EXCEPT !.writer_count = x.writer_count] = x
      BY <3>1 DEF Pipe
    <3> QED  BY <3>2, <3>3, <3>4 DEF x
  <2> QED  BY <2>1, <2>2
<1>2. Bump(pps, {}) = [p \in 1..Len(pps) |-> Bump(pps, {})[p]]
  BY DEF Bump
<1>3. pps = [p \in 1..Len(pps) |-> pps[p]]
  BY <1>0
<1> QED  BY <1>1, <1>2, <1>3

\* What SYS_SPAWN_REDIRECTED's copies of hs do to the tables.
SpawnOK(hs) ==
  /\ TabOK(Copies(hs, TRUE).tab) /\ Fresh(table, Copies(hs, TRUE).tab)
  /\ PipesOK(AddWriters(hs), born)
  /\ Writers(table, pipes) => Writers(Copies(hs, TRUE).tab, AddWriters(hs))
  /\ token + Len(hs) \in 0..MaxTokens /\ token <= token + Len(hs)

\* Neither stdin nor stdout is redirected.
LEMMA SpawnNone ==
  ASSUME HandleInv
  PROVE  SpawnOK(<< >>)
<1>1. Copies(<< >>, TRUE).tab = table /\ Writable(<< >>) = {}
  BY CopiesTwo
<1>2. /\ TabOK(table) /\ PipesOK(pipes, born) /\ token \in 0..MaxTokens
      /\ pipes \in Seq(Pipe \cup {Free})
  BY DEF HandleInv, PipesOK
<1>3. AddWriters(<< >>) = pipes
  <2>1. AddWriters(<< >>) = Bump(pipes, {})
    BY <1>1, <1>2, AddWritersIs
  <2> QED  BY <1>2, <2>1, BumpNone
<1>4. Fresh(table, table)
  BY DEF Fresh
<1>5. Len(<< >>) = 0 /\ token + 0 = token /\ token <= token
  BY <1>2, HandleConstants
<1> QED  BY <1>1, <1>2, <1>3, <1>4, <1>5 DEF SpawnOK

\* One of the two is.
LEMMA SpawnOne ==
  ASSUME HandleInv, NEW h, Valid(h), Room(1)
  PROVE  SpawnOK(<<h>>) /\ Copies(<<h>>, TRUE).handles[1] \in Handle
<1> DEFINE e == CopyOf(h, 1, TRUE)
           P == IF table[h.id].kind = "PipeWrite" THEN {table[h.id].pipe} ELSE {}
           n == [id |-> Slot(table), token |-> token + 1]
<1>0. /\ token \in 0..MaxTokens /\ token + 1 <= MaxTokens /\ PipesOK(pipes, born)
  BY DEF HandleInv, Room
<1>1. /\ Copies(<<h>>, TRUE).tab = Put(table, e) /\ AddWriters(<<h>>) = Bump(pipes, P)
      /\ Copies(<<h>>, TRUE).handles[1] = n
  BY CopiesOne, AddOne
<1>2. /\ TabOK(Put(table, e)) /\ Fresh(table, Put(table, e)) /\ n \in Handle
      /\ \A pps : PipesOK(pps, born) /\ Writers(table, pps) =>
                    Writers(Put(table, e), Bump(pps, P))
  BY FirstCopy
<1> HIDE DEF e, P, n
<1>3. PipesOK(Bump(pipes, P), born)
  BY <1>0, BumpIs
<1>4. Len(<<h>>) = 1 /\ token + 1 \in 0..MaxTokens /\ token <= token + 1
  BY <1>0, HandleConstants
<1> QED  BY <1>0, <1>1, <1>2, <1>3, <1>4 DEF SpawnOK

\* Both are: a read end and a write end.
LEMMA SpawnTwo ==
  ASSUME HandleInv, NEW g, NEW h, Valid(g), Valid(h), Room(2),
         table[g.id].kind = "PipeRead", table[h.id].kind = "PipeWrite"
  PROVE  /\ SpawnOK(<<g, h>>)
         /\ Copies(<<g, h>>, TRUE).handles[1] \in Handle
         /\ Copies(<<g, h>>, TRUE).handles[2] \in Handle
<1> DEFINE e == CopyOf(g, 1, TRUE)
           one == Put(table, e)
           f == CopyOf(h, 2, TRUE)
           two == Put(one, f)
           P == {table[h.id].pipe}
<1>0. /\ token \in 0..MaxTokens /\ token + 2 <= MaxTokens /\ PipesOK(pipes, born)
      /\ OpenIn(table) \in Int /\ OpenIn(table) + 2 <= MaxOpen
      /\ pipes \in Seq(Pipe \cup {Free})
  BY OpenType DEF HandleInv, TabOK, Room, OpenCount, OpenIn, PipesOK
<1>1. Room(1)
  <2>1. OpenIn(table) + 1 <= MaxOpen /\ token + 1 <= MaxTokens
    BY <1>0, HandleConstants
  <2> QED  BY <2>1 DEF Room, OpenCount, OpenIn
<1>2. /\ TabOK(one) /\ Fresh(table, one)
      /\ OpenIn(one) = OpenIn(table) + 1
      /\ [id |-> Slot(table), token |-> token + 1] \in Handle
      /\ Grown(table, one, Slot(table), e)
      /\ \A pps : PipesOK(pps, born) /\ Writers(table, pps) => Writers(one, Bump(pps, {}))
  BY <1>1, FirstCopy
<1> HIDE DEF e, one
<1>3. h.id \in 1..Len(one) /\ one[h.id] = table[h.id]
  <2>1. h.id \in 1..Len(table) /\ table[h.id] # Free
    BY DEF Valid
  <2>2. h.id # Slot(table)
    BY <1>2, <2>1 DEF Grown
  <2>3. h.id \in 1..Len(one)
    <3>1. Len(table) \in Nat /\ Len(one) \in Nat /\ Len(table) <= Len(one)
      BY <1>2 DEF Grown, TabOK, EntryTab, HandleInv
    <3> QED  BY <2>1, <3>1
  <2> QED  BY <1>2, <2>2, <2>3 DEF Grown
<1>4. /\ TabOK(two) /\ Fresh(table, two)
      /\ [id |-> Slot(one), token |-> token + 2] \in Handle
      /\ \A pps : PipesOK(pps, born) /\ Writers(one, pps) => Writers(two, Bump(pps, P))
  <2>1. OpenIn(one) = OpenIn(table) + 2 - 1
    BY <1>0, <1>2
  <2>2. 2 \in 1..2 /\ TRUE \in BOOLEAN
    OBVIOUS
  <2>3. P = IF table[h.id].kind = "PipeWrite" THEN {table[h.id].pipe} ELSE {}
    OBVIOUS
  <2> HIDE DEF P
  <2> QED  BY <1>2, <1>3, <2>1, <2>2, <2>3, CopyOne
<1>5. /\ Copies(<<g, h>>, TRUE).tab = two
      /\ Copies(<<g, h>>, TRUE).handles[1] = [id |-> Slot(table), token |-> token + 1]
      /\ Copies(<<g, h>>, TRUE).handles[2] = [id |-> Slot(one), token |-> token + 2]
      /\ Writable(<<g, h>>) = {2}
  <2>1. Writable(<<g, h>>) = {2}
    BY CopiesTwo
  <2>2. Len(<<g, h>>) = 2 /\ <<g, h>>[1] = g /\ <<g, h>>[2] = h
    OBVIOUS
  <2>3. /\ Copies(<<g, h>>, TRUE).tab = Put(Put(table, CopyOf(g, 1, TRUE)), CopyOf(h, 2, TRUE))
        /\ Copies(<<g, h>>, TRUE).handles[1] = [id |-> Slot(table), token |-> token + 1]
        /\ Copies(<<g, h>>, TRUE).handles[2] =
             [id |-> Slot(Put(table, CopyOf(g, 1, TRUE))), token |-> token + 2]
    BY <2>2 DEF Copies, CopyOf
  <2> QED  BY <2>1, <2>3 DEF one, e
<1>6. AddWriters(<<g, h>>) = Bump(pipes, P)
  <2>1. P = {table[<<g, h>>[2].id].pipe}
    OBVIOUS
  <2> HIDE DEF P
  <2>2. \E j : Writable(<<g, h>>) = {j} /\ P = {table[<<g, h>>[j].id].pipe}
    BY <1>5, <2>1
  <2> QED  BY <1>0, <2>2, AddWritersIs
<1> HIDE DEF two, P
<1>7. PipesOK(Bump(pipes, P), born)
  BY <1>0, BumpIs
<1>8. ASSUME Writers(table, pipes) PROVE Writers(two, Bump(pipes, P))
  <2>1. Writers(one, pipes)
    BY <1>0, <1>2, <1>8, BumpNone
  <2> QED  BY <1>0, <1>4, <2>1
<1>9. Len(<<g, h>>) = 2 /\ token + 2 \in 0..MaxTokens /\ token <= token + 2
  BY <1>0, HandleConstants
<1> QED  BY <1>2, <1>4, <1>5, <1>6, <1>7, <1>8, <1>9 DEF SpawnOK

\* SYS_SPAWN_REDIRECTED, loaded or failed.
LEMMA SpawnKeeps ==
  ASSUME HandleInv, NEW t \in Tasks, NEW child \in Tasks, NEW in, NEW out,
         NEW loaded \in BOOLEAN, SpawnRedirected(t, child, in, out, loaded)
  PROVE  Keeps
<1> DEFINE hs == (IF in = NoHandle THEN << >> ELSE <<in>>)
                   \o (IF out = NoHandle THEN << >> ELSE <<out>>)
           c == Copies(hs, TRUE)
           x == IF in = NoHandle THEN NoHandle ELSE c.handles[1]
           y == IF out = NoHandle THEN NoHandle ELSE c.handles[Len(hs)]
<1>0. /\ Room(Len(hs)) /\ pipes' = AddWriters(hs) /\ table' = c.tab
      /\ token' = token + Len(hs) /\ born' = born
      /\ UNCHANGED <<holds, inbox, reading, pc>>
      /\ \/ /\ stdio' = [stdio EXCEPT ![child] = [in |-> x, out |-> y]]
            /\ life' = [life EXCEPT ![child] = "live"]
         \/ UNCHANGED <<stdio, life>>
  BY DEF SpawnRedirected
<1>1. /\ in # NoHandle => Valid(in) /\ table[in.id].kind = "PipeRead"
      /\ out # NoHandle => Valid(out) /\ table[out.id].kind = "PipeWrite"
  BY DEF SpawnRedirected
<1>2. SpawnOK(hs) /\ x \in Handle \cup {NoHandle} /\ y \in Handle \cup {NoHandle}
  <2>1. CASE in = NoHandle /\ out = NoHandle
    <3>1. hs = << >>
      BY <2>1
    <3> QED  BY <2>1, <3>1, SpawnNone
  <2>2. CASE in # NoHandle /\ out = NoHandle
    <3>1. hs = <<in>> /\ Len(hs) = 1
      BY <2>2
    <3> HIDE DEF hs
    <3> QED  BY <1>0, <1>1, <2>2, <3>1, SpawnOne
  <2>3. CASE in = NoHandle /\ out # NoHandle
    <3>1. hs = <<out>> /\ Len(hs) = 1
      BY <2>3
    <3> HIDE DEF hs
    <3> QED  BY <1>0, <1>1, <2>3, <3>1, SpawnOne
  <2>4. CASE in # NoHandle /\ out # NoHandle
    <3>0. hs = <<in>> \o <<out>>
      BY <2>4
    <3>1. hs = <<in, out>> /\ Len(hs) = 2
      <4> HIDE DEF hs
      <4>1. <<in>> \in Seq({in, out}) /\ <<out>> \in Seq({in, out})
            /\ Len(<<in>>) = 1 /\ Len(<<out>>) = 1 /\ <<in>>[1] = in /\ <<out>>[1] = out
        OBVIOUS
      <4>2. /\ hs \in Seq({in, out}) /\ Len(hs) = 2
            /\ hs[1] = in /\ hs[2] = out
        <5>1. /\ hs \in Seq({in, out}) /\ Len(hs) = Len(<<in>>) + Len(<<out>>)
              /\ \A i \in 1..(Len(<<in>>) + Len(<<out>>)) :
                   hs[i] = IF i <= Len(<<in>>) THEN <<in>>[i] ELSE <<out>>[i - Len(<<in>>)]
          BY <3>0, <4>1, ConcatProperties
        <5> QED  BY <4>1, <5>1
      <4> QED  BY <4>2
    <3> HIDE DEF hs
    <3> QED  BY <1>0, <1>1, <2>4, <3>1, SpawnTwo
  <2> QED  BY <2>1, <2>2, <2>3, <2>4
<1> HIDE DEF hs, c, x, y
<1>3. Owners /\ token \in 0..MaxTokens /\ token' \in 0..MaxTokens /\ token <= token'
  BY <1>0, <1>2 DEF HandleInv, SpawnOK
<1>4. /\ stdio' \in [Tasks -> [in : Handle \cup {NoHandle}, out : Handle \cup {NoHandle}]]
      /\ life' \in [Tasks -> {"unborn", "live", "dead"}]
  <2>1. [in |-> x, out |-> y] \in [in : Handle \cup {NoHandle}, out : Handle \cup {NoHandle}]
    BY <1>2
  <2>2. /\ stdio \in [Tasks -> [in : Handle \cup {NoHandle}, out : Handle \cup {NoHandle}]]
        /\ life \in [Tasks -> {"unborn", "live", "dead"}]
    BY <1>3 DEF Owners
  <2>3. CASE UNCHANGED <<stdio, life>>
    BY <2>2, <2>3
  <2>4. CASE /\ stdio' = [stdio EXCEPT ![child] = [in |-> x, out |-> y]]
             /\ life' = [life EXCEPT ![child] = "live"]
    <3> DEFINE io == [in |-> x, out |-> y]
    <3> HIDE DEF io
    <3> QED  BY <2>1, <2>2, <2>4 DEF io
  <2> QED  BY <1>0, <2>3, <2>4
<1>5. ASSUME NEW u \in Tasks, NEW h \in holds[u] \cup inbox[u] PROVE h.token <= token'
  <2>1. h \in Handle /\ h.token <= token
    BY <1>3 DEF Owners
  <2>2. h.token \in Nat
    BY <2>1, HandleConstants DEF Handle
  <2> QED  BY <1>3, <2>1, <2>2, HandleConstants
<1>6. Owners'
  BY <1>0, <1>3, <1>4, <1>5 DEF Owners
<1>7. HandleInv'
  BY <1>0, <1>2, <1>3, <1>6 DEF HandleInv, SpawnOK, c
<1> QED  BY <1>0, <1>2, <1>7 DEF Keeps, SpawnOK, c

\* create_pipe_handles().
LEMMA CreateKeeps ==
  ASSUME HandleInv, NEW t \in Tasks, CreatePipe(t)
  PROVE  Keeps
<1> DEFINE p == Slot(pipes)
           g == born + 1
           q == [buf |-> << >>, writer_count |-> 1, reader_closed |-> FALSE, gen |-> g,
                 wrote |-> 0, got |-> 0]
           r == [token |-> token + 1, kind |-> "PipeRead", usable |-> TRUE, pipe |-> p, gen |-> g]
           w == [token |-> token + 2, kind |-> "PipeWrite", usable |-> TRUE, pipe |-> p, gen |-> g]
           one == Put(table, r)
           two == Put(one, w)
           pps == Put(pipes, q)
           hr == [id |-> Slot(table), token |-> token + 1]
           hw == [id |-> Slot(one), token |-> token + 2]
<1>0. /\ TabOK(table) /\ PipesOK(pipes, born) /\ Owners
      /\ token \in 0..MaxTokens /\ born \in 0..MaxPipes
      /\ OpenIn(table) \in Int /\ OpenIn(table) + 2 <= MaxOpen /\ token + 2 <= MaxTokens
      /\ born < MaxPipes
  BY OpenType DEF HandleInv, TabOK, CreatePipe, Room, OpenCount, OpenIn
<1>1. /\ table' = two /\ pipes' = pps /\ token' = token + 2 /\ born' = g
      /\ holds' = [holds EXCEPT ![t] = @ \cup {hr, hw}]
      /\ UNCHANGED <<inbox, stdio, life, reading, pc>>
  BY DEF CreatePipe
<1>2. g \in 1..MaxPipes /\ born \in Nat /\ token \in Nat
      /\ token + 1 \in 1..MaxTokens /\ token + 2 \in 1..MaxTokens
  BY <1>0, HandleConstants
<1>3. q \in Pipe /\ PipeSound(q) /\ q.writer_count = 1 /\ q.gen = g
  <2>1. << >> \in Seq(1..MaxWrites) /\ Len(<< >>) = 0
    OBVIOUS
  <2>2. 0 \in 0..MaxWrites
    BY HandleConstants
  <2>3. q \in Pipe
    BY <1>2, <2>1, <2>2 DEF Pipe
  <2> QED  BY <2>1, <2>3 DEF PipeSound
<1> HIDE DEF q, g
<1>4. pipes \in Seq(Pipe \cup {Free}) /\ Len(pipes) <= born /\ Len(pipes) \in Nat
  BY <1>0 DEF PipesOK
<1>5. /\ pps \in Seq(Pipe \cup {Free}) /\ Grown(pipes, pps, p, q)
      /\ Len(pps) <= Len(pipes) + 1
  BY <1>3, <1>4, NotFree, PutIs
<1> HIDE DEF pps, p
<1>6. Len(pps) <= g /\ Len(pps) \in Nat /\ p \in 1..MaxPipes
  <2>1. Len(pps) <= g /\ Len(pps) \in Nat
    BY <1>2, <1>4, <1>5 DEF g
  <2>2. p \in 1..Len(pps)
    BY <1>5 DEF Grown
  <2> QED  BY <1>2, <2>1, <2>2, HandleConstants
<1>7. PipesOK(pps, g)
  <2>1. ASSUME NEW x \in 1..Len(pps), pps[x] # Free PROVE PipeSound(pps[x])
    BY <1>0, <1>3, <1>5, <2>1 DEF Grown, PipesOK
  <2> QED  BY <1>5, <1>6, <2>1 DEF PipesOK
<1>8. /\ r \in Entry /\ r.token = token + 1 /\ r.kind = "PipeRead" /\ r.pipe = p
      /\ w \in Entry /\ w.token = token + 2 /\ w.kind = "PipeWrite" /\ w.pipe = p /\ w.gen = g
  BY <1>2, <1>6 DEF Entry, Kinds
<1> HIDE DEF r, w
<1>9. /\ TabOK(one) /\ Grown(table, one, Slot(table), r)
      /\ OpenIn(one) = OpenIn(table) + 1 /\ Slot(table) \in 1..MaxOpen
  <2>1. OpenIn(table) + 1 <= MaxOpen
    BY <1>0, HandleConstants
  <2> QED  BY <1>0, <1>8, <2>1, PutTab
<1> HIDE DEF one
<1>10. /\ TabOK(two) /\ Grown(one, two, Slot(one), w) /\ Slot(one) \in 1..MaxOpen
  <2>1. OpenIn(one) + 1 <= MaxOpen
    BY <1>0, <1>9
  <2> QED  BY <1>8, <1>9, <2>1, PutTab
<1> HIDE DEF two
<1>11. Fresh(table, two)
  <2>1. Fresh(table, table)
    BY DEF Fresh
  <2>2. r.token > token /\ w.token > token
    BY <1>2, <1>8
  <2>3. Fresh(table, one)
    BY <1>9, <2>1, <2>2, FreshGrown
  <2> QED  BY <1>10, <2>2, <2>3, FreshGrown
<1>12. hr \in Handle /\ hw \in Handle /\ hr.token <= token + 2 /\ hw.token <= token + 2
  BY <1>2, <1>9, <1>10 DEF Handle
<1> HIDE DEF hr, hw
<1>13. Owners'
  <2>1. holds' \in [Tasks -> SUBSET Handle]
    BY <1>0, <1>1, <1>12 DEF Owners
  <2>2. \A u \in Tasks : holds'[u] \subseteq holds[u] \cup {hr, hw}
    BY <1>0, <1>1 DEF Owners
  <2>3. ASSUME NEW u \in Tasks, NEW h \in holds'[u] \cup inbox'[u] PROVE h.token <= token'
    <3>1. CASE h \in {hr, hw}
      BY <1>1, <1>12, <3>1
    <3>2. CASE h \in holds[u] \cup inbox[u]
      <4>1. h.token <= token /\ h.token \in Nat
        BY <1>0, <3>2, HandleConstants DEF Owners, Handle
      <4> QED  BY <1>1, <1>2, <4>1
    <3> QED  BY <1>1, <2>2, <3>1, <3>2
  <2> QED  BY <1>0, <1>1, <2>1, <2>3 DEF Owners
<1>14. HandleInv'
  <2>1. token' \in 0..MaxTokens /\ born' \in 0..MaxPipes
    BY <1>1, <1>2
  <2> QED  BY <1>1, <1>7, <1>10, <1>13, <2>1 DEF HandleInv
<1>15. ASSUME Writers(table, pipes) PROVE Writers(two, pps)
  <2>0. table \in EntryTab /\ one \in EntryTab /\ two \in EntryTab
    BY <1>0, <1>9, <1>10 DEF TabOK
  <2>1. EndsIn(table, "PipeWrite", p) = {}
    BY <1>5, <1>15, <2>0 DEF EndsIn, Writers, Grown
  <2>2. \A x : EndsIn(one, "PipeWrite", x) = EndsIn(table, "PipeWrite", x)
    BY <1>8, <1>9, <2>0, EndsGrown
  <2>3. /\ Cardinality(EndsIn(two, "PipeWrite", p)) = Cardinality(EndsIn(one, "PipeWrite", p)) + 1
        /\ \A x : x # p => EndsIn(two, "PipeWrite", x) = EndsIn(one, "PipeWrite", x)
    BY <1>8, <1>10, <2>0, EndsGrown
  <2>4. Cardinality(EndsIn(two, "PipeWrite", p)) = 1
    BY <2>1, <2>2, <2>3, FS_EmptySet
  <2>5. ASSUME NEW x \in 1..Len(pps), pps[x] # Free
        PROVE  pps[x].writer_count = Cardinality(EndsIn(two, "PipeWrite", x))
    <3>1. CASE x = p
      BY <1>3, <1>5, <2>4, <3>1 DEF Grown
    <3>2. CASE x # p
      <4>1. x \in 1..Len(pipes) /\ pps[x] = pipes[x]
        BY <1>5, <3>2 DEF Grown
      <4> QED  BY <1>15, <2>2, <2>3, <2>5, <3>2, <4>1 DEF Writers
    <3> QED  BY <3>1, <3>2
  <2>6. ASSUME NEW i \in 1..Len(two), two[i] # Free, two[i].kind = "PipeWrite"
        PROVE  /\ two[i].pipe \in 1..Len(pps) /\ pps[two[i].pipe] # Free
               /\ pps[two[i].pipe].gen = two[i].gen
    <3>1. CASE i = Slot(one)
      BY <1>3, <1>5, <1>8, <1>10, <3>1, NotFree DEF Grown
    <3>2. CASE i # Slot(one)
      <4>1. i \in 1..Len(one) /\ two[i] = one[i]
        BY <1>10, <3>2 DEF Grown
      <4>2. i # Slot(table)
        BY <1>8, <1>9, <2>6, <4>1 DEF Grown
      <4>3. i \in 1..Len(table) /\ two[i] = table[i]
        BY <1>9, <4>1, <4>2 DEF Grown
      <4> DEFINE x == two[i].pipe
      <4>4. x \in 1..Len(pipes) /\ pipes[x] # Free /\ pipes[x].gen = two[i].gen
        BY <1>15, <2>6, <4>3 DEF Writers
      <4> HIDE DEF x
      <4>5. x # p
        BY <1>5, <4>4 DEF Grown
      <4>6. x \in 1..Len(pps) /\ pps[x] = pipes[x]
        <5>1. x \in 1..Len(pps)
          BY <1>4, <1>5, <1>6, <4>4 DEF Grown
        <5> QED  BY <1>5, <4>5, <5>1 DEF Grown
      <4> QED  BY <4>4, <4>6 DEF x
    <3> QED  BY <3>1, <3>2
  <2> QED  BY <2>5, <2>6 DEF Writers
<1> QED  BY <1>1, <1>11, <1>14, <1>15 DEF Keeps

-----------------------------------------------------------------------------
(* Every step.                                                             *)

\* The tables are empty at the start.
LEMMA InitInv == Init => HandleInv /\ Writers(table, pipes)
<1> SUFFICES ASSUME Init PROVE HandleInv /\ Writers(table, pipes)
  OBVIOUS
<1>1. table = << >> /\ pipes = << >> /\ token = 0 /\ born = 0 /\ Len(<< >>) = 0
  BY DEF Init
<1>2. << >> \in Seq(Entry \cup {Free}) /\ << >> \in Seq(Pipe \cup {Free})
  OBVIOUS
<1>3. 0 \in 0..MaxTokens /\ 0 \in 0..MaxPipes /\ 0 <= MaxOpen
  BY HandleConstants
<1>4. TabOK(table) /\ PipesOK(pipes, born)
  BY <1>1, <1>2, <1>3 DEF TabOK, EntryTab, PipesOK
<1>5. NoRead \in [handle : Handle \cup {NoHandle}, pipe : 0..MaxPipes]
  BY <1>3 DEF NoRead
<1>6. Owners
  BY <1>5 DEF Init, Owners
<1> QED  BY <1>1, <1>3, <1>4, <1>6 DEF HandleInv, Writers

\* A step keeps the tables sound, makes handles only with new tokens, and keeps
\* the writer counts when write ends are not restricted.
LEMMA NextKeeps == HandleInv /\ [Next]_vars => Keeps
<1> SUFFICES ASSUME HandleInv, [Next]_vars PROVE Keeps
  OBVIOUS
<1>1. CASE UNCHANGED vars
  <2>1. Owners'
    BY <1>1 DEF HandleInv, Owners, vars
  <2> QED  BY <1>1, <2>1, TablesKept DEF vars
<1>2. CASE Next
  <2>1. PICK t \in Tasks :
          \/ CreatePipe(t) \/ Exit(t) \/ Kill(t) \/ ReadStep(t)
          \/ \E h \in holds[t] \cup {stdio[t].in, stdio[t].out} :
               Write(t, h) \/ ReadStart(t, h) \/ Close(t, h)
          \/ \E h \in inbox[t] : ReceiveHandle(t, h)
          \/ \E h \in holds[t] :
               \/ \E u \in Receivers : SendHandle(t, u, h)
               \/ \E keep \in BOOLEAN : RestrictRights(t, h, keep)
          \/ \E child \in Tasks, in, out \in holds[t] \cup {NoHandle}, loaded \in BOOLEAN :
               SpawnRedirected(t, child, in, out, loaded)
    BY <1>2, Zenon DEF Next
  <2>2. CASE CreatePipe(t)
    BY <2>2, CreateKeeps
  <2>3. CASE Exit(t) \/ Kill(t)
    BY <2>3, EndKeeps DEF Exit, Kill
  <2>4. CASE ReadStep(t)
    BY <2>4, ReadLookupKeeps, ReadPipeKeeps DEF ReadStep
  <2>5. ASSUME NEW h, Write(t, h) \/ ReadStart(t, h) \/ Close(t, h) \/ ReceiveHandle(t, h)
        PROVE  Keeps
    BY <2>5, WriteKeeps, ReadStartKeeps, CloseStep, ReceiveKeeps
  <2>6. ASSUME NEW h, NEW u \in Receivers, SendHandle(t, u, h)
        PROVE  Keeps
    <3>1. u \in Tasks
      BY HandleConstants
    <3> QED  BY <2>6, <3>1, SendKeeps
  <2>7. ASSUME NEW h, NEW keep \in BOOLEAN, RestrictRights(t, h, keep)
        PROVE  Keeps
    BY <2>7, RestrictKeeps
  <2>8. ASSUME NEW child \in Tasks, NEW in, NEW out, NEW loaded \in BOOLEAN,
               SpawnRedirected(t, child, in, out, loaded)
        PROVE  Keeps
    BY <2>8, SpawnKeeps
  <2> QED  BY <2>1, <2>2, <2>3, <2>4, <2>5, <2>6, <2>7, <2>8, Zenon
<1> QED  BY <1>1, <1>2

\* A handle that is not valid names a free slot or carries an old token: no new
\* entry has that token.
LEMMA StaysClosed ==
  ASSUME HandleInv, Fresh(table, table'), NEW t \in Tasks, NEW h \in holds[t], ~Valid(h)
  PROVE  ~Valid(h)'
<1> SUFFICES ASSUME h.id \in 1..Len(table'), table'[h.id] # Free,
                    table'[h.id].token = h.token
             PROVE  FALSE
  BY DEF Valid
<1>1. h.token <= token /\ h.token \in Nat /\ token \in Nat
  BY HandleConstants DEF HandleInv, Owners, Handle
<1>2. h.id \in 1..Len(table) /\ table'[h.id] = table[h.id]
  BY <1>1 DEF Fresh
<1> QED  BY <1>2 DEF Valid

-----------------------------------------------------------------------------
(* The theorems.                                                           *)

\* HandleInv holds in every reachable state, whatever programs restrict.
THEOREM Invariant == Spec => []HandleInv
<1>1. HandleInv /\ [Next]_vars => HandleInv'
  BY NextKeeps DEF Keeps
<1> QED  BY <1>1, InitInv, PTL DEF Spec

\* insert_entry(), pipe creation and the system calls: the tables and what
\* processes keep have their types, and neither Vec grows past what was open at
\* a time.
THEOREM TypeCorrect == Spec => []TypeOK
BY Invariant, InvIs, PTL

\* pipe::read() and pipe::write(): a pipe hands out what was written to it, once
\* and in order.
THEOREM PipesInOrder == Spec => []DataInOrder
BY Invariant, InvIs, PTL

\* As long as no write end is passed to SYS_RESTRICT_RIGHTS, writers are counted.
LEMMA WritersInv ==
  ASSUME "PipeWrite" \notin Restricted
  PROVE  Spec => [](HandleInv /\ Writers(table, pipes))
<1> DEFINE J == HandleInv /\ Writers(table, pipes)
<1>1. Init => J
  BY InitInv
<1>2. J /\ [Next]_vars => J'
  <2> SUFFICES ASSUME J, [Next]_vars PROVE J'
    OBVIOUS
  <2>1. Keeps
    BY NextKeeps
  <2> QED  BY <2>1 DEF Keeps, Writers, EndsIn
<1> HIDE DEF J
<1>3. Spec => []J
  BY <1>1, <1>2, PTL DEF Spec
<1> QED  BY <1>3 DEF J

\* add_writer(), close_writer() and the copies of a handle: when no write end is
\* passed to SYS_RESTRICT_RIGHTS, writer_count is the number of open write ends.
THEOREM WritersCounted ==
  ASSUME "PipeWrite" \notin Restricted
  PROVE  Spec => []WriterCount
<1>1. HandleInv /\ Writers(table, pipes) => WriterCount
  BY InvIs
<1> QED  BY <1>1, WritersInv, PTL

\* On the same condition every open write end leads to the pipe it was made for,
\* whatever slots have been freed and used again since.
THEOREM WriteEndsHold ==
  ASSUME "PipeWrite" \notin Restricted
  PROVE  Spec => []WriteEndValid
<1>1. HandleInv /\ Writers(table, pipes) => WriteEndValid
  BY InvIs
<1> QED  BY <1>1, WritersInv, PTL

\* get_entry() and next_token(): a handle that has been closed is not valid again,
\* although its slot is used again.
THEOREM StaleHandlesStayStale == Spec => ClosedStaysClosed
<1>1. HandleInv /\ [Next]_vars =>
        [\A t \in Tasks : \A h \in holds[t] : ~Valid(h) => ~Valid(h)']_vars
  BY NextKeeps, StaysClosed DEF Keeps
<1> QED  BY <1>1, Invariant, PTL DEF Spec, ClosedStaysClosed

=============================================================================
