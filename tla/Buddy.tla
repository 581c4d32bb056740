------------------------------- MODULE Buddy -------------------------------
(***************************************************************************)
(* The physical frame allocator (src/kernel/src/memory.rs): one buddy      *)
(* allocator per region of RAM, with its free lists and its bitmap, and    *)
(* the counter that sysinfo and /proc/meminfo report.  A region is a       *)
(* record of its first frame, its size, its lists (offsets in the region,  *)
(* by order; the end of a list is where push and pop work) and the set of  *)
(* the offsets whose bit is set.  The operators are functions of the       *)
(* allocator's state, because one system call allocates several frames.    *)
(***************************************************************************)
EXTENDS Integers, Sequences, FiniteSets, SequencesExt

CONSTANTS
  MaxOrder,     \* MAX_ORDER
  Regions,      \* the CONVENTIONAL regions above 1 MiB: <<[start |-> , pages |-> ], ...>>
  Reserved      \* the frames reserve_range() takes for the heap

VARIABLE fa     \* FRAME_ALLOCATOR: [regions |-> Seq of region, count |-> allocated_count]

RamFrames ==
  UNION {Regions[r].start .. Regions[r].start + Regions[r].pages - 1 : r \in DOMAIN Regions}

\* The firmware's regions do not overlap, and the heap lies in them.
ASSUME BuddyConstants ==
  /\ MaxOrder \in Nat
  /\ Regions \in Seq([start : Nat, pages : Nat])
  /\ \A r, s \in DOMAIN Regions : r # s =>
       \/ Regions[r].start + Regions[r].pages <= Regions[s].start
       \/ Regions[s].start + Regions[s].pages <= Regions[r].start
  /\ Reserved \subseteq RamFrames /\ IsFiniteSet(Reserved)

\* 1 << order
BlockSize[order \in 0 .. MaxOrder] == IF order = 0 THEN 1 ELSE 2 * BlockSize[order - 1]

Offsets(at, order) == at .. at + BlockSize[order] - 1

\* max_free_order_at(): it goes up while the block of the next order is aligned,
\* in the region and free.
MaxFreeOrder(reg, at) ==
  LET fits(o) == /\ at % BlockSize[o] = 0
                 /\ at + BlockSize[o] <= reg.pages
                 /\ Offsets(at, o) \cap reg.bits = {}
  IN  Min({o \in 0 .. MaxOrder : o = MaxOrder \/ ~fits(o + 1)})

\* build_free_lists(): the free frames as blocks, from the first frame on.  The
\* lists are turned round at the end, so each block goes to the front.
ScanStep(reg, s) ==
  LET o == MaxFreeOrder(reg, s.at)
  IN  IF s.at >= reg.pages THEN s
      ELSE IF s.at \in reg.bits THEN [lists |-> s.lists, at |-> s.at + 1]
      ELSE [lists |-> [s.lists EXCEPT ![o] = <<s.at>> \o @], at |-> s.at + BlockSize[o]]

BuildFreeLists(reg) ==
  LET scan[n \in 0 .. reg.pages] ==
        IF n = 0 THEN [lists |-> [o \in 0 .. MaxOrder |-> <<>>], at |-> 0]
        ELSE ScanStep(reg, scan[n - 1])
  IN  [reg EXCEPT !.lists = scan[reg.pages].lists]

\* RegionBuddyAllocator::allocate(): the smallest list with a block; the upper
\* halves it splits off go to the lists below.
AllocateIn(reg, order, from) ==
  LET block == Last(reg.lists[from])
  IN  [reg EXCEPT
        !.lists = [o \in 0 .. MaxOrder |->
           CASE o = from -> Front(reg.lists[o])
             [] o \in order .. from - 1 -> Append(reg.lists[o], block + BlockSize[o])
             [] OTHER -> reg.lists[o]],
        !.bits = @ \union Offsets(block, order)]

Sources(reg, order) == {o \in order .. MaxOrder : reg.lists[o] # <<>>}

\* allocate_order(): the first region that can; frame -1 when none can.
Allocate(f, order) ==
  LET able == {r \in DOMAIN f.regions : Sources(f.regions[r], order) # {}}
      from(r, o) == [fa |-> [regions |-> [f.regions EXCEPT ![r] = AllocateIn(@, order, o)],
                             count |-> f.count + BlockSize[order]],
                     frame |-> f.regions[r].start + Last(f.regions[r].lists[o])]
      in(r) == from(r, Min(Sources(f.regions[r], order)))
  IN  IF able = {} THEN [fa |-> f, frame |-> -1] ELSE in(Min(able))

BuddyOf(at, order) ==
  IF (at \div BlockSize[order]) % 2 = 0 THEN at + BlockSize[order] ELSE at - BlockSize[order]

\* Vec::swap_remove()
SwapRemove(s, i) == Front([s EXCEPT ![i] = Last(s)])

\* The merging loop of deallocate() that forgets to take the buddy off its list.
Merge_Kept(reg, at, order) ==
  LET step(m) ==
        LET b == BuddyOf(m.at, m.order)
        IN  IF m.order = MaxOrder \/ b + BlockSize[m.order] > reg.pages
               \/ \A i \in DOMAIN m.lists[m.order] : m.lists[m.order][i] # b
            THEN m
            ELSE [m EXCEPT !.at = Min({@, b}), !.order = @ + 1]
      loop[n \in 0 .. MaxOrder] ==
        IF n = 0 THEN [lists |-> reg.lists, at |-> at, order |-> order] ELSE step(loop[n - 1])
  IN  loop[MaxOrder]

\* The merging loop of deallocate(): while the buddy is on the list of its order,
\* it is taken off, and the two become one block of the next order.
MergeStep(reg, m) ==
  LET b == BuddyOf(m.at, m.order)
      hits == {i \in DOMAIN m.lists[m.order] : m.lists[m.order][i] = b}
  IN  IF m.order = MaxOrder \/ b + BlockSize[m.order] > reg.pages \/ hits = {} THEN m
      ELSE [lists |-> [m.lists EXCEPT ![m.order] = SwapRemove(@, Min(hits))],
            at |-> Min({m.at, b}), order |-> m.order + 1]

Merge(reg, at, order) ==
  LET loop[n \in 0 .. MaxOrder] ==
        IF n = 0 THEN [lists |-> reg.lists, at |-> at, order |-> order]
        ELSE MergeStep(reg, loop[n - 1])
  IN  loop[MaxOrder]

\* RegionBuddyAllocator::deallocate(), when the first bit was set.
DeallocateIn(reg, at, order) ==
  LET merged(m) == [reg EXCEPT !.lists = [m.lists EXCEPT ![m.order] = Append(@, m.at)],
                               !.bits = @ \ Offsets(at, order)]
  IN  merged(Merge(reg, at, order))

\* deallocate_order() accepts a block: its region is known and its bit is set.
Accepts(f, frame) ==
  \E r \in DOMAIN f.regions :
    /\ frame - f.regions[r].start \in 0 .. f.regions[r].pages - 1
    /\ frame - f.regions[r].start \in f.regions[r].bits

Deallocate(f, frame, order) ==
  LET r == CHOOSE r \in DOMAIN f.regions :
             frame - f.regions[r].start \in 0 .. f.regions[r].pages - 1
  IN  [regions |-> [f.regions EXCEPT ![r] = DeallocateIn(@, frame - f.regions[r].start, order)],
       count |-> f.count - BlockSize[order]]

\* reserve_range() on one region: the bits are set one by one, the lists rebuilt.
Reserve(reg) ==
  BuildFreeLists([reg EXCEPT !.bits = {f - reg.start : f \in Reserved} \cap (0 .. reg.pages - 1)])

\* BuddyFrameAllocator::init() and the reservation of the heap.
BootAllocator ==
  [regions |-> [r \in DOMAIN Regions |->
      Reserve([start |-> Regions[r].start, pages |-> Regions[r].pages,
               lists |-> [o \in 0 .. MaxOrder |-> <<>>], bits |-> {}])],
   count |-> Cardinality(Reserved)]

-----------------------------------------------------------------------------
FramesOf(reg, offsets) == {reg.start + at : at \in offsets}

UsedFrames == UNION {FramesOf(fa.regions[r], fa.regions[r].bits) : r \in DOMAIN fa.regions}

\* The blocks on the lists are aligned, lie in their region, share no frame and
\* hold exactly the frames whose bit is clear; the counter is the number of bits.
ListsExact ==
  /\ fa.count = Cardinality(UsedFrames)
  /\ \A r \in DOMAIN fa.regions :
       LET reg == fa.regions[r]
           blocks == UNION {{<<o, i>> : i \in DOMAIN reg.lists[o]} : o \in 0 .. MaxOrder}
           held(b) == Offsets(reg.lists[b[1]][b[2]], b[1])
       IN  /\ \A b \in blocks : reg.lists[b[1]][b[2]] % BlockSize[b[1]] = 0
           /\ \A b, c \in blocks : b # c => held(b) \cap held(c) = {}
           /\ UNION {held(b) : b \in blocks} = (0 .. reg.pages - 1) \ reg.bits
=============================================================================
