-------------------------------- MODULE Heap --------------------------------
(***************************************************************************)
(* The kernel heap (src/kernel/src/slab_allocator.rs and allocator.rs):    *)
(* slabs of fixed slots for small objects, each in a part of the heap of   *)
(* its own, and, in the rest, blocks with a header, taken from a free list *)
(* (first fit, sorted by address, neighbours merged) or cut off at a bump  *)
(* pointer that moves back when the last block is freed.  Addresses count  *)
(* units of 4 bytes from the start of the heap.  One lock covers every     *)
(* call, so each is one step.                                              *)
(***************************************************************************)
EXTENDS Integers, Sequences, FiniteSets, SequencesExt

CONSTANTS
  SlabSizes,    \* SLAB_SIZES, ascending
  SlabRegion,   \* the size of a slab's part of the heap: heap_size / TOTAL_UNITS
  HeapSize,
  Header,       \* LARGE_HEADER_SIZE
  HeaderAlign,  \* align_of::<LargeFreeBlock>()
  Layouts,      \* the layouts asked for: [size |-> , align |-> ]
  HeapCalls     \* bound: calls made

VARIABLES
  slabs,        \* Seq of [free |-> Seq of slots, next |-> next_uninit, count |-> allocated_count]
  large,        \* [free |-> Seq of [at |-> , size |-> ], next |-> next_uninit]
  live,         \* what the kernel holds: [ptr |-> , size |-> , align |-> , block |-> size in the header]
  padded,       \* a free block was handed out from behind its start
  oom,          \* alloc_error_handler() has stopped the kernel
  calls

heapVars == <<slabs, large, live, padded, oom, calls>>

AlignUp(a, align) == ((a + align - 1) \div align) * align
SlabStart(i) == (i - 1) * SlabRegion
LargeStart == Len(SlabSizes) * SlabRegion
SmallSlabs(l) == {i \in DOMAIN SlabSizes : Max({l.size, l.align}) <= SlabSizes[i]}

\* Sizes are positive and alignments divide each other the way powers of two do.
ASSUME HeapConstants ==
  /\ SlabSizes \in Seq(Nat \ {0})
  /\ SlabRegion \in Nat \ {0} /\ HeapSize \in Nat
  /\ Header \in Nat \ {0} /\ HeaderAlign \in Nat \ {0}
  /\ Layouts \subseteq [size : Nat \ {0}, align : Nat \ {0}]
  /\ \A l \in Layouts :
       /\ l.align <= HeaderAlign => HeaderAlign % l.align = 0
       /\ \A i \in SmallSlabs(l) : SlabSizes[i] % l.align = 0

\* The two allocators as one value; ptr is -1 when there is no memory.
Current == [slabs |-> slabs, large |-> large, ptr |-> -1, block |-> 0, pad |-> 0]

\* Slab::alloc(): the slot freed last, or a new one.
SlabAlloc(h, i) ==
  LET s == h.slabs[i]
  IN  IF s.free # <<>>
      THEN [h EXCEPT !.slabs[i] = [free |-> Front(s.free), next |-> s.next, count |-> s.count + 1],
                     !.ptr = Last(s.free), !.block = SlabSizes[i], !.pad = 0]
      ELSE IF s.next + SlabSizes[i] <= SlabStart(i) + SlabRegion
      THEN [h EXCEPT !.slabs[i] = [free |-> s.free, next |-> s.next + SlabSizes[i], count |-> s.count + 1],
                     !.ptr = s.next, !.block = SlabSizes[i], !.pad = 0]
      ELSE [h EXCEPT !.ptr = -1]

\* LargeAllocator::alloc(): the first free block that is large enough keeps its
\* size, whatever is needed of it, even when the payload is moved up to be aligned.
LargeAlloc(h, size, align) ==
  LET payload(b) == AlignUp(b.at + Header, align)
      fits == {i \in DOMAIN h.large.free :
                 h.large.free[i].size >= payload(h.large.free[i]) - h.large.free[i].at + size}
      reuse(i) == [h EXCEPT !.large.free = RemoveAt(@, i),
                            !.ptr = payload(h.large.free[i]),
                            !.block = h.large.free[i].size,
                            !.pad = payload(h.large.free[i]) - h.large.free[i].at - Header]
      start == AlignUp(h.large.next + Header, align)
  IN  IF fits # {} THEN reuse(Min(fits))
      ELSE IF start + size > HeapSize THEN [h EXCEPT !.ptr = -1]
      ELSE [h EXCEPT !.large.next = start + size, !.ptr = start, !.block = Header + size, !.pad = 0]

\* SlabAllocator::alloc(): the smallest slab that fits, and no other if it is full.
AllocIn(h, l) ==
  IF SmallSlabs(l) # {} THEN SlabAlloc(h, Min(SmallSlabs(l)))
  ELSE LargeAlloc(h, l.size, Max({l.align, HeaderAlign}))

\* One round of try_shrink_bump(): the first free block that ends at the bump
\* pointer is taken off the list, and the pointer goes back to its start.
ShrinkOnce(g) ==
  LET hits == {i \in DOMAIN g.free : g.free[i].at + g.free[i].size = g.next}
  IN  IF hits = {} THEN g
      ELSE [free |-> RemoveAt(g.free, Min(hits)), next |-> g.free[Min(hits)].at]

\* try_shrink_bump(), which calls itself until no block ends at the pointer.
ShrinkBump(g) ==
  LET loop[n \in 0 .. Len(g.free)] == IF n = 0 THEN g ELSE ShrinkOnce(loop[n - 1])
  IN  loop[Len(g.free)]

Touch(free, k) == k \in 1 .. Len(free) - 1 /\ free[k].at + free[k].size = free[k + 1].at

\* Block k takes in the block behind it.
Join(free, k) == RemoveAt([free EXCEPT ![k].size = @ + free[k + 1].size], k + 1)

\* The merge that does not look whether the block before ends where this begins.
MergeAt_Any(free, i) == IF i > 1 THEN Join(free, i - 1) ELSE free

\* Blocks that touch become one (the block after first, then the block before).
MergeAt(free, i) ==
  LET up == IF Touch(free, i) THEN Join(free, i) ELSE free
  IN  IF Touch(free, i - 1) THEN Join(up, i - 1) ELSE up

\* Where a block that starts at an address goes: in front of the first that does
\* not start before it.
Place(free, at) ==
  Min({i \in 1 .. Len(free) + 1 : i = Len(free) + 1 \/ free[i].at >= at})

\* LargeAllocator::dealloc()
LargeDealloc(h, b) ==
  LET at == b.ptr - Header
      place == Place(h.large.free, at)
      list == InsertAt(h.large.free, place, [at |-> at, size |-> b.block])
  IN  [h EXCEPT !.large = ShrinkBump([free |-> MergeAt(list, place), next |-> h.large.next])]

\* SlabAllocator::dealloc(): the address says whose it is.
DeallocIn(h, b) ==
  IF b.ptr >= LargeStart THEN LargeDealloc(h, b)
  ELSE [h EXCEPT !.slabs[b.ptr \div SlabRegion + 1] =
          [free |-> Append(@.free, b.ptr), next |-> @.next, count |-> @.count - 1]]

Block(h, l) == [ptr |-> h.ptr, size |-> l.size, align |-> l.align, block |-> h.block]

Call == ~oom /\ ~padded /\ calls > 0 /\ calls' = calls - 1

Update(h, held) ==
  /\ slabs' = h.slabs
  /\ large' = h.large
  /\ live' = held
  /\ padded' = (padded \/ h.pad > 0)
  /\ UNCHANGED oom

\* GlobalAlloc::alloc(); no memory is the end of the kernel.
Alloc(l) ==
  /\ Call
  /\ \E h \in {AllocIn(Current, l)} :
       \/ h.ptr # -1 /\ Update(h, live \union {Block(h, l)})
       \/ h.ptr = -1 /\ oom' = TRUE /\ UNCHANGED <<slabs, large, live, padded>>

\* GlobalAlloc::dealloc()
Dealloc(b) ==
  /\ Call
  /\ Update(DeallocIn(Current, b), live \ {b})

\* try_grow_in_place(): the block ends at the bump pointer and there is room.
CanGrow(b, size) ==
  /\ size > b.size
  /\ b.ptr >= LargeStart
  /\ b.ptr + b.size = large.next
  /\ b.ptr + size <= HeapSize

\* GlobalAlloc::realloc(): in place, or by a copy; the old block stays when there
\* is no memory for the new one, and that again is the end.
Realloc(b, size) ==
  /\ Call
  /\ LET l == [size |-> size, align |-> b.align]
     IN  \/ /\ CanGrow(b, size)
            /\ Update([Current EXCEPT !.large.next = b.ptr + size],
                      (live \ {b}) \union {[b EXCEPT !.size = size, !.block = Header + size]})
         \/ /\ ~CanGrow(b, size)
            /\ \E h \in {AllocIn(Current, l)} :
                 \/ h.ptr # -1 /\ Update(DeallocIn(h, b), (live \ {b}) \union {Block(h, l)})
                 \/ h.ptr = -1 /\ oom' = TRUE /\ UNCHANGED <<slabs, large, live, padded>>

HeapInit ==
  /\ slabs = [i \in DOMAIN SlabSizes |-> [free |-> <<>>, next |-> SlabStart(i), count |-> 0]]
  /\ large = [free |-> <<>>, next |-> LargeStart]
  /\ live = {}
  /\ padded = FALSE
  /\ oom = FALSE
  /\ calls = HeapCalls

HeapStep ==
  \/ \E l \in Layouts : Alloc(l)
  \/ \E b \in live : Dealloc(b) \/ \E l \in Layouts : l.align = b.align /\ Realloc(b, l.size)

-----------------------------------------------------------------------------
\* The memory a block occupies, its header included.
Extent(b) == IF b.ptr < LargeStart THEN b.ptr .. b.ptr + b.block - 1
             ELSE b.ptr - Header .. b.ptr - Header + b.block - 1

\* Each slab starts where the alignments it serves allow.  That is so for the default
\* of 32 MiB; half of a smaller region may be any number of pages, and new() aligns
\* nothing.
EvenSlabs == \A l \in Layouts : \A i \in SmallSlabs(l) : SlabRegion % l.align = 0

\* Every block in use is aligned as it was asked to be (test_slab_allocator()).
Aligned == \A b \in live : EvenSlabs \/ b.ptr >= LargeStart => b.ptr % b.align = 0

\* As long as no free block was handed out from behind its start, which gives it
\* memory behind its end, no two blocks in use share memory, each is aligned and
\* as large as asked for, nothing in use is on a free list or above the bump
\* pointer, free blocks are sorted and apart, and each slab counts its slots.
HeapSound ==
  ~padded =>
    /\ Aligned
    /\ \A b \in live :
         /\ b.ptr .. b.ptr + b.size - 1 \subseteq Extent(b)
         /\ b.ptr >= LargeStart => \A x \in Extent(b) : x >= LargeStart /\ x < large.next
         /\ \A c \in live : b # c => Extent(b) \cap Extent(c) = {}
         /\ \A f \in Range(large.free) : (f.at .. f.at + f.size - 1) \cap Extent(b) = {}
         /\ \A s \in Range(slabs) : b.ptr \notin Range(s.free)
    /\ \A i \in 1 .. Len(large.free) - 1 : large.free[i].at + large.free[i].size < large.free[i + 1].at
    /\ \A i \in DOMAIN slabs :
         slabs[i].count = Cardinality({b \in live : b.ptr \in SlabStart(i) .. SlabStart(i) + SlabRegion - 1})
=============================================================================
