---------------------------- MODULE AddressSpace ----------------------------
(***************************************************************************)
(* Address spaces: page tables (src/kernel/src/paging.rs), the making and  *)
(* ending of processes (usermode.rs), the list of mapped ranges (vma.rs)   *)
(* and mmap and munmap (syscall/misc.rs), on the frames of Buddy.          *)
(*                                                                         *)
(* A page is a number; a table has two entries, so the bits of the page    *)
(* number are the four indices.  The kernel maps memory to itself (page n  *)
(* is frame n): page 0 and 1 are a 2 MiB page, 2 and 3 have a table of     *)
(* their own, 4 to 7 are a 1 GiB page.  A program and its stack are        *)
(* loaded to pages 0 to 3, over the kernel's own mapping; mmap works from  *)
(* page 8 on, where the kernel has nothing or, on some firmware, another   *)
(* 1 GiB page.                                                             *)
(*                                                                         *)
(* mmap, munmap and spawn run with interrupts disabled; the kernel shell   *)
(* makes processes with interrupts enabled, so loading and ending take     *)
(* steps that other tasks may come between.                                *)
(***************************************************************************)
EXTENDS Buddy, Lists

CONSTANTS
  Procs,        \* the processes
  Programs,     \* ELF files: the pages of their PT_LOAD segments in turn, then those of the stack
  CodePages,    \* the pages of a program inside the kernel (user_hello)
  MapBase, MapLimit,  \* MMAP_VADDR_BASE and MMAP_VADDR_LIMIT
  MapSizes,     \* the numbers of pages programs ask for
  Budgets       \* bounds: [creations |-> processes made, maps |-> mmap and munmap calls made]

VARIABLES
  tables,       \* the page tables, by frame
  procs,        \* UserProcess, and how far its making or ending has come
  lost,         \* frames that belong to nothing any more
  shadowed,     \* some mmap took pages that were mapped
  panic,        \* why the kernel has stopped
  budget

spaceVars == <<fa, tables, procs, lost, shadowed, panic, budget>>

K4 == 90
K3 == 91
K2 == 92
K1 == 93
K3High == 94
KernelTables == K4 .. K3High

\* A page of a program, with the pages of its segment, or of the stack.
Items == [page : 0 .. MapLimit - 1, perm : SUBSET {"w", "x"},
          seg : [from : 0 .. MapLimit, to : 0 .. MapLimit], stack : BOOLEAN]

\* The kernel's tables are the firmware's and not in the regions; no RAM lies where
\* the firmware may map the mmap area to itself.  Page numbers have four bits.  A
\* program has every page of every segment it has a page of.
ASSUME SpaceConstants ==
  /\ RamFrames \cap (KernelTables \union 8 .. 11) = {}
  /\ MapBase \in Nat /\ MapLimit \in Nat /\ 8 <= MapBase /\ MapLimit <= 16
  /\ MapSizes \subseteq Nat \ {0}
  /\ Programs \subseteq Seq(Items)
  /\ \A g \in Programs : \A i \in DOMAIN g :
       /\ g[i].page \in g[i].seg.from .. g[i].seg.to - 1
       /\ \A o \in g[i].seg.from .. g[i].seg.to - 1 : \E j \in DOMAIN g : g[j].page = o
  /\ CodePages \in Seq(0 .. 15)

Unused == [to |-> -1, flags |-> {}]
Entry(to, flags) == [to |-> to, flags |-> flags]
Blank == [i \in 0 .. 1 |-> Unused]
Index(page, level) == (page \div <<1, 2, 4, 8>>[level]) % 2
Passing == {"w", "x", "user"}     \* intermediate_flags
Huge(e) == "huge" \in e.flags

NoProcess ==
  [st |-> "none", root |-> -1, frames |-> <<>>, vmas |-> <<>>, todo |-> <<>>, elf |-> FALSE, prog |-> <<>>]

\* The memory a call works on: the allocator, the tables, the table it has come
\* to (-1: nowhere) and the frame it got last.
Snapshot == [fa |-> fa, tables |-> tables, panic |-> panic, at |-> -1, got |-> -1]

\* FRAME_ALLOCATOR.lock().allocate_frame().expect(...), for a table or for data.
NewFrame(m, content) ==
  LET with(a) == IF a.frame = -1 THEN [m EXCEPT !.panic = "no frame"]
                 ELSE [m EXCEPT !.fa = a.fa, !.tables[a.frame] = content, !.got = a.frame]
  IN  IF m.panic # "no" THEN m ELSE with(Allocate(m.fa, 0))

\* An entry is made to point at the table just made, and the walk goes on there.
LinkNew(m, i, flags) ==
  IF m.panic # "no" THEN m
  ELSE [m EXCEPT !.tables[m.at][i] = Entry(m.got, flags), !.at = m.got]

\* split_huge_page_for_process() and split_1gib_huge_page_for_process()
SplitContent(e, level) ==
  [i \in 0 .. 1 |-> IF level = 2 THEN Entry(e.to + i, e.flags \ {"huge"})
                    ELSE Entry(e.to + 2 * i, e.flags)]

\* get_kernel_subtable_addr(): what the kernel has where a page's walk is at a
\* level; -1 when the kernel has no table above it.
KernelAddr(page, level) ==
  LET e4 == tables[K4][Index(page, 4)]
      e3 == tables[e4.to][Index(page, 3)]
      e2 == tables[e3.to][Index(page, 2)]
  IN  CASE level = 4 -> e4.to
        [] level = 3 -> IF e4 = Unused THEN -1 ELSE e3.to
        [] level = 2 -> IF e4 = Unused \/ e3 = Unused \/ Huge(e3) \/ Huge(e2) THEN -1 ELSE e2.to

\* One level of map_user_pages_in_process() (loading) or of
\* map_anonymous_pages_in_process(): a missing table is made, a huge page split,
\* a table of the kernel's copied before it is changed.
Down(m, page, level, loading) ==
  LET i == Index(page, level)
      to(e) ==
        IF e = Unused THEN LinkNew(NewFrame(m, Blank), i, Passing)
        ELSE IF Huge(e) /\ level = 3 /\ loading THEN [m EXCEPT !.panic = "1 GiB page"]
        ELSE IF Huge(e)
        THEN LinkNew(NewFrame(m, SplitContent(e, level)), i, (e.flags \ {"huge"}) \union Passing)
        ELSE IF e.to = KernelAddr(page, level)
        THEN LinkNew(NewFrame(m, m.tables[e.to]), i, e.flags \union Passing)
        ELSE [m EXCEPT !.tables[m.at][i].flags = @ \union Passing, !.at = e.to]
  IN  IF m.panic # "no" THEN m ELSE to(m.tables[m.at][i])

\* The walk goes on somewhere, or ends (-1).
GoTo(m, to) == [m EXCEPT !.at = to]

DownTo(m, root, page, loading) ==
  Down(Down(Down(GoTo(m, root), page, 4, loading), page, 3, loading), page, 2, loading)

SetLeaf(m, page, flags) ==
  IF m.panic # "no" THEN m
  ELSE [m EXCEPT !.tables[m.at][Index(page, 1)] = Entry(m.got, flags)]

\* merge_page_flags() and elf_flags_to_page_flags()
LeafFlags(perm) == perm \union {"user"}

\* The L1 entry, when any mapping of a frame of the process's is taken for its own,
\* the kernel's mapping of memory to itself included.
LeafLoaded_AnyOwn(m, page, perm, own) ==
  LET i == Index(page, 1)
      at(e) == IF e.to \in own
               THEN [m EXCEPT !.tables[m.at][i].flags = @ \union perm, !.got = e.to]
               ELSE SetLeaf(NewFrame(m, Blank), page, LeafFlags(perm))
  IN  IF m.panic # "no" THEN m ELSE at(m.tables[m.at][i])

\* The L1 entry of map_user_pages_in_process(): a page an earlier segment of the
\* program has mapped is kept and gains permissions; anything else that is there
\* is the kernel's and is replaced.
LeafLoaded(m, page, perm, own) ==
  LET i == Index(page, 1)
      at(e) == IF "user" \in e.flags /\ e.to \in own
               THEN [m EXCEPT !.tables[m.at][i].flags = @ \union perm, !.got = e.to]
               ELSE SetLeaf(NewFrame(m, Blank), page, LeafFlags(perm))
  IN  IF m.panic # "no" THEN m ELSE at(m.tables[m.at][i])

\* map_user_pages_in_process() for one page of one segment.
MapLoaded(m, root, item, own) ==
  LeafLoaded(DownTo(m, root, item.page, TRUE), item.page, item.perm, own)

\* map_anonymous_pages_in_process() for one page.
MapAnonymous(m, root, page) ==
  LET at(d) == SetLeaf(NewFrame(d, Blank), page, {"w", "user"})
  IN  at(DownTo(m, root, page, FALSE))

\* An entry is opened to user mode, and the walk goes on or ends.
OpenEntry(m, i, to) == [m EXCEPT !.tables[m.at][i].flags = @ \union {"user"}, !.at = to]

\* One level of set_user_accessible_in_process(), at an entry: what is missing or
\* huge ends the walk (at = -1), except a 2 MiB page, which is split.
AccessEntry(m, page, level, i, e) ==
  IF e = Unused THEN GoTo(m, -1)
  ELSE IF Huge(e) /\ level # 2 THEN OpenEntry(m, i, -1)
  ELSE IF Huge(e)
  THEN LinkNew(NewFrame(m, SplitContent(Entry(e.to, e.flags \union {"user"}), level)),
               i, (e.flags \ {"huge"}) \union {"user"})
  ELSE IF e.to = KernelAddr(page, level)
  THEN LinkNew(NewFrame(m, m.tables[e.to]), i, e.flags \union {"user"})
  ELSE OpenEntry(m, i, e.to)

DownAccessible(m, page, level) ==
  IF m.panic # "no" \/ m.at = -1 THEN m
  ELSE AccessEntry(m, page, level, Index(page, level), m.tables[m.at][Index(page, level)])

Accessible(m, root, page) ==
  LET leaf(d) ==
        IF d.panic # "no" \/ d.at = -1 \/ d.tables[d.at][Index(page, 1)] = Unused THEN d
        ELSE [d EXCEPT !.tables[d.at][Index(page, 1)].flags = @ \union {"user"}]
  IN  leaf(DownAccessible(DownAccessible(DownAccessible(GoTo(m, root), page, 4), page, 3), page, 2))

Commit(m) ==
  /\ fa' = m.fa
  /\ tables' = m.tables
  /\ panic' = m.panic

-----------------------------------------------------------------------------
(* The list of ranges.                                                     *)

Vma(from, to) == [from |-> from, to |-> to]
Overlaps(v, w) == v.from < w.to /\ w.from < v.to

\* VmaList::insert(); its callers ignore the error, which leaves the list alone.
InsertVma(vmas, v) ==
  LET before == {i \in DOMAIN vmas : vmas[i].from < v.from}
  IN  IF \E i \in DOMAIN vmas : Overlaps(v, vmas[i]) THEN vmas
      ELSE Picked(vmas, before) \o <<v>> \o Picked(vmas, DOMAIN vmas \ before)

\* VmaList::find_free_region(): first fit; -1 when there is none.
FindFree(vmas, size) ==
  LET ends == {MapBase} \union {vmas[i].to : i \in {k \in DOMAIN vmas : vmas[k].to > MapBase}}
      free(c) == /\ c + size <= MapLimit
                 /\ \A i \in DOMAIN vmas : ~Overlaps(Vma(c, c + size), vmas[i])
  IN  IF \E c \in ends : free(c) THEN Min({c \in ends : free(c)}) ELSE -1

\* VmaList::remove_range(): what is left of each range outside the removed one.
Left(v, from, to) ==
  LET below == IF v.from < from THEN <<Vma(v.from, Min({v.to, from}))>> ELSE <<>>
      above == IF v.to > to THEN <<Vma(Max({v.from, to}), v.to)>> ELSE <<>>
  IN  IF Overlaps(v, Vma(from, to)) THEN below \o above ELSE <<v>>

RemoveRange(vmas, from, to) ==
  LET upTo[i \in 0 .. Len(vmas)] ==
        IF i = 0 THEN <<>> ELSE upTo[i - 1] \o Left(vmas[i], from, to)
  IN  upTo[Len(vmas)]

-----------------------------------------------------------------------------
(* Making a process.                                                       *)

Running == panic = "no"

\* create_process_page_table() for create_elf_process(), whose ELF file was
\* parsed before, or for create_user_process().
CreatePageTable(p, todo, prog, elf) ==
  /\ Running
  /\ procs[p] = NoProcess
  /\ budget.creations > 0
  /\ budget' = [budget EXCEPT !.creations = @ - 1]
  /\ \E m \in {NewFrame(Snapshot, tables[K4])} :
       /\ Commit(m)
       /\ procs' = [procs EXCEPT ![p] =
            [NoProcess EXCEPT !.st = "loading", !.root = m.got, !.todo = todo,
                              !.elf = elf, !.prog = prog]]
  /\ UNCHANGED <<lost, shadowed>>

\* The next page of the next segment, or of the stack.  A segment's frame that the
\* process has is not listed again; the stack's frames are listed whatever they
\* are.  The segment's range is inserted with its first page (the code does it
\* after the last, before anyone can read the list) and refused when it overlaps
\* an earlier one, as its own insertion with the pages that follow is.
LoadPage(p) ==
  /\ Running
  /\ procs[p].st = "loading" /\ procs[p].todo # <<>> /\ procs[p].elf
  /\ LET item == Head(procs[p].todo)
     IN  \E m \in {MapLoaded(Snapshot, procs[p].root, item, Range(procs[p].frames))} :
           /\ Commit(m)
           /\ procs' = [procs EXCEPT
                ![p].todo = Tail(@),
                ![p].frames = IF ~item.stack /\ m.got \in Range(@) THEN @ ELSE Append(@, m.got),
                ![p].vmas = InsertVma(@, item.seg),
                ![p].st = IF Len(procs[p].todo) = 1 THEN "live" ELSE @]
  /\ UNCHANGED <<lost, shadowed, budget>>

\* The next page of create_user_process().
OpenPage(p) ==
  /\ Running
  /\ procs[p].st = "loading" /\ procs[p].todo # <<>> /\ ~procs[p].elf
  /\ Commit(Accessible(Snapshot, procs[p].root, Head(procs[p].todo)))
  /\ procs' = [procs EXCEPT ![p].todo = Tail(@),
                            ![p].st = IF Len(procs[p].todo) = 1 THEN "live" ELSE @]
  /\ UNCHANGED <<lost, shadowed, budget>>

-----------------------------------------------------------------------------
(* mmap and munmap.                                                        *)

LeafAt(t, root, page) ==
  LET e4 == t[root][Index(page, 4)]
      e3 == t[e4.to][Index(page, 3)]
      e2 == t[e3.to][Index(page, 2)]
  IN  IF e4 = Unused \/ e3 = Unused \/ Huge(e3) \/ e2 = Unused \/ Huge(e2) THEN Unused
      ELSE t[e2.to][Index(page, 1)]

Mapped(p, page) == "user" \in LeafAt(tables, procs[p].root, page).flags

MayCall(p) ==
  /\ Running
  /\ procs[p].st = "live" /\ procs[p].elf
  /\ budget.maps > 0
  /\ budget' = [budget EXCEPT !.maps = @ - 1]

\* One page more, with the frames that were got for the pages before.
MapMore(r, root, page) ==
  LET more(m) == [m |-> m, got |-> Append(r.got, m.got)]
  IN  more(MapAnonymous(r.m, root, page))

MapPages(m, root, at, n) ==
  LET map[k \in 0 .. n] ==
        IF k = 0 THEN [m |-> m, got |-> <<>>] ELSE MapMore(map[k - 1], root, at + k - 1)
  IN  map[n]

\* sys_mmap() of n pages at an address: the frames of pages that were mapped
\* stay with the process, the error of the list is ignored.
MapAt(p, at, n) ==
  \E r \in {MapPages(Snapshot, procs[p].root, at, n)} :
    /\ Commit(r.m)
    /\ procs' = [procs EXCEPT ![p].frames = @ \o r.got,
                              ![p].vmas = InsertVma(@, Vma(at, at + n))]
    /\ shadowed' = (shadowed \/ \E page \in at .. at + n - 1 : Mapped(p, page))
    /\ UNCHANGED lost

\* sys_mmap() without a hint: the list decides.
Mmap(p, n) ==
  /\ MayCall(p)
  /\ FindFree(procs[p].vmas, n) # -1
  /\ MapAt(p, FindFree(procs[p].vmas, n), n)

\* sys_mmap() with a hint: only the bounds of the area are looked at.
MmapHint(p, hint, n) ==
  /\ MayCall(p)
  /\ hint >= MapBase /\ hint + n <= MapLimit
  /\ MapAt(p, hint, n)

\* FRAME_ALLOCATOR.lock().deallocate_frame()
FreeFrame(m, f) ==
  IF m.panic # "no" THEN m
  ELSE IF Accepts(m.fa, f) THEN [m EXCEPT !.fa = Deallocate(@, f, 0), !.tables[f] = Blank]
  ELSE [m EXCEPT !.panic = IF f \in RamFrames THEN "double free" ELSE "unknown frame"]

Release(m, frames) ==
  LET after[k \in 0 .. Len(frames)] ==
        IF k = 0 THEN m ELSE FreeFrame(after[k - 1], frames[k])
  IN  after[Len(frames)]

\* unmap_pages_in_process(): the frames of the pages that have an L1 entry, which
\* is cleared.
ClearLeaf(x, root, page) ==
  LET t == x.m.tables
      l1 == t[t[t[root][Index(page, 4)].to][Index(page, 3)].to][Index(page, 2)].to
      e == LeafAt(t, root, page)
  IN  IF e = Unused THEN x
      ELSE [m |-> [x.m EXCEPT !.tables[l1][Index(page, 1)] = Unused], freed |-> Append(x.freed, e.to)]

Unmapped(m, root, at, n) ==
  LET clear[k \in 0 .. n] ==
        IF k = 0 THEN [m |-> m, freed |-> <<>>] ELSE ClearLeaf(clear[k - 1], root, at + k - 1)
  IN  clear[n]

\* sys_munmap(): only the bounds of the area are looked at.
Munmap(p, at, n) ==
  /\ MayCall(p)
  /\ at >= MapBase /\ at + n <= MapLimit
  /\ \E u \in {Unmapped(Snapshot, procs[p].root, at, n)} :
       /\ Commit(Release(u.m, u.freed))
       /\ procs' = [procs EXCEPT
            ![p].vmas = RemoveRange(@, at, at + n),
            ![p].frames = Picked(@, {i \in DOMAIN @ : @[i] \notin Range(u.freed)})]
  /\ UNCHANGED <<lost, shadowed>>

-----------------------------------------------------------------------------
(* Ending a process.                                                       *)

\* destroy_user_process(): the data frames first, under one lock.
Destroy(p) ==
  /\ Running
  /\ procs[p].st = "live"
  /\ Commit(Release(Snapshot, procs[p].frames))
  /\ procs' = [procs EXCEPT ![p].st = "dying", ![p].frames = <<>>, ![p].todo = <<0, 1>>]
  /\ UNCHANGED <<lost, shadowed, budget>>

\* The L1 table of an entry of a process's L2 table, if it is not the kernel's.
FreedBelow2(t2, k2, i) ==
  LET e == tables[t2][i]
      k == tables[k2][i]
  IN  IF e = Unused \/ Huge(e) \/ (~Huge(k) /\ e.to = k.to) THEN <<>> ELSE <<e.to>>

FreedBelow3(t3, k3, i) ==
  LET e == tables[t3][i]
      k == tables[k3][i]
  IN  IF e = Unused \/ Huge(e) \/ e.to = k.to THEN <<>>
      ELSE IF k = Unused \/ Huge(k) THEN <<e.to>>
      ELSE FreedBelow2(e.to, k.to, 0) \o FreedBelow2(e.to, k.to, 1) \o <<e.to>>

\* destroy_process_page_table(), one entry of the L4 table: below a table the
\* kernel has no counterpart of, nothing is looked at.
FreedBelow4(root, i) ==
  LET e == tables[root][i]
      k == tables[K4][i]
  IN  IF e = Unused \/ e.to = k.to THEN <<>>
      ELSE IF k = Unused THEN <<e.to>>
      ELSE FreedBelow3(e.to, k.to, 0) \o FreedBelow3(e.to, k.to, 1) \o <<e.to>>

\* The tables below an entry that are the process's own.
TablesBelow(e) ==
  LET next(ts) == {x.to : x \in {y \in UNION {Range(tables[t]) : t \in ts} : y # Unused /\ ~Huge(y)}}
                  \ KernelTables
      own == {e.to} \ ({-1} \union KernelTables)
      l2(a) == a \union next(a)
      l1(a, b) == a \union next(b)
  IN  IF own = {} THEN {} ELSE l1(l2(own), l2(own))

\* Tables of the mmap area may be lost, no others.
FreeEntry(p) ==
  /\ Running
  /\ procs[p].st = "dying" /\ procs[p].todo # <<>>
  /\ LET i == Head(procs[p].todo)
         freed == FreedBelow4(procs[p].root, i)
     IN  /\ Commit([Release(Snapshot, freed) EXCEPT !.tables[procs[p].root][i] = Unused])
         /\ lost' = IF i = 0 THEN lost
                    ELSE lost \union (TablesBelow(tables[procs[p].root][i]) \ Range(freed))
  /\ procs' = [procs EXCEPT ![p].todo = Tail(@)]
  /\ UNCHANGED <<shadowed, budget>>

\* The L4 table goes last.
FreeRoot(p) ==
  /\ Running
  /\ procs[p].st = "dying" /\ procs[p].todo = <<>>
  /\ Commit(Release(Snapshot, <<procs[p].root>>))
  /\ procs' = [procs EXCEPT ![p] = NoProcess]
  /\ UNCHANGED <<lost, shadowed, budget>>

-----------------------------------------------------------------------------
TableOf(e, d) == [i \in 0 .. 1 |-> IF i = 0 THEN e ELSE d]

\* The firmware's tables, in the order of their frames: K4, K3, K2, K1, K3High.
KernelMap(high) ==
  LET rw == {"w", "x"}
      page == {"w", "x", "huge"}
      made == <<TableOf(Entry(K3, rw), IF high THEN Entry(K3High, rw) ELSE Unused),
                TableOf(Entry(K2, rw), Entry(4, page)),
                TableOf(Entry(0, page), Entry(K1, rw)),
                TableOf(Entry(2, rw), Entry(3, rw)),
                TableOf(IF high THEN Entry(8, page) ELSE Unused, Unused)>>
  IN  [f \in RamFrames \union KernelTables |-> IF f \in KernelTables THEN made[f - K4 + 1] ELSE Blank]

SpaceInit ==
  /\ fa = BootAllocator
  /\ \E high \in BOOLEAN : tables = KernelMap(high)
  /\ procs = [p \in Procs |-> NoProcess]
  /\ lost = {}
  /\ shadowed = FALSE
  /\ panic = "no"
  /\ budget \in Budgets

SpaceStep ==
  \E p \in Procs :
    \/ \E prog \in Programs : CreatePageTable(p, prog, prog, TRUE)
    \/ CreatePageTable(p, CodePages, <<>>, FALSE)
    \/ LoadPage(p) \/ OpenPage(p)
    \/ \E n \in MapSizes : Mmap(p, n) \/ \E at \in MapBase .. MapLimit - 1 : MmapHint(p, at, n) \/ Munmap(p, at, n)
    \/ Destroy(p) \/ FreeEntry(p) \/ FreeRoot(p)

-----------------------------------------------------------------------------
(* Properties.                                                             *)

Alive == {p \in Procs : procs[p].st # "none" /\ procs[p].root # -1}

OwnTables(p) ==
  {procs[p].root} \union UNION {TablesBelow(tables[procs[p].root][i]) : i \in 0 .. 1}

\* A page of the stack that a segment has mapped before.
OnStack(g) == \E i, j \in DOMAIN g : j < i /\ g[i].stack /\ g[j].page = g[i].page

\* Segments that do not overlap, but for those that have the same pages.
NoOverlap(g) == \A i, j \in DOMAIN g : Overlaps(g[i].seg, g[j].seg) => g[i].seg = g[j].seg

UserPages(p) == {page \in 0 .. MapLimit - 1 : Mapped(p, page)}
Covered(p) == UNION {procs[p].vmas[i].from .. procs[p].vmas[i].to - 1 : i \in DOMAIN procs[p].vmas}

\* Every frame has one owner, through loading, mapping and ending in any order:
\* it is free, reserved for the heap, a data frame or a table of one process,
\* or lost, and only tables of the mmap area are ever lost; the allocator's lists,
\* bitmap and counter agree with it.  A frame is listed twice, and given back
\* twice, only for a program with a segment on its stack; a frame that is not RAM
\* is given back only where the firmware maps the mmap area to itself.
Accounted ==
  /\ panic = "double free" => \E p \in Procs : OnStack(procs[p].prog)
  /\ panic = "unknown frame" => tables[K4][1] # Unused
  /\ ListsExact
  /\ panic = "no" =>
       /\ UsedFrames = Reserved \union lost
                       \union UNION {OwnTables(p) \union Range(procs[p].frames) : p \in Alive}
       /\ \A p \in Alive : ~OnStack(procs[p].prog) =>
            Len(procs[p].frames) = Cardinality(Range(procs[p].frames))
       /\ \A p, q \in Alive :
            /\ OwnTables(p) \cap (Range(procs[q].frames) \union Reserved \union lost) = {}
            /\ Range(procs[p].frames) \cap (Reserved \union lost) = {}
            /\ p # q => /\ OwnTables(p) \cap OwnTables(q) = {}
                        /\ Range(procs[p].frames) \cap Range(procs[q].frames) = {}

\* The kernel's tables never change.  A process loaded from a file reaches, in
\* user mode, its own data frames and no others, each at one page.  As long as no
\* mmap took a page that was mapped, a live process has every page its list of
\* ranges covers, and, when no two segments of its program overlap, no others, so
\* that the list never hands out a page in use.
Isolation ==
  panic = "no" =>
    /\ \A k \in KernelTables : tables[k] = KernelMap(tables[K4][1] # Unused)[k]
    /\ \A p \in Alive : procs[p].elf /\ procs[p].st # "dying" =>
         LET frame(page) == LeafAt(tables, procs[p].root, page).to
         IN  /\ \A page \in UserPages(p) : frame(page) \in Range(procs[p].frames)
             /\ \A a, b \in UserPages(p) : a # b => frame(a) # frame(b)
             /\ ~shadowed /\ procs[p].st = "live" => Covered(p) \subseteq UserPages(p)
             /\ ~shadowed /\ NoOverlap(procs[p].prog) => UserPages(p) \subseteq Covered(p)

-----------------------------------------------------------------------------
(* What the code says of itself.                                           *)

\* The stack's frames are new, so that none is given back twice: usermode.rs:762.
NoDoubleFree == panic # "double free"

\* Giving back a frame of no region is a bug: memory.rs:525.
NoUnknownFree == panic # "unknown frame"

\* Every segment and the stack is in the list of ranges: usermode.rs:779.
SegmentsListed ==
  panic = "no" => \A p \in Procs : procs[p].st = "live" =>
    \A i \in DOMAIN procs[p].prog : procs[p].prog[i].page < MapBase =>
      procs[p].prog[i].page \in Covered(p)

\* The end of a process frees its intermediate tables: usermode.rs:139.
TablesFreed == lost = {}
=============================================================================
