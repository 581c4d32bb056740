------------------------------- MODULE Fat32 -------------------------------
(***************************************************************************)
(* The FAT32 volume of libs/fat32 and libs/fat-core, the VFS that routes   *)
(* to it and the path system calls of syscall/filesystem.rs, down to the   *)
(* single sector write.                                                    *)
(*                                                                         *)
(* File system calls run with interrupts off, so one request is served at  *)
(* a time and what can go wrong is the disk: it may fail a read or a       *)
(* write, be full, or lose power between two writes.  Every VFS call       *)
(* builds a new Fat32 from the disk, so a request is a sequence of phases  *)
(* (an overwrite is a delete and a create), and a phase is planned from    *)
(* the disk as it finds it: nothing else writes in between.                *)
(*                                                                         *)
(* A cluster is one sector.  A file's data is a sequence of units of one   *)
(* cluster each.                                                           *)
(***************************************************************************)
EXTENDS Integers, Sequences, FiniteSets, SequencesExt, FiniteSetsExt, Lists

CONSTANTS
  LastData,     \* the last cluster of the data area (the first is 2, the root)
  FatEnd,       \* the last entry of the FAT: its sectors may hold more than LastData
  Slots,        \* 32-byte entries of a directory cluster
  Names,        \* the file names
  Fold,         \* Fold[n]: n with its case folded
  Short,        \* Short[n]: the 8.3 name n is cut down to
  Is83,         \* the names that are their own 8.3 name
  Width,        \* Width[n]: entries n takes, its long-name entries included
  Reserved,     \* the names that begin with "proc"; "proc" is the mount point
  RawPaths,     \* the paths the callers use
  Contents,     \* the data the callers write
  Units,        \* the units of data
  Depth,        \* bound: the longest path that is looked at
  Budgets       \* bounds: [requests (phases that write), faults (sector reads and
                \* writes that fail), crashes (power losses), opens (handles made)]

Root == 2
Eoc == 1
Unknown == -1
Free == [name |-> "free"]
Lfn == [name |-> "lfn"]
Junk == [dir |-> FALSE, slots |-> <<>>, unit |-> 0]
Clusters == Root .. FatEnd

\* The volume InUse needs four clusters, three names and two units of data.
ASSUME Fat32Assumption ==
  /\ LastData \in Nat /\ FatEnd \in Nat /\ Root + 3 <= LastData /\ LastData <= FatEnd
  /\ Slots \in Nat /\ Depth \in Nat
  /\ Budgets \subseteq [requests : Nat, faults : Nat, crashes : Nat, opens : Nat]
  /\ \A n \in Names : Width[n] \in 2 .. Slots
  /\ {"k", "d", "a"} \subseteq Names /\ Names \cap {"free", "lfn", ".", ".."} = {}
  /\ {1, 2} \subseteq Units
  /\ Contents \subseteq Seq(Units)

VARIABLES
  fat,          \* the FAT: 0 (free), Eoc or the next cluster
  disk,         \* what the sector of a cluster that is in use holds: entries or a unit of data
  stale,        \* what a cluster that was given back holds, read as entries
  info,         \* the FSInfo sector: [on, free, next]
  op,           \* the request being served: [req, phases, todo, then]
  answer,       \* the answer to the last request
  left,         \* what is left of the budget
  damaged,      \* a write has failed, a change was made without FSInfo, which could
                \* not be read, or a power loss has cut a request short
  torn          \* a directory has been left with a cluster that was not cleared

fatVars == <<fat, disk, stale, info, op, answer, left, damaged, torn>>

NoRequest == [do |-> "none", path |-> <<>>, data |-> <<>>]
Idle == [req |-> NoRequest, phases |-> <<>>, todo |-> <<>>, then |-> "ok"]

-----------------------------------------------------------------------------
(* Reading a volume v, a FAT and what is on the clusters.                  *)

Volume == [fat |-> fat, disk |-> disk]

\* The clusters of a chain, in order: next_cluster() until it says None.
Chain(v, c) ==
  LET walk[n \in 1 .. FatEnd] ==
        IF n = 1 THEN <<c>>
        ELSE LET w == walk[n - 1]
             IN  IF v.fat[Last(w)] \in Clusters THEN Append(w, v.fat[Last(w)]) ELSE w
  IN  walk[FatEnd]

\* parse_dir_entries()
EntriesOf(v, c) ==
  LET slots == v.disk[c].slots
  IN  Picked(slots, {i \in DOMAIN slots : slots[i] \notin {Free, Lfn}})

\* The sectors of a chain can be read: none is behind the end of the device.
Readable(chain) == \A i \in DOMAIN chain : chain[i] <= LastData

\* list_dir_cluster(): where it fails nothing is found.
ListDir(v, c) ==
  LET all(chain) == IF Readable(chain)
                    THEN FlattenSeq([i \in DOMAIN chain |-> EntriesOf(v, chain[i])]) ELSE <<>>
  IN  all(Chain(v, c))

FirstOf(seq, Test(_)) ==
  LET hits == {i \in DOMAIN seq : Test(seq[i])}
  IN  IF hits = {} THEN Free ELSE seq[Min(hits)]

\* short_name_to_string(e.short_name).eq_ignore_ascii_case(name)
ShortIs(e, name) == name \in Is83 /\ e.short = <<Short[name], 0>>

\* The match of find_entry() and find_dir_cluster().
Matches(e, name) ==
  e.name \in Names /\ (Fold[e.name] = Fold[name] \/ ShortIs(e, name))

\* The match of create_entry() and delete_entry(): the case of a long name counts.
MatchesExactly(e, name) ==
  e.name \in Names /\ (e.name = name \/ ShortIs(e, name))

\* find_dir_cluster(): 0 when there is no such directory.
DirCluster(v, path) ==
  LET at[n \in 0 .. Len(path)] ==
        IF n = 0 THEN Root
        ELSE LET into(e) == IF e # Free /\ e.dir THEN e.first ELSE 0
                 sub(c) == IF c = 0 THEN 0
                           ELSE into(FirstOf(ListDir(v, c), LAMBDA x : Matches(x, path[n])))
             IN  sub(at[n - 1])
  IN  at[Len(path)]

\* find_entry()
FindEntry(v, path) ==
  LET in(c) == IF c = 0 THEN Free ELSE FirstOf(ListDir(v, c), LAMBDA e : Matches(e, Last(path)))
  IN  IF path = <<>> THEN Free ELSE in(DirCluster(v, Front(path)))

\* read_file_data(): as much of the chain as the size says.
ReadData(v, e) ==
  LET units(chain) == [i \in 1 .. Min({e.size, Len(chain)}) |-> v.disk[chain[i]].unit]
  IN  IF e.first = 0 THEN <<>> ELSE units(Chain(v, e.first))

-----------------------------------------------------------------------------
(* Planning the writes of a phase.  fs is the FSInfo its Fat32 has read.   *)

NoInfo == [on |-> FALSE, free |-> Unknown, next |-> Unknown]

FatWrite(c, v) == [k |-> "fat", c |-> c, v |-> v]
DiskWrite(c, v) == [k |-> "disk", c |-> c, v |-> v]
InfoWrite(v) == [k |-> "info", c |-> 0, v |-> v]

\* The clusters alloc_cluster() will hand out, in order: the free ones from the
\* FSInfo hint to the end of the FAT, then from the start to the hint.
FreeOrder(fs) ==
  LET start == IF fs.on /\ fs.next # Unknown THEN fs.next ELSE Root
      scan == [i \in 1 .. FatEnd + 1 - start |-> start + i - 1]
              \o [i \in 1 .. start - Root |-> Root + i - 1]
  IN  Picked(scan, {i \in DOMAIN scan : scan[i] \in Clusters /\ fat[scan[i]] = 0})

FreeAfter(fs, delta) ==
  IF fs.free = Unknown THEN Unknown ELSE Max({0, fs.free + delta})

\* alloc_cluster() that does not count.
AllocWrites_Uncounted(fs, free, i) ==
  <<FatWrite(free[i], Eoc)>>
  \o (IF fs.on THEN <<InfoWrite([fs EXCEPT !.next = free[i] + 1])>> ELSE <<>>)

\* The i-th alloc_cluster() of a phase, with the FSInfo it flushes.
AllocWrites(fs, free, i) ==
  <<FatWrite(free[i], Eoc)>>
  \o (IF fs.on
      THEN <<InfoWrite([fs EXCEPT !.free = FreeAfter(fs, -i), !.next = free[i] + 1])>>
      ELSE <<>>)

\* write_file_data() that does not link a cluster to the one before it.
DataWrites_Unlinked(fs, free, data, n) ==
  FlattenSeq([i \in 1 .. n |->
      AllocWrites(fs, free, i) \o <<DiskWrite(free[i], [Junk EXCEPT !.unit = data[i]])>>])
  \o (IF n = Len(data) /\ n > 0 THEN <<FatWrite(free[n], Eoc)>> ELSE <<>>)

\* write_file_data() for the first n units.
DataWrites(fs, free, data, n) ==
  FlattenSeq([i \in 1 .. n |->
      AllocWrites(fs, free, i)
      \o (IF i > 1 THEN <<FatWrite(free[i - 1], free[i])>> ELSE <<>>)
      \o <<DiskWrite(free[i], [Junk EXCEPT !.unit = data[i]])>>])
  \o (IF n = Len(data) /\ n > 0 THEN <<FatWrite(free[n], Eoc)>> ELSE <<>>)

EmptyDir == [dir |-> TRUE, slots |-> [i \in 1 .. Slots |-> Free], unit |-> 0]

\* init_dir_cluster(): the entries "." and "..".
InitDir(c, parent) ==
  [EmptyDir EXCEPT
    !.slots[1] = [name |-> ".", short |-> <<".", 0>>, dir |-> TRUE, first |-> c, size |-> 0],
    !.slots[2] = [name |-> "..", short |-> <<"..", 0>>, dir |-> TRUE, first |-> parent, size |-> 0]]

\* make_short_name(): the first of the suffixes 0 to 9 no entry has.
ShortName(name, entries) ==
  LET taken == {e.short : e \in Range(entries)}
      unused == {s \in 0 .. 9 : <<Short[name], s>> \notin taken}
  IN  IF unused = {} THEN <<"blank", 0>> ELSE <<Short[name], Min(unused)>>

\* Where add_dir_entries() finds room in a sector: has_contiguous_free().
RoomAt(slots, w) ==
  {i \in 1 .. Len(slots) + 1 - w : \A j \in i .. i + w - 1 : slots[j] = Free}

PutEntry(slots, at, e) ==
  [j \in DOMAIN slots |->
     IF j = at + Width[e.name] - 1 THEN e
     ELSE IF j \in at .. at + Width[e.name] - 2 THEN Lfn ELSE slots[j]]

\* The clusters of a directory that have room for a name.
Roomy(chain, w) == {i \in DOMAIN chain : RoomAt(disk[chain[i]].slots, w) # {}}

EntryWrite(c, slots, e) ==
  <<DiskWrite(c, [EmptyDir EXCEPT
      !.slots = PutEntry(slots, Min(RoomAt(slots, Width[e.name])), e)])>>

\* add_dir_entries(): the first cluster of the directory with room, or a new one,
\* which is linked before it is zeroed.
EntryWrites(fs, free, chain, roomy, e, n) ==
  IF roomy # {} THEN EntryWrite(chain[Min(roomy)], disk[chain[Min(roomy)]].slots, e)
  ELSE AllocWrites(fs, free, n + 1)
       \o <<FatWrite(Last(chain), free[n + 1]), FatWrite(free[n + 1], Eoc),
            DiskWrite(free[n + 1], EmptyDir)>>
       \o EntryWrite(free[n + 1], EmptyDir.slots, e)

Refuse == [todo |-> <<>>, then |-> "err"]

NewEntry(free, entries, path, data, isDir) ==
  [name |-> Last(path), short |-> ShortName(Last(path), entries), dir |-> isDir,
   first |-> IF isDir \/ data # <<>> THEN free[1] ELSE 0, size |-> Len(data)]

\* create_entry(): the data and its chain first, the name last.  Nothing is given
\* back when a cluster is missing.
CreateEntry(fs, free, chain, roomy, entries, path, data, isDir) ==
  LET n == IF isDir THEN 1 ELSE Len(data)
      have == Min({n, Len(free)})
      body == IF isDir
              THEN IF have = 0 THEN <<>>
                   ELSE AllocWrites(fs, free, 1) \o <<DiskWrite(free[1], InitDir(free[1], chain[1]))>>
              ELSE DataWrites(fs, free, data, have)
  IN  IF \E e \in Range(entries) : MatchesExactly(e, Last(path)) THEN Refuse
      ELSE IF Len(free) < n \/ (Len(free) = n /\ roomy = {})
      THEN [todo |-> body, then |-> "err"]
      ELSE [todo |-> body \o EntryWrites(fs, free, chain, roomy,
                               NewEntry(free, entries, path, data, isDir), n),
            then |-> "ok"]

\* create_file() and create_dir()
CreatePlan(fs, path, data, isDir) ==
  LET on(chain) == CreateEntry(fs, FreeOrder(fs), chain, Roomy(chain, Width[Last(path)]),
                     FlattenSeq([i \in DOMAIN chain |-> EntriesOf(Volume, chain[i])]),
                     path, data, isDir)
      in(chain) == IF Readable(chain) THEN on(chain) ELSE Refuse
      at(c) == IF c = 0 THEN Refuse ELSE in(Chain(Volume, c))
  IN  IF path = <<>> THEN Refuse ELSE at(DirCluster(Volume, Front(path)))

\* is_dir_empty(): only the first cluster of the directory is looked at.
IsDirEmpty(c) == \A e \in Range(EntriesOf(Volume, c)) : e.name \in {".", ".."}

\* The entry at i of a sector and its long-name entries become 0xE5.
ClearEntry(slots, i) ==
  [j \in DOMAIN slots |->
     IF j \in i + 1 - Width[slots[i].name] .. i THEN Free ELSE slots[j]]

\* free_cluster_chain(), and the FSInfo after it.
FreeWrites(fs, chain) ==
  [i \in DOMAIN chain |-> FatWrite(chain[i], 0)]
  \o (IF fs.on
      THEN <<InfoWrite([fs EXCEPT !.free = FreeAfter(fs, Len(chain)), !.next = chain[1]])>>
      ELSE <<>>)

\* delete_entry() that gives the clusters back before it clears the name.
DeleteEntry_FreeFirst(fs, c, i, e, isDir) ==
  IF e.dir # isDir \/ (isDir /\ ~IsDirEmpty(e.first)) THEN Refuse
  ELSE [todo |-> (IF e.first = 0 THEN <<>> ELSE FreeWrites(fs, Chain(Volume, e.first)))
                 \o <<DiskWrite(c, [disk[c] EXCEPT !.slots = ClearEntry(@, i)])>>,
        then |-> "ok"]

\* delete_entry() once it has found the entry e: the name first, then the chain.
DeleteEntry(fs, c, i, e, isDir) ==
  IF e.dir # isDir \/ (isDir /\ ~IsDirEmpty(e.first)) THEN Refuse
  ELSE [todo |-> <<DiskWrite(c, [disk[c] EXCEPT !.slots = ClearEntry(@, i)])>>
                 \o (IF e.first = 0 THEN <<>> ELSE FreeWrites(fs, Chain(Volume, e.first))),
        then |-> "ok"]

\* delete_file() and delete_dir(): the first entry of the directory that matches.
DeletePlan(fs, path, isDir) ==
  LET hits(c) == {i \in DOMAIN disk[c].slots :
                    /\ disk[c].slots[i] \notin {Free, Lfn}
                    /\ MatchesExactly(disk[c].slots[i], Last(path))}
      at(c, i) == DeleteEntry(fs, c, i, disk[c].slots[i], isDir)
      on(chain) ==
        LET found == {n \in DOMAIN chain : hits(chain[n]) # {}}
        IN  IF found = {} THEN Refuse
            ELSE at(chain[Min(found)], Min(hits(chain[Min(found)])))
      in(c) == IF c = 0 THEN Refuse ELSE on(Chain(Volume, c))
  IN  IF path = <<>> THEN Refuse ELSE in(DirCluster(Volume, Front(path)))

\* free_clusters() behind fs_stat: the count in FSInfo, or a scan whose result is
\* flushed (without a hint).
StatPlan(fs) ==
  [todo |-> IF fs.on /\ fs.free = Unknown
            THEN <<InfoWrite([fs EXCEPT
                    !.free = Cardinality({c \in Root .. LastData : fat[c] = 0}),
                    !.next = Unknown])>>
            ELSE <<>>,
   then |-> "ok"]
-----------------------------------------------------------------------------
(* The VFS and the requests.                                               *)

\* normalize_path(): empty and "." components go; ".." is refused later.
Normalize(raw) == Picked(raw, {i \in DOMAIN raw : raw[i] # "."})

\* VfsManager::resolve() with the mounts "/" and "/proc", and ProcFs, which
\* refuses every change: the request reaches the volume.
OnVolume(path) == ".." \notin Range(path) /\ (path = <<>> \/ path[1] # "proc")

\* The VFS calls a request is made of.
PhasesOf(do) ==
  CASE do = "write" -> <<"delete", "create">>     \* sys_file_write()
    [] do = "unlink" -> <<"delete", "rmdir">>     \* sys_handle_unlink()
    [] OTHER -> <<do>>

PlanOf(fs, phase, req) ==
  IF ~OnVolume(req.path) THEN Refuse
  ELSE CASE phase = "create" -> CreatePlan(fs, req.path, req.data, FALSE)
         [] phase = "mkdir" -> CreatePlan(fs, req.path, <<>>, TRUE)
         [] phase = "delete" -> DeletePlan(fs, req.path, FALSE)
         [] phase = "rmdir" -> DeletePlan(fs, req.path, TRUE)
         [] phase = "stat" -> StatPlan(fs)

Request(do, raw, data) == [do |-> do, path |-> Normalize(raw), data |-> data]

\* The directories of the tree, down to the given depth, and their entries as positions.
LiveDirs ==
  LET below(c) == {e.first : e \in {x \in Range(ListDir(Volume, c)) : x.dir /\ x.name \in Names}}
      at[n \in 0 .. Depth] ==
        IF n = 0 THEN {Root} ELSE at[n - 1] \union UNION {below(c) : c \in at[n - 1]}
  IN  at[Depth]

LiveEntries ==
  {p \in (UNION {Range(Chain(Volume, c)) : c \in LiveDirs}) \X (1 .. Slots) :
     disk[p[1]].dir /\ disk[p[1]].slots[p[2]].name \in Names}

Begin(req) ==
  /\ op = Idle
  /\ left.requests > 0
  /\ op' = [req |-> req, phases |-> PhasesOf(req.do), todo |-> <<>>, then |-> "start"]
  /\ answer' = "none"
  /\ UNCHANGED <<fat, disk, stale, info, left, damaged, torn>>

FileWrite == \E raw \in RawPaths, data \in Contents : Begin(Request("write", raw, data))
FileDelete == \E raw \in RawPaths : Begin(Request("delete", raw, <<>>))
DirCreate == \E raw \in RawPaths : Begin(Request("mkdir", raw, <<>>))
DirRemove == \E raw \in RawPaths : Begin(Request("rmdir", raw, <<>>))
FsStat == Begin(Request("stat", <<>>, <<>>))

\* What is written over a sector of data reads as entries of names nobody asks for.
Leftover(sector) ==
  IF sector.dir THEN sector ELSE [EmptyDir EXCEPT !.slots = [i \in 1 .. Slots |-> Lfn]]

\* write_fat_entry().  A cluster that is freed keeps its bytes; no chain leads to
\* them until a directory grows into the cluster, see CutShort.
ApplyFat(w) ==
  /\ fat' = [fat EXCEPT ![w.c] = w.v]
  /\ IF w.v = 0 THEN /\ disk' = [disk EXCEPT ![w.c] = Junk]
                     /\ stale' = [stale EXCEPT ![w.c] = Leftover(disk[w.c])]
     ELSE UNCHANGED <<disk, stale>>
  /\ UNCHANGED info

Apply(w) ==
  CASE w.k = "fat" -> ApplyFat(w)
    [] w.k = "disk" -> disk' = [disk EXCEPT ![w.c] = w.v] /\ UNCHANGED <<fat, stale, info>>
    [] w.k = "info" -> info' = w.v /\ UNCHANGED <<fat, disk, stale>>

OutOfRange(w) == w.k = "disk" /\ w.c > LastData

\* write_sector() of the block device.
WriteSector ==
  /\ op.todo # <<>>
  /\ ~OutOfRange(Head(op.todo))
  /\ Apply(Head(op.todo))
  /\ op' = [op EXCEPT !.todo = Tail(@)]
  /\ UNCHANGED <<answer, left, damaged, torn>>

\* The cluster a directory has been linked to, while todo has yet to clear it.
Uncleared(todo) ==
  {c \in Clusters :
     /\ ~disk[c].dir
     /\ \E i \in DOMAIN todo : todo[i].k = "disk" /\ todo[i].c = c /\ todo[i].v = EmptyDir
     /\ \A i \in DOMAIN todo : todo[i].k = "fat" => todo[i].v # c}

\* What a cluster shows that is not cleared cannot be told, or there is no such sector.
Tears(c) ==
  c > LastData \/ \E i \in 1 .. Slots : stale[c].slots[i].name \notin {"free", ".", ".."}

\* todo will not be written: a directory that was growing lists what its new
\* cluster held before.
CutShort(todo) ==
  /\ disk' = [c \in Clusters |-> IF c \in Uncleared(todo) THEN stale[c] ELSE disk[c]]
  /\ torn' = (torn \/ \E c \in Uncleared(todo) : Tears(c))
  /\ damaged' = TRUE
  /\ UNCHANGED stale

Abort == op' = [op EXCEPT !.todo = <<>>, !.then = "err"]

\* A sector behind the device's last one: the request fails, and what it has
\* written so far stays.
WriteBehindEnd ==
  /\ op.todo # <<>>
  /\ OutOfRange(Head(op.todo))
  /\ Abort
  /\ CutShort(op.todo)
  /\ UNCHANGED <<fat, info, answer, left>>

\* A write fails, or a read on the way to it.  Of the FAT copies the first may have been written;
\* an error on the FSInfo sector is ignored.
DeviceError ==
  /\ op.todo # <<>>
  /\ left.faults > 0
  /\ left' = [left EXCEPT !.faults = @ - 1]
  /\ \/ /\ Head(op.todo).k # "info"
        /\ Abort
        /\ CutShort(op.todo)
        /\ UNCHANGED <<fat, info>>
     \/ /\ Head(op.todo).k = "fat" /\ Head(op.todo).v # 0
        /\ Abort
        /\ fat' = [fat EXCEPT ![Head(op.todo).c] = Head(op.todo).v]
        /\ CutShort(Tail(op.todo))
        /\ UNCHANGED info
     \/ /\ Head(op.todo).k = "fat" /\ Head(op.todo).v = 0
        /\ Abort
        /\ ApplyFat(Head(op.todo))
        /\ damaged' = TRUE
        /\ UNCHANGED torn
     \/ /\ Head(op.todo).k = "info"
        /\ op' = [op EXCEPT !.todo = Tail(@)]
        /\ damaged' = TRUE
        /\ UNCHANGED <<fat, disk, stale, info, torn>>
  /\ UNCHANGED answer

\* The delete of an overwrite may have failed; unlink tries the directory only
\* when there is no such file.
Another == op.phases # <<>> /\ (op.req.do = "write" \/ op.then # "ok")

\* What may fail when a Fat32 is built and reads what it needs: everything but
\* FSInfo ends the phase; without FSInfo, load_fsinfo() goes on and nothing is counted.
ReadFaults ==
  IF left.faults = 0 THEN {"none"}
  ELSE {"none", "read"} \union (IF info.on THEN {"fsinfo"} ELSE {})

\* A phase begins: the VFS builds a Fat32.
NextPhase ==
  /\ op # Idle /\ op.todo = <<>> /\ Another
  /\ \E fault \in ReadFaults :
       \E plan \in {IF fault = "read" THEN Refuse
                    ELSE PlanOf(IF fault = "none" THEN info ELSE NoInfo, Head(op.phases), op.req)} :
         /\ op' = [op EXCEPT !.phases = Tail(@), !.todo = plan.todo, !.then = plan.then]
         /\ left' = [left EXCEPT
              !.requests = IF plan.todo = <<>> THEN @ ELSE Max({0, @ - 1}),
              !.faults = IF fault = "none" THEN @ ELSE @ - 1]
         /\ damaged' = (damaged \/ (fault = "fsinfo" /\ plan.todo # <<>>))
  /\ UNCHANGED <<fat, disk, stale, info, answer, torn>>

Answer ==
  /\ op # Idle /\ op.todo = <<>> /\ ~Another
  /\ op' = Idle
  /\ answer' = op.then
  /\ UNCHANGED <<fat, disk, stale, info, left, damaged, torn>>

\* Power is lost between two writes, or the factory of the mount panics because
\* the boot sector cannot be read.
Crash ==
  /\ left.crashes > 0
  /\ left' = [left EXCEPT !.crashes = @ - 1]
  /\ op # Idle
  /\ op' = Idle
  /\ answer' = "none"
  /\ CutShort(op.todo)
  /\ UNCHANGED <<fat, info>>

-----------------------------------------------------------------------------
(* The volume at boot: as mkfs leaves it, with FSInfo complete, without a  *)
(* count or absent; or in use, with a file k and a directory d that holds  *)
(* the file a, and free clusters that hold zeros or what is left of data.  *)

DirEntry(name, isDir, first, size) ==
  [name |-> name, short |-> <<Short[name], 0>>, dir |-> isDir, first |-> first, size |-> size]

InUse ==
  [fat |-> [c \in Clusters |-> CASE c \in {Root, Root + 1, Root + 3} -> Eoc
                                [] c = Root + 2 -> Root + 3
                                [] OTHER -> 0],
   disk |-> [c \in Clusters |->
     CASE c = Root ->
            [EmptyDir EXCEPT !.slots =
               PutEntry(PutEntry(@, 1, DirEntry("k", FALSE, 0, 0)),
                        3, DirEntry("d", TRUE, Root + 1, 0))]
       [] c = Root + 1 ->
            [InitDir(c, Root) EXCEPT !.slots = PutEntry(@, 3, DirEntry("a", FALSE, Root + 2, 2))]
       [] c \in {Root + 2, Root + 3} -> [Junk EXCEPT !.unit = c - Root - 1]
       [] OTHER -> Junk]]

FatInit ==
  /\ \/ /\ fat = [c \in Clusters |-> IF c = Root THEN Eoc ELSE 0]
        /\ disk = [c \in Clusters |-> IF c = Root THEN EmptyDir ELSE Junk]
        /\ info \in {[on |-> TRUE, free |-> LastData - Root, next |-> Root + 1],
                     [on |-> TRUE, free |-> Unknown, next |-> Unknown],
                     NoInfo}
        /\ stale = [c \in Clusters |-> EmptyDir]
     \/ /\ fat = InUse.fat
        /\ disk = InUse.disk
        /\ info = [on |-> TRUE, free |-> LastData - Root - 3, next |-> LastData]
        /\ \E before \in {EmptyDir, Leftover(Junk)} : stale = [c \in Clusters |-> before]
  /\ op = Idle
  /\ answer = "none"
  /\ left \in Budgets
  /\ damaged = FALSE
  /\ torn = FALSE

VolumeStep ==
  \/ FileWrite \/ FileDelete \/ DirCreate \/ DirRemove \/ FsStat
  \/ WriteSector \/ WriteBehindEnd \/ DeviceError \/ NextPhase

-----------------------------------------------------------------------------
(* Properties.                                                             *)

FatTypeOK ==
  /\ fat \in [Clusters -> 0 .. FatEnd]
  /\ info.free \in Nat \union {Unknown} /\ info.next \in (Root .. FatEnd + 1) \union {Unknown}
  /\ \A c \in Clusters : disk[c].dir => Len(disk[c].slots) = Slots
  /\ answer \in {"none", "ok", "err"}

\* Whatever was cut short, by an error or by a power loss and at whichever of
\* its sector writes, the chain of every entry that can be reached is allocated
\* to its end, ends, and shares no cluster with another: create_entry() links
\* before it names, delete_entry() clears the name before it frees.  The
\* exception: add_dir_entries() links a directory's new cluster before it clears
\* it.  Cut short there, the directory lists what data the cluster held, or
\* cannot be read where the cluster lies behind the data area, and from then on
\* (torn) nothing is claimed.
ChainsSound ==
  ~torn =>
  LET first(p) == disk[p[1]].slots[p[2]].first
      owned(p) == IF first(p) = 0 THEN {} ELSE Range(Chain(Volume, first(p)))
  IN  /\ \A p \in LiveEntries :
           first(p) # 0 =>
             /\ \A c \in owned(p) : fat[c] # 0
             /\ fat[Last(Chain(Volume, first(p)))] = Eoc
             /\ owned(p) \cap Range(Chain(Volume, Root)) = {}
      /\ \A p, q \in LiveEntries : p # q => owned(p) \cap owned(q) = {}

\* While no write has failed, no change was made by a Fat32 that could not read
\* FSInfo and no power was lost, the count of free clusters in FSInfo, which
\* fs_stat reports without looking, is the number of free FAT entries of the data
\* area whenever no request is being served.
FreeCount ==
  (op = Idle /\ ~damaged /\ info.on /\ info.free # Unknown) =>
    info.free = Cardinality({c \in Root .. LastData : fat[c] = 0})

\* The tree a reader of the disk finds.
Tree(v) ==
  LET entry == [p \in UNION {[1 .. n -> Names] : n \in 1 .. Depth} |-> FindEntry(v, p)]
  IN  [p \in {q \in DOMAIN entry : entry[q] # Free} |->
         [dir |-> entry[p].dir,
          data |-> IF entry[p].dir THEN <<>> ELSE ReadData(v, entry[p])]]
=============================================================================
