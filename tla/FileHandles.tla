---------------------------- MODULE FileHandles ----------------------------
(***************************************************************************)
(* The file and directory handles of kernel/src/handle.rs and the system   *)
(* calls of syscall/handle.rs, over the volume of Fat32.                   *)
(*                                                                         *)
(* A file handle holds the whole file in memory from open on; what was     *)
(* written through it reaches the disk when it is closed, by deleting the  *)
(* file and creating it again.  Pipe handles are the module Handles'.      *)
(***************************************************************************)
EXTENDS Fat32

CONSTANTS
  MaxHandles,   \* bound: entries of the handle table
  OpenPaths,    \* the paths the callers open
  RightSets,    \* the rights the callers ask for
  Written,      \* the units the callers write through handles
  MaxLen        \* bound: units of a file written through a handle

Rights == {"read", "write", "seek", "stat", "enum", "create", "delete", "lookup"}

\* What paths are made of.
Components == Names \union Reserved \union {".", "..", "meminfo"}

\* What is not below /proc is on the volume, where every name is one of Names.
ASSUME FileHandlesAssumption ==
  /\ MaxHandles \in Nat /\ MaxLen \in Nat
  /\ Written \subseteq Units
  /\ RightSets \subseteq SUBSET Rights
  /\ "proc" \in Reserved
  /\ \A raw \in RawPaths \union OpenPaths :
       /\ raw \in Seq(Components)
       /\ OnVolume(Normalize(raw)) => Normalize(raw) \in Seq(Names)

VARIABLES
  handles,      \* HANDLE_TABLE
  opening,      \* the handle sys_handle_create_file() will make on success
  tree,         \* what a reader of the disk finds: Tree, evaluated once a step
  dropped       \* a directory has been removed that was not empty

vars == <<fatVars, handles, opening, tree, dropped>>

FileRead == {"read", "seek", "stat"}
FileRW == FileRead \union {"write"}
DirectoryRead == {"stat", "enum", "lookup"}

NoHandle ==
  [kind |-> "none", path |-> <<>>, rights |-> {}, data |-> <<>>, pos |-> 0, dirty |-> FALSE]

FileHandle(path, rights, data) ==
  [NoHandle EXCEPT !.kind = "file", !.path = path, !.rights = rights, !.data = data]

DirectoryHandle(path, rights) ==
  [NoHandle EXCEPT !.kind = "dir", !.path = path, !.rights = rights]

Unused == {h \in 1 .. MaxHandles : handles[h] = NoHandle}
Open == {h \in 1 .. MaxHandles : handles[h] # NoHandle}
Files == {h \in Open : handles[h].kind = "file"}
Directories == {h \in Open : handles[h].kind = "dir"}

\* insert_entry(): the first unused entry of the table.
Insert(entry) ==
  /\ Unused # {}
  /\ handles' = [handles EXCEPT ![Min(Unused)] = entry]

MayOpen == left.opens > 0 /\ Unused # {}
Opened == left' = [left EXCEPT !.opens = @ - 1]

-----------------------------------------------------------------------------
(* Opening.                                                                *)

AsDirectory(path, rights) ==
  LET given == IF rights = {} THEN DirectoryRead ELSE rights
  IN  IF given \cap {"enum", "lookup"} = {} THEN NoHandle ELSE DirectoryHandle(path, given)

AsFile(path, rights, data) ==
  LET given == IF rights = {} THEN FileRead ELSE rights
  IN  IF given \cap {"read", "write"} = {} THEN NoHandle ELSE FileHandle(path, given, data)

\* ProcFs::open(): one of its files stands for the three.
ProcOpen(path, rights) ==
  IF Len(path) = 2 /\ path[2] = "meminfo" THEN AsFile(path, rights, <<>>) ELSE NoHandle

\* open_path_to_handle(): NoHandle stands for an error.  A directory of the volume
\* is not found by Fat32::open(), which reads files only, and neither is a file
\* the device fails to read: opened for writing, either is taken for a new file.
OpenPath(raw, rights, readable) ==
  LET path == Normalize(raw)
      writes == "write" \in rights
      entry == FindEntry(Volume, path)
  IN  IF raw = <<>> THEN AsDirectory(<<>>, rights)
      ELSE IF ".." \in Range(raw) THEN NoHandle
      ELSE IF path = <<>> \/ path = <<"proc">>
           THEN IF writes THEN NoHandle ELSE AsDirectory(path, rights)
      ELSE IF writes /\ path[1] \in Reserved THEN NoHandle
      ELSE IF path[1] = "proc" THEN ProcOpen(path, rights)
      ELSE IF readable /\ entry # Free /\ ~entry.dir
           THEN AsFile(path, rights, ReadData(Volume, entry))
      ELSE IF writes THEN FileHandle(path, rights, <<>>) ELSE NoHandle

Reads(raw, rights) ==
  /\ op = Idle /\ MayOpen
  /\ \E readable \in (IF left.faults > 0 THEN BOOLEAN ELSE {TRUE}) :
       /\ OpenPath(raw, rights, readable) # NoHandle
       /\ Insert(OpenPath(raw, rights, readable))
       /\ left' = [left EXCEPT !.opens = @ - 1, !.faults = IF readable THEN @ ELSE @ - 1]
  /\ UNCHANGED <<fat, disk, stale, info, op, answer, damaged, torn, opening>>

\* sys_open()
SysOpen == \E raw \in OpenPaths, rights \in RightSets : Reads(raw, rights)

\* validate_relative_path()
Relative(raw) == raw # <<>> /\ ".." \notin Range(raw)

\* sys_openat(): the new handle gets the rights of the directory.
OpenAt ==
  \E h \in Directories, raw \in OpenPaths :
    /\ "lookup" \in handles[h].rights
    /\ Relative(raw)
    /\ Reads(handles[h].path \o raw, handles[h].rights)

-----------------------------------------------------------------------------
(* Reading and writing the copy in memory.                                 *)

\* Like every call, these run while no request is being served.
Memory ==
  op = Idle /\ UNCHANGED <<fat, disk, stale, info, op, answer, damaged, torn, opening>>

\* read(): one unit at a time.
HandleRead(h) ==
  /\ "read" \in handles[h].rights
  /\ handles[h].pos < Len(handles[h].data)
  /\ handles' = [handles EXCEPT ![h].pos = @ + 1]
  /\ Memory /\ UNCHANGED left

\* write(): at the position, growing the data.
HandleWrite(h, u) ==
  /\ "write" \in handles[h].rights
  /\ handles[h].pos < MaxLen
  /\ LET end == handles[h].pos + 1
         old == handles[h].data
     IN  handles' = [handles EXCEPT
           ![h].data = [i \in 1 .. Max({end, Len(old)}) |-> IF i = end THEN u ELSE old[i]],
           ![h].pos = end,
           ![h].dirty = TRUE]
  /\ Memory /\ UNCHANGED left

\* seek() that lets the position run past the end.
HandleSeek_PastEnd(h, base, offset) ==
  /\ "seek" \in handles[h].rights
  /\ LET at == CASE base = "set" -> 0
                 [] base = "cur" -> handles[h].pos
                 [] base = "end" -> Len(handles[h].data)
     IN  handles' = [handles EXCEPT ![h].pos = Max({0, at + offset})]
  /\ Memory /\ UNCHANGED left

\* seek(): clamped to the data.
HandleSeek(h, base, offset) ==
  /\ "seek" \in handles[h].rights
  /\ LET at == CASE base = "set" -> 0
                 [] base = "cur" -> handles[h].pos
                 [] base = "end" -> Len(handles[h].data)
     IN  handles' = [handles EXCEPT
           ![h].pos = Max({0, Min({at + offset, Len(handles[h].data)})})]
  /\ Memory /\ UNCHANGED left

\* restrict_rights(): a copy with fewer rights; what is dirty stays with the original.
RestrictRights(h, rights) ==
  /\ rights \subseteq handles[h].rights
  /\ MayOpen /\ Opened
  /\ Insert([handles[h] EXCEPT !.rights = rights, !.dirty = FALSE])
  /\ Memory

\* duplicate_handle(), for a handle sent over IPC.
DuplicateHandle(h) ==
  /\ MayOpen /\ Opened
  /\ Insert([handles[h] EXCEPT !.pos = 0, !.dirty = FALSE])
  /\ Memory

-----------------------------------------------------------------------------
(* Calls that change the volume.                                           *)

\* close(): a dirty file is written back after its entry has left the table.
HandleClose(h) ==
  /\ op = Idle
  /\ IF handles[h].dirty /\ handles[h].path # <<>>
     THEN Begin(Request("write", handles[h].path, handles[h].data))
     ELSE UNCHANGED fatVars
  /\ handles' = [handles EXCEPT ![h] = NoHandle]
  /\ UNCHANGED opening

\* build_child_path() of a name that passed validate_entry_name().
Child(h, name) == Append(handles[h].path, name)

\* sys_handle_create_file(): an empty file, then a handle to it, with all file
\* rights whatever the rights of the directory are.
CreateFileAt(h, name) ==
  /\ "create" \in handles[h].rights
  /\ Unused # {}
  /\ Begin(Request("write", Child(h, name), <<>>))
  /\ opening' = FileHandle(Child(h, name), FileRW, <<>>)
  /\ UNCHANGED handles

\* sys_handle_unlink()
UnlinkAt(h, name) ==
  /\ "delete" \in handles[h].rights
  /\ Begin(Request("unlink", Child(h, name), <<>>))
  /\ UNCHANGED <<handles, opening>>

\* sys_handle_mkdir()
MkdirAt(h, name) ==
  /\ "create" \in handles[h].rights
  /\ Begin(Request("mkdir", Child(h, name), <<>>))
  /\ UNCHANGED <<handles, opening>>

\* The request returns.
Return ==
  /\ Answer
  /\ IF opening # NoHandle /\ op.then = "ok" THEN Insert(opening)
     ELSE UNCHANGED handles
  /\ opening' = NoHandle

PowerLoss ==
  /\ Crash
  /\ handles' = [h \in 1 .. MaxHandles |-> NoHandle]
  /\ opening' = NoHandle

-----------------------------------------------------------------------------
Init ==
  /\ FatInit
  /\ handles = [h \in 1 .. MaxHandles |-> NoHandle]
  /\ opening = NoHandle
  /\ tree = Tree(Volume)
  /\ dropped = FALSE

SysRead == \E h \in Files : HandleRead(h)
SysWrite == \E h \in Files, u \in Written : HandleWrite(h, u)
SysSeek ==
  \E h \in Files, base \in {"set", "cur", "end"}, offset \in -1 .. 1 : HandleSeek(h, base, offset)
SysRestrict == \E h \in Open, rights \in RightSets : RestrictRights(h, rights)
SysClose == \E h \in Open : HandleClose(h)

Step ==
  \/ VolumeStep /\ UNCHANGED <<handles, opening>>
  \/ SysOpen \/ OpenAt \/ SysRead \/ SysWrite \/ SysSeek \/ SysRestrict \/ SysClose
  \/ \E h \in Open : DuplicateHandle(h)
  \/ \E h \in Directories, name \in Names :
       CreateFileAt(h, name) \/ UnlinkAt(h, name) \/ MkdirAt(h, name)
  \/ Return \/ PowerLoss

\* q is below the directory p.
Under(p, q) == Len(q) > Len(p) /\ SubSeq(q, 1, Len(p)) = p

\* A directory goes, and with it what was in it.
Drops(old, new) ==
  \E p, q \in DOMAIN old : Under(p, q) /\ p \notin DOMAIN new /\ q \notin DOMAIN new

\* The tree is followed for as long as the volume does what Store promises; nobody
\* reads between a directory's link to a new cluster and the clearing of it.
Next ==
  /\ Step
  /\ \E now \in {IF UNCHANGED <<fat, disk>> \/ Uncleared(op.todo)' # {} THEN tree
                 ELSE Tree([fat |-> fat', disk |-> disk'])} :
       /\ dropped' = (dropped \/ Drops(tree, now))
       /\ tree' = IF torn' \/ dropped' THEN tree ELSE now

Spec == Init /\ [][Next]_vars

-----------------------------------------------------------------------------
(* Properties.                                                             *)

TypeOK ==
  /\ FatTypeOK
  /\ \A h \in 1 .. MaxHandles :
       /\ handles[h].kind \in {"none", "file", "dir"}
       /\ handles[h].rights \subseteq Rights
       /\ handles[h].pos \in 0 .. Len(handles[h].data)

\* The store the volume implements: the tree on the disk, changed by the request
\* being served.  From a torn directory, or the removal of one that was not empty,
\* on nothing happens in it any more.
Store == INSTANCE FileStore WITH
  Requests <- [do : {"write", "delete", "mkdir", "rmdir", "unlink", "stat"},
               path : Seq(Components), data : Seq(Units)],
  NoRequest <- NoRequest, files <- tree,
  request <- IF torn \/ dropped THEN NoRequest ELSE op.req,
  answer <- IF torn \/ dropped THEN "none" ELSE answer

\* A file, written by a path call or by the close of a handle, is at every moment
\* absent or whole, requests touch nothing but their path, and an "ok" means the
\* file reads back as it was written, whatever sector write fails or is the last
\* before a power loss.  Two things end this: a directory torn while it grew (see
\* ChainsSound), and delete_entry() removing a directory that is not empty (see
\* EmptyOnly).
StoreImplemented == Store!Spec

\* What sys_dir_remove() is documented to do: only an empty directory can be
\* removed.  The code looks at the first cluster of the directory only.
EmptyOnly ==
  [][op.req.do = "rmdir" => ~Drops(Tree(Volume), Tree([fat |-> fat', disk |-> disk']))]_<<fat, disk>>

\* What free_clusters() is documented to do, count by a scan: the count it has at
\* hand, which it returns instead, is what a scan would give.
CountIsScan ==
  (op = Idle /\ info.on /\ info.free # Unknown) =>
    info.free = Cardinality({c \in Root .. LastData : fat[c] = 0})
=============================================================================
