------------------------------- MODULE Handles -------------------------------
(***************************************************************************)
(* The global handle table and the pipes behind it: kernel/src/handle.rs,  *)
(* kernel/src/pipe.rs, and the system calls that pass handles on           *)
(* (SYS_PIPE, SYS_HANDLE_READ / WRITE / CLOSE, SYS_READ and SYS_WRITE on   *)
(* redirected stdio, SYS_RESTRICT_RIGHTS, SYS_SPAWN_REDIRECTED,            *)
(* SYS_IPC_SEND_HANDLE) or close them (user_task_exit_handler).            *)
(*                                                                         *)
(* All of these run with interrupts off, except a read, which polls with   *)
(* interrupts on and leaves HANDLE_TABLE before it takes PIPE_TABLE: its   *)
(* two lock sections are two actions and any other call may come between.  *)
(* Files and directories in the same table are not part of this module.    *)
(* The contents of a pipe are numbered in the order they are written.      *)
(***************************************************************************)
EXTENDS Integers, Sequences, FiniteSets

CONSTANTS
  Tasks,       \* processes
  Boot,        \* the one that runs first
  Receivers,   \* the processes that are sent handles
  Restricted,  \* the kinds of handle programs pass to SYS_RESTRICT_RIGHTS
  MaxOpen,     \* bound: handles open at a time
  MaxTokens,   \* bound: handles ever created
  MaxPipes,    \* bound: pipes ever created
  MaxWrites    \* bound: writes to one pipe

Kinds == {"PipeRead", "PipeWrite"}

ASSUME HandleConstants ==
  /\ Boot \in Tasks /\ Receivers \subseteq Tasks /\ Restricted \subseteq Kinds
  /\ MaxOpen \in Nat /\ MaxTokens \in Nat /\ MaxPipes \in Nat /\ MaxWrites \in Nat

VARIABLES
  table,    \* HANDLE_TABLE: a sequence of entries and free slots
  pipes,    \* PIPE_TABLE: a sequence of pipes and free slots
  token,    \* HANDLE_TOKEN_COUNTER; next_token() multiplies it by an odd
            \* constant, so that distinct counts give distinct tokens
  born,     \* pipes created so far
  holds,    \* the handles each process has been given
  inbox,    \* IPC_HANDLE_QUEUES: handles sent and not received (their order is
            \* the subject of Ipc)
  stdio,    \* Task.stdin_handle and Task.stdout_handle
  life,     \* unborn, live or dead
  reading,  \* the handle a process is blocked on, and the pipe_id it found
  pc        \* idle, lookup or pipe: where its read loop is

vars == <<table, pipes, token, born, holds, inbox, stdio, life, reading, pc>>

Free     == [free |-> TRUE]
NoHandle == [id |-> 0, token |-> 0]
NoRead   == [handle |-> NoHandle, pipe |-> 0]
Handle   == [id : 1..MaxOpen, token : 1..MaxTokens]

\* gen numbers the pipes in the order of their creation: which pipe an entry was
\* made for, and which pipe is in a slot.
Entry == [token : 1..MaxTokens, kind : Kinds, usable : BOOLEAN, pipe : 1..MaxPipes,
          gen : 1..MaxPipes]
Pipe  == [buf : Seq(1..MaxWrites), writer_count : Nat, reader_closed : BOOLEAN,
          gen : 1..MaxPipes, wrote : 0..MaxWrites, got : 0..MaxWrites]

-----------------------------------------------------------------------------
(* The two tables.                                                         *)

FreeSlots(s) == {i \in 1..Len(s) : s[i] = Free}

\* A new entry always goes to the end.
Slot_AtEnd(s) == Len(s) + 1

\* The slot a new entry goes to: the first free one, else one more.
Slot(s) ==
  IF FreeSlots(s) = {} THEN Len(s) + 1
  ELSE CHOOSE i \in FreeSlots(s) : \A j \in FreeSlots(s) : i <= j

Put(s, x) == IF Slot(s) > Len(s) THEN Append(s, x) ELSE [s EXCEPT ![Slot(s)] = x]

\* get_entry() without the comparison of the token.
Valid_AnyToken(h) == h.id \in 1..Len(table) /\ table[h.id] # Free

\* get_entry().
Valid(h) ==
  /\ h.id \in 1..Len(table) /\ table[h.id] # Free
  /\ table[h.id].token = h.token

OpenCount == Len(table) - Cardinality(FreeSlots(table))

\* Room for n more handles.
Room(n) == OpenCount + n <= MaxOpen /\ token + n <= MaxTokens

\* The open ends of kind k whose pipe_id is p.
Ends(k, p) == {i \in 1..Len(table) : table[i] # Free /\ table[i].kind = k /\ table[i].pipe = p}

\* pipe_id points at a pipe.
Exists(p) == p \in 1..Len(pipes) /\ pipes[p] # Free

-----------------------------------------------------------------------------
(* Copies of a handle.                                                     *)

\* The copies that the one or two handles hs get, one after the other: the table
\* and the new handles.
Copies(hs, keep) ==
  LET new(i) == [table[hs[i].id] EXCEPT !.token = token + i,
                                        !.usable = @ /\ keep]
      one == IF Len(hs) >= 1 THEN Put(table, new(1)) ELSE table
      two == IF Len(hs) = 2 THEN Put(one, new(2)) ELSE one
  IN  [tab |-> two,
       handles |-> <<[id |-> Slot(table), token |-> token + 1],
                     [id |-> Slot(one), token |-> token + 2]>>]

Writable(hs) == {i \in 1..Len(hs) : table[hs[i].id].kind = "PipeWrite"}

\* duplicate_handle() that counts no writer.
AddWriters_None(hs) == pipes

\* duplicate_handle(): every copy of a write end counts as a writer.
AddWriters(hs) ==
  [p \in 1..Len(pipes) |->
     IF pipes[p] = Free THEN Free
     ELSE [pipes[p] EXCEPT !.writer_count =
             @ + Cardinality({i \in Writable(hs) : table[hs[i].id].pipe = p})]]

-----------------------------------------------------------------------------
(* System calls.                                                           *)

Able(t) == life[t] = "live" /\ pc[t] = "idle"

\* create_pipe_handles().
CreatePipe(t) ==
  LET p    == Slot(pipes)
      end(k, n) == [token |-> token + n, kind |-> k, usable |-> TRUE, pipe |-> p,
                    gen |-> born + 1]
      one  == Put(table, end("PipeRead", 1))
  IN  /\ Able(t) /\ Room(2) /\ born < MaxPipes
      /\ born' = born + 1
      /\ pipes' = Put(pipes, [buf |-> << >>, writer_count |-> 1, reader_closed |-> FALSE,
                              gen |-> born + 1, wrote |-> 0, got |-> 0])
      /\ table' = Put(one, end("PipeWrite", 2))
      /\ holds' = [holds EXCEPT ![t] = @ \cup {[id |-> Slot(table), token |-> token + 1],
                                               [id |-> Slot(one), token |-> token + 2]}]
      /\ token' = token + 2
      /\ UNCHANGED <<inbox, stdio, life, reading, pc>>

\* handle::write() on a pipe; a BrokenPipe or an invalid handle changes nothing.
Write(t, h) ==
  /\ Able(t) /\ h \in holds[t] \cup {stdio[t].out}
  /\ Valid(h)
  /\ LET e == table[h.id]
     IN  /\ e.kind = "PipeWrite" /\ e.usable
         /\ Exists(e.pipe) /\ ~pipes[e.pipe].reader_closed
         /\ pipes[e.pipe].wrote < MaxWrites
         /\ pipes' = [pipes EXCEPT ![e.pipe].buf = Append(@, pipes[e.pipe].wrote + 1),
                                   ![e.pipe].wrote = @ + 1]
  /\ UNCHANGED <<table, token, born, holds, inbox, stdio, life, reading, pc>>

\* SYS_HANDLE_READ, or SYS_READ with a redirected stdin.
ReadStart(t, h) ==
  /\ Able(t) /\ h \in holds[t] \cup {stdio[t].in}
  /\ h # NoHandle
  /\ reading' = [reading EXCEPT ![t] = [handle |-> h, pipe |-> 0]]
  /\ pc' = [pc EXCEPT ![t] = "lookup"]
  /\ UNCHANGED <<table, pipes, token, born, holds, inbox, stdio, life>>

\* The system call returns.
ReadReturn(t) ==
  /\ reading' = [reading EXCEPT ![t] = NoRead]
  /\ pc' = [pc EXCEPT ![t] = "idle"]

\* handle::read(): the entry is looked up and HANDLE_TABLE unlocked.
ReadLookup(t) ==
  LET h == reading[t].handle
  IN  /\ life[t] = "live" /\ pc[t] = "lookup"
      /\ IF Valid(h) /\ table[h.id].usable /\ table[h.id].kind = "PipeRead"
         THEN /\ reading' = [reading EXCEPT ![t].pipe = table[h.id].pipe]
              /\ pc' = [pc EXCEPT ![t] = "pipe"]
         ELSE ReadReturn(t)
      /\ UNCHANGED <<table, pipes, token, born, holds, inbox, stdio, life>>

\* pipe::read() hands out the newest items.
Received_Newest(q, n) == SubSeq(q, 1, Len(q) - n)

\* What is left of the buffer when n items have been read.
Received(q, n) == SubSeq(q, n + 1, Len(q))

\* WouldBlock without a look at writer_count.
WouldBlock_Always(p) == Exists(p)

\* An empty pipe that may still be written to.
WouldBlock(p) == Exists(p) /\ pipes[p].writer_count > 0

\* pipe::read(): as much data as there is and the caller has room for, end of
\* file, an error, or WouldBlock and another round after yield_now().
ReadPipe(t) ==
  LET p == reading[t].pipe
  IN  /\ life[t] = "live" /\ pc[t] = "pipe"
      /\ IF Exists(p) /\ pipes[p].buf # << >>
         THEN /\ \E n \in 1..Len(pipes[p].buf) :
                   pipes' = [pipes EXCEPT ![p].buf = Received(@, n), ![p].got = @ + n]
              /\ ReadReturn(t)
         ELSE /\ IF WouldBlock(p)
                 THEN pc' = [pc EXCEPT ![t] = "lookup"] /\ UNCHANGED reading
                 ELSE ReadReturn(t)
              /\ UNCHANGED pipes
      /\ UNCHANGED <<table, token, born, holds, inbox, stdio, life>>

\* A pipe that goes as soon as its reader does.
Gone_WithReader(n, closed) == closed

\* close_reader() and close_writer(): a pipe goes with its last end.
Gone(n, closed) == n = 0 /\ closed

\* handle::close() of the handles hs, invalid ones and NoHandle skipped, in any
\* order: which pipes are left ...
PipesWithout(hs) ==
  LET slots == {h.id : h \in {x \in hs : Valid(x)}}
      w(p)  == Cardinality(slots \cap Ends("PipeWrite", p))
      c(p)  == pipes[p].reader_closed \/ slots \cap Ends("PipeRead", p) # {}
      n(p)  == IF pipes[p].writer_count >= w(p) THEN pipes[p].writer_count - w(p) ELSE 0
  IN  [p \in 1..Len(pipes) |->
         IF pipes[p] = Free \/ slots \cap (Ends("PipeWrite", p) \cup Ends("PipeRead", p)) = {}
         THEN pipes[p]
         ELSE IF Gone(n(p), c(p)) THEN Free
         ELSE [pipes[p] EXCEPT !.writer_count = n(p), !.reader_closed = c(p)]]

\* ... and which handles.
TableWithout(hs) ==
  [i \in 1..Len(table) |-> IF \E h \in hs : h.id = i /\ Valid(h) THEN Free ELSE table[i]]

CloseAll(hs) == table' = TableWithout(hs) /\ pipes' = PipesWithout(hs)

\* SYS_HANDLE_CLOSE.
Close(t, h) ==
  /\ Able(t) /\ h \in holds[t]
  /\ Valid(h)
  /\ CloseAll({h})
  /\ UNCHANGED <<token, born, holds, inbox, stdio, life, reading, pc>>

\* send_with_handle(): a copy is put in u's queue.
SendHandle(t, u, h) ==
  LET c == Copies(<<h>>, TRUE)
  IN  /\ Able(t) /\ life[u] = "live"
      /\ h \in holds[t] /\ Valid(h) /\ Room(1)
      /\ pipes' = AddWriters(<<h>>)
      /\ table' = c.tab
      /\ token' = token + 1
      /\ inbox' = [inbox EXCEPT ![u] = @ \cup {c.handles[1]}]
      /\ UNCHANGED <<born, holds, stdio, life, reading, pc>>

\* try_recv_with_handle().
ReceiveHandle(t, h) ==
  /\ Able(t) /\ h \in inbox[t]
  /\ inbox' = [inbox EXCEPT ![t] = @ \ {h}]
  /\ holds' = [holds EXCEPT ![t] = @ \cup {h}]
  /\ UNCHANGED <<table, pipes, token, born, stdio, life, reading, pc>>

\* restrict_rights(): a copy with fewer rights, which add_writer does not see.
RestrictRights(t, h, keep) ==
  LET c == Copies(<<h>>, keep)
  IN  /\ Able(t) /\ h \in holds[t] /\ Valid(h) /\ Room(1)
      /\ table[h.id].kind \in Restricted
      /\ table' = c.tab
      /\ token' = token + 1
      /\ holds' = [holds EXCEPT ![t] = @ \cup {c.handles[1]}]
      /\ UNCHANGED <<pipes, born, inbox, stdio, life, reading, pc>>

\* SYS_SPAWN_REDIRECTED: the child's stdin and stdout are copies of the parent's
\* handles. When the program cannot be loaded the call fails and the copies stay
\* in the table, in nobody's hands.
SpawnRedirected(t, child, in, out, loaded) ==
  LET hs == (IF in = NoHandle THEN << >> ELSE <<in>>)
              \o (IF out = NoHandle THEN << >> ELSE <<out>>)
      c  == Copies(hs, TRUE)
  IN  /\ Able(t) /\ life[child] = "unborn"
      /\ in \in holds[t] \cup {NoHandle} /\ out \in holds[t] \cup {NoHandle}
      /\ in # NoHandle =>
           Valid(in) /\ table[in.id].usable /\ table[in.id].kind = "PipeRead"
      /\ out # NoHandle =>
           Valid(out) /\ table[out.id].usable /\ table[out.id].kind = "PipeWrite"
      /\ Room(Len(hs))
      /\ pipes' = AddWriters(hs)
      /\ table' = c.tab
      /\ token' = token + Len(hs)
      /\ IF loaded
         THEN /\ stdio' = [stdio EXCEPT ![child] =
                             [in |-> IF in = NoHandle THEN NoHandle ELSE c.handles[1],
                              out |-> IF out = NoHandle THEN NoHandle
                                      ELSE c.handles[Len(hs)]]]
              /\ life' = [life EXCEPT ![child] = "live"]
         ELSE UNCHANGED <<stdio, life>>
      /\ UNCHANGED <<born, holds, inbox, reading, pc>>

\* A task's memory goes with it, and cleanup_task() closes what it was sent and
\* has not received, along with the handles hs.
End(t, hs) ==
  /\ CloseAll(inbox[t] \cup hs)
  /\ life' = [life EXCEPT ![t] = "dead"]
  /\ holds' = [holds EXCEPT ![t] = {}]
  /\ inbox' = [inbox EXCEPT ![t] = {}]
  /\ stdio' = [stdio EXCEPT ![t] = [in |-> NoHandle, out |-> NoHandle]]
  /\ ReadReturn(t)
  /\ UNCHANGED <<token, born>>

\* user_task_exit_handler(): stdin and stdout are closed; the handles the process
\* created or received stay open.
Exit(t) == Able(t) /\ End(t, {stdio[t].in, stdio[t].out})

\* kill_task() and the exception path do not close stdin and stdout.
Kill(t) == life[t] = "live" /\ End(t, {})

-----------------------------------------------------------------------------
Init ==
  /\ table = << >> /\ pipes = << >>
  /\ token = 0 /\ born = 0
  /\ holds = [t \in Tasks |-> {}] /\ inbox = [t \in Tasks |-> {}]
  /\ stdio = [t \in Tasks |-> [in |-> NoHandle, out |-> NoHandle]]
  /\ life = [t \in Tasks |-> IF t = Boot THEN "live" ELSE "unborn"]
  /\ reading = [t \in Tasks |-> NoRead]
  /\ pc = [t \in Tasks |-> "idle"]

ReadStep(t) == ReadLookup(t) \/ ReadPipe(t)

Next ==
  \E t \in Tasks :
    \/ CreatePipe(t) \/ Exit(t) \/ Kill(t) \/ ReadStep(t)
    \/ \E h \in holds[t] \cup {stdio[t].in, stdio[t].out} :
         Write(t, h) \/ ReadStart(t, h) \/ Close(t, h)
    \/ \E h \in inbox[t] : ReceiveHandle(t, h)
    \/ \E h \in holds[t] :
         \/ \E u \in Receivers : SendHandle(t, u, h)
         \/ \E keep \in BOOLEAN : RestrictRights(t, h, keep)
    \/ \E child \in Tasks, in, out \in holds[t] \cup {NoHandle}, loaded \in BOOLEAN :
         SpawnRedirected(t, child, in, out, loaded)

Spec == Init /\ [][Next]_vars

\* A reader that polls is scheduled again (Scheduler's ReadyRuns).
Fairness == \A t \in Tasks : WF_vars(ReadStep(t))

FairSpec == Spec /\ Fairness

-----------------------------------------------------------------------------
\* The types of the two tables and of what processes keep; freed slots are used
\* again before either Vec grows, so neither is longer than what was ever open
\* at a time.
TypeOK ==
  /\ table \in Seq(Entry \cup {Free}) /\ Len(table) <= MaxOpen
  /\ pipes \in Seq(Pipe \cup {Free}) /\ Len(pipes) <= MaxPipes
  /\ token \in 0..MaxTokens /\ born \in 0..MaxPipes
  /\ holds \in [Tasks -> SUBSET Handle] /\ inbox \in [Tasks -> SUBSET Handle]
  /\ stdio \in [Tasks -> [in : Handle \cup {NoHandle}, out : Handle \cup {NoHandle}]]
  /\ life \in [Tasks -> {"unborn", "live", "dead"}]
  /\ reading \in [Tasks -> [handle : Handle \cup {NoHandle}, pipe : 0..MaxPipes]]
  /\ pc \in [Tasks -> {"idle", "lookup", "pipe"}]

\* add_writer() and close_writer(), pipe.rs:43: writer_count is exactly the number
\* of open write ends, so that pipe::read() reports end of file when, and only
\* when, the last of them has been closed.
WriterCount ==
  \A p \in 1..Len(pipes) :
    pipes[p] # Free => pipes[p].writer_count = Cardinality(Ends("PipeWrite", p))

\* close_reader() and close_writer(): an open write end leads to the pipe it was
\* made for; no pipe is freed, and its slot given to another, under a writer.
WriteEndValid ==
  \A i \in 1..Len(table) :
    table[i] # Free /\ table[i].kind = "PipeWrite" =>
      Exists(table[i].pipe) /\ pipes[table[i].pipe].gen = table[i].gen

\* pipe::read() and pipe::write(): what is read from a pipe is what was written,
\* once and in order, also when several ends are used at a time.
DataInOrder ==
  \A p \in 1..Len(pipes) :
    pipes[p] # Free =>
      LET q == pipes[p]
      IN  /\ Len(q.buf) = q.wrote - q.got
          /\ \A i \in 1..Len(q.buf) : q.buf[i] = q.got + i

\* get_entry() and next_token(): a handle that has been closed never becomes valid
\* again, although insert_entry() reuses its slot.
ClosedStaysClosed ==
  [][\A t \in Tasks : \A h \in holds[t] : ~Valid(h) => ~Valid(h)']_vars

\* The loops of sys_handle_read() and sys_read(): a read does not poll for ever
\* on a pipe that stays without a write end.
ReadEnds ==
  \A t \in Tasks :
    []<>~(/\ life[t] = "live" /\ pc[t] \in {"lookup", "pipe"}
          /\ Ends("PipeWrite", reading[t].pipe) = {} /\ reading[t].pipe # 0)

\* pipe.rs:20 says that a write succeeds while the reader is alive: no pipe is
\* marked reader_closed while a read end of it is open.
ReaderAlive ==
  \A p \in 1..Len(pipes) :
    pipes[p] # Free /\ pipes[p].reader_closed =>
      \A i \in Ends("PipeRead", p) : table[i].gen # pipes[p].gen

=============================================================================
