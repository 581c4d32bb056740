------------------------------- MODULE NineP -------------------------------
(***************************************************************************)
(* The 9P client, src/kernel/src/virtio_9p.rs: the calls of the VFS on a   *)
(* directory shared by the host, each a sequence of transactions over a    *)
(* virtqueue with one send and one receive buffer.  The server is modelled *)
(* from the messages the client exchanges with it.                         *)
(*                                                                         *)
(* `st' names the transaction a call is at; `waiting' tells the two halves *)
(* of transact() apart.                                                    *)
(***************************************************************************)
EXTENDS Integers, Sequences, FiniteSets, SequencesExt

CONSTANTS
  Shared,       \* the names of the shared tree
  Asked,        \* the paths callers ask for
  WalkMax,      \* names in one Twalk (16)
  Pieces,       \* what one Tread or Treaddir after the other answers: a sequence each
  Dot,          \* what a directory has besides its entries: "." and ".."
  P9Budget      \* bounds: [calls |-> , timeouts |-> , errors |-> ]

ASSUME NinePAssumption ==
  /\ WalkMax \in Nat \ {0}
  /\ Asked \subseteq Seq(STRING)
  /\ P9Budget \in [calls : Nat, timeouts : Nat, errors : Nat]

VARIABLES
  fids,         \* the server's fids
  sent,         \* messages the server has not answered
  rxBuf,        \* the receive buffer: the answer that came last
  ahead,        \* used idx minus last_used_idx
  nextFid,
  visit,        \* the call in progress, or the last one; `data' has what it read so far
  long,         \* calls so far whose path took more than one Twalk
  fuel          \* the rest of the budget

p9Vars == <<fids, sent, rxBuf, ahead, nextFid, visit, long, fuel>>

Root == 0
Visiting == visit.st \notin {"idle", "ok", "err"}

Message(type, fid, new, names) == [type |-> type, fid |-> fid, new |-> new, names |-> names]
Reply(type, n, data) == [type |-> type, n |-> n, data |-> data]
Rlerror == Reply("error", 0, <<>>)

-----------------------------------------------------------------------------
(* The calls.                                                              *)

\* V9pFs::open() and read_file(), or list_dir(): the fid of the walk's end is
\* taken first.
Visit(what, path) ==
  /\ ~Visiting /\ fuel.calls > 0
  /\ fuel' = [fuel EXCEPT !.calls = @ - 1]
  /\ visit' = [st |-> "walk", what |-> what, path |-> path, done |-> 0, cur |-> Root,
               new |-> nextFid, target |-> nextFid, at |-> 0, data |-> <<>>, waiting |-> FALSE,
               clean |-> ahead = 0 /\ sent = <<>>]
  /\ nextFid' = nextFid + 1
  /\ long' = IF Len(path) > WalkMax THEN long + 1 ELSE long
  /\ UNCHANGED <<fids, sent, rxBuf, ahead>>

\* The names of the next Twalk; none for the root.
Chunk(v) == SubSeq(v.path, v.done + 1, Min({v.done + WalkMax, Len(v.path)}))
LastChunk(v) == v.done + Len(Chunk(v)) >= Len(v.path)

\* transact() up to the notification; walk() takes a fid for a chunk that is not
\* the last one.
Transact ==
  /\ Visiting /\ ~visit.waiting
  /\ LET target == IF LastChunk(visit) THEN visit.new ELSE nextFid
         message ==
           CASE visit.st = "walk" -> Message("walk", visit.cur, target, Chunk(visit))
             [] visit.st = "midclunk" -> Message("clunk", visit.cur, 0, <<>>)
             [] visit.st \in {"clunkok", "clunkerr"} -> Message("clunk", visit.new, 0, <<>>)
             [] OTHER -> Message(visit.st, visit.new, visit.at, <<>>)
     IN  /\ sent' = Append(sent, message)
         /\ visit' = [visit EXCEPT !.waiting = TRUE, !.target = IF visit.st = "walk" THEN target ELSE @]
         /\ nextFid' = IF visit.st = "walk" /\ ~LastChunk(visit) THEN nextFid + 1 ELSE nextFid
  /\ UNCHANGED <<fids, rxBuf, ahead, long, fuel>>

\* The next transaction when one has failed, with the fid left to the server.
AfterFailure_Kept(v) ==
  CASE v.st = "walk" -> [v EXCEPT !.st = "err"]
    [] v.st = "midclunk" -> [v EXCEPT !.st = "walk", !.cur = v.target]
    [] v.st \in {"lopen", "clunkerr"} -> [v EXCEPT !.st = "err"]
    [] v.st = "clunkok" -> [v EXCEPT !.st = "ok"]
    [] OTHER -> [v EXCEPT !.st = "clunkerr"]

\* A transaction has failed: the walk leaves nothing to give back, everything else
\* gives the fid back; what a clunk answers does not matter.
AfterFailure(v) ==
  CASE v.st = "walk" -> [v EXCEPT !.st = "err"]
    [] v.st = "midclunk" -> [v EXCEPT !.st = "walk", !.cur = v.target]
    [] v.st = "clunkerr" -> [v EXCEPT !.st = "err"]
    [] v.st = "clunkok" -> [v EXCEPT !.st = "ok"]
    [] OTHER -> [v EXCEPT !.st = "clunkerr"]

AfterWalk(v, r) ==
  LET more == [v EXCEPT !.done = @ + Len(Chunk(v))]
  IN  IF r.n # Len(Chunk(v)) THEN [v EXCEPT !.st = "err"]
      ELSE IF LastChunk(v) THEN [more EXCEPT !.st = IF v.what = "file" THEN "getattr" ELSE "lopen"]
      ELSE IF v.cur # Root THEN [more EXCEPT !.st = "midclunk"]
      ELSE [more EXCEPT !.cur = v.target]

\* The entries of a directory that are kept.
Entered(piece) == SelectSeq(piece, LAMBDA e : e # Dot)

\* An empty answer is the end; a directory's has an entry besides "." and "..".
ASSUME PiecesAssumption ==
  /\ Pieces \in Seq(Seq(STRING))
  /\ \A i \in DOMAIN Pieces : Pieces[i] # <<>> /\ Entered(Pieces[i]) # <<>>

\* A fact about SelectSeq, which the provers do not know.
ASSUME NothingEntered == Entered(<<>>) = <<>>

\* read_file_data() asks for the size, opens, and reads until an empty piece;
\* list_directory() opens and lists until a piece with no entry.
AfterGetattr(v) == [v EXCEPT !.st = "lopen"]
AfterLopen(v) == [v EXCEPT !.st = IF v.what = "file" THEN "read" ELSE "readdir"]
AfterRead(v, data) ==
  IF data = <<>> THEN [v EXCEPT !.st = "clunkok"]
  ELSE [v EXCEPT !.at = @ + 1, !.data = Append(@, data)]
AfterReaddir(v, data) == AfterRead(v, Entered(data))

\* What follows an answer: one of another type is an error.
AfterAnswer(v, r) ==
  IF v.st \in {"midclunk", "clunkok", "clunkerr"} \/ r.type # v.st THEN AfterFailure(v)
  ELSE CASE v.st = "walk" -> AfterWalk(v, r)
         [] v.st = "getattr" -> AfterGetattr(v)
         [] v.st = "lopen" -> AfterLopen(v)
         [] v.st = "read" -> AfterRead(v, r.data)
         [] v.st = "readdir" -> AfterReaddir(v, r.data)

\* transact() sees the next used index and looks into the one receive buffer.
Answer ==
  /\ Visiting /\ visit.waiting /\ ahead = 1
  /\ ahead' = 0
  /\ visit' = [AfterAnswer(visit, rxBuf) EXCEPT !.waiting = FALSE]
  /\ UNCHANGED <<fids, sent, rxBuf, nextFid, long, fuel>>

NoAnswer ==
  /\ Visiting /\ visit.waiting /\ ahead # 1 /\ fuel.timeouts > 0
  /\ fuel' = [fuel EXCEPT !.timeouts = @ - 1]
  /\ visit' = [AfterFailure(visit) EXCEPT !.waiting = FALSE]
  /\ UNCHANGED <<fids, sent, rxBuf, ahead, nextFid, long>>

-----------------------------------------------------------------------------
(* The server.                                                             *)

\* How many of the names lead somewhere; where the walk starts is left out.
Found(names) == Max({k \in 0 .. Len(names) : \A i \in 1 .. k : names[i] \in Shared})

Served(m) ==
  CASE m.type = "walk" -> IF m.names # <<>> /\ Found(m.names) = 0 THEN Rlerror
                          ELSE Reply("walk", Found(m.names), <<>>)
    [] m.type \in {"read", "readdir"} ->
         Reply(m.type, 0, IF m.new < Len(Pieces) THEN Pieces[m.new + 1] ELSE <<>>)
    [] OTHER -> Reply(m.type, 0, <<>>)

\* The server answers the next message; a whole walk makes a fid, a clunk ends one.
Serve ==
  /\ sent # <<>>
  /\ LET m == Head(sent)
     IN  /\ fids' = CASE m.type = "walk" /\ Found(m.names) = Len(m.names) -> fids \union {m.new}
                      [] m.type = "clunk" -> fids \ {m.fid}
                      [] OTHER -> fids
         /\ rxBuf' = Served(m)
  /\ sent' = Tail(sent)
  /\ ahead' = ahead + 1
  /\ UNCHANGED <<nextFid, visit, long, fuel>>

\* Or it refuses it.
Refuse ==
  /\ sent # <<>> /\ Head(sent).type # "clunk" /\ fuel.errors > 0
  /\ fuel' = [fuel EXCEPT !.errors = @ - 1]
  /\ rxBuf' = Rlerror
  /\ sent' = Tail(sent)
  /\ ahead' = ahead + 1
  /\ UNCHANGED <<fids, nextFid, visit, long>>

-----------------------------------------------------------------------------
\* init(): the version is agreed on and the root attached.
P9Init ==
  /\ fids = {Root}
  /\ sent = <<>>
  /\ rxBuf = Reply("attach", 0, <<>>)
  /\ ahead = 0
  /\ nextFid = 1
  /\ visit = [st |-> "idle", what |-> "file", path |-> <<>>, done |-> 0, cur |-> Root, new |-> 0,
              target |-> 0, at |-> 0, data |-> <<>>, waiting |-> FALSE, clean |-> TRUE]
  /\ long = 0
  /\ fuel = P9Budget

P9Step ==
  \/ \E what \in {"file", "dir"}, path \in Asked : Visit(what, path)
  \/ Transact \/ Answer \/ NoAnswer \/ Serve \/ Refuse

\* A call that returns success has all of the file or directory, piece by piece and in
\* order, if it began with no answer outstanding (one is left by every transaction that
\* timed out).
WholeWhenOk ==
  (visit.st # "ok" /\ visit'.st = "ok" /\ visit.clean) =>
    visit'.data = IF visit.what = "file" THEN Pieces ELSE [i \in DOMAIN Pieces |-> Entered(Pieces[i])]

\* As long as no transaction was given up, the server has no fid left after a call,
\* whatever it refused, but for one of each path that took more than one Twalk.
FidsReturned ==
  (~Visiting /\ fuel.timeouts = P9Budget.timeouts) => Cardinality(fids \ {Root}) <= long
=============================================================================
