-------------------------------- MODULE Tcp --------------------------------
(***************************************************************************)
(* TCP of the kernel (netstack/tcp.rs, the retransmission of netstack/     *)
(* mod.rs) on top of Datagram, against a remote end that follows RFC 9293  *)
(* over a wire that keeps the order and may lose any segment.              *)
(*                                                                         *)
(* Sequence numbers count from the initial one (random in the code); one   *)
(* unit of data is one number: the how-manieth of its stream it is.  A     *)
(* connection is identified on the wire by key: its own id for one opened  *)
(* here (the local port is fresh), the remote port for one accepted.       *)
(*                                                                         *)
(* SYS_NET_TCP_SEND runs with interrupts off and is one action.  Connect   *)
(* and close run with interrupts on: between the segment they send and the *)
(* record of it for retransmission the poller may run.                     *)
(*                                                                         *)
(* Every connection here has its other end on another machine: the branch  *)
(* of send_tcp_packet_internal() for an address of our own, which handles  *)
(* the packet on the spot, is left out.                                    *)
(***************************************************************************)
EXTENDS Datagram

CONSTANTS
  Clients,        \* remote ports that connect to us (no member of Ids)
  MaxRetransmit,  \* TCP_MAX_RETRANSMIT (5 in the code)
  BufLen,         \* size of the buffer given to SYS_NET_TCP_RECV
  MaxSends,       \* bound: units of data a task sends, by program
  PeerSends,      \* bound: units of data the remote end sends to it, by program
  MaxId,          \* bound: socket and connection ids (a u32 in the code)
  MaxResend,      \* bound: segments the remote end sends again
  PeerWindow      \* bound: segments it has under way at once (ours offers 65535 bytes)

Ids == 1..MaxId
Keys == Ids \union Clients

ASSUME TcpAssumption ==
  /\ MaxRetransmit \in Nat /\ BufLen \in Nat \ {0}
  /\ MaxId \in Nat \ {0} /\ MaxResend \in Nat /\ PeerWindow \in Nat \ {0}
  /\ Clients \cap Ids = {}
  /\ None \notin [k : {"tcp"}, key : Keys, flags : SUBSET {"SYN", "ACK", "FIN", "PSH", "RST"},
                  seq : Nat, ack : Nat, data : Nat]

VARIABLES
  conns,      \* tcp_connections: a set of records with distinct ids
  listening,  \* the port is in tcp_listen_ports
  pending,    \* tcp_pending_accept
  toPeer,     \* segments on their way to the remote end, in order
  peer,       \* the remote end of every key
  mine,       \* the connections each task works with
  taken,      \* what the tasks have received on each connection, in order
  sent,       \* how many units of data they have given to tcp_send() on each of them
  cut         \* the connections of which a receiver's buffer was too short for the data

tcpVars == <<conns, listening, pending, toPeer, peer, mine, taken, sent, cut>>
vars == <<dgVars, tcpVars>>

States == {"Closed", "SynSent", "SynReceived", "Established", "FinWait1", "FinWait2",
           "CloseWait", "LastAck", "TimeWait"}

Seg(key, flags, seq, ack, data) ==
  [k |-> "tcp", key |-> key, flags |-> flags, seq |-> seq, ack |-> ack, data |-> data]

\* UnackedPacket, with retransmit_count = 0.
Unacked(seg) == [seg |-> seg, n |-> 0]

NewConn(id, key, st, ack) ==
  [id |-> id, key |-> key, st |-> st, seq |-> 0, ack |-> ack, buf |-> <<>>, un |-> None]

ById(id) == {c \in conns : c.id = id}
ByTuple(key) == {c \in conns : c.key = key}

Update(c, d) == conns' = (conns \ {c}) \union {d}

\* A segment of connection c that carries no data.
Bare(c, flags) == Seg(c.key, flags, c.seq, c.ack, 0)

Transmit(seg) == toPeer' = Append(toPeer, seg)

-----------------------------------------------------------------------------
(* System calls.                                                           *)

Listen(t) ==
  /\ program[t] \in {"server", "pusher"} /\ booted = "up" /\ call[t] = Idle
  /\ ~listening
  /\ listening' = TRUE
  /\ UNCHANGED <<dgVars, conns, pending, toPeer, peer, mine, taken, sent, cut>>

Connect(t) ==
  /\ program[t] = "client"
  /\ mine[t] = {}
  /\ Begin(t, [Idle EXCEPT !.op = "connect", !.step = "resolve", !.dst = "far"])
  /\ UNCHANGED <<program, booted, arp, sockets, nextId, nextPort, response, echo, last,
                 asked, toUs, out, grams, tcpVars>>

\* tcp_connect() puts the connection in the table and sends SYN,
ConnectSyn(t) ==
  /\ call[t].op = "connect" /\ call[t].step = "go" /\ nextId \in Ids
  /\ LET c == NewConn(nextId, nextId, "SynSent", 0)
     IN  /\ conns' = conns \union {c}
         /\ Transmit(Bare(c, {"SYN"}))
  /\ nextId' = nextId + 1
  /\ call' = [call EXCEPT ![t].step = "record", ![t].x = nextId]
  /\ UNCHANGED <<program, booted, arp, sockets, nextPort, response, echo, last, asked,
                 toUs, out, grams, listening, pending, peer, mine, taken, sent, cut>>

\* or the card refuses the frame: the call fails and leaves its connection behind.
ConnectFails(t) ==
  /\ call[t].op = "connect" /\ call[t].step = "go" /\ nextId \in Ids
  /\ conns' = conns \union {NewConn(nextId, nextId, "SynSent", 0)}
  /\ nextId' = nextId + 1
  /\ Return(t, "error")
  /\ UNCHANGED <<program, booted, arp, sockets, nextPort, response, echo, asked, toUs, out,
                 grams, listening, pending, toPeer, peer, mine, taken, sent, cut>>

\* then, as tcp_close() does with its FIN, notes the segment for retransmission.
\* The poller may have handled the answer already.
Record(t) ==
  /\ call[t].step = "record"
  /\ LET flags == IF call[t].op = "connect" THEN {"SYN"} ELSE {"FIN", "ACK"}
         noted(c) == [c EXCEPT !.un = Unacked(Seg(c.key, flags, call[t].seq, call[t].ack, 0))]
     IN  IF ById(call[t].x) = {} THEN UNCHANGED conns
         ELSE \E c \in ById(call[t].x) : Update(c, noted(c))
  /\ Goto(t, "wait")
  /\ UNCHANGED <<program, booted, arp, sockets, nextId, nextPort, response, echo, last,
                 asked, toUs, out, grams, listening, pending, toPeer, peer, mine, taken, sent, cut>>

\* The wait of tcp_connect(): refused and timed-out connections are removed.
Settled(t) == \E c \in ById(call[t].x) : c.st \in {"Established", "Closed"}

ConnectWait(t) ==
  /\ call[t].op = "connect"
  /\ \/ /\ Waiting(t, Settled(t))
        /\ \E c \in ById(call[t].x) :
             IF c.st = "Established"
             THEN /\ Return(t, "ok")
                  /\ mine' = [mine EXCEPT ![t] = {c.id}]
                  /\ UNCHANGED conns
             ELSE /\ Return(t, "error")
                  /\ conns' = conns \ {c}
                  /\ UNCHANGED mine
     \/ /\ GivesUp(t, Settled(t))
        /\ Return(t, "error")
        /\ conns' = conns \ ById(call[t].x)
        /\ UNCHANGED mine
  /\ UNCHANGED <<program, booted, arp, sockets, nextId, nextPort, response, echo, asked,
                 toUs, out, grams, listening, pending, toPeer, peer, taken, sent, cut>>

\* tcp_accept() takes the first pending connection.
Accept(t) ==
  /\ program[t] \in {"server", "pusher"} /\ listening
  /\ Begin(t, [Idle EXCEPT !.op = "accept", !.step = "wait"])
  /\ UNCHANGED <<program, booted, arp, sockets, nextId, nextPort, response, echo, last,
                 asked, toUs, out, grams, tcpVars>>

AcceptWait(t) ==
  /\ call[t].op = "accept"
  /\ \/ /\ Waiting(t, pending # <<>>)
        /\ Return(t, "ok")
        /\ mine' = [mine EXCEPT ![t] = @ \union {Head(pending)}]
        /\ pending' = Tail(pending)
     \/ /\ GivesUp(t, pending # <<>>)
        /\ Return(t, "timeout")
        /\ UNCHANGED <<mine, pending>>
  /\ UNCHANGED <<program, booted, arp, sockets, nextId, nextPort, response, echo, asked,
                 toUs, out, grams, conns, listening, toPeer, peer, taken, sent, cut>>

\* tcp_send() that does not count what it sends.
Advance_Not(seq, n) == seq

\* seq_num after n units have been sent.
Advance(seq, n) == seq + n

\* tcp_send(): the segment replaces whatever was kept for retransmission.  One the
\* card refuses has its sequence number all the same.
Send(t) ==
  /\ call[t] = Idle
  /\ \E c \in conns :
       LET s == Seg(c.key, {"ACK", "PSH"}, c.seq, c.ack, sent[c.key] + 1)
           d == [c EXCEPT !.seq = Advance(@, 1)]
       IN  /\ c.id \in mine[t] /\ c.st = "Established"
           /\ sent[c.key] < MaxSends[program[t]]
           /\ \/ Transmit(s) /\ Update(c, [d EXCEPT !.un = Unacked(s)])
              \/ Update(c, d) /\ UNCHANGED toPeer
           /\ sent' = [sent EXCEPT ![c.key] = @ + 1]
  /\ UNCHANGED <<dgVars, listening, pending, peer, mine, taken, cut>>

Recv(t) ==
  /\ \E id \in mine[t] : Begin(t, [Idle EXCEPT !.op = "tcprecv", !.step = "wait", !.x = id])
  /\ UNCHANGED <<program, booted, arp, sockets, nextId, nextPort, response, echo, last,
                 asked, toUs, out, grams, tcpVars>>

\* The check of tcp_recv(): data, the remote end has closed, or no such connection.
Readable(t) ==
  \A c \in ById(call[t].x) : c.buf # <<>> \/ c.st \in {"CloseWait", "Closed"}

\* copy_len of SYS_NET_TCP_RECV.
Fitting(buf) == IF Len(buf) <= BufLen THEN buf ELSE SubSeq(buf, 1, BufLen)

\* tcp_recv() takes the whole buffer; SYS_NET_TCP_RECV copies what fits and drops
\* the rest.  A time-out and the end of the stream both return 0.
RecvWait(t) ==
  /\ call[t].op = "tcprecv"
  /\ \/ /\ Waiting(t, Readable(t))
        /\ IF \E c \in ById(call[t].x) : c.buf # <<>>
           THEN \E c \in ById(call[t].x) :
                  /\ Return(t, "ok")
                  /\ Update(c, [c EXCEPT !.buf = <<>>])
                  /\ taken' = [taken EXCEPT ![c.key] = @ \o Fitting(c.buf)]
                  /\ cut' = IF Len(c.buf) > BufLen THEN cut \union {c.key} ELSE cut
           ELSE /\ Return(t, IF ById(call[t].x) = {} THEN "error" ELSE "zero")
                /\ UNCHANGED <<conns, taken, cut>>
     \/ GivesUp(t, Readable(t)) /\ Return(t, "zero") /\ UNCHANGED <<conns, taken, cut>>
  /\ UNCHANGED <<program, booted, arp, sockets, nextId, nextPort, response, echo, asked,
                 toUs, out, grams, listening, pending, toPeer, peer, mine, sent>>

\* tcp_close() sends FIN; the connection is no longer used by its task.  The
\* sequence and acknowledgement numbers of the FIN are kept for Record.
Close(t) ==
  /\ \E c \in conns :
       /\ c.id \in mine[t] /\ c.st \in {"Established", "CloseWait"}
       /\ Begin(t, [Idle EXCEPT !.op = "close", !.step = "record", !.x = c.id,
                                !.seq = c.seq, !.ack = c.ack])
       /\ Update(c, [c EXCEPT !.st = IF @ = "Established" THEN "FinWait1" ELSE "LastAck",
                              !.seq = @ + 1])
       /\ Transmit(Bare(c, {"FIN", "ACK"}))
       /\ mine' = [mine EXCEPT ![t] = @ \ {c.id}]
  /\ UNCHANGED <<program, booted, arp, sockets, nextId, nextPort, response, echo, last,
                 asked, toUs, out, grams, listening, pending, peer, taken, sent, cut>>

\* The card refuses the FIN: the call fails, and the connection stays half closed.
CloseFails(t) ==
  /\ call[t] = Idle /\ last[t].n < MaxCalls[program[t]]
  /\ \E c \in conns :
       /\ c.id \in mine[t] /\ c.st \in {"Established", "CloseWait"}
       /\ last' = [last EXCEPT ![t] =
            [op |-> "close", x |-> c.id, res |-> "error", val |-> 0, n |-> @.n + 1]]
       /\ Update(c, [c EXCEPT !.st = IF @ = "Established" THEN "FinWait1" ELSE "LastAck",
                              !.seq = @ + 1])
       /\ mine' = [mine EXCEPT ![t] = @ \ {c.id}]
  /\ UNCHANGED <<program, booted, arp, sockets, nextId, nextPort, response, echo, call,
                 asked, toUs, out, grams, listening, pending, toPeer, peer, taken, sent, cut>>

\* tcp_close() waits for TimeWait or Closed and removes a Closed connection.
Finished(t) == \A c \in ById(call[t].x) : c.st \in {"TimeWait", "Closed"}

CloseWait(t) ==
  /\ call[t].op = "close"
  /\ Waiting(t, Finished(t)) \/ GivesUp(t, Finished(t))
  /\ Return(t, "ok")
  /\ conns' = {c \in conns : c.id = call[t].x => c.st # "Closed"}
  /\ UNCHANGED <<program, booted, arp, sockets, nextId, nextPort, response, echo, asked,
                 toUs, out, grams, listening, pending, toPeer, peer, mine, taken, sent, cut>>

-----------------------------------------------------------------------------
(* net_poller.                                                             *)

dgQuiet == <<program, booted, sockets, nextPort, response, echo, call, last, asked, grams>>

\* What handle_tcp() makes of segment s: the connection and the answer.
SynSentStep(c, s) ==
  IF {"SYN", "ACK"} \subseteq s.flags
  THEN IF s.ack = c.seq + 1
       THEN LET d == [c EXCEPT !.seq = s.ack, !.ack = s.seq + 1, !.st = "Established",
                               !.un = None]
            IN  [conn |-> d, reply |-> <<Bare(d, {"ACK"})>>]
       ELSE [conn |-> c, reply |-> <<>>]
  ELSE [conn |-> IF "RST" \in s.flags THEN [c EXCEPT !.st = "Closed"] ELSE c,
        reply |-> <<>>]

SynReceivedStep(c, s) ==
  [conn |-> IF "ACK" \in s.flags /\ s.ack = c.seq + 1
            THEN [c EXCEPT !.seq = s.ack, !.st = "Established", !.un = None]
            ELSE c,
   reply |-> <<>>]

\* Established, but new data replaces data that has not been read.
EstablishedStep_Replace(c, s) ==
  LET d == IF "ACK" \in s.flags THEN [c EXCEPT !.un = None] ELSE c
      e == IF "FIN" \in s.flags
           THEN [d EXCEPT !.ack = s.seq + 1, !.st = "CloseWait"]
           ELSE [d EXCEPT !.buf = <<s.data>>, !.ack = s.seq + 1]
  IN  IF "FIN" \in s.flags \/ s.data # 0
      THEN [conn |-> e, reply |-> <<Bare(e, {"ACK"})>>]
      ELSE [conn |-> d, reply |-> <<>>]

\* Established: any ACK empties the retransmission buffer, whatever it
\* acknowledges; data is taken whatever its number.
EstablishedStep(c, s) ==
  LET d == IF "ACK" \in s.flags THEN [c EXCEPT !.un = None] ELSE c
      e == IF "FIN" \in s.flags
           THEN [d EXCEPT !.ack = s.seq + 1, !.st = "CloseWait"]
           ELSE [d EXCEPT !.buf = Append(@, s.data), !.ack = s.seq + 1]
  IN  IF "FIN" \in s.flags \/ s.data # 0
      THEN [conn |-> e, reply |-> <<Bare(e, {"ACK"})>>]
      ELSE [conn |-> d, reply |-> <<>>]

\* FinWait1 and FinWait2: TimeWait once the remote end has sent its FIN.
FinWaitStep(c, s) ==
  LET acked == c.st = "FinWait1" /\ "ACK" \in s.flags
      d == IF acked THEN [c EXCEPT !.un = None, !.st = "FinWait2"] ELSE c
      e == [d EXCEPT !.ack = s.seq + 1, !.st = "TimeWait"]
  IN  IF "FIN" \in s.flags /\ (acked \/ c.st = "FinWait2")
      THEN [conn |-> e, reply |-> <<Bare(e, {"ACK"})>>]
      ELSE [conn |-> d, reply |-> <<>>]

LastAckStep(c, s) ==
  [conn |-> IF "ACK" \in s.flags THEN [c EXCEPT !.st = "Closed", !.un = None] ELSE c,
   reply |-> <<>>]

Step(c, s) ==
  CASE c.st = "SynSent"     -> SynSentStep(c, s)
    [] c.st = "SynReceived" -> SynReceivedStep(c, s)
    [] c.st = "Established" -> EstablishedStep(c, s)
    [] c.st \in {"FinWait1", "FinWait2"} -> FinWaitStep(c, s)
    [] c.st = "LastAck"     -> LastAckStep(c, s)
    [] OTHER -> [conn |-> c, reply |-> <<>>]

\* handle_tcp() for a segment of a known connection.
HandleKnown ==
  /\ toUs # <<>> /\ Head(toUs).k = "tcp"
  /\ \E c \in ByTuple(Head(toUs).key) :
       LET r == Step(c, Head(toUs))
       IN  /\ Take("tcp", r.reply)
           /\ Update(c, r.conn)
           /\ pending' = IF c.st = "SynReceived" /\ r.conn.st = "Established"
                         THEN Append(pending, c.id) ELSE pending
  /\ arp' = ArpUpdate(arp, "far")
  /\ UNCHANGED <<dgQuiet, nextId, listening, toPeer, peer, mine, taken, sent, cut>>

\* handle_tcp() for any other: a SYN to the open port, which is where the Clients'
\* segments go, makes a connection.
HandleUnknown ==
  /\ toUs # <<>> /\ Head(toUs).k = "tcp" /\ ByTuple(Head(toUs).key) = {}
  /\ LET s == Head(toUs)
         c == NewConn(nextId, s.key, "SynReceived", s.seq + 1)
     IN  IF listening /\ s.key \in Clients /\ "SYN" \in s.flags
         THEN /\ nextId \in Ids
              /\ Take("tcp", <<Bare(c, {"SYN", "ACK"})>>)
              /\ conns' = conns \union {[c EXCEPT !.un = Unacked(Bare(c, {"SYN", "ACK"}))]}
              /\ nextId' = nextId + 1
         ELSE Take("tcp", <<>>) /\ UNCHANGED <<conns, nextId>>
  /\ arp' = ArpUpdate(arp, "far")
  /\ UNCHANGED <<dgQuiet, listening, pending, toPeer, peer, mine, taken, sent, cut>>

\* The poller sends what it owes, outside NET_STATE.
PollerSends ==
  /\ out # <<>>
  /\ toPeer' = IF Head(out).k = "tcp" THEN Append(toPeer, Head(out)) ELSE toPeer
  /\ out' = Tail(out)
  /\ UNCHANGED <<program, booted, arp, sockets, nextId, nextPort, response, echo, call,
                 last, asked, toUs, grams, conns, listening, pending, peer, mine, taken, sent, cut>>

\* TIME_WAIT is over.
TimeWaitEnds ==
  /\ out = <<>>
  /\ \E c \in conns : c.st = "TimeWait" /\ conns' = conns \ {c}
  /\ UNCHANGED <<dgVars, listening, pending, toPeer, peer, mine, taken, sent, cut>>

\* A retransmission that is not counted.
Again_NotCounted(un) == un

\* The packet after one more retransmission (the back-off is time, not counted).
Again(un) == [un EXCEPT !.n = @ + 1]

\* A retransmission deadline passes: the packet is sent again, or the connection
\* is closed.
Retransmit ==
  /\ out = <<>>
  /\ \E c \in conns :
       /\ c.un # None
       /\ IF c.un.n >= MaxRetransmit
          THEN /\ Update(c, [c EXCEPT !.st = "Closed", !.un = None])
               /\ UNCHANGED out
          ELSE /\ Update(c, [c EXCEPT !.un = Again(@)])
               /\ out' = <<c.un.seg>>
  /\ UNCHANGED <<program, booted, arp, sockets, nextId, nextPort, response, echo, call,
                 last, asked, toUs, grams, listening, pending, toPeer, peer, mine, taken, sent, cut>>

-----------------------------------------------------------------------------
(* The remote end (external): RFC 9293.  It has up to PeerWindow segments  *)
(* under way and keeps the oldest of them, un, which it sends again; ahead *)
(* notes that it has sent one before the previous was acknowledged.        *)

NoPeer == [st |-> "none", snd |-> 0, rcv |-> 0, un |-> None, got |-> <<>>, resent |-> 0,
           closed |-> FALSE, ahead |-> FALSE]

Says(key, p, seg) ==
  /\ Room
  /\ toUs' = Append(toUs, seg)
  /\ peer' = [peer EXCEPT ![key] = p]

PeerSays(key, flags, data) ==
  LET p == peer[key]
      s == Seg(key, flags, p.snd, p.rcv, data)
  IN  Says(key, [p EXCEPT !.un = IF @ = None THEN s ELSE @, !.snd = @ + 1,
                          !.st = IF "SYN" \in flags THEN "synsent" ELSE @,
                          !.closed = "FIN" \in flags,
                          !.ahead = @ \/ p.un # None], s)

\* What it keeps once everything before number n is acknowledged.
Oldest(key, p, n) ==
  IF n >= p.snd THEN None
  ELSE IF p.closed /\ n + 1 = p.snd THEN Seg(key, {"FIN", "ACK"}, n, p.rcv, 0)
  ELSE Seg(key, {"ACK"}, n, p.rcv, n)

\* It opens a connection, sends data or closes,
PeerActs(key) ==
  /\ LET p == peer[key]
         free == /\ p.st = "open" /\ ~p.closed
                 /\ p.un # None => p.snd < p.un.seq + PeerWindow
     IN  \/ /\ key \in Clients /\ p.st = "none"
            /\ \E t \in Tasks : program[t] \in {"server", "pusher"}
            /\ PeerSays(key, {"SYN"}, 0)
         \/ /\ free /\ \E t \in Tasks : p.snd <= PeerSends[program[t]]
            /\ PeerSays(key, {"ACK"}, p.snd)
         \/ free /\ PeerSays(key, {"FIN", "ACK"}, 0)
         \/ /\ p.un # None /\ p.resent < MaxResend
            /\ Says(key, [p EXCEPT !.resent = @ + 1], [p.un EXCEPT !.ack = p.rcv])
  /\ UNCHANGED <<program, booted, arp, sockets, nextId, nextPort, response, echo, call,
                 last, asked, out, grams, conns, listening, pending, toPeer, mine, taken,
                 sent, cut>>

\* and takes segments: only the next one counts.
PeerTakes ==
  /\ toPeer # <<>> /\ Room
  /\ LET s == Head(toPeer)
         key == s.key
         p == peer[key]
         q == IF "ACK" \in s.flags /\ p.un # None /\ s.ack > p.un.seq
              THEN [p EXCEPT !.un = Oldest(key, p, s.ack)] ELSE p
         next == s.seq = p.rcv
         r == [q EXCEPT !.st = IF q.un = None /\ "ACK" \in s.flags THEN "open" ELSE @,
                        !.got = IF next /\ s.data # 0 THEN Append(@, s.data) ELSE @,
                        !.rcv = IF next /\ (s.data # 0 \/ "FIN" \in s.flags) THEN @ + 1 ELSE @]
         ack(x) == Seg(key, {"ACK"}, x.snd, x.rcv, 0)
     IN  \/ /\ p.st = "none" /\ s.flags = {"SYN"}
            /\ \/ LET sa == Seg(key, {"SYN", "ACK"}, 0, 1, 0)
                  IN  Says(key, [p EXCEPT !.st = "synrcvd", !.snd = 1, !.rcv = 1, !.un = sa], sa)
               \/ Says(key, p, Seg(key, {"RST", "ACK"}, 0, 1, 0))
         \/ /\ p.st = "synsent" /\ {"SYN", "ACK"} \subseteq s.flags /\ s.ack = 1
            /\ LET o == [p EXCEPT !.st = "open", !.rcv = 1, !.un = None]
               IN  Says(key, o, ack(o))
         \/ /\ p.st \in {"synrcvd", "open"}
            /\ IF s.data # 0 \/ {"FIN", "SYN"} \cap s.flags # {}
               THEN Says(key, IF "SYN" \in s.flags THEN p ELSE r,
                         ack(IF "SYN" \in s.flags THEN p ELSE r))
               ELSE peer' = [peer EXCEPT ![key] = r] /\ UNCHANGED toUs
  /\ toPeer' = Tail(toPeer)
  /\ UNCHANGED <<program, booted, arp, sockets, nextId, nextPort, response, echo, call,
                 last, asked, out, grams, conns, listening, pending, mine, taken, sent, cut>>

\* The wire loses a segment.
Lose ==
  /\ \/ toPeer # <<>> /\ toPeer' = Tail(toPeer) /\ UNCHANGED toUs
     \/ /\ toUs # <<>> /\ Head(toUs).k = "tcp"
        /\ toUs' = Tail(toUs) /\ UNCHANGED toPeer
  /\ UNCHANGED <<program, booted, arp, sockets, nextId, nextPort, response, echo, call,
                 last, asked, out, grams, conns, listening, pending, peer, mine, taken,
                 sent, cut>>

-----------------------------------------------------------------------------
(* Specification.                                                          *)

Init ==
  /\ program \in Workloads
  /\ booted = "init"
  /\ arp = <<>> /\ sockets = <<>> /\ nextId = 1 /\ nextPort = 1
  /\ response = None /\ echo = FALSE
  /\ call = [t \in Tasks |-> Idle]
  /\ last = [t \in Tasks |-> [op |-> "idle", x |-> 0, res |-> "ok", val |-> 0, n |-> 0]]
  /\ asked = {} /\ toUs = <<>> /\ out = <<>> /\ grams = 0
  /\ conns = {} /\ listening = FALSE /\ pending = <<>> /\ toPeer = <<>>
  /\ peer = [k \in Keys |-> NoPeer]
  /\ mine = [t \in Tasks |-> {}]
  /\ taken = [k \in Keys |-> <<>>]
  /\ sent = [k \in Keys |-> 0]
  /\ cut = {}

\* The part of a call that needs nobody's decision.
Proceed(t) ==
  \/ (ResolveMac(t) \/ UdpSent(t) \/ UdpReceived(t) \/ DnsClear(t) \/ DnsSend(t)
        \/ DnsWait(t) \/ Ping6Wait(t)) /\ UNCHANGED tcpVars
  \/ ConnectSyn(t) \/ ConnectFails(t) \/ Record(t) \/ ConnectWait(t) \/ AcceptWait(t) \/ RecvWait(t)
  \/ CloseWait(t)

\* The calls a program makes through std: one system call for each method.
InvokeUdp(t) ==
  /\ \/ \E port \in {0, 68, 80} : UdpBind(t, port)
     \/ \E id \in 1..(nextId - 1) : UdpSendTo(t, id, "far") \/ UdpRecvFrom(t, id) \/ UdpClose(t, id)
  /\ UNCHANGED tcpVars

InvokeLookup(t) == (\E p \in Range(Ephemeral) : DnsLookup(t, p)) /\ UNCHANGED tcpVars

InvokePing6(t) == Ping6(t) /\ UNCHANGED tcpVars

InvokeTcp(t) == Connect(t) \/ Send(t) \/ Recv(t) \/ Close(t) \/ CloseFails(t)

InvokeListener(t) == Listen(t) \/ Accept(t)

Invoke(t) ==
  InvokeUdp(t) \/ InvokeLookup(t) \/ InvokePing6(t) \/ InvokeTcp(t) \/ InvokeListener(t)

Poller ==
  \/ (HandleArp \/ HandleUdp \/ HandleIcmp \/ HandleIcmpv6) /\ UNCHANGED tcpVars
  \/ HandleKnown \/ HandleUnknown \/ PollerSends \/ TimeWaitEnds

Host ==
  \/ (HostAnswers \/ HostSends) /\ UNCHANGED tcpVars
  \/ (\E k \in Keys : PeerActs(k)) \/ PeerTakes \/ Lose

Next ==
  \/ (DhcpDiscover \/ Boot) /\ UNCHANGED tcpVars
  \/ \E t \in Tasks : Proceed(t) \/ Invoke(t)
  \/ Poller \/ Retransmit \/ Host

\* A call under way goes on (Scheduler: every Ready task runs, every sleeper of
\* wait_net_condition() is woken at the next tick); the poller loops for ever and
\* looks at the deadlines in every round.  Nothing is assumed of programs, of the
\* host or of the wire.
Fairness ==
  /\ \A t \in Tasks : WF_vars(Proceed(t))
  /\ WF_vars(PollerSends)
  /\ SF_vars(Retransmit)

Spec == Init /\ [][Next]_vars /\ Fairness

-----------------------------------------------------------------------------
(* Properties.                                                             *)

\* The network state is well formed: connections have distinct ids and tuples
\* (types.rs: find_conn_index_by_id, find_conn_index_by_tuple take the first), and
\* the ARP cache holds each address once within its limit.
TypeOK ==
  /\ conns \subseteq
       [id : Ids, key : Keys, st : States, seq : Nat, ack : Nat, buf : Seq(Nat),
        un : {None} \union [seg : [k : {"tcp"}, key : Keys, flags : SUBSET
                                   {"SYN", "ACK", "FIN", "PSH"}, seq : Nat, ack : Nat,
                                   data : Nat],
                            n : 0..MaxRetransmit]]
  /\ \A c, d \in conns : c # d => c.id # d.id /\ c.key # d.key
  /\ Len(arp) <= MaxArp /\ Cardinality(Range(arp)) = Len(arp)
  /\ \A t \in Tasks : mine[t] \subseteq Ids

\* What reaches the remote program is what SYS_NET_TCP_SEND was given, in order and
\* without gaps, whatever is lost and sent again (tcp_send, net_poller_task).
PeerStream ==
  \A k \in Keys :
    /\ Len(peer[k].got) <= sent[k]
    /\ \A i \in 1..Len(peer[k].got) : peer[k].got[i] = i

\* What SYS_NET_TCP_RECV hands over, and what still waits in recv_buffer, never
\* skips a unit of the stream of a remote end that waits for each acknowledgement
\* before it sends on, whatever is lost, unless a receiver's buffer was too short.
\* (A unit whose acknowledgement was lost may come twice: handle_tcp() does not look
\* at the sequence number.)
NoGap ==
  \A c \in conns : c.key \notin cut /\ ~peer[c.key].ahead =>
    LET stream == <<0>> \o taken[c.key] \o c.buf
    IN  \A i \in 1..(Len(stream) - 1) :
          stream[i + 1] = stream[i] + 1 \/ (i > 1 /\ stream[i + 1] = stream[i])

\* ack_num is the number of the next unit to receive: all before it have come in
\* (types.rs: TcpConnection).  handle_tcp() sets it to the end of whatever segment
\* comes, so one that overtakes a lost one acknowledges both.
AckIsNext ==
  \A c \in conns : c.st = "Established" /\ c.key \notin cut =>
    1..(c.ack - 1) \subseteq Range(taken[c.key] \o c.buf)

\* A name is resolved to the answer of its own query, although all lookups share
\* one response buffer that each of them empties (dns_lookup, handle_udp).
OwnAnswer ==
  \A t \in Tasks : last[t].op = "dns" /\ last[t].res = "ok" => last[t].val = last[t].x

\* Every blocking network call returns (wait_net_condition and its callers).
CallEnds == \A t \in Tasks : call[t].op # "idle" ~> call[t].op = "idle"

\* No segment is retransmitted for ever: it is acknowledged, or the connection is
\* closed or removed (net_poller_task).
UnackedEnds ==
  \A id \in Ids : (\E c \in ById(id) : c.un # None) ~> (\A c \in ById(id) : c.un = None)

=============================================================================
