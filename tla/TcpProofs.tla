----------------------------- MODULE TcpProofs ------------------------------
(***************************************************************************)
(* Proofs about Tcp: what two programs exchange over a connection arrives  *)
(* in order and without gaps, for any number of tasks, connections, units  *)
(* of data, losses and retransmissions.                                    *)
(*                                                                         *)
(* The predicates below take the parts of the state they are about as      *)
(* parameters, so that the lemmas on them hold before and after a step:    *)
(*   C conns, q toUs, P peer, S sent, T taken, X cut, n nextId, tp toPeer, *)
(*   o out, cl call, ak asked;                                             *)
(*   h the last unit of data that came in on each connection.              *)
(***************************************************************************)
EXTENDS Tcp, SequenceTheorems, TLAPS

-----------------------------------------------------------------------------
(* Lists of anything.                                                      *)

IsList(q) == \E A : q \in Seq(A)

\* Positions of a list.
LEMMA ListIs ==
  ASSUME NEW q, IsList(q)
  PROVE  /\ Len(q) \in Nat /\ DOMAIN q = 1..Len(q)
         /\ q # << >> => Len(q) >= 1 /\ 1 \in 1..Len(q) /\ Head(q) = q[1]
<1>1. PICK A : q \in Seq(A)
  BY DEF IsList
<1> QED  BY <1>1

\* A list without its first element.
LEMMA ListTail ==
  ASSUME NEW q, IsList(q), q # << >>
  PROVE  /\ IsList(Tail(q)) /\ Len(Tail(q)) = Len(q) - 1
         /\ \A i \in 1..Len(Tail(q)) : i + 1 \in 1..Len(q) /\ Tail(q)[i] = q[i + 1]
<1>1. PICK A : q \in Seq(A)
  BY DEF IsList
<1>2. Tail(q) \in Seq(A) /\ Len(Tail(q)) = Len(q) - 1 /\ Len(q) \in Nat /\ Len(q) >= 1
  BY <1>1
<1>3. \A i \in 1..Len(Tail(q)) : i + 1 \in 1..Len(q) /\ Tail(q)[i] = q[i + 1]
  BY <1>1, <1>2
<1> QED  BY <1>2, <1>3 DEF IsList

\* A list with one more element.
LEMMA ListAppend ==
  ASSUME NEW q, IsList(q), NEW f
  PROVE  /\ IsList(Append(q, f)) /\ Len(Append(q, f)) = Len(q) + 1 /\ Len(q) \in Nat
         /\ Append(q, f)[Len(q) + 1] = f
         /\ \A i \in 1..Len(q) : Append(q, f)[i] = q[i]
<1>1. PICK A : q \in Seq(A)
  BY DEF IsList
<1> DEFINE B == A \cup {f}
<1>2. q \in Seq(B) /\ f \in B
  BY <1>1
<1> HIDE DEF B
<1>3. Append(q, f) \in Seq(B) /\ Len(Append(q, f)) = Len(q) + 1 /\ Len(q) \in Nat
  BY <1>2
<1>4. Append(q, f)[Len(q) + 1] = f /\ \A i \in 1..Len(q) : Append(q, f)[i] = q[i]
  BY <1>2
<1> QED  BY <1>3, <1>4 DEF IsList

\* Lists of no and of one element.
LEMMA ListShort ==
  /\ IsList(<< >>) /\ Len(<< >>) = 0
  /\ \A f : IsList(<<f>>) /\ Len(<<f>>) = 1 /\ <<f>>[1] = f
<1>1. << >> \in Seq({})
  OBVIOUS
<1>2. \A f : <<f>> \in Seq({f})
  OBVIOUS
<1> QED  BY <1>1, <1>2 DEF IsList

-----------------------------------------------------------------------------
(* The state.                                                              *)

Segment == [k : {"tcp"}, key : Keys, flags : SUBSET {"SYN", "ACK", "FIN", "PSH", "RST"},
            seq : Nat, ack : Nat, data : Nat]
Kept == [seg : Segment, n : Nat]
Units == Seq(Nat)
Conn == [id : Nat, key : Keys, st : States, seq : Nat, ack : Nat, buf : Units, un : {None} \cup Kept]
Remote == [st : {"none", "synsent", "synrcvd", "open"}, snd : Nat, rcv : Nat, un : {None} \cup Segment,
           got : Units, resent : Nat, closed : BOOLEAN, ahead : BOOLEAN]
IsCall(c) ==
  c = [f \in {"op", "step", "x", "port", "dst", "tries", "att", "seq", "ack"} |-> c[f]]

\* The TCP segments among those the kernel has sent or is about to send.
OutSet(tp, o) == {tp[i] : i \in 1..Len(tp)} \cup {o[i] : i \in {j \in 1..Len(o) : o[j].k = "tcp"}}

Types(h, C, P, S, T, n, tp, o, cl, ak) ==
  /\ h \in [Keys -> Nat] /\ C \subseteq Conn /\ P \in [Keys -> Remote]
  /\ S \in [Keys -> Nat] /\ T \in [Keys -> Units] /\ n \in Nat
  /\ IsList(tp) /\ IsList(o) /\ OutSet(tp, o) \subseteq Segment
  /\ cl = [t \in Tasks |-> cl[t]] /\ \A t \in Tasks : IsCall(cl[t])
  /\ \A f \in ak : f.k \in {"arp", "query", "discover", "echo"}

\* Distinct ids and tuples.
Unique(C) == \A c, d \in C : c.id = d.id \/ c.key = d.key => c = d

\* Our FIN is out: nothing more is sent on the connection.
Ended == {"FinWait1", "FinWait2", "LastAck", "TimeWait", "Closed"}

\* The remote end has not heard from us.
Early == {"none", "synsent"}

\* No SYN of the remote end is on its way, and none will be.
Past(q, P, k) ==
  /\ P[k].st \notin Early
  /\ \A i \in 1..Len(q) : q[i].k = "tcp" /\ q[i].key = k => "SYN" \notin q[i].flags

Sealed(C, q, P, k) ==
  /\ \A c \in C : c.key = k => c.st \in Ended
  /\ k \in Clients => Past(q, P, k)

\* An acknowledgement covers what has come in, or there is nothing more to come, or
\* the remote end does not wait for it.
Acks(h, P, k, a) == a <= h[k] + 1 \/ P[k].closed \/ P[k].ahead

\* A segment of ours.
Out(s, h, C, q, P, S, n) ==
  /\ s.key \in Ids => s.key < n
  /\ s.data # 0 => s.seq = s.data /\ s.data <= S[s.key] /\ "FIN" \notin s.flags /\ "SYN" \notin s.flags
  /\ "FIN" \in s.flags => s.seq = S[s.key] + 1 /\ Sealed(C, q, P, s.key)
  /\ s.flags = {"SYN"} => s.key \in Ids
  /\ Acks(h, P, s.key, s.ack)

\* A stream that skips nothing, and its last unit.
Steps(s) ==
  /\ s # << >> => s[1] = 1
  /\ \A i \in 1..(Len(s) - 1) : s[i + 1] = s[i] \/ s[i + 1] = s[i] + 1
Top(s) == IF s = << >> THEN 0 ELSE s[Len(s)]

ConnOk(c, h, C, q, P, S, T, X, n) ==
  /\ c.id < n /\ (c.key \in Ids => c.key = c.id)
  /\ c.st = "SynSent" => c.key \in Ids /\ c.seq = 0 /\ S[c.key] = 0
  /\ c.st = "SynReceived" => c.key \in Clients /\ c.seq = 0 /\ S[c.key] = 0
  /\ c.st \in {"Established", "CloseWait"} => c.seq = S[c.key] + 1
  /\ Acks(h, P, c.key, c.ack)
  /\ c.un # None => Out(c.un.seg, h, C, q, P, S, n)
  /\ c.key \notin X /\ ~P[c.key].ahead => Steps(T[c.key] \o c.buf) /\ Top(T[c.key] \o c.buf) = h[c.key]

\* A segment of the remote end.
InSeg(s, h, P, n) ==
  /\ s \in Segment /\ (s.key \in Ids => s.key < n)
  /\ "SYN" \in s.flags => s.seq = 0 /\ s.data = 0 /\ (s.key \in Clients => s.flags = {"SYN"})
  /\ s.key \in Clients /\ "ACK" \in s.flags => P[s.key].st \notin Early
  /\ "FIN" \in s.flags => P[s.key].closed
  /\ s.data # 0 => /\ s.data = s.seq /\ s.data < P[s.key].snd
                   /\ s.data = h[s.key] \/ s.data = h[s.key] + 1 \/ P[s.key].ahead

\* Two of them, one behind the other.
InOrder(s, r, P) ==
  s.k = "tcp" /\ r.k = "tcp" /\ s.key = r.key =>
    /\ s.key \in Clients /\ "ACK" \in s.flags => "SYN" \notin r.flags
    /\ s.data # 0 /\ r.data # 0 => s.data <= r.data \/ P[s.key].ahead

Wire(q, h, P, n) ==
  /\ IsList(q)
  /\ \A i \in 1..Len(q) : q[i].k = "tcp" => InSeg(q[i], h, P, n)
  /\ \A i, j \in 1..Len(q) : i < j => InOrder(q[i], q[j], P)

\* What the remote end keeps for retransmission.
UnOk(u, k, p, h) ==
  /\ u.key = k /\ u.seq + 1 <= p.snd /\ (u.seq + 1 = p.snd \/ p.ahead)
  /\ "SYN" \in u.flags =>
       u.seq = 0 /\ u.data = 0 /\ (k \in Clients => p.st = "synsent" /\ u.flags = {"SYN"})
  /\ k \in Clients /\ "ACK" \in u.flags => p.st \notin Early
  /\ "FIN" \in u.flags => p.closed
  /\ u.data # 0 => u.data = u.seq /\ (u.data = h[k] \/ u.data = h[k] + 1 \/ p.ahead)

\* What it has received.
GotOk(k, p, C, q, P, S) ==
  /\ p.snd >= 1 /\ Len(p.got) <= S[k] /\ \A i \in 1..Len(p.got) : p.got[i] = i
  /\ \/ p.rcv = Len(p.got) + 1
     \/ p.rcv = Len(p.got) + 2 /\ Len(p.got) = S[k] /\ Sealed(C, q, P, k)

PeerOk(k, p, h, C, q, P, S, n) ==
  /\ p.st = "none" => p.snd = 0 /\ p.un = None
  /\ p.st = "synsent" => p.snd = 1
  /\ p.st = "synrcvd" => p.un # None
  /\ p.st \in Early => p.rcv = 0 /\ p.got = << >>
  /\ p.st \notin Early => GotOk(k, p, C, q, P, S)
  /\ p.closed \/ p.ahead => p.st = "open"
  /\ (k \in Ids => p.st # "synsent") /\ (k \in Clients => p.st # "synrcvd")
  /\ k \in Ids /\ k >= n => p.st = "none"
  /\ h[k] = 0 \/ h[k] < p.snd
  /\ p.st = "open" /\ p.un = None /\ ~p.closed /\ ~p.ahead => h[k] + 1 = p.snd
  /\ p.un # None => UnOk(p.un, k, p, h)

\* Nothing has happened on a connection yet.
Unborn(k, h, S, T) == S[k] = 0 /\ T[k] = << >> /\ h[k] = 0
Virgin(k, h, C, S, T) ==
  /\ Unborn(k, h, S, T)
  /\ \A c \in C : c.key = k => c.st \in {"SynReceived", "Closed"} /\ c.buf = << >>

\* A call between a segment and its record.
CallOk(c, h, C, q, P, S, n) ==
  /\ c.op = "connect" => c.seq = 0 /\ c.ack = 0
  /\ c.step = "record" =>
       /\ c.op \in {"connect", "close"} /\ c.x \in Nat /\ c.x < n /\ c.seq \in Nat /\ c.ack \in Nat
       /\ \A d \in C : d.id = c.x =>
            /\ c.op = "connect" => d.key \in Ids
            /\ c.op = "close" => c.seq = S[d.key] + 1 /\ Sealed(C, q, P, d.key) /\ Acks(h, P, d.key, c.ack)

Inv(h, C, q, P, S, T, X, n, tp, o, cl, ak) ==
  /\ Types(h, C, P, S, T, n, tp, o, cl, ak) /\ Unique(C)
  /\ \A c \in C : ConnOk(c, h, C, q, P, S, T, X, n)
  /\ \A s \in OutSet(tp, o) : Out(s, h, C, q, P, S, n)
  /\ Wire(q, h, P, n)
  /\ \A k \in Keys : PeerOk(k, P[k], h, C, q, P, S, n)
  /\ \A k \in Clients : Past(q, P, k) \/ Virgin(k, h, C, S, T)
  /\ \A k \in Ids : k >= n => Unborn(k, h, S, T)
  /\ \A t \in Tasks : CallOk(cl[t], h, C, q, P, S, n)

StreamInv == \E h : Inv(h, conns, toUs, peer, sent, taken, cut, nextId, toPeer, out, call, asked)

-----------------------------------------------------------------------------
(* What stays true.                                                        *)

\* A state and a later one, as far as old segments and calls are concerned.
Later(h, C, q, P, S, n, h2, C2, q2, P2, S2, n2) ==
  /\ h \in [Keys -> Nat] /\ h2 \in [Keys -> Nat] /\ S \in [Keys -> Nat] /\ S2 \in [Keys -> Nat]
  /\ n \in Nat /\ n2 \in Nat /\ n <= n2
  /\ \A k \in Keys :
       /\ h[k] <= h2[k] /\ S[k] <= S2[k]
       /\ (P[k].closed => P2[k].closed) /\ (P[k].ahead => P2[k].ahead)
       /\ (k \in Ids => k < n) /\ Sealed(C, q, P, k) => Sealed(C2, q2, P2, k) /\ S2[k] = S[k]

\* Old segments.
LEMMA OutStays ==
  ASSUME NEW h, NEW C, NEW q, NEW P, NEW S, NEW n, NEW h2, NEW C2, NEW q2, NEW P2, NEW S2, NEW n2,
         Later(h, C, q, P, S, n, h2, C2, q2, P2, S2, n2),
         NEW s \in Segment, Out(s, h, C, q, P, S, n)
  PROVE  Out(s, h2, C2, q2, P2, S2, n2)
<1> DEFINE k == s.key
<1>1. s.key \in Keys /\ s.data \in Nat /\ s.seq \in Nat /\ s.ack \in Nat /\ (s.key \in Ids => s.key \in Nat)
  BY DEF Segment, Ids
<1>2. /\ h[s.key] \in Nat /\ h2[s.key] \in Nat /\ h[s.key] <= h2[s.key]
      /\ S[s.key] \in Nat /\ S2[s.key] \in Nat /\ S[s.key] <= S2[s.key]
      /\ (P[s.key].closed => P2[s.key].closed) /\ (P[s.key].ahead => P2[s.key].ahead) /\ n \in Nat /\ n2 \in Nat /\ n <= n2
  BY <1>1 DEF Later
<1>3. s.key \in Ids => s.key < n /\ s.key < n2
  BY <1>1, <1>2 DEF Out
<1>4. "FIN" \in s.flags => s.seq = S2[s.key] + 1 /\ Sealed(C2, q2, P2, s.key)
  BY <1>1, <1>3 DEF Out, Later
<1>5. Acks(h2, P2, s.key, s.ack)
  BY <1>1, <1>2 DEF Out, Acks
<1>6. s.data # 0 => s.seq = s.data /\ s.data <= S2[s.key] /\ "FIN" \notin s.flags /\ "SYN" \notin s.flags
  BY <1>1, <1>2 DEF Out
<1> QED  BY <1>3, <1>4, <1>5, <1>6 DEF Out

\* Connections that are not touched.
LEMMA ConnStays ==
  ASSUME NEW h, NEW C, NEW q, NEW P, NEW S, NEW n, NEW h2, NEW C2, NEW q2, NEW P2, NEW S2, NEW n2,
         NEW T, NEW T2, NEW X, NEW X2,
         Later(h, C, q, P, S, n, h2, C2, q2, P2, S2, n2),
         NEW c \in Conn, ConnOk(c, h, C, q, P, S, T, X, n),
         h2[c.key] = h[c.key], S2[c.key] = S[c.key], T2[c.key] = T[c.key], X \subseteq X2
  PROVE  ConnOk(c, h2, C2, q2, P2, S2, T2, X2, n2)
<1>1. /\ c.key \in Keys /\ c.id \in Nat /\ c.ack \in Nat /\ (c.un # None => c.un.seg \in Segment)
  BY DEF Conn, Kept
<1>2. c.un # None => Out(c.un.seg, h2, C2, q2, P2, S2, n2)
  BY <1>1, OutStays DEF ConnOk
<1>3. Acks(h2, P2, c.key, c.ack)
  BY <1>1 DEF Later, ConnOk, Acks
<1>4. c.id < n2 /\ (P[c.key].ahead => P2[c.key].ahead)
  BY <1>1 DEF Later, ConnOk
<1> QED  BY <1>2, <1>3, <1>4 DEF ConnOk

\* Remote ends that are not touched.
LEMMA PeerStays ==
  ASSUME NEW h, NEW C, NEW q, NEW P, NEW S, NEW n, NEW h2, NEW C2, NEW q2, NEW P2, NEW S2, NEW n2,
         Later(h, C, q, P, S, n, h2, C2, q2, P2, S2, n2),
         NEW k \in Keys, P2[k] = P[k], P[k] \in Remote, PeerOk(k, P[k], h, C, q, P, S, n), h2[k] = h[k]
  PROVE  PeerOk(k, P2[k], h2, C2, q2, P2, S2, n2)
<1> DEFINE p == P[k]
<1>1. /\ p.st \in {"none", "synsent", "synrcvd", "open"} /\ p.snd \in Nat /\ p.rcv \in Nat
      /\ p.got \in Units /\ Len(p.got) \in Nat
  BY DEF Remote, Units
<1>2. /\ S[k] \in Nat /\ S2[k] \in Nat /\ S[k] <= S2[k] /\ n \in Nat /\ n2 \in Nat /\ n <= n2
      /\ (k \in Ids => k < n) /\ Sealed(C, q, P, k) => Sealed(C2, q2, P2, k) /\ S2[k] = S[k]
  BY DEF Later
<1>3. k \in Ids => k \in Nat
  BY DEF Ids
<1>4. k \in Ids /\ k >= n2 => p.st = "none"
  BY <1>2, <1>3 DEF PeerOk
<1>5. ASSUME p.st \notin Early PROVE GotOk(k, p, C2, q2, P2, S2)
  <2>1. k \in Ids => k < n
    BY <1>2, <1>3, <1>5 DEF PeerOk, Early
  <2>2. GotOk(k, p, C, q, P, S)
    BY <1>5 DEF PeerOk
  <2> QED  BY <1>1, <1>2, <2>1, <2>2 DEF GotOk
<1> HIDE DEF p
<1>6. PeerOk(k, p, h, C, q, P, S, n)
  BY DEF p
<1>7. PeerOk(k, p, h2, C2, q2, P2, S2, n2)
  BY <1>4, <1>5, <1>6 DEF PeerOk, UnOk
<1> QED  BY <1>7 DEF p

\* Calls that are not touched.  A connection that is new has an id of its own.
LEMMA CallStays ==
  ASSUME NEW h, NEW C, NEW q, NEW P, NEW S, NEW n, NEW h2, NEW C2, NEW q2, NEW P2, NEW S2, NEW n2,
         Later(h, C, q, P, S, n, h2, C2, q2, P2, S2, n2),
         NEW c, CallOk(c, h, C, q, P, S, n),
         \A d \in C : d \in Conn /\ (d.key \in Ids => d.key < n),
         \A d \in C2 : d.id < n => \E e \in C : e.id = d.id /\ e.key = d.key
  PROVE  CallOk(c, h2, C2, q2, P2, S2, n2)
<1> SUFFICES ASSUME c.step = "record"
             PROVE  /\ c.op \in {"connect", "close"} /\ c.x \in Nat /\ c.x < n2 /\ c.seq \in Nat /\ c.ack \in Nat
                    /\ \A d \in C2 : d.id = c.x =>
                         /\ c.op = "connect" => d.key \in Ids
                         /\ c.op = "close" => c.seq = S2[d.key] + 1 /\ Sealed(C2, q2, P2, d.key)
                                              /\ Acks(h2, P2, d.key, c.ack)
  BY DEF CallOk
<1>1. c.op \in {"connect", "close"} /\ c.x \in Nat /\ c.x < n /\ c.seq \in Nat /\ c.ack \in Nat
  BY DEF CallOk
<1>2. c.x < n2
  BY <1>1 DEF Later
<1>3. ASSUME NEW d \in C2, d.id = c.x
      PROVE  /\ c.op = "connect" => d.key \in Ids
             /\ c.op = "close" => c.seq = S2[d.key] + 1 /\ Sealed(C2, q2, P2, d.key)
                                  /\ Acks(h2, P2, d.key, c.ack)
  <2>1. PICK e \in C : e.id = d.id /\ e.key = d.key
    BY <1>1, <1>3
  <2>2. /\ c.op = "connect" => e.key \in Ids
        /\ c.op = "close" => c.seq = S[e.key] + 1 /\ Sealed(C, q, P, e.key) /\ Acks(h, P, e.key, c.ack)
    BY <1>3, <2>1 DEF CallOk
  <2>3. e.key \in Keys /\ (e.key \in Ids => e.key < n)
    BY DEF Conn
  <2>4. c.op = "close" => S2[e.key] = S[e.key] /\ Sealed(C2, q2, P2, e.key)
    BY <2>2, <2>3 DEF Later
  <2>5. c.op = "close" => Acks(h2, P2, e.key, c.ack)
    BY <1>1, <2>2, <2>3 DEF Later, Acks
  <2> QED  BY <2>1, <2>2, <2>4, <2>5
<1> QED  BY <1>1, <1>2, <1>3

\* The wire when nothing was added to it, or a frame that is no TCP segment.
Flows(q, q2) ==
  \/ q2 = q
  \/ q # << >> /\ q2 = Tail(q)
  \/ \E f : f.k # "tcp" /\ q2 = Append(q, f)

\* Every segment on it was there before, in the same order.
LEMMA FlowIs ==
  ASSUME NEW q, IsList(q), NEW q2, Flows(q, q2)
  PROVE  /\ IsList(q2) /\ Len(q2) \in Nat /\ Len(q) \in Nat
         /\ \E d \in {0, 1} : \A i \in 1..Len(q2) :
              q2[i].k = "tcp" => i + d \in 1..Len(q) /\ q2[i] = q[i + d]
<1>1. Len(q) \in Nat
  BY ListIs
<1>2. CASE q2 = q
  BY <1>1, <1>2
<1>3. CASE q # << >> /\ q2 = Tail(q)
  BY <1>1, <1>3, ListTail, ListIs
<1>4. CASE \E f : f.k # "tcp" /\ q2 = Append(q, f)
  <2>1. PICK f : f.k # "tcp" /\ q2 = Append(q, f)
    BY <1>4
  <2>2. /\ IsList(q2) /\ Len(q2) = Len(q) + 1 /\ q2[Len(q) + 1] = f
        /\ \A i \in 1..Len(q) : q2[i] = q[i]
    BY <2>1, ListAppend
  <2>3. ASSUME NEW i \in 1..Len(q2), q2[i].k = "tcp"
        PROVE  i + 0 \in 1..Len(q) /\ q2[i] = q[i + 0]
    BY <1>1, <2>1, <2>2, <2>3
  <2> QED  BY <1>1, <2>2, <2>3
<1> QED  BY <1>2, <1>3, <1>4 DEF Flows

\* Remote ends that go on.
Goes(P, P2) ==
  \A k \in Keys : /\ P[k].st \notin Early => P2[k].st \notin Early
                  /\ P[k].closed => P2[k].closed
                  /\ P[k].ahead => P2[k].ahead
                  /\ P[k].snd \in Nat /\ P2[k].snd \in Nat /\ P[k].snd <= P2[k].snd

\* What came before stays as it was.
LEMMA WireStays ==
  ASSUME NEW q, NEW q2, Flows(q, q2), NEW h, NEW P, NEW P2, Goes(P, P2),
         NEW n \in Nat, NEW n2 \in Nat, n <= n2, Wire(q, h, P, n)
  PROVE  /\ Wire(q2, h, P2, n2)
         /\ \A k \in Keys : Past(q, P, k) => Past(q2, P2, k)
<1>0. IsList(q)
  BY DEF Wire
<1>1. /\ IsList(q2) /\ Len(q2) \in Nat /\ Len(q) \in Nat
      /\ \E d \in {0, 1} : \A i \in 1..Len(q2) :
           q2[i].k = "tcp" => i + d \in 1..Len(q) /\ q2[i] = q[i + d]
  BY <1>0, FlowIs
<1>2. PICK d \in {0, 1} : \A i \in 1..Len(q2) :
        q2[i].k = "tcp" => i + d \in 1..Len(q) /\ q2[i] = q[i + d]
  BY <1>1
<1>3. ASSUME NEW s, InSeg(s, h, P, n) PROVE InSeg(s, h, P2, n2)
  <2>1. s \in Segment /\ s.key \in Keys /\ s.data \in Nat /\ (s.key \in Ids => s.key \in Nat)
    BY <1>3 DEF InSeg, Segment, Ids
  <2>2. /\ P[s.key].st \notin Early => P2[s.key].st \notin Early
        /\ P[s.key].closed => P2[s.key].closed
        /\ P[s.key].ahead => P2[s.key].ahead
        /\ P[s.key].snd \in Nat /\ P2[s.key].snd \in Nat /\ P[s.key].snd <= P2[s.key].snd
    BY <2>1 DEF Goes
  <2> QED  BY <1>3, <2>1, <2>2 DEF InSeg
<1>4. \A i \in 1..Len(q2) : q2[i].k = "tcp" => InSeg(q2[i], h, P2, n2)
  BY <1>2, <1>3 DEF Wire
<1>5. ASSUME NEW i \in 1..Len(q2), NEW j \in 1..Len(q2), i < j PROVE InOrder(q2[i], q2[j], P2)
  <2> SUFFICES ASSUME q2[i].k = "tcp", q2[j].k = "tcp" PROVE InOrder(q2[i], q2[j], P2)
    BY DEF InOrder
  <2>1. i + d \in 1..Len(q) /\ q2[i] = q[i + d] /\ j + d \in 1..Len(q) /\ q2[j] = q[j + d]
    BY <1>2
  <2>2. i + d < j + d
    BY <1>1, <1>5
  <2>3. InOrder(q[i + d], q[j + d], P) /\ q[i + d].key \in Keys
    BY <2>1, <2>2 DEF Wire, InSeg, Segment
  <2>4. P[q2[i].key].ahead => P2[q2[i].key].ahead
    BY <2>1, <2>3 DEF Goes
  <2> QED  BY <2>1, <2>3, <2>4 DEF InOrder
<1>6. ASSUME NEW k \in Keys, Past(q, P, k) PROVE Past(q2, P2, k)
  BY <1>2, <1>6 DEF Past, Goes
<1> QED  BY <1>1, <1>4, <1>5, <1>6 DEF Wire

\* One more segment.
LEMMA WireSeg ==
  ASSUME NEW q, NEW s, NEW h, NEW P, NEW P2, Goes(P, P2), NEW n \in Nat, Wire(q, h, P, n),
         s.k = "tcp", InSeg(s, h, P2, n), \A i \in 1..Len(q) : InOrder(q[i], s, P2)
  PROVE  /\ Wire(Append(q, s), h, P2, n)
         /\ \A k \in Keys : Past(q, P, k) /\ (s.key # k \/ "SYN" \notin s.flags) => Past(Append(q, s), P2, k)
<1> DEFINE r == Append(q, s)
<1>0. Flows(q, q) /\ n <= n
  BY DEF Flows
<1>1. Wire(q, h, P2, n) /\ \A k \in Keys : Past(q, P, k) => Past(q, P2, k)
  BY <1>0, WireStays
<1>2. IsList(r) /\ Len(r) = Len(q) + 1 /\ Len(q) \in Nat /\ r[Len(q) + 1] = s /\ \A i \in 1..Len(q) : r[i] = q[i]
  BY <1>1, ListAppend DEF Wire
<1> HIDE DEF r
<1>3. \A i \in 1..Len(r) : i \in 1..Len(q) \/ i = Len(q) + 1
  BY <1>2
<1>4. \A i \in 1..Len(r) : r[i].k = "tcp" => InSeg(r[i], h, P2, n)
  BY <1>1, <1>2, <1>3 DEF Wire
<1>5. \A i, j \in 1..Len(r) : i < j => InOrder(r[i], r[j], P2)
  BY <1>1, <1>2, <1>3 DEF Wire
<1>6. \A k \in Keys : Past(q, P2, k) /\ (s.key # k \/ "SYN" \notin s.flags) => Past(r, P2, k)
  BY <1>2, <1>3 DEF Past
<1>7. Wire(r, h, P2, n)
  BY <1>2, <1>4, <1>5 DEF Wire
<1> QED  BY <1>1, <1>6, <1>7 DEF r

\* A call that has no segment to record.
Calm(c) == IsCall(c) /\ c.step # "record" /\ (c.op = "connect" => c.seq = 0 /\ c.ack = 0)

\* Steps that send nothing new and leave the connections alone or remove some.
LEMMA QuietKeeps ==
  ASSUME NEW h, NEW C, NEW q, NEW P, NEW S, NEW T, NEW X, NEW n, NEW tp, NEW o, NEW cl, NEW ak,
         Inv(h, C, q, P, S, T, X, n, tp, o, cl, ak),
         NEW C2 \in SUBSET C, NEW q2, Flows(q, q2), NEW n2 \in Nat, n <= n2,
         NEW tp2, NEW o2, IsList(tp2), IsList(o2), OutSet(tp2, o2) \subseteq OutSet(tp, o),
         NEW cl2, cl2 = [t \in Tasks |-> cl2[t]], \A t \in Tasks : cl2[t] = cl[t] \/ Calm(cl2[t]),
         NEW ak2, \A f \in ak2 : f.k \in {"arp", "query", "discover", "echo"}
  PROVE  Inv(h, C2, q2, P, S, T, X, n2, tp2, o2, cl2, ak2)
<1>0. /\ h \in [Keys -> Nat] /\ C \subseteq Conn /\ P \in [Keys -> Remote]
      /\ S \in [Keys -> Nat] /\ T \in [Keys -> Units] /\ n \in Nat
      /\ OutSet(tp, o) \subseteq Segment /\ \A t \in Tasks : IsCall(cl[t])
  BY DEF Inv, Types
<1>1. Goes(P, P)
  <2>1. \A k \in Keys : P[k].snd \in Nat
    BY <1>0 DEF Remote
  <2> QED  BY <2>1 DEF Goes
<1>2. Wire(q2, h, P, n2) /\ \A k \in Keys : Past(q, P, k) => Past(q2, P, k)
  BY <1>0, <1>1, WireStays DEF Inv
<1>3. Later(h, C, q, P, S, n, h, C2, q2, P, S, n2)
  <2>1. ASSUME NEW k \in Keys, Sealed(C, q, P, k) PROVE Sealed(C2, q2, P, k)
    BY <1>2, <2>1 DEF Sealed
  <2>2. \A k \in Keys : h[k] <= h[k] /\ S[k] <= S[k]
    BY <1>0
  <2> QED  BY <1>0, <2>1, <2>2 DEF Later
<1>4. \A c \in C2 : ConnOk(c, h, C2, q2, P, S, T, X, n2)
  BY <1>0, <1>3, ConnStays DEF Inv
<1>5. \A s \in OutSet(tp2, o2) : Out(s, h, C2, q2, P, S, n2)
  BY <1>0, <1>3, OutStays DEF Inv
<1>6. \A k \in Keys : PeerOk(k, P[k], h, C2, q2, P, S, n2)
  BY <1>0, <1>3, PeerStays DEF Inv
<1>7. ASSUME NEW t \in Tasks PROVE CallOk(cl2[t], h, C2, q2, P, S, n2)
  <2>1. CASE Calm(cl2[t])
    BY <2>1 DEF Calm, CallOk
  <2>2. CASE cl2[t] = cl[t]
    <3>1. CallOk(cl[t], h, C, q, P, S, n)
      BY DEF Inv
    <3>2. \A d \in C : d \in Conn /\ (d.key \in Ids => d.key < n)
      BY <1>0 DEF Inv, ConnOk
    <3>3. \A d \in C2 : d.id < n => \E e \in C : e.id = d.id /\ e.key = d.key
      OBVIOUS
    <3> QED  BY <1>3, <2>2, <3>1, <3>2, <3>3, CallStays
  <2> QED  BY <2>1, <2>2
<1>8. \A k \in Clients : Past(q2, P, k) \/ Virgin(k, h, C2, S, T)
  <2>1. Clients \subseteq Keys
    BY DEF Keys
  <2> QED  BY <1>2, <2>1 DEF Inv, Virgin
<1>9. \A k \in Ids : k >= n2 => Unborn(k, h, S, T)
  BY <1>0 DEF Inv, Ids
<1>10. Types(h, C2, P, S, T, n2, tp2, o2, cl2, ak2)
  <2>1. \A t \in Tasks : IsCall(cl2[t])
    BY <1>0 DEF Calm
  <2> QED  BY <1>0, <2>1 DEF Types
<1>11. Unique(C2)
  BY DEF Inv, Unique
<1> QED  BY <1>2, <1>4, <1>5, <1>6, <1>7, <1>8, <1>9, <1>10, <1>11 DEF Inv

-----------------------------------------------------------------------------
(* The steps that are quiet.                                               *)

\* What they need of the state.
Shape ==
  /\ call = [t \in Tasks |-> call[t]]
  /\ \A t \in Tasks : IsCall(call[t]) /\ (call[t].op = "connect" => call[t].seq = 0 /\ call[t].ack = 0)
  /\ IsList(toUs) /\ IsList(toPeer) /\ IsList(out) /\ nextId \in Nat
  /\ \A f \in asked : f.k \in {"arp", "query", "discover", "echo"}

\* What they do.
CallsCalm ==
  /\ call' = [t \in Tasks |-> call'[t]]
  /\ \A t \in Tasks : call'[t] = call[t] \/ Calm(call'[t])
AskedFine == \A f \in asked' : f.k \in {"arp", "query", "discover", "echo"}
IdsGrow == nextId' \in Nat /\ nextId <= nextId'
OutQuiet == IsList(toPeer') /\ IsList(out') /\ OutSet(toPeer', out') \subseteq OutSet(toPeer, out)
Quiet ==
  /\ CallsCalm /\ AskedFine /\ IdsGrow /\ OutQuiet
  /\ conns' \subseteq conns /\ Flows(toUs, toUs') /\ UNCHANGED <<peer, taken, sent, cut>>

\* The invariant fixes the shape of the calls, the wire and the requests.
LEMMA ShapeHolds == StreamInv => Shape
<1> SUFFICES ASSUME NEW h, Inv(h, conns, toUs, peer, sent, taken, cut, nextId, toPeer, out, call, asked)
             PROVE  Shape
  BY DEF StreamInv
<1>1. Types(h, conns, peer, sent, taken, nextId, toPeer, out, call, asked)
  BY DEF Inv
<1>2. \A t \in Tasks : CallOk(call[t], h, conns, toUs, peer, sent, nextId)
  BY DEF Inv
<1>3. IsList(toUs)
  BY DEF Inv, Wire
<1> QED  BY <1>1, <1>2, <1>3 DEF Shape, Types, CallOk

\* A quiet step keeps the invariant.
LEMMA QuietStep == StreamInv /\ Quiet => StreamInv'
<1> SUFFICES ASSUME NEW h, Inv(h, conns, toUs, peer, sent, taken, cut, nextId, toPeer, out, call, asked), Quiet
             PROVE  Inv(h, conns', toUs', peer', sent', taken', cut', nextId', toPeer', out', call', asked')
  BY DEF StreamInv
<1>1. Inv(h, conns', toUs', peer, sent, taken, cut, nextId', toPeer', out', call', asked')
  BY QuietKeeps DEF Quiet, CallsCalm, AskedFine, IdsGrow, OutQuiet
<1> QED  BY <1>1 DEF Quiet

\* A call moves on.
LEMMA CallGoes ==
  ASSUME Shape, NEW t \in Tasks, NEW c, call' = [call EXCEPT ![t] = c], Calm(c)
  PROVE  CallsCalm
BY DEF Shape, CallsCalm

\* A call that is not under way.
LEMMA CallIdle == Calm(Idle) /\ IsCall(Idle) /\ Idle.seq = 0 /\ Idle.ack = 0
BY DEF Idle, IsCall, Calm

\* What a step leaves alone.
LEMMA StillFine ==
  ASSUME Shape
  PROVE  /\ UNCHANGED call => CallsCalm
         /\ UNCHANGED asked => AskedFine
         /\ UNCHANGED nextId => IdsGrow
         /\ nextId' = nextId + 1 => IdsGrow
         /\ UNCHANGED <<toPeer, out>> => OutQuiet
         /\ UNCHANGED toUs => Flows(toUs, toUs')
BY DEF Shape, CallsCalm, AskedFine, IdsGrow, OutQuiet, Flows

\* The ways a call moves on.
LEMMA CallSteps ==
  ASSUME Shape, NEW t \in Tasks
  PROVE  /\ \A res : Return(t, res) => CallsCalm
         /\ \A res, val : ReturnWith(t, res, val) => CallsCalm
         /\ \A s : Goto(t, s) /\ s # "record" => CallsCalm
         /\ \A c : Begin(t, c) /\ Calm(c) => CallsCalm
         /\ \A f : Sent(f) /\ f.k \in {"arp", "query", "discover", "echo"} => AskedFine
<1>1. \A res, val : ReturnWith(t, res, val) => CallsCalm
  BY CallGoes, CallIdle DEF ReturnWith
<1>2. \A res : Return(t, res) => CallsCalm
  BY <1>1 DEF Return
<1>3. ASSUME NEW s, Goto(t, s), s # "record" PROVE CallsCalm
  <2> DEFINE c == [call[t] EXCEPT !.step = s]
  <2>1. call' = [call EXCEPT ![t] = c]
    BY <1>3 DEF Goto
  <2>2. Calm(c)
    BY <1>3 DEF Shape, Calm, IsCall
  <2> QED  BY <2>1, <2>2, CallGoes
<1>4. \A c : Begin(t, c) /\ Calm(c) => CallsCalm
  BY CallGoes DEF Begin
<1>5. \A f : Sent(f) /\ f.k \in {"arp", "query", "discover", "echo"} => AskedFine
  BY DEF Sent, AskedFine, Shape
<1> QED  BY <1>1, <1>2, <1>3, <1>4, <1>5

\* resolve_mac().
LEMMA ResolveMacQuiet ==
  ASSUME Shape, NEW t \in Tasks, ResolveMac(t), UNCHANGED tcpVars
  PROVE  Quiet
<1> DEFINE ask == [k |-> "arp", ip |-> NextHop(call[t].dst)]
<1>1. ask.k \in {"arp", "query", "discover", "echo"}
  OBVIOUS
<1>2. AskedFine
  BY <1>1, StillFine, CallSteps DEF ResolveMac
<1>3. \A s, j : s # "record" => Calm([call[t] EXCEPT !.step = s, !.tries = j])
  BY DEF Shape, Calm, IsCall
<1>4. \A j : call[t].step # "record" => Calm([call[t] EXCEPT !.tries = j])
  BY DEF Shape, Calm, IsCall
<1>5. CallsCalm
  <2>1. CASE call[t].step = "resolve"
    <3>1. CASE Goto(t, "go")
      BY <3>1, CallSteps
    <3>2. CASE call' = [call EXCEPT ![t].step = "arpwait", ![t].tries = 1]
      <4>1. call' = [call EXCEPT ![t] = [call[t] EXCEPT !.step = "arpwait", !.tries = 1]]
        BY <3>2 DEF Shape
      <4> QED  BY <1>3, <4>1, CallGoes
    <3> QED  BY <2>1, <3>1, <3>2 DEF ResolveMac
  <2>2. CASE call[t].step = "arpwait"
    <3>1. CASE call' = [call EXCEPT ![t].step = "go", ![t].tries = 0]
      <4>1. call' = [call EXCEPT ![t] = [call[t] EXCEPT !.step = "go", !.tries = 0]]
        BY <3>1 DEF Shape
      <4> QED  BY <1>3, <4>1, CallGoes
    <3>2. CASE call' = [call EXCEPT ![t].tries = @ + 1]
      <4>1. call' = [call EXCEPT ![t] = [call[t] EXCEPT !.tries = call[t].tries + 1]]
        BY <3>2 DEF Shape
      <4> QED  BY <1>4, <2>2, <4>1, CallGoes
    <3>3. CASE Return(t, "error")
      BY <3>3, CallSteps
    <3> QED  BY <2>2, <3>1, <3>2, <3>3 DEF ResolveMac
  <2> QED  BY <2>1, <2>2 DEF ResolveMac
<1> QED  BY <1>2, <1>5, StillFine DEF ResolveMac, tcpVars, Quiet

\* The other calls of Datagram that are under way.
LEMMA DatagramQuiet ==
  ASSUME Shape, NEW t \in Tasks,
         UdpSent(t) \/ UdpReceived(t) \/ DnsClear(t) \/ DnsSend(t) \/ DnsWait(t) \/ Ping6Wait(t),
         UNCHANGED tcpVars
  PROVE  Quiet
<1>1. CASE UdpSent(t)
  BY <1>1, StillFine, CallSteps DEF UdpSent, tcpVars, Quiet
<1>2. CASE UdpReceived(t)
  <2>1. CallsCalm
    BY <1>2, CallSteps DEF UdpReceived
  <2> QED  BY <1>2, <2>1, StillFine DEF UdpReceived, tcpVars, Quiet
<1>3. CASE DnsClear(t)
  BY <1>3, StillFine, CallSteps DEF DnsClear, tcpVars, Quiet
<1>4. CASE DnsSend(t)
  <2>1. [k |-> "query", x |-> call[t].x, port |-> call[t].port].k = "query"
    OBVIOUS
  <2>2. AskedFine
    BY <1>4, <2>1, CallSteps DEF DnsSend
  <2> DEFINE c == [call[t] EXCEPT !.step = "wait", !.att = NextAttempt(call[t].att)]
  <2>3. call' = [call EXCEPT ![t] = c]
    BY <1>4 DEF DnsSend, Shape
  <2>4. Calm(c)
    BY DEF Shape, Calm, IsCall
  <2>5. CallsCalm
    BY <2>3, <2>4, CallGoes
  <2> QED  BY <1>4, <2>2, <2>5, StillFine DEF DnsSend, tcpVars, Quiet
<1>5. CASE DnsWait(t)
  <2>1. CallsCalm
    BY <1>5, CallSteps DEF DnsWait
  <2> QED  BY <1>5, <2>1, StillFine DEF DnsWait, tcpVars, Quiet
<1>6. CASE Ping6Wait(t)
  <2>1. CallsCalm
    BY <1>6, CallSteps DEF Ping6Wait
  <2> QED  BY <1>6, <2>1, StillFine DEF Ping6Wait, tcpVars, Quiet
<1> QED  BY <1>1, <1>2, <1>3, <1>4, <1>5, <1>6

\* Calls that a program makes.
LEMMA InvokeQuiet ==
  ASSUME Shape, NEW t \in Tasks,
         InvokeUdp(t) \/ InvokeLookup(t) \/ InvokePing6(t) \/ InvokeListener(t) \/ Connect(t) \/ Recv(t)
  PROVE  Quiet
<1>1. CASE InvokeUdp(t)
  <2>1. CASE \E port \in {0, 68, 80} : UdpBind(t, port)
    <3>1. IdsGrow
      BY <2>1, StillFine DEF UdpBind
    <3> QED  BY <1>1, <2>1, <3>1, StillFine DEF InvokeUdp, UdpBind, tcpVars, Quiet
  <2>2. CASE \E id \in 1..(nextId - 1) : UdpSendTo(t, id, "far") \/ UdpRecvFrom(t, id) \/ UdpClose(t, id)
    <3>1. PICK id \in 1..(nextId - 1) : UdpSendTo(t, id, "far") \/ UdpRecvFrom(t, id) \/ UdpClose(t, id)
      BY <2>2
    <3>2. CallsCalm
      <4>1. CASE UdpSendTo(t, id, "far")
        <5>1. Calm([Idle EXCEPT !.op = "send", !.step = "resolve", !.x = id, !.dst = "far"])
          BY DEF Idle, Calm, IsCall
        <5> QED  BY <4>1, <5>1, CallSteps DEF UdpSendTo
      <4>2. CASE UdpRecvFrom(t, id)
        <5>1. Calm([Idle EXCEPT !.op = "recv", !.step = "wait", !.x = id])
          BY DEF Idle, Calm, IsCall
        <5> QED  BY <4>2, <5>1, CallSteps DEF UdpRecvFrom
      <4>3. CASE UdpClose(t, id)
        BY <4>3, StillFine DEF UdpClose
      <4> QED  BY <3>1, <4>1, <4>2, <4>3
    <3>3. UNCHANGED <<nextId, asked, toUs, out>>
      BY <3>1 DEF UdpSendTo, UdpRecvFrom, UdpClose
    <3> QED  BY <1>1, <3>2, <3>3, StillFine DEF InvokeUdp, tcpVars, Quiet
  <2> QED  BY <1>1, <2>1, <2>2 DEF InvokeUdp
<1>2. CASE InvokeLookup(t)
  <2>1. PICK port : DnsLookup(t, port)
    BY <1>2 DEF InvokeLookup
  <2>2. CallsCalm
    <3>1. Calm([Idle EXCEPT !.op = "dns", !.step = "clear", !.x = nextId, !.port = port, !.dst = "dns"])
      BY DEF Idle, Calm, IsCall
    <3> QED  BY <2>1, <3>1, CallSteps DEF DnsLookup
  <2> QED  BY <1>2, <2>1, <2>2, StillFine DEF InvokeLookup, DnsLookup, tcpVars, Quiet
<1>3. CASE InvokePing6(t)
  <2>1. CallsCalm
    <3>1. Calm([Idle EXCEPT !.op = "ping6", !.step = "wait"])
      BY DEF Idle, Calm, IsCall
    <3> QED  BY <1>3, <3>1, CallSteps DEF InvokePing6, Ping6
  <2>2. [k |-> "echo"].k = "echo"
    OBVIOUS
  <2>3. AskedFine
    BY <1>3, <2>2, CallSteps DEF InvokePing6, Ping6
  <2> QED  BY <1>3, <2>1, <2>3, StillFine DEF InvokePing6, Ping6, tcpVars, Quiet
<1>4. CASE Listen(t)
  BY <1>4, StillFine DEF Listen, dgVars, Quiet
<1>5. CASE Accept(t)
  <2>1. CallsCalm
    <3>1. Calm([Idle EXCEPT !.op = "accept", !.step = "wait"])
      BY DEF Idle, Calm, IsCall
    <3> QED  BY <1>5, <3>1, CallSteps DEF Accept
  <2> QED  BY <1>5, <2>1, StillFine DEF Accept, tcpVars, Quiet
<1>6. CASE Connect(t)
  <2>1. CallsCalm
    <3>1. Calm([Idle EXCEPT !.op = "connect", !.step = "resolve", !.dst = "far"])
      BY DEF Idle, Calm, IsCall
    <3> QED  BY <1>6, <3>1, CallSteps DEF Connect
  <2> QED  BY <1>6, <2>1, StillFine DEF Connect, tcpVars, Quiet
<1>7. CASE Recv(t)
  <2>1. CallsCalm
    <3>1. PICK id \in mine[t] : Begin(t, [Idle EXCEPT !.op = "tcprecv", !.step = "wait", !.x = id])
      BY <1>7 DEF Recv
    <3>2. Calm([Idle EXCEPT !.op = "tcprecv", !.step = "wait", !.x = id])
      BY DEF Idle, Calm, IsCall
    <3> QED  BY <3>1, <3>2, CallSteps
  <2> QED  BY <1>7, <2>1, StillFine DEF Recv, tcpVars, Quiet
<1> QED  BY <1>1, <1>2, <1>3, <1>4, <1>5, <1>6, <1>7 DEF InvokeListener

\* Waits that end.
LEMMA WaitQuiet ==
  ASSUME Shape, NEW t \in Tasks, ConnectWait(t) \/ AcceptWait(t) \/ CloseWait(t)
  PROVE  Quiet
<1>1. CallsCalm
  BY CallSteps DEF ConnectWait, AcceptWait, CloseWait
<1>2. conns' \subseteq conns
  <2>1. CASE ConnectWait(t)
    BY <2>1 DEF ConnectWait
  <2>2. CASE AcceptWait(t)
    BY <2>2 DEF AcceptWait
  <2>3. CASE CloseWait(t)
    BY <2>3 DEF CloseWait
  <2> QED  BY <2>1, <2>2, <2>3
<1>3. UNCHANGED <<nextId, asked, toUs, out, toPeer, peer, taken, sent, cut>>
  BY DEF ConnectWait, AcceptWait, CloseWait
<1> QED  BY <1>1, <1>2, <1>3, StillFine DEF Quiet

\* The two steps of boot.
LEMMA BootQuiet ==
  ASSUME Shape, DhcpDiscover \/ Boot, UNCHANGED tcpVars
  PROVE  Quiet
<1>1. AskedFine
  <2>1. CASE Boot
    BY <2>1, StillFine DEF Boot
  <2>2. CASE DhcpDiscover
    BY <2>2 DEF DhcpDiscover, Sent, AskedFine, Shape
  <2> QED  BY <2>1, <2>2
<1>2. IdsGrow
  BY StillFine DEF DhcpDiscover, Boot
<1>3. UNCHANGED <<call, toUs, out>>
  BY DEF DhcpDiscover, Boot
<1> QED  BY <1>1, <1>2, <1>3, StillFine DEF Quiet, tcpVars

\* What the poller makes of a frame that is no TCP segment.
LEMMA TakeQuiet ==
  ASSUME Shape, NEW kind, NEW reply, Take(kind, reply),
         reply = << >> \/ \E f : f.k # "tcp" /\ reply = <<f>>, UNCHANGED toPeer
  PROVE  Flows(toUs, toUs') /\ OutQuiet
<1>1. Flows(toUs, toUs') /\ out = << >> /\ out' = reply
  BY DEF Take, Flows
<1>2. IsList(reply) /\ {j \in 1..Len(reply) : reply[j].k = "tcp"} = {}
  BY ListShort
<1>3. OutSet(toPeer, reply) \subseteq OutSet(toPeer, out)
  BY <1>2 DEF OutSet
<1> QED  BY <1>1, <1>2, <1>3 DEF OutQuiet, Shape

\* What the poller does with frames that are not TCP.
LEMMA PollerQuiet ==
  ASSUME Shape, HandleArp \/ HandleUdp \/ HandleIcmp \/ HandleIcmpv6, UNCHANGED tcpVars
  PROVE  Quiet
<1>1. UNCHANGED toPeer
  BY DEF tcpVars
<1>2. Flows(toUs, toUs') /\ OutQuiet
  <2>0. /\ [k |-> "arprep"].k # "tcp" /\ [k |-> "pong"].k # "tcp" /\ [k |-> "echorep6"].k # "tcp"
        /\ [k |-> "advert"].k # "tcp"
    OBVIOUS
  <2>1. CASE HandleArp
    BY <1>1, <2>0, <2>1, TakeQuiet DEF HandleArp
  <2>2. CASE HandleUdp
    BY <1>1, <2>2, TakeQuiet DEF HandleUdp
  <2>3. CASE HandleIcmp
    BY <1>1, <2>0, <2>3, TakeQuiet DEF HandleIcmp
  <2>4. CASE HandleIcmpv6
    BY <1>1, <2>0, <2>4, TakeQuiet DEF HandleIcmpv6
  <2> QED  BY <2>1, <2>2, <2>3, <2>4
<1>3. UNCHANGED <<nextId, asked, call>>
  BY DEF HandleArp, HandleUdp, HandleIcmp, HandleIcmpv6
<1> QED  BY <1>2, <1>3, StillFine DEF Quiet, tcpVars

\* What the host does, apart from TCP.
LEMMA HostQuiet ==
  ASSUME Shape, HostAnswers \/ HostSends, UNCHANGED tcpVars
  PROVE  Quiet
<1>1. CASE HostAnswers
  <2> DEFINE answer(f) == CASE f.k = "arp"   -> [k |-> "arprep", ip |-> f.ip]
                            [] f.k = "query" -> [k |-> "udp", ip |-> "dns", port |-> f.port,
                                                 x |-> f.x, dns |-> TRUE]
                            [] f.k = "discover" -> [k |-> "udp", ip |-> "gw", port |-> 68, x |-> 0,
                                                    dns |-> FALSE]
                            [] f.k = "echo"  -> [k |-> "echorep6"]
  <2>1. PICK f \in asked : toUs' = Append(toUs, answer(f)) /\ (asked' = asked \ {f} \/ UNCHANGED asked)
    BY <1>1 DEF HostAnswers
  <2>2. answer(f).k # "tcp"
    <3>1. f.k \in {"arp", "query", "discover", "echo"}
      BY DEF Shape
    <3>2. CASE f.k = "arp"
      BY <3>2
    <3>3. CASE f.k = "query"
      BY <3>3
    <3>4. CASE f.k = "discover"
      BY <3>4
    <3>5. CASE f.k = "echo"
      BY <3>5
    <3> QED  BY <3>1, <3>2, <3>3, <3>4, <3>5
  <2> HIDE DEF answer
  <2>3. Flows(toUs, toUs')
    BY <2>1, <2>2 DEF Flows
  <2>4. AskedFine
    BY <2>1 DEF AskedFine, Shape
  <2> QED  BY <1>1, <2>3, <2>4, StillFine DEF Quiet, tcpVars, HostAnswers
<1>2. CASE HostSends
  <2>1. PICK f \in [k : {"udp"}, ip : {"dns", "far"}, x : {grams + 100}, dns : {FALSE},
                    port : {s.port : s \in Range(sockets)}]
                   \union [k : {"arpreq", "ping"}, ip : {"gw", "far"}]
                   \union [k : {"echoreq6", "solicit"}] : toUs' = Append(toUs, f)
    BY <1>2 DEF HostSends
  <2>2. f.k # "tcp"
    <3> DEFINE D == {s.port : s \in Range(sockets)}
    <3>1. f \in [k : {"udp"}, ip : {"dns", "far"}, x : {grams + 100}, dns : {FALSE}, port : D]
                   \union [k : {"arpreq", "ping"}, ip : {"gw", "far"}]
                   \union [k : {"echoreq6", "solicit"}]
      OBVIOUS
    <3> HIDE DEF D
    <3> QED  BY <3>1
  <2>3. Flows(toUs, toUs')
    BY <2>1, <2>2 DEF Flows
  <2> QED  BY <1>2, <2>3, StillFine DEF Quiet, tcpVars, HostSends
<1> QED  BY <1>1, <1>2

\* What was to be sent is sent.
LEMMA SendsQuiet ==
  ASSUME Shape, PollerSends
  PROVE  Quiet
<1>1. /\ out # << >> /\ out' = Tail(out) /\ toPeer' = IF Head(out).k = "tcp" THEN Append(toPeer, Head(out)) ELSE toPeer
      /\ UNCHANGED <<nextId, asked, call, toUs, conns, peer, taken, sent, cut>>
  BY DEF PollerSends
<1>2. /\ IsList(out) /\ IsList(toPeer) /\ IsList(Tail(out)) /\ Head(out) = out[1] /\ 1 \in 1..Len(out)
      /\ \A i \in 1..Len(Tail(out)) : i + 1 \in 1..Len(out) /\ Tail(out)[i] = out[i + 1]
  BY <1>1, ListIs, ListTail DEF Shape
<1>3. CASE Head(out).k = "tcp"
  <2>1. /\ IsList(toPeer') /\ Len(toPeer') = Len(toPeer) + 1 /\ Len(toPeer) \in Nat
        /\ toPeer'[Len(toPeer) + 1] = Head(out)
        /\ \A i \in 1..Len(toPeer) : toPeer'[i] = toPeer[i]
    BY <1>1, <1>2, <1>3, ListAppend
  <2>2. \A i \in 1..Len(toPeer') : i \in 1..Len(toPeer) \/ i = Len(toPeer) + 1
    BY <2>1
  <2>3. OutSet(toPeer', Tail(out)) \subseteq OutSet(toPeer, out)
    BY <1>2, <1>3, <2>1, <2>2 DEF OutSet
  <2>4. OutQuiet
    BY <1>1, <1>2, <2>1, <2>3 DEF OutQuiet
  <2> QED  BY <1>1, <2>4, StillFine DEF Quiet
<1>4. CASE Head(out).k # "tcp"
  <2>1. OutSet(toPeer, Tail(out)) \subseteq OutSet(toPeer, out)
    BY <1>2 DEF OutSet
  <2>2. OutQuiet
    BY <1>1, <1>2, <1>4, <2>1 DEF OutQuiet
  <2> QED  BY <1>1, <2>2, StillFine DEF Quiet
<1> QED  BY <1>3, <1>4

\* TIME_WAIT ends, a segment is lost, nothing happens.
LEMMA LoseQuiet ==
  ASSUME Shape, TimeWaitEnds \/ Lose \/ UNCHANGED vars
  PROVE  Quiet
<1>1. CASE TimeWaitEnds
  BY <1>1, StillFine DEF TimeWaitEnds, Quiet, dgVars
<1>2. CASE Lose
  <2>1. UNCHANGED <<nextId, asked, call, out, conns, peer, taken, sent, cut>>
    BY <1>2 DEF Lose
  <2>2. CASE toUs # << >> /\ toUs' = Tail(toUs) /\ UNCHANGED toPeer
    BY <2>1, <2>2, StillFine DEF Quiet, Flows
  <2>3. CASE toPeer # << >> /\ toPeer' = Tail(toPeer) /\ UNCHANGED toUs
    <3>1. /\ IsList(toPeer')
          /\ \A i \in 1..Len(toPeer') : i + 1 \in 1..Len(toPeer) /\ toPeer'[i] = toPeer[i + 1]
      BY <2>3, ListTail DEF Shape
    <3>2. OutSet(toPeer', out) \subseteq OutSet(toPeer, out)
      BY <3>1 DEF OutSet
    <3>3. OutQuiet
      BY <2>1, <3>1, <3>2 DEF OutQuiet, Shape
    <3> QED  BY <2>1, <2>3, <3>3, StillFine DEF Quiet
  <2> QED  BY <1>2, <2>2, <2>3 DEF Lose
<1>3. CASE UNCHANGED vars
  BY <1>3, StillFine DEF vars, dgVars, tcpVars, Quiet
<1> QED  BY <1>1, <1>2, <1>3

\* The beginning.
LEMMA InitHolds == Init => StreamInv
<1> SUFFICES ASSUME Init PROVE StreamInv
  OBVIOUS
<1> DEFINE h == [k \in Keys |-> 0]
<1>1. h \in [Keys -> Nat] /\ \A k \in Keys : h[k] = 0
  OBVIOUS
<1> HIDE DEF h
<1>2. /\ \A k \in Keys : peer[k] = NoPeer /\ sent[k] = 0 /\ taken[k] = << >>
      /\ conns = {} /\ toUs = << >> /\ toPeer = << >> /\ out = << >> /\ nextId = 1 /\ asked = {}
      /\ sent \in [Keys -> Nat]
  BY DEF Init
<1>3. << >> \in Units /\ Len(<< >>) = 0
  BY DEF Units
<1>4. NoPeer \in Remote /\ NoPeer.st = "none" /\ NoPeer.un = None
  BY <1>3 DEF NoPeer, Remote
<1>5. peer \in [Keys -> Remote] /\ taken \in [Keys -> Units]
  BY <1>3, <1>4 DEF Init
<1>6. OutSet(toPeer, out) = {} /\ IsList(toPeer) /\ IsList(out)
  BY <1>2, <1>3, ListShort DEF OutSet
<1>7. call = [t \in Tasks |-> call[t]] /\ \A t \in Tasks : call[t] = Idle
  BY DEF Init
<1>8. Types(h, conns, peer, sent, taken, nextId, toPeer, out, call, asked)
  BY <1>1, <1>2, <1>5, <1>6, <1>7, CallIdle DEF Types
<1>9. Wire(toUs, h, peer, nextId)
  BY <1>2, <1>3, ListShort DEF Wire
<1>10. \A k \in Keys : PeerOk(k, peer[k], h, conns, toUs, peer, sent, nextId)
  BY <1>1, <1>2 DEF PeerOk, NoPeer, Early
<1>11. \A k \in Keys : Unborn(k, h, sent, taken) /\ Virgin(k, h, conns, sent, taken)
  BY <1>1, <1>2 DEF Unborn, Virgin
<1>12. \A t \in Tasks : CallOk(call[t], h, conns, toUs, peer, sent, nextId)
  BY <1>7, CallIdle DEF CallOk, Calm
<1>13. Inv(h, conns, toUs, peer, sent, taken, cut, nextId, toPeer, out, call, asked)
  BY <1>2, <1>6, <1>8, <1>9, <1>10, <1>11, <1>12 DEF Inv, Unique, Keys
<1> QED  BY <1>13 DEF StreamInv

-----------------------------------------------------------------------------
(* The steps that concern one connection.                                  *)

\* Everything but what has key k stays as it was, and that is sound.
OneKey(k, h, C, q, P, S, T, X, n, tp, o, cl, h2, C2, q2, P2, S2, T2, X2, n2, tp2, o2, cl2) ==
  /\ k \in Keys /\ Later(h, C, q, P, S, n, h2, C2, q2, P2, S2, n2)
  /\ \A j \in Keys : j # k => h2[j] = h[j] /\ S2[j] = S[j] /\ T2[j] = T[j] /\ P2[j] = P[j]
  /\ P2 \in [Keys -> Remote] /\ T2 \in [Keys -> Units] /\ X \subseteq X2 /\ Unique(C2)
  /\ \A c \in C2 : c.key # k => c \in C
  /\ \A c \in C2 : c.key = k => c \in Conn /\ ConnOk(c, h2, C2, q2, P2, S2, T2, X2, n2)
  /\ \A d \in C2 : d.id < n => \E e \in C : e.id = d.id /\ e.key = d.key
  /\ IsList(tp2) /\ IsList(o2)
  /\ \A s \in OutSet(tp2, o2) : s \in OutSet(tp, o) \/ (s \in Segment /\ Out(s, h2, C2, q2, P2, S2, n2))
  /\ Wire(q2, h2, P2, n2) /\ PeerOk(k, P2[k], h2, C2, q2, P2, S2, n2)
  /\ k \in Clients => Past(q2, P2, k) \/ Virgin(k, h2, C2, S2, T2)
  /\ \A j \in Keys : j # k /\ Past(q, P, j) => Past(q2, P2, j)
  /\ k \in Ids /\ k >= n2 => Unborn(k, h2, S2, T2)
  /\ cl2 = [t \in Tasks |-> cl2[t]]
  /\ \A t \in Tasks : cl2[t] = cl[t] \/ (IsCall(cl2[t]) /\ CallOk(cl2[t], h2, C2, q2, P2, S2, n2))

\* Such a step keeps the invariant.
LEMMA KeyKeeps ==
  ASSUME NEW h, NEW C, NEW q, NEW P, NEW S, NEW T, NEW X, NEW n, NEW tp, NEW o, NEW cl, NEW ak,
         NEW h2, NEW C2, NEW q2, NEW P2, NEW S2, NEW T2, NEW X2, NEW n2, NEW tp2, NEW o2, NEW cl2,
         Inv(h, C, q, P, S, T, X, n, tp, o, cl, ak), NEW k,
         OneKey(k, h, C, q, P, S, T, X, n, tp, o, cl, h2, C2, q2, P2, S2, T2, X2, n2, tp2, o2, cl2)
  PROVE  Inv(h2, C2, q2, P2, S2, T2, X2, n2, tp2, o2, cl2, ak)
<1> USE DEF OneKey
<1>0. /\ h \in [Keys -> Nat] /\ C \subseteq Conn /\ P \in [Keys -> Remote]
      /\ S \in [Keys -> Nat] /\ T \in [Keys -> Units] /\ n \in Nat
      /\ OutSet(tp, o) \subseteq Segment /\ \A t \in Tasks : IsCall(cl[t])
      /\ \A f \in ak : f.k \in {"arp", "query", "discover", "echo"}
  BY DEF Inv, Types
<1>1. h2 \in [Keys -> Nat] /\ S2 \in [Keys -> Nat] /\ n2 \in Nat /\ n <= n2
  BY DEF Later
<1>2. \A c \in Conn : c.key \in Keys
  BY DEF Conn
<1>3. C2 \subseteq Conn
  BY <1>0
<1>4. ASSUME NEW c \in C2 PROVE ConnOk(c, h2, C2, q2, P2, S2, T2, X2, n2)
  <2>1. CASE c.key = k
    BY <2>1
  <2>2. CASE c.key # k
    <3>1. c \in C /\ c \in Conn /\ c.key \in Keys
      BY <1>0, <1>2, <2>2
    <3>2. h2[c.key] = h[c.key] /\ S2[c.key] = S[c.key] /\ T2[c.key] = T[c.key]
      BY <2>2, <3>1
    <3>3. ConnOk(c, h, C, q, P, S, T, X, n)
      BY <3>1 DEF Inv
    <3> QED  BY <3>1, <3>2, <3>3, ConnStays
  <2> QED  BY <2>1, <2>2
<1>5. \A s \in OutSet(tp2, o2) : s \in Segment /\ Out(s, h2, C2, q2, P2, S2, n2)
  <2>1. \A s \in OutSet(tp, o) : s \in Segment /\ Out(s, h, C, q, P, S, n)
    BY <1>0 DEF Inv
  <2> QED  BY <2>1, OutStays
<1>6. ASSUME NEW j \in Keys PROVE PeerOk(j, P2[j], h2, C2, q2, P2, S2, n2)
  <2>1. CASE j # k
    <3>1. P2[j] = P[j] /\ h2[j] = h[j] /\ P[j] \in Remote /\ PeerOk(j, P[j], h, C, q, P, S, n)
      BY <1>0, <2>1 DEF Inv
    <3> QED  BY <3>1, PeerStays
  <2> QED  BY <2>1
<1>7. ASSUME NEW t \in Tasks PROVE CallOk(cl2[t], h2, C2, q2, P2, S2, n2)
  <2>1. CASE cl2[t] = cl[t]
    <3>1. CallOk(cl[t], h, C, q, P, S, n)
      BY DEF Inv
    <3>2. \A d \in C : d \in Conn /\ (d.key \in Ids => d.key < n)
      BY <1>0 DEF Inv, ConnOk
    <3> QED  BY <2>1, <3>1, <3>2, CallStays
  <2> QED  BY <2>1
<1>8. ASSUME NEW j \in Clients PROVE Past(q2, P2, j) \/ Virgin(j, h2, C2, S2, T2)
  <2>1. j \in Keys
    BY DEF Keys
  <2>2. CASE j # k
    <3>1. Past(q, P, j) \/ Virgin(j, h, C, S, T)
      BY DEF Inv
    <3>2. h2[j] = h[j] /\ S2[j] = S[j] /\ T2[j] = T[j] /\ \A c \in C2 : c.key = j => c \in C
      BY <2>1, <2>2
    <3> QED  BY <2>1, <2>2, <3>1, <3>2 DEF Virgin, Unborn
  <2> QED  BY <2>2
<1>9. ASSUME NEW j \in Ids, j >= n2 PROVE Unborn(j, h2, S2, T2)
  <2>1. j \in Keys /\ j \in Nat
    BY DEF Keys, Ids
  <2>2. CASE j # k
    <3>1. j >= n
      BY <1>0, <1>1, <1>9, <2>1
    <3>2. Unborn(j, h, S, T)
      BY <3>1 DEF Inv
    <3> QED  BY <2>1, <2>2, <3>2 DEF Unborn
  <2> QED  BY <1>9, <2>2
<1>10. Types(h2, C2, P2, S2, T2, n2, tp2, o2, cl2, ak)
  <2>1. \A t \in Tasks : IsCall(cl2[t])
    BY <1>0
  <2>2. OutSet(tp2, o2) \subseteq Segment
    BY <1>5
  <2> QED  BY <1>0, <1>1, <1>3, <2>1, <2>2 DEF Types
<1> QED  BY <1>4, <1>5, <1>6, <1>7, <1>8, <1>9, <1>10 DEF Inv

\* One connection takes the place of another.
LEMMA UpdateIs ==
  ASSUME NEW C \in SUBSET Conn, Unique(C), NEW c \in C, NEW d, d.id = c.id, d.key = c.key,
         NEW C2, C2 = (C \ {c}) \cup {d}
  PROVE  /\ Unique(C2)
         /\ \A e \in C2 : e.key # c.key => e \in C
         /\ \A e \in C2 : e.key = c.key => e = d
         /\ \A e \in C2 : e.id = c.id => e = d
         /\ \A e \in C2 : \E f \in C : f.id = e.id /\ f.key = e.key
BY DEF Unique

\* Only the state of connections and the wire moves.
LEMMA ConnLater ==
  ASSUME NEW h, NEW C, NEW q, NEW P, NEW S, NEW T, NEW X, NEW n, NEW tp, NEW o, NEW cl, NEW ak,
         Inv(h, C, q, P, S, T, X, n, tp, o, cl, ak), NEW q2, Flows(q, q2),
         NEW c \in C, NEW d, d.id = c.id, d.key = c.key, c.st \in Ended => d.st \in Ended,
         NEW C2, C2 = (C \ {c}) \cup {d}
  PROVE  /\ Later(h, C, q, P, S, n, h, C2, q2, P, S, n)
         /\ Wire(q2, h, P, n) /\ \A j \in Keys : Past(q, P, j) => Past(q2, P, j)
<1>0. /\ h \in [Keys -> Nat] /\ C \subseteq Conn /\ P \in [Keys -> Remote]
      /\ S \in [Keys -> Nat] /\ n \in Nat /\ n <= n
  BY DEF Inv, Types
<1>1. Goes(P, P)
  <2>1. \A k \in Keys : P[k].snd \in Nat
    BY <1>0 DEF Remote
  <2> QED  BY <2>1 DEF Goes
<1>2. Wire(q2, h, P, n) /\ \A k \in Keys : Past(q, P, k) => Past(q2, P, k)
  BY <1>0, <1>1, WireStays DEF Inv
<1>3. ASSUME NEW k \in Keys, Sealed(C, q, P, k) PROVE Sealed(C2, q2, P, k)
  BY <1>2, <1>3 DEF Sealed
<1>4. \A k \in Keys : h[k] <= h[k] /\ S[k] <= S[k]
  BY <1>0
<1> QED  BY <1>0, <1>2, <1>3, <1>4 DEF Later

OneConn(c, d, h, C, q, P, S, T, X, n, tp, o, cl, C2, q2, tp2, o2, cl2) ==
  /\ Flows(q, q2) /\ c \in C /\ d \in Conn /\ d.id = c.id /\ d.key = c.key /\ C2 = (C \ {c}) \cup {d}
  /\ c.st \in Ended => d.st \in Ended
  /\ ConnOk(d, h, C2, q2, P, S, T, X, n)
  /\ c.st \in {"SynReceived", "Closed"} /\ c.buf = << >> =>
       Past(q2, P, c.key) \/ (d.st \in {"SynReceived", "Closed"} /\ d.buf = << >>)
  /\ IsList(tp2) /\ IsList(o2)
  /\ \A s \in OutSet(tp2, o2) : s \in OutSet(tp, o) \/ (s \in Segment /\ Out(s, h, C2, q2, P, S, n))
  /\ cl2 = [t \in Tasks |-> cl2[t]]
  /\ \A t \in Tasks : cl2[t] = cl[t] \/ (IsCall(cl2[t]) /\ CallOk(cl2[t], h, C2, q2, P, S, n))

\* A step that changes one connection into a sound one keeps the invariant.
LEMMA ConnKeeps ==
  ASSUME NEW h, NEW C, NEW q, NEW P, NEW S, NEW T, NEW X, NEW n, NEW tp, NEW o, NEW cl, NEW ak,
         Inv(h, C, q, P, S, T, X, n, tp, o, cl, ak),
         NEW c, NEW d, NEW C2, NEW q2, NEW tp2, NEW o2, NEW cl2,
         OneConn(c, d, h, C, q, P, S, T, X, n, tp, o, cl, C2, q2, tp2, o2, cl2)
  PROVE  Inv(h, C2, q2, P, S, T, X, n, tp2, o2, cl2, ak)
<1> USE DEF OneConn
<1>0. /\ C \subseteq Conn /\ P \in [Keys -> Remote] /\ T \in [Keys -> Units] /\ n \in Nat
      /\ c \in Conn /\ c.key \in Keys /\ Unique(C)
  BY DEF Inv, Types, Conn
<1>1. /\ Later(h, C, q, P, S, n, h, C2, q2, P, S, n)
      /\ Wire(q2, h, P, n) /\ \A j \in Keys : Past(q, P, j) => Past(q2, P, j)
  BY ConnLater
<1>2. /\ Unique(C2)
      /\ \A e \in C2 : e.key # c.key => e \in C
      /\ \A e \in C2 : e.key = c.key => e = d
      /\ \A e \in C2 : \E f \in C : f.id = e.id /\ f.key = e.key
  BY <1>0, UpdateIs
<1>3. PeerOk(c.key, P[c.key], h, C2, q2, P, S, n)
  <2>1. P[c.key] \in Remote /\ PeerOk(c.key, P[c.key], h, C, q, P, S, n)
    BY <1>0 DEF Inv
  <2> QED  BY <1>0, <1>1, <2>1, PeerStays
<1>4. c.key \in Clients => Past(q2, P, c.key) \/ Virgin(c.key, h, C2, S, T)
  <2> SUFFICES ASSUME c.key \in Clients, ~Past(q2, P, c.key) PROVE Virgin(c.key, h, C2, S, T)
    OBVIOUS
  <2>1. Virgin(c.key, h, C, S, T)
    BY <1>0, <1>1 DEF Inv
  <2>2. d.st \in {"SynReceived", "Closed"} /\ d.buf = << >>
    BY <2>1 DEF Virgin
  <2> QED  BY <1>2, <2>1, <2>2 DEF Virgin
<1>5. c.key \in Ids /\ c.key >= n => Unborn(c.key, h, S, T)
  BY DEF Inv
<1>6. \A e \in C2 : e.key = c.key => e \in Conn /\ ConnOk(e, h, C2, q2, P, S, T, X, n)
  BY <1>2
<1>7. /\ \A j \in Keys : j # c.key => h[j] = h[j] /\ S[j] = S[j] /\ T[j] = T[j] /\ P[j] = P[j]
      /\ X \subseteq X
      /\ \A e \in C2 : e.id < n => \E f \in C : f.id = e.id /\ f.key = e.key
      /\ \A j \in Keys : j # c.key /\ Past(q, P, j) => Past(q2, P, j)
  BY <1>1, <1>2
<1>8. OneKey(c.key, h, C, q, P, S, T, X, n, tp, o, cl, h, C2, q2, P, S, T, X, n, tp2, o2, cl2)
  BY <1>0, <1>1, <1>2, <1>3, <1>4, <1>5, <1>6, <1>7 DEF OneKey
<1> QED  BY <1>8, KeyKeeps

\* A segment of ours.
LEMMA SegIs ==
  ASSUME NEW k \in Keys, NEW fl \in SUBSET {"SYN", "ACK", "FIN", "PSH", "RST"},
         NEW a \in Nat, NEW b \in Nat, NEW x \in Nat, NEW s, s = Seg(k, fl, a, b, x)
  PROVE  /\ s \in Segment /\ s.k = "tcp" /\ s.key = k /\ s.flags = fl
         /\ s.seq = a /\ s.ack = b /\ s.data = x /\ s # None
<1>1. s \in Segment
  BY DEF Seg, Segment
<1>2. s # None
  BY <1>1, TcpAssumption DEF Segment
<1> QED  BY <1>1, <1>2 DEF Seg

\* One more segment to send.
LEMMA OutAdd ==
  ASSUME NEW tp, NEW o, IsList(tp), IsList(o), NEW s
  PROVE  /\ IsList(Append(tp, s)) /\ \A r \in OutSet(Append(tp, s), o) : r = s \/ r \in OutSet(tp, o)
         /\ IsList(<<s>>) /\ \A r \in OutSet(tp, <<s>>) : r = s \/ r \in OutSet(tp, o)
         /\ IsList(<< >>) /\ \A r \in OutSet(tp, << >>) : r \in OutSet(tp, o)
<1> DEFINE u == Append(tp, s)
<1>1. IsList(u) /\ Len(u) = Len(tp) + 1 /\ Len(tp) \in Nat /\ u[Len(tp) + 1] = s /\ \A i \in 1..Len(tp) : u[i] = tp[i]
  BY ListAppend
<1> HIDE DEF u
<1>2. \A i \in 1..Len(u) : i \in 1..Len(tp) \/ i = Len(tp) + 1
  BY <1>1
<1>3. \A r \in OutSet(u, o) : r = s \/ r \in OutSet(tp, o)
  BY <1>1, <1>2 DEF OutSet
<1>4. IsList(<<s>>) /\ \A r \in OutSet(tp, <<s>>) : r = s \/ r \in OutSet(tp, o)
  BY ListShort DEF OutSet
<1>5. IsList(<< >>) /\ \A r \in OutSet(tp, << >>) : r \in OutSet(tp, o)
  BY ListShort DEF OutSet
<1> QED  BY <1>1, <1>3, <1>4, <1>5 DEF u

\* Calls without a segment to record need nothing.
LEMMA CalmOk ==
  ASSUME NEW c, Calm(c), NEW h, NEW C, NEW q, NEW P, NEW S, NEW n
  PROVE  IsCall(c) /\ CallOk(c, h, C, q, P, S, n)
BY DEF Calm, CallOk

\* What is known of one connection.
LEMMA ConnKnown ==
  ASSUME NEW h, NEW C, NEW q, NEW P, NEW S, NEW T, NEW X, NEW n, NEW tp, NEW o, NEW cl, NEW ak,
         Inv(h, C, q, P, S, T, X, n, tp, o, cl, ak), NEW c \in C
  PROVE  /\ c \in Conn /\ c.id \in Nat /\ c.key \in Keys /\ c.st \in States /\ c.seq \in Nat /\ c.ack \in Nat
         /\ c.buf \in Units /\ c.un \in {None} \cup Kept
         /\ c = [id |-> c.id, key |-> c.key, st |-> c.st, seq |-> c.seq, ack |-> c.ack, buf |-> c.buf, un |-> c.un]
         /\ ConnOk(c, h, C, q, P, S, T, X, n)
         /\ h[c.key] \in Nat /\ S[c.key] \in Nat /\ T[c.key] \in Units /\ n \in Nat
         /\ c.id < n /\ (c.key \in Ids => c.key < n /\ c.key \in Nat)
         /\ c.un # None => c.un.seg \in Segment /\ Out(c.un.seg, h, C, q, P, S, n)
<1>1. c \in Conn /\ h \in [Keys -> Nat] /\ S \in [Keys -> Nat] /\ T \in [Keys -> Units] /\ n \in Nat
  BY DEF Inv, Types
<1>2. /\ c.id \in Nat /\ c.key \in Keys /\ c.st \in States /\ c.seq \in Nat /\ c.ack \in Nat
      /\ c.buf \in Units /\ c.un \in {None} \cup Kept
      /\ c = [id |-> c.id, key |-> c.key, st |-> c.st, seq |-> c.seq, ack |-> c.ack, buf |-> c.buf, un |-> c.un]
  BY <1>1 DEF Conn
<1>3. ConnOk(c, h, C, q, P, S, T, X, n)
  BY DEF Inv
<1>4. h[c.key] \in Nat /\ S[c.key] \in Nat /\ T[c.key] \in Units
  BY <1>1, <1>2
<1>5. c.un # None => c.un.seg \in Segment /\ Out(c.un.seg, h, C, q, P, S, n)
  BY <1>2, <1>3 DEF ConnOk, Kept
<1>6. c.id < n /\ (c.key \in Ids => c.key < n /\ c.key \in Nat)
  BY <1>2, <1>3 DEF ConnOk, Ids
<1> QED  BY <1>1, <1>2, <1>3, <1>4, <1>5, <1>6

\* A connection whose buffer is not touched.
ConnTurn(c, d) ==
  d \in Conn /\ d.id = c.id /\ d.key = c.key /\ d.buf = c.buf /\ (c.st \in Ended => d.st \in Ended)

\* What a turned connection keeps of the invariant.
LEMMA ConnTurns ==
  ASSUME NEW h, NEW C, NEW q, NEW P, NEW S, NEW T, NEW X, NEW n, NEW tp, NEW o, NEW cl, NEW ak,
         Inv(h, C, q, P, S, T, X, n, tp, o, cl, ak), NEW c \in C, NEW q2, Flows(q, q2),
         NEW d, ConnTurn(c, d), NEW C2, C2 = (C \ {c}) \cup {d},
         d.st \in {"SynSent", "SynReceived"} => d.st = c.st /\ d.seq = c.seq,
         d.st \in {"Established", "CloseWait"} => d.seq = S[c.key] + 1,
         Acks(h, P, c.key, d.ack),
         d.un # None => Out(d.un.seg, h, C2, q2, P, S, n)
  PROVE  ConnOk(d, h, C2, q2, P, S, T, X, n)
<1>1. ConnOk(c, h, C, q, P, S, T, X, n)
  BY ConnKnown
<1> QED  BY <1>1 DEF ConnTurn, ConnOk

\* The segment of a connect or close is noted.
LEMMA RecordKeeps ==
  ASSUME StreamInv, NEW t \in Tasks, Record(t)
  PROVE  StreamInv'
<1>0. Shape
  BY ShapeHolds
<1>1. UNCHANGED <<nextId, asked, toUs, out, toPeer, peer, taken, sent, cut>> /\ Goto(t, "wait") /\ call[t].step = "record"
  BY DEF Record
<1>2. CallsCalm
  BY <1>0, <1>1, CallSteps
<1>3. CASE UNCHANGED conns
  <2>1. Quiet
    BY <1>0, <1>1, <1>2, <1>3, StillFine DEF Quiet
  <2> QED  BY <2>1, QuietStep
<1>4. CASE ~UNCHANGED conns
  <2> DEFINE flags == IF call[t].op = "connect" THEN {"SYN"} ELSE {"FIN", "ACK"}
             noted(c) == [c EXCEPT !.un = Unacked(Seg(c.key, flags, call[t].seq, call[t].ack, 0))]
  <2>1. PICK c \in ById(call[t].x) : Update(c, noted(c))
    BY <1>4 DEF Record
  <2>2. c \in conns /\ c.id = call[t].x
    BY <2>1 DEF ById
  <2> DEFINE s == Seg(c.key, flags, call[t].seq, call[t].ack, 0)
             d == [c EXCEPT !.un = [seg |-> s, n |-> 0]]
  <2>3. conns' = (conns \ {c}) \cup {d}
    BY <2>1 DEF Update, Unacked
  <2>4. PICK h : Inv(h, conns, toUs, peer, sent, taken, cut, nextId, toPeer, out, call, asked)
    BY DEF StreamInv
  <2>5. /\ c \in Conn /\ c.key \in Keys /\ c.st \in States /\ c.seq \in Nat /\ c.ack \in Nat
        /\ ConnOk(c, h, conns, toUs, peer, sent, taken, cut, nextId)
        /\ h[c.key] \in Nat /\ (c.key \in Ids => c.key < nextId /\ c.key \in Nat)
    BY <2>2, <2>4, ConnKnown
  <2>6. /\ call[t].op \in {"connect", "close"} /\ call[t].seq \in Nat /\ call[t].ack \in Nat
        /\ call[t].op = "connect" => c.key \in Ids /\ call[t].seq = 0 /\ call[t].ack = 0
        /\ call[t].op = "close" => /\ call[t].seq = sent[c.key] + 1 /\ Sealed(conns, toUs, peer, c.key)
                                   /\ Acks(h, peer, c.key, call[t].ack)
    BY <1>1, <2>2, <2>4 DEF Inv, CallOk
  <2>7. flags \in SUBSET {"SYN", "ACK", "FIN", "PSH", "RST"}
    OBVIOUS
  <2>8. /\ s \in Segment /\ s.k = "tcp" /\ s.key = c.key /\ s.flags = flags
        /\ s.seq = call[t].seq /\ s.ack = call[t].ack /\ s.data = 0
    BY <2>5, <2>6, <2>7, SegIs
  <2> HIDE DEF s
  <2>9. [seg |-> s, n |-> 0] \in Kept /\ [seg |-> s, n |-> 0].seg = s
    BY <2>8 DEF Kept
  <2>10. d \in Conn /\ d.id = c.id /\ d.key = c.key /\ d.buf = c.buf /\ d.st = c.st /\ d.seq = c.seq /\ d.ack = c.ack
         /\ d.un = [seg |-> s, n |-> 0]
    BY <2>5, <2>9 DEF Conn
  <2> HIDE DEF d
  <2>11. Out(s, h, conns, toUs, peer, sent, nextId)
    <3>1. CASE call[t].op = "connect"
      <4>1. s.flags = {"SYN"}
        BY <2>8, <3>1
      <4> QED  BY <2>5, <2>6, <2>8, <3>1, <4>1 DEF Out, Acks
    <3>2. CASE call[t].op = "close"
      <4>1. s.flags = {"FIN", "ACK"}
        BY <2>8, <3>2
      <4> QED  BY <2>5, <2>6, <2>8, <3>2, <4>1 DEF Out
    <3> QED  BY <2>6, <3>1, <3>2
  <2>12. Flows(toUs, toUs') /\ IsList(toPeer) /\ IsList(out)
    BY <1>0, <1>1 DEF Flows, Shape
  <2>13. Later(h, conns, toUs, peer, sent, nextId, h, conns', toUs', peer, sent, nextId)
    BY <2>2, <2>3, <2>4, <2>10, <2>12, ConnLater
  <2>14. Out(s, h, conns', toUs', peer, sent, nextId)
    BY <2>8, <2>11, <2>13, OutStays
  <2>15. ConnTurn(c, d)
    BY <2>10 DEF ConnTurn
  <2>16. ConnOk(d, h, conns', toUs', peer, sent, taken, cut, nextId)
    <3>1. /\ d.st \in {"SynSent", "SynReceived"} => d.st = c.st /\ d.seq = c.seq
          /\ d.st \in {"Established", "CloseWait"} => d.seq = sent[c.key] + 1
          /\ Acks(h, peer, c.key, d.ack)
      BY <2>5, <2>10 DEF ConnOk
    <3>2. d.un # None => Out(d.un.seg, h, conns', toUs', peer, sent, nextId)
      BY <2>9, <2>10, <2>14
    <3> QED  BY <2>2, <2>3, <2>4, <2>12, <2>15, <3>1, <3>2, ConnTurns
  <2>17. \A u \in Tasks : call'[u] = call[u] \/ (IsCall(call'[u]) /\ CallOk(call'[u], h, conns', toUs', peer, sent, nextId))
    BY <1>2, CalmOk DEF CallsCalm
  <2>18. OneConn(c, d, h, conns, toUs, peer, sent, taken, cut, nextId, toPeer, out, call, conns', toUs', toPeer', out', call')
    BY <1>1, <1>2, <2>2, <2>3, <2>10, <2>12, <2>16, <2>17 DEF OneConn, CallsCalm
  <2>19. Inv(h, conns', toUs', peer, sent, taken, cut, nextId, toPeer', out', call', asked)
    BY <2>4, <2>18, ConnKeeps
  <2> QED  BY <1>1, <2>19 DEF StreamInv
<1> QED  BY <1>3, <1>4

\* A connection that has been used is past its handshake.
LEMMA PastKnown ==
  ASSUME NEW h, NEW C, NEW q, NEW P, NEW S, NEW T, NEW X, NEW n, NEW tp, NEW o, NEW cl, NEW ak,
         Inv(h, C, q, P, S, T, X, n, tp, o, cl, ak), NEW c \in C, c.key \in Clients,
         c.st \notin {"SynReceived", "Closed"} \/ c.buf # << >>
  PROVE  Past(q, P, c.key)
<1>1. Past(q, P, c.key) \/ Virgin(c.key, h, C, S, T)
  BY DEF Inv
<1> QED  BY <1>1 DEF Virgin

\* tcp_close() sends its FIN.
LEMMA CloseKeeps ==
  ASSUME StreamInv, NEW t \in Tasks, Close(t) \/ CloseFails(t)
  PROVE  StreamInv'
<1>0. Shape
  BY ShapeHolds
<1>1. UNCHANGED <<nextId, asked, toUs, out, peer, taken, sent, cut>>
  BY DEF Close, CloseFails
<1>2. PICK c \in conns :
        /\ c.id \in mine[t] /\ c.st \in {"Established", "CloseWait"}
        /\ Update(c, [c EXCEPT !.st = IF @ = "Established" THEN "FinWait1" ELSE "LastAck", !.seq = @ + 1])
        /\ \/ /\ Begin(t, [Idle EXCEPT !.op = "close", !.step = "record", !.x = c.id, !.seq = c.seq, !.ack = c.ack])
              /\ Transmit(Bare(c, {"FIN", "ACK"}))
           \/ call' = call /\ toPeer' = toPeer
  BY DEF Close, CloseFails
<1>3. PICK h : Inv(h, conns, toUs, peer, sent, taken, cut, nextId, toPeer, out, call, asked)
  BY DEF StreamInv
<1>4. /\ c \in Conn /\ c.key \in Keys /\ c.st \in States /\ c.seq \in Nat /\ c.ack \in Nat /\ c.id \in Nat /\ c.id < nextId
      /\ ConnOk(c, h, conns, toUs, peer, sent, taken, cut, nextId)
      /\ h[c.key] \in Nat /\ sent[c.key] \in Nat /\ (c.key \in Ids => c.key < nextId /\ c.key \in Nat)
      /\ c.un # None => c.un.seg \in Segment /\ Out(c.un.seg, h, conns, toUs, peer, sent, nextId)
  BY <1>3, ConnKnown
<1> DEFINE s == Seg(c.key, {"FIN", "ACK"}, c.seq, c.ack, 0)
           st == IF c.st = "Established" THEN "FinWait1" ELSE "LastAck"
           d == [c EXCEPT !.st = st, !.seq = c.seq + 1]
           e == [Idle EXCEPT !.op = "close", !.step = "record", !.x = c.id, !.seq = c.seq, !.ack = c.ack]
<1>5. /\ conns' = (conns \ {c}) \cup {d}
      /\ \/ toPeer' = Append(toPeer, s) /\ call' = [call EXCEPT ![t] = e]
         \/ toPeer' = toPeer /\ call' = call
  BY <1>2 DEF Update, Transmit, Bare, Begin
<1>6. /\ s \in Segment /\ s.k = "tcp" /\ s.key = c.key /\ s.flags = {"FIN", "ACK"}
      /\ s.seq = c.seq /\ s.ack = c.ack /\ s.data = 0
  <2>1. {"FIN", "ACK"} \in SUBSET {"SYN", "ACK", "FIN", "PSH", "RST"} /\ 0 \in Nat
    OBVIOUS
  <2> QED  BY <1>4, <2>1, SegIs
<1> HIDE DEF s
<1>7. st \in {"FinWait1", "LastAck"} /\ st \in Ended /\ st \in States
  BY DEF Ended, States
<1> HIDE DEF st
<1>8. d \in Conn /\ d.id = c.id /\ d.key = c.key /\ d.buf = c.buf /\ d.st = st /\ d.ack = c.ack /\ d.un = c.un
  <2> DEFINE m == c.seq + 1
  <2>1. m \in Nat
    BY <1>4
  <2> HIDE DEF m
  <2>2. d = [c EXCEPT !.st = st, !.seq = m]
    BY DEF m
  <2> HIDE DEF d
  <2> QED  BY <1>4, <1>7, <2>1, <2>2 DEF Conn
<1> HIDE DEF d
<1>9. IsCall(e) /\ e.op = "close" /\ e.step = "record" /\ e.x = c.id /\ e.seq = c.seq /\ e.ack = c.ack
  BY DEF Idle, IsCall
<1> HIDE DEF e
<1>10. Flows(toUs, toUs') /\ IsList(toPeer) /\ IsList(out)
  BY <1>0, <1>1 DEF Flows, Shape
<1>11. /\ Later(h, conns, toUs, peer, sent, nextId, h, conns', toUs', peer, sent, nextId)
       /\ \A j \in Keys : Past(toUs, peer, j) => Past(toUs', peer, j)
  BY <1>3, <1>5, <1>7, <1>8, <1>10, ConnLater
<1>12. /\ Unique(conns') /\ \A f \in conns' : f.key = c.key => f = d
       /\ \A f \in conns' : f.id = c.id => f = d
  <2>1. Unique(conns) /\ conns \in SUBSET Conn
    BY <1>3 DEF Inv, Types
  <2> QED  BY <1>5, <1>8, <2>1, UpdateIs
<1>13. Sealed(conns', toUs', peer, c.key) /\ c.seq = sent[c.key] + 1 /\ Acks(h, peer, c.key, c.ack)
  <2>1. c.key \in Clients => Past(toUs, peer, c.key)
    BY <1>2, <1>3, PastKnown
  <2>2. Sealed(conns', toUs', peer, c.key)
    BY <1>4, <1>7, <1>8, <1>11, <1>12, <2>1 DEF Sealed
  <2> QED  BY <1>2, <1>4, <2>2 DEF ConnOk
<1>14. Out(s, h, conns', toUs', peer, sent, nextId)
  BY <1>4, <1>6, <1>13 DEF Out
<1>15. ConnOk(d, h, conns', toUs', peer, sent, taken, cut, nextId)
  <2>1. ConnTurn(c, d)
    BY <1>7, <1>8 DEF ConnTurn
  <2>2. /\ d.st \notin {"SynSent", "SynReceived", "Established", "CloseWait"}
        /\ Acks(h, peer, c.key, d.ack)
    BY <1>7, <1>8, <1>13
  <2>3. d.un # None => Out(d.un.seg, h, conns', toUs', peer, sent, nextId)
    BY <1>4, <1>8, <1>11, OutStays
  <2> QED  BY <1>3, <1>5, <1>10, <2>1, <2>2, <2>3, ConnTurns
<1>16. CallOk(e, h, conns', toUs', peer, sent, nextId)
  BY <1>4, <1>8, <1>9, <1>12, <1>13 DEF CallOk
<1>17. /\ call' = [u \in Tasks |-> call'[u]]
       /\ \A u \in Tasks : call'[u] = call[u] \/ (IsCall(call'[u]) /\ CallOk(call'[u], h, conns', toUs', peer, sent, nextId))
  BY <1>0, <1>5, <1>9, <1>16 DEF Shape
<1>18. /\ IsList(toPeer') /\ IsList(out')
       /\ \A r \in OutSet(toPeer', out') : r \in OutSet(toPeer, out) \/ (r \in Segment /\ Out(r, h, conns', toUs', peer, sent, nextId))
  <2>1. CASE toPeer' = Append(toPeer, s)
    BY <1>1, <1>6, <1>10, <1>14, <2>1, OutAdd
  <2>2. CASE toPeer' = toPeer
    BY <1>1, <1>10, <2>2
  <2> QED  BY <1>5, <2>1, <2>2
<1>19. OneConn(c, d, h, conns, toUs, peer, sent, taken, cut, nextId, toPeer, out, call, conns', toUs', toPeer', out', call')
  <2>1. c.st \notin {"SynReceived", "Closed"}
    BY <1>2
  <2> QED  BY <1>5, <1>7, <1>8, <1>10, <1>15, <1>17, <1>18, <2>1 DEF OneConn
<1>20. Inv(h, conns', toUs', peer, sent, taken, cut, nextId, toPeer', out', call', asked)
  BY <1>3, <1>19, ConnKeeps
<1> QED  BY <1>1, <1>20 DEF StreamInv

\* A retransmission deadline passes.
LEMMA RetransmitKeeps ==
  ASSUME StreamInv, Retransmit
  PROVE  StreamInv'
<1>0. Shape
  BY ShapeHolds
<1>1. UNCHANGED <<nextId, asked, toUs, toPeer, call, peer, taken, sent, cut>>
  BY DEF Retransmit
<1>2. PICK c \in conns :
        /\ c.un # None
        /\ \/ Update(c, [c EXCEPT !.st = "Closed", !.un = None]) /\ UNCHANGED out
           \/ Update(c, [c EXCEPT !.un = Again(c.un)]) /\ out' = <<c.un.seg>>
  BY DEF Retransmit
<1>3. PICK h : Inv(h, conns, toUs, peer, sent, taken, cut, nextId, toPeer, out, call, asked)
  BY DEF StreamInv
<1>4. /\ c \in Conn /\ c.key \in Keys /\ c.un \in {None} \cup Kept
      /\ ConnOk(c, h, conns, toUs, peer, sent, taken, cut, nextId)
      /\ c.un.seg \in Segment /\ Out(c.un.seg, h, conns, toUs, peer, sent, nextId)
  BY <1>2, <1>3, ConnKnown
<1>5. Again(c.un) \in Kept /\ Again(c.un).seg = c.un.seg
  BY <1>2, <1>4 DEF Again, Kept
<1>6. PICK d : /\ d \in Conn /\ d.id = c.id /\ d.key = c.key /\ d.buf = c.buf /\ d.seq = c.seq /\ d.ack = c.ack
               /\ d.st = c.st \/ d.st = "Closed"
               /\ d.un # None => d.un.seg = c.un.seg
               /\ conns' = (conns \ {c}) \cup {d}
  <2>1. CASE Update(c, [c EXCEPT !.st = "Closed", !.un = None])
    <3> DEFINE d == [c EXCEPT !.st = "Closed", !.un = None]
    <3>1. d \in Conn /\ d.id = c.id /\ d.key = c.key /\ d.buf = c.buf /\ d.seq = c.seq /\ d.ack = c.ack /\ d.st = "Closed" /\ d.un = None
      BY <1>4 DEF Conn, States
    <3>2. conns' = (conns \ {c}) \cup {d}
      BY <2>1 DEF Update
    <3> HIDE DEF d
    <3> QED  BY <3>1, <3>2
  <2>2. CASE Update(c, [c EXCEPT !.un = Again(c.un)])
    <3> DEFINE d == [c EXCEPT !.un = Again(c.un)]
    <3>1. d \in Conn /\ d.id = c.id /\ d.key = c.key /\ d.buf = c.buf /\ d.seq = c.seq /\ d.ack = c.ack /\ d.st = c.st /\ d.un = Again(c.un)
      BY <1>4, <1>5 DEF Conn
    <3>2. conns' = (conns \ {c}) \cup {d}
      BY <2>2 DEF Update
    <3> HIDE DEF d
    <3> QED  BY <1>5, <3>1, <3>2
  <2> QED  BY <1>2, <2>1, <2>2
<1>7. Flows(toUs, toUs') /\ IsList(toPeer) /\ IsList(out)
  BY <1>0, <1>1 DEF Flows, Shape
<1>8. c.st \in Ended => d.st \in Ended
  BY <1>6 DEF Ended
<1>9. Later(h, conns, toUs, peer, sent, nextId, h, conns', toUs', peer, sent, nextId)
  BY <1>3, <1>6, <1>7, <1>8, ConnLater
<1>10. Out(c.un.seg, h, conns', toUs', peer, sent, nextId)
  BY <1>4, <1>9, OutStays
<1>11. ConnOk(d, h, conns', toUs', peer, sent, taken, cut, nextId)
  <2>1. ConnTurn(c, d)
    BY <1>6, <1>8 DEF ConnTurn
  <2>2. /\ d.st \in {"SynSent", "SynReceived"} => d.st = c.st /\ d.seq = c.seq
        /\ d.st \in {"Established", "CloseWait"} => d.seq = sent[c.key] + 1
        /\ Acks(h, peer, c.key, d.ack)
    BY <1>4, <1>6 DEF ConnOk
  <2>3. d.un # None => Out(d.un.seg, h, conns', toUs', peer, sent, nextId)
    BY <1>6, <1>10
  <2> QED  BY <1>3, <1>6, <1>7, <2>1, <2>2, <2>3, ConnTurns
<1>12. /\ IsList(toPeer') /\ IsList(out')
       /\ \A r \in OutSet(toPeer', out') : r \in OutSet(toPeer, out) \/ (r \in Segment /\ Out(r, h, conns', toUs', peer, sent, nextId))
  <2>1. CASE UNCHANGED out
    BY <1>1, <1>7, <2>1
  <2>2. CASE out' = <<c.un.seg>>
    BY <1>1, <1>4, <1>7, <1>10, <2>2, OutAdd
  <2> QED  BY <1>2, <2>1, <2>2
<1>13. OneConn(c, d, h, conns, toUs, peer, sent, taken, cut, nextId, toPeer, out, call, conns', toUs', toPeer', out', call')
  <2>1. call' = [u \in Tasks |-> call'[u]] /\ \A u \in Tasks : call'[u] = call[u]
    BY <1>0, <1>1 DEF Shape
  <2> QED  BY <1>6, <1>7, <1>8, <1>11, <1>12, <2>1 DEF OneConn
<1>14. Inv(h, conns', toUs', peer, sent, taken, cut, nextId, toPeer', out', call', asked)
  BY <1>3, <1>13, ConnKeeps
<1> QED  BY <1>1, <1>14 DEF StreamInv

\* An empty stream.
LEMMA EmptyStream ==
  ASSUME NEW s, s = << >>
  PROVE  s \o << >> = << >> /\ Steps(s \o << >>) /\ Top(s \o << >>) = 0
<1>1. s \o << >> = << >>
  OBVIOUS
<1>2. Len(<< >>) = 0
  OBVIOUS
<1> QED  BY <1>1, <1>2 DEF Steps, Top

\* A new connection.
LEMMA NewIs ==
  ASSUME NEW i \in Nat, NEW k \in Keys, NEW st \in States, NEW a \in Nat, NEW c, c = NewConn(i, k, st, a)
  PROVE  /\ c \in Conn /\ c.id = i /\ c.key = k /\ c.st = st /\ c.seq = 0 /\ c.ack = a
         /\ c.buf = << >> /\ c.un = None
<1>1. << >> \in Units
  BY DEF Units
<1> QED  BY <1>1 DEF NewConn, Conn

\* A connection joins the table under a new id and a key that nobody has.
LEMMA JoinIs ==
  ASSUME NEW h, NEW C, NEW q, NEW P, NEW S, NEW T, NEW X, NEW n, NEW tp, NEW o, NEW cl, NEW ak,
         Inv(h, C, q, P, S, T, X, n, tp, o, cl, ak), NEW q2, Flows(q, q2),
         NEW c \in Conn, c.id = n, \A d \in C : d.key # c.key,
         c.key \in Ids => c.key >= n, c.key \in Clients => ~Past(q, P, c.key),
         NEW C2, C2 = C \cup {c}
  PROVE  /\ Later(h, C, q, P, S, n, h, C2, q2, P, S, n + 1) /\ Unique(C2)
         /\ \A e \in C2 : e.id < n => e \in C
         /\ \A e \in C2 : e.id = n => e = c
         /\ \A e \in C2 : e.key = c.key => e = c
         /\ Wire(q2, h, P, n + 1) /\ \A j \in Keys : Past(q, P, j) => Past(q2, P, j)
<1>0. /\ h \in [Keys -> Nat] /\ C \subseteq Conn /\ P \in [Keys -> Remote] /\ Unique(C)
      /\ S \in [Keys -> Nat] /\ n \in Nat /\ n + 1 \in Nat /\ n <= n + 1
  BY DEF Inv, Types
<1>1. Goes(P, P)
  <2>1. \A k \in Keys : P[k].snd \in Nat
    BY <1>0 DEF Remote
  <2> QED  BY <2>1 DEF Goes
<1>2. Wire(q2, h, P, n + 1) /\ \A k \in Keys : Past(q, P, k) => Past(q2, P, k)
  BY <1>0, <1>1, WireStays DEF Inv
<1>3. c.key \in Keys /\ (c.key \in Ids => c.key \in Nat) /\ (c.key \in Ids \/ c.key \in Clients)
  BY DEF Conn, Ids, Keys
<1>4. ASSUME NEW k \in Keys, k \in Ids => k < n, Sealed(C, q, P, k) PROVE Sealed(C2, q2, P, k)
  <2>1. k # c.key
    BY <1>0, <1>3, <1>4 DEF Sealed
  <2> QED  BY <1>2, <1>4, <2>1 DEF Sealed
<1>5. \A k \in Keys : h[k] <= h[k] /\ S[k] <= S[k]
  BY <1>0
<1>6. Later(h, C, q, P, S, n, h, C2, q2, P, S, n + 1)
  BY <1>0, <1>4, <1>5 DEF Later
<1>7. \A d \in C : d.id < n /\ d.id \in Nat /\ d.id # n
  BY ConnKnown
<1>8. Unique(C2)
  BY <1>0, <1>7 DEF Unique
<1> QED  BY <1>0, <1>2, <1>6, <1>7, <1>8

\* tcp_connect() sends SYN.
LEMMA ConnectSynKeeps ==
  ASSUME StreamInv, NEW t \in Tasks, ConnectSyn(t) \/ ConnectFails(t)
  PROVE  StreamInv'
<1>0. Shape /\ nextId \in Nat
  BY ShapeHolds DEF Shape
<1> DEFINE c == NewConn(nextId, nextId, "SynSent", 0)
           s == Seg(nextId, {"SYN"}, 0, 0, 0)
<1>1. /\ UNCHANGED <<asked, toUs, out, peer, taken, sent, cut>> /\ nextId' = nextId + 1 /\ nextId \in Ids
      /\ call[t].op = "connect" /\ conns' = conns \cup {c}
      /\ Transmit(Bare(c, {"SYN"})) \/ toPeer' = toPeer
      /\ call' = [call EXCEPT ![t].step = "record", ![t].x = nextId] \/ call' = [call EXCEPT ![t] = Idle]
  BY DEF ConnectSyn, ConnectFails, Return, ReturnWith
<1>2. PICK h : Inv(h, conns, toUs, peer, sent, taken, cut, nextId, toPeer, out, call, asked)
  BY DEF StreamInv
<1>3. nextId \in Keys /\ nextId \notin Clients
  BY <1>1, TcpAssumption DEF Keys
<1>4. /\ c \in Conn /\ c.id = nextId /\ c.key = nextId /\ c.st = "SynSent" /\ c.seq = 0 /\ c.ack = 0
      /\ c.buf = << >> /\ c.un = None
  <2>1. "SynSent" \in States /\ 0 \in Nat
    BY DEF States
  <2> QED  BY <1>0, <1>3, <2>1, NewIs
<1>5. /\ s \in Segment /\ s.k = "tcp" /\ s.key = nextId /\ s.flags = {"SYN"}
      /\ s.seq = 0 /\ s.ack = 0 /\ s.data = 0
  <2>1. {"SYN"} \in SUBSET {"SYN", "ACK", "FIN", "PSH", "RST"} /\ 0 \in Nat
    OBVIOUS
  <2> QED  BY <1>3, <2>1, SegIs
<1>6. toPeer' = Append(toPeer, s) \/ toPeer' = toPeer
  BY <1>1, <1>4 DEF Transmit, Bare
<1> HIDE DEF c, s
<1>7. /\ sent[nextId] = 0 /\ taken[nextId] = << >> /\ h[nextId] = 0
  BY <1>0, <1>1, <1>2 DEF Inv, Unborn
<1>8. \A d \in conns : d.key # c.key
  BY <1>0, <1>1, <1>2, <1>4, ConnKnown
<1>9. Flows(toUs, toUs') /\ IsList(toPeer) /\ IsList(out)
  BY <1>0, <1>1 DEF Flows, Shape
<1>10. /\ Later(h, conns, toUs, peer, sent, nextId, h, conns', toUs', peer, sent, nextId + 1) /\ Unique(conns')
       /\ \A e \in conns' : e.id < nextId => e \in conns
       /\ \A e \in conns' : e.id = nextId => e = c
       /\ \A e \in conns' : e.key = c.key => e = c
       /\ Wire(toUs', h, peer, nextId + 1) /\ \A j \in Keys : Past(toUs, peer, j) => Past(toUs', peer, j)
  <2>1. c.key \in Ids => c.key >= nextId
    BY <1>0, <1>4
  <2>2. c.key \in Clients => ~Past(toUs, peer, c.key)
    BY <1>3, <1>4
  <2>3. c \in Conn /\ c.id = nextId /\ conns' = conns \cup {c}
    BY <1>1, <1>4
  <2> QED  BY <1>2, <1>8, <1>9, <2>1, <2>2, <2>3, JoinIs
<1>11. nextId < nextId + 1 /\ 0 <= 0 + 1 /\ nextId + 1 \in Nat
  BY <1>0
<1>12. ConnOk(c, h, conns', toUs', peer, sent, taken, cut, nextId + 1)
  BY <1>1, <1>3, <1>4, <1>7, <1>11, EmptyStream DEF ConnOk, Acks
<1>13. Out(s, h, conns', toUs', peer, sent, nextId + 1)
  BY <1>1, <1>5, <1>7, <1>11 DEF Out, Acks
<1>14. PeerOk(nextId, peer[nextId], h, conns', toUs', peer, sent, nextId + 1)
  <2>1. peer[nextId] \in Remote /\ PeerOk(nextId, peer[nextId], h, conns, toUs, peer, sent, nextId)
    BY <1>2, <1>3 DEF Inv, Types
  <2> QED  BY <1>3, <1>10, <2>1, PeerStays
<1>15. /\ call' = [u \in Tasks |-> call'[u]]
       /\ \A u \in Tasks : call'[u] = call[u] \/ (IsCall(call'[u]) /\ CallOk(call'[u], h, conns', toUs', peer, sent, nextId + 1))
  <2> DEFINE e == [call[t] EXCEPT !.step = "record", !.x = nextId]
  <2>1. call' = [call EXCEPT ![t] = e] \/ call' = [call EXCEPT ![t] = Idle]
    BY <1>0, <1>1 DEF Shape
  <2>2. IsCall(e) /\ e.op = "connect" /\ e.step = "record" /\ e.x = nextId /\ e.seq = 0 /\ e.ack = 0
    BY <1>0, <1>1 DEF Shape, IsCall
  <2> HIDE DEF e
  <2>3. CallOk(e, h, conns', toUs', peer, sent, nextId + 1)
    BY <1>0, <1>1, <1>4, <1>10, <1>11, <2>2 DEF CallOk
  <2>4. IsCall(Idle) /\ CallOk(Idle, h, conns', toUs', peer, sent, nextId + 1)
    BY CallIdle DEF Calm, CallOk
  <2>5. CASE call' = [call EXCEPT ![t] = e]
    BY <1>0, <2>2, <2>3, <2>5 DEF Shape
  <2>6. CASE call' = [call EXCEPT ![t] = Idle]
    BY <1>0, <2>4, <2>6 DEF Shape
  <2> QED  BY <2>1, <2>5, <2>6
<1>16. /\ IsList(toPeer') /\ IsList(out')
       /\ \A r \in OutSet(toPeer', out') : r \in OutSet(toPeer, out) \/ (r \in Segment /\ Out(r, h, conns', toUs', peer, sent, nextId + 1))
  <2>1. CASE toPeer' = Append(toPeer, s)
    BY <1>1, <1>5, <1>9, <1>13, <2>1, OutAdd
  <2>2. CASE toPeer' = toPeer
    BY <1>1, <1>9, <2>2
  <2> QED  BY <1>6, <2>1, <2>2
<1>17. peer \in [Keys -> Remote] /\ taken \in [Keys -> Units]
  BY <1>2 DEF Inv, Types
<1>18. OneKey(nextId, h, conns, toUs, peer, sent, taken, cut, nextId, toPeer, out, call,
              h, conns', toUs', peer, sent, taken, cut, nextId + 1, toPeer', out', call')
  <2>1. /\ \A e \in conns' : e.key # nextId => e \in conns
        /\ \A e \in conns' : e.key = nextId => e \in Conn /\ ConnOk(e, h, conns', toUs', peer, sent, taken, cut, nextId + 1)
        /\ \A e \in conns' : e.id < nextId => \E f \in conns : f.id = e.id /\ f.key = e.key
    BY <1>1, <1>4, <1>10, <1>12
  <2>2. ~(nextId >= nextId + 1)
    BY <1>0
  <2> QED  BY <1>3, <1>10, <1>14, <1>15, <1>16, <1>17, <2>1, <2>2 DEF OneKey
<1>19. Inv(h, conns', toUs', peer, sent, taken, cut, nextId + 1, toPeer', out', call', asked)
  BY <1>2, <1>18, KeyKeeps
<1> QED  BY <1>1, <1>19 DEF StreamInv

\* tcp_send(): a unit more on an established connection, whose stream is not sealed.
LEMMA SendKeeps ==
  ASSUME StreamInv, NEW t \in Tasks, Send(t)
  PROVE  StreamInv'
<1>0. Shape
  BY ShapeHolds
<1>1. UNCHANGED <<nextId, asked, toUs, out, call, peer, taken, cut>>
  BY DEF Send, dgVars
<1>2. PICK c \in conns :
        /\ c.st = "Established"
        /\ LET s == Seg(c.key, {"ACK", "PSH"}, c.seq, c.ack, sent[c.key] + 1)
               d == [c EXCEPT !.seq = Advance(@, 1)]
           IN  \/ Transmit(s) /\ Update(c, [d EXCEPT !.un = Unacked(s)])
               \/ Update(c, d) /\ UNCHANGED toPeer
        /\ sent' = [sent EXCEPT ![c.key] = @ + 1]
  BY DEF Send
<1>3. PICK h : Inv(h, conns, toUs, peer, sent, taken, cut, nextId, toPeer, out, call, asked)
  BY DEF StreamInv
<1> DEFINE k == c.key
<1>4. /\ c \in Conn /\ k \in Keys /\ c.seq \in Nat /\ c.ack \in Nat /\ c.id \in Nat /\ c.id < nextId
      /\ ConnOk(c, h, conns, toUs, peer, sent, taken, cut, nextId) /\ nextId \in Nat
      /\ h[k] \in Nat /\ sent[k] \in Nat /\ (k \in Ids => k < nextId /\ k \in Nat)
  BY <1>3, ConnKnown
<1>5. c.seq = sent[k] + 1 /\ Acks(h, peer, k, c.ack)
  BY <1>2, <1>4 DEF ConnOk
<1> DEFINE u == sent[k] + 1
           s == Seg(k, {"ACK", "PSH"}, c.seq, c.ack, u)
<1>6. /\ \/ /\ conns' = (conns \ {c}) \cup {[[c EXCEPT !.seq = c.seq + 1] EXCEPT !.un = [seg |-> s, n |-> 0]]}
            /\ toPeer' = Append(toPeer, s)
         \/ conns' = (conns \ {c}) \cup {[c EXCEPT !.seq = c.seq + 1]} /\ toPeer' = toPeer
      /\ sent' = [sent EXCEPT ![k] = u]
  BY <1>2 DEF Update, Transmit, Advance, Unacked
<1>7. u \in Nat /\ u # 0 /\ c.seq + 1 \in Nat /\ c.seq + 1 = u + 1 /\ sent[k] <= u
  BY <1>4, <1>5
<1>8. /\ s \in Segment /\ s.k = "tcp" /\ s.key = k /\ s.flags = {"ACK", "PSH"}
      /\ s.seq = c.seq /\ s.ack = c.ack /\ s.data = u
  <2>1. {"ACK", "PSH"} \in SUBSET {"SYN", "ACK", "FIN", "PSH", "RST"}
    OBVIOUS
  <2> HIDE DEF u
  <2> QED  BY <1>4, <1>7, <2>1, SegIs
<1> HIDE DEF s
<1>9. [seg |-> s, n |-> 0] \in Kept /\ [seg |-> s, n |-> 0].seg = s
  BY <1>8 DEF Kept
<1>10. PICK d \in Conn :
         /\ d.id = c.id /\ d.key = k /\ d.buf = c.buf /\ d.st = c.st /\ d.seq = c.seq + 1 /\ d.ack = c.ack
         /\ d.un = [seg |-> s, n |-> 0] \/ d.un = c.un
         /\ conns' = (conns \ {c}) \cup {d}
  <2> DEFINE m == c.seq + 1
             d1 == [c EXCEPT !.seq = m]
             d2 == [d1 EXCEPT !.un = [seg |-> s, n |-> 0]]
  <2>1. m \in Nat
    BY <1>7
  <2>2. \/ conns' = (conns \ {c}) \cup {d1}
        \/ conns' = (conns \ {c}) \cup {d2}
    BY <1>6
  <2> HIDE DEF m
  <2>3. d1 \in Conn /\ d1.id = c.id /\ d1.key = c.key /\ d1.buf = c.buf /\ d1.st = c.st /\ d1.seq = m /\ d1.ack = c.ack
       /\ d1.un = c.un
    BY <1>4, <2>1 DEF Conn
  <2> HIDE DEF d1
  <2>4. d2 \in Conn /\ d2.id = c.id /\ d2.key = c.key /\ d2.buf = c.buf /\ d2.st = c.st /\ d2.seq = m /\ d2.ack = c.ack
       /\ d2.un = [seg |-> s, n |-> 0]
    BY <1>9, <2>3 DEF Conn
  <2> HIDE DEF d2
  <2> QED  BY <2>2, <2>3, <2>4 DEF m
<1>11. /\ h \in [Keys -> Nat] /\ sent \in [Keys -> Nat] /\ peer \in [Keys -> Remote] /\ taken \in [Keys -> Units]
       /\ conns \subseteq Conn /\ Unique(conns) /\ Wire(toUs, h, peer, nextId)
  BY <1>3 DEF Inv, Types
<1>12. sent' \in [Keys -> Nat] /\ sent'[k] = u /\ \A j \in Keys : j # k => sent'[j] = sent[j]
  BY <1>4, <1>6, <1>7, <1>11
<1> HIDE DEF u
<1>13. /\ Unique(conns')
       /\ \A e \in conns' : e.key # k => e \in conns
       /\ \A e \in conns' : e.key = k => e = d
       /\ \A e \in conns' : \E f \in conns : f.id = e.id /\ f.key = e.key
  <2>1. conns \in SUBSET Conn /\ Unique(conns)
    BY <1>11
  <2>2. c \in conns /\ d.id = c.id /\ d.key = c.key /\ conns' = (conns \ {c}) \cup {d}
    BY <1>6, <1>10
  <2> QED  BY <2>1, <2>2, UpdateIs
<1>14. Later(h, conns, toUs, peer, sent, nextId, h, conns', toUs, peer, sent', nextId)
  <2>1. ASSUME NEW j \in Keys, Sealed(conns, toUs, peer, j) PROVE Sealed(conns', toUs, peer, j) /\ j # k
    BY <1>2, <1>13, <2>1 DEF Sealed, Ended
  <2>2. \A j \in Keys : h[j] <= h[j] /\ sent[j] <= sent'[j]
    <3>1. \A j \in Keys : h[j] <= h[j] /\ sent[j] <= sent[j]
      BY <1>11
    <3> QED  BY <1>7, <1>12, <3>1
  <2>3. nextId <= nextId
    BY <1>4
  <2>4. \A j \in Keys : Sealed(conns, toUs, peer, j) => Sealed(conns', toUs, peer, j) /\ sent'[j] = sent[j]
    BY <1>12, <2>1
  <2> HIDE DEF k
  <2> QED  BY <1>4, <1>11, <1>12, <2>2, <2>3, <2>4 DEF Later
<1>15. Out(s, h, conns', toUs, peer, sent', nextId)
  <2>1. u <= u /\ s.seq = s.data
    BY <1>5, <1>7, <1>8 DEF u
  <2> QED  BY <1>4, <1>5, <1>8, <1>12, <2>1 DEF Out
<1>16. ConnOk(d, h, conns', toUs, peer, sent', taken, cut, nextId)
  <2>1. d.st = "Established" /\ d.seq = sent'[k] + 1 /\ d.id < nextId /\ (k \in Ids => k = d.id)
    BY <1>2, <1>4, <1>7, <1>10, <1>12 DEF ConnOk
  <2>2. d.un # None => Out(d.un.seg, h, conns', toUs, peer, sent', nextId)
    <3>1. CASE d.un = [seg |-> s, n |-> 0]
      BY <1>9, <1>15, <3>1
    <3>2. CASE d.un = c.un
      BY <1>4, <1>14, <3>2, OutStays DEF ConnOk, Conn, Kept
    <3> QED  BY <1>10, <3>1, <3>2
  <2>3. k \notin cut /\ ~peer[k].ahead => Steps(taken[k] \o d.buf) /\ Top(taken[k] \o d.buf) = h[k]
    BY <1>4, <1>10 DEF ConnOk
  <2> QED  BY <1>5, <1>10, <2>1, <2>2, <2>3 DEF ConnOk
<1>17. PeerOk(k, peer[k], h, conns', toUs, peer, sent', nextId)
  <2>1. peer[k] \in Remote /\ PeerOk(k, peer[k], h, conns, toUs, peer, sent, nextId)
    BY <1>3, <1>4, <1>11 DEF Inv
  <2> QED  BY <1>4, <1>14, <2>1, PeerStays
<1>18. k \in Clients => Past(toUs, peer, k)
  BY <1>2, <1>3, PastKnown
<1>19. /\ call = [v \in Tasks |-> call[v]] /\ IsList(toPeer) /\ IsList(out)
  BY <1>0 DEF Shape
<1>20. /\ IsList(toPeer')
       /\ \A r \in OutSet(toPeer', out) : r \in OutSet(toPeer, out) \/ (r \in Segment /\ Out(r, h, conns', toUs, peer, sent', nextId))
  <2>1. CASE toPeer' = Append(toPeer, s)
    BY <1>8, <1>15, <1>19, <2>1, OutAdd
  <2>2. CASE toPeer' = toPeer
    BY <1>19, <2>2
  <2> QED  BY <1>6, <2>1, <2>2
<1>21. ~(k \in Ids /\ k >= nextId)
  BY <1>4
<1>22. OneKey(k, h, conns, toUs, peer, sent, taken, cut, nextId, toPeer, out, call,
              h, conns', toUs, peer, sent', taken, cut, nextId, toPeer', out, call)
  BY <1>4, <1>10, <1>11, <1>12, <1>13, <1>14, <1>16, <1>17, <1>18, <1>19, <1>20, <1>21 DEF OneKey
<1>23. Inv(h, conns', toUs, peer, sent', taken, cut, nextId, toPeer', out, call, asked)
  BY <1>3, <1>22, KeyKeeps
<1> QED  BY <1>1, <1>23 DEF StreamInv

\* What a receiver takes.
LEMMA FittingIs ==
  ASSUME NEW b \in Units
  PROVE  Fitting(b) \in Units /\ Len(b) \in Nat /\ (~(Len(b) > BufLen) => Fitting(b) = b)
<1>1. Len(b) \in Nat /\ BufLen \in Nat
  BY TcpAssumption DEF Units
<1>2. CASE Len(b) <= BufLen
  BY <1>2 DEF Fitting
<1>3. CASE ~(Len(b) <= BufLen)
  <2>1. \A i \in 1..BufLen : b[i] \in Nat
    BY <1>1, <1>3 DEF Units
  <2>2. SubSeq(b, 1, BufLen) \in Units
    BY <1>1, <1>3, <2>1 DEF Units
  <2> QED  BY <1>1, <1>3, <2>2 DEF Fitting
<1> QED  BY <1>1, <1>2, <1>3

\* tcp_recv() takes what has come in.
LEMMA RecvWaitKeeps ==
  ASSUME StreamInv, NEW t \in Tasks, RecvWait(t)
  PROVE  StreamInv'
<1>0. Shape
  BY ShapeHolds
<1>1. UNCHANGED <<nextId, asked, toUs, out, toPeer, peer, sent>>
  BY DEF RecvWait
<1>2. CallsCalm
  BY <1>0, CallSteps DEF RecvWait
<1>3. CASE UNCHANGED <<conns, taken, cut>>
  <2>1. Quiet
    BY <1>0, <1>1, <1>2, <1>3, StillFine DEF Quiet
  <2> QED  BY <2>1, QuietStep
<1>4. CASE ~UNCHANGED <<conns, taken, cut>>
  <2>1. PICK c \in ById(call[t].x) :
          /\ Update(c, [c EXCEPT !.buf = <<>>])
          /\ taken' = [taken EXCEPT ![c.key] = @ \o Fitting(c.buf)]
          /\ cut' = IF Len(c.buf) > BufLen THEN cut \union {c.key} ELSE cut
          /\ \E e \in ById(call[t].x) : e.buf # << >>
    BY <1>4 DEF RecvWait
  <2>2. PICK h : Inv(h, conns, toUs, peer, sent, taken, cut, nextId, toPeer, out, call, asked)
    BY DEF StreamInv
  <2>3. /\ h \in [Keys -> Nat] /\ sent \in [Keys -> Nat] /\ peer \in [Keys -> Remote] /\ taken \in [Keys -> Units]
        /\ conns \in SUBSET Conn /\ Unique(conns) /\ Wire(toUs, h, peer, nextId)
    BY <2>2 DEF Inv, Types
  <2>4. c \in conns /\ c.buf # << >>
    BY <2>1, <2>3 DEF ById, Unique
  <2> DEFINE k == c.key
             d == [c EXCEPT !.buf = << >>]
  <2>5. /\ c \in Conn /\ k \in Keys /\ c.id \in Nat /\ c.id < nextId /\ c.buf \in Units
        /\ ConnOk(c, h, conns, toUs, peer, sent, taken, cut, nextId) /\ nextId \in Nat
        /\ h[k] \in Nat /\ taken[k] \in Units /\ (k \in Ids => k < nextId /\ k \in Nat)
        /\ c.un # None => c.un.seg \in Segment /\ Out(c.un.seg, h, conns, toUs, peer, sent, nextId)
    BY <2>2, <2>4, ConnKnown
  <2>6. conns' = (conns \ {c}) \cup {d}
    BY <2>1 DEF Update
  <2>7. << >> \in Units
    BY DEF Units
  <2>8. d \in Conn /\ d.id = c.id /\ d.key = k /\ d.buf = << >> /\ d.st = c.st /\ d.seq = c.seq /\ d.ack = c.ack /\ d.un = c.un
    BY <2>5, <2>7 DEF Conn
  <2> HIDE DEF d
  <2> DEFINE y == taken[k] \o Fitting(c.buf)
  <2>9. y \in Units /\ (~(Len(c.buf) > BufLen) => y \o << >> = taken[k] \o c.buf)
    <3>1. Fitting(c.buf) \in Units /\ (~(Len(c.buf) > BufLen) => Fitting(c.buf) = c.buf)
      BY <2>5, FittingIs
    <3>2. y \in Units
      BY <2>5, <3>1 DEF Units
    <3>3. ~(Len(c.buf) > BufLen) => y = taken[k] \o c.buf
      BY <3>1
    <3> HIDE DEF y
    <3>4. y \o << >> = y
      BY <3>2 DEF Units
    <3> QED  BY <3>2, <3>3, <3>4
  <2>10. /\ taken' \in [Keys -> Units] /\ taken'[k] = y /\ \A j \in Keys : j # k => taken'[j] = taken[j]
    <3>1. taken' = [taken EXCEPT ![k] = y]
      BY <2>1
    <3> HIDE DEF y
    <3> QED  BY <2>3, <2>5, <2>9, <3>1
  <2> HIDE DEF y
  <2>11. cut \subseteq cut' /\ (k \notin cut' => k \notin cut /\ ~(Len(c.buf) > BufLen))
    BY <2>1
  <2>12. Flows(toUs, toUs) /\ (c.st \in Ended => d.st \in Ended)
    BY <2>8 DEF Flows
  <2>13. Later(h, conns, toUs, peer, sent, nextId, h, conns', toUs, peer, sent, nextId)
    BY <2>2, <2>4, <2>6, <2>8, <2>12, ConnLater
  <2>14. /\ Unique(conns')
         /\ \A e \in conns' : e.key # k => e \in conns
         /\ \A e \in conns' : e.key = k => e = d
         /\ \A e \in conns' : \E f \in conns : f.id = e.id /\ f.key = e.key
    BY <2>3, <2>4, <2>6, <2>8, UpdateIs
  <2>15. ConnOk(d, h, conns', toUs, peer, sent, taken', cut', nextId)
    <3>1. d.un # None => Out(d.un.seg, h, conns', toUs, peer, sent, nextId)
      BY <2>5, <2>8, <2>13, OutStays
    <3>2. k \notin cut' /\ ~peer[k].ahead => Steps(taken'[k] \o d.buf) /\ Top(taken'[k] \o d.buf) = h[k]
      BY <2>5, <2>8, <2>9, <2>10, <2>11 DEF ConnOk
    <3> QED  BY <2>5, <2>8, <3>1, <3>2 DEF ConnOk
  <2>16. PeerOk(k, peer[k], h, conns', toUs, peer, sent, nextId)
    <3>1. peer[k] \in Remote /\ PeerOk(k, peer[k], h, conns, toUs, peer, sent, nextId)
      BY <2>2, <2>3, <2>5 DEF Inv
    <3> QED  BY <2>5, <2>13, <3>1, PeerStays
  <2>17. k \in Clients => Past(toUs, peer, k)
    BY <2>2, <2>4, PastKnown
  <2>18. /\ call' = [u \in Tasks |-> call'[u]]
         /\ \A u \in Tasks : call'[u] = call[u] \/ (IsCall(call'[u]) /\ CallOk(call'[u], h, conns', toUs, peer, sent, nextId))
    BY <1>2, CalmOk DEF CallsCalm
  <2>19. IsList(toPeer) /\ IsList(out)
    BY <1>0 DEF Shape
  <2>20. ~(k \in Ids /\ k >= nextId)
    BY <2>5
  <2>21. OneKey(k, h, conns, toUs, peer, sent, taken, cut, nextId, toPeer, out, call,
                h, conns', toUs, peer, sent, taken', cut', nextId, toPeer, out, call')
    BY <2>3, <2>5, <2>8, <2>10, <2>11, <2>13, <2>14, <2>15, <2>16, <2>17, <2>18, <2>19, <2>20 DEF OneKey
  <2>22. Inv(h, conns', toUs, peer, sent, taken', cut', nextId, toPeer, out, call', asked)
    BY <2>2, <2>21, KeyKeeps
  <2> QED  BY <1>1, <2>22 DEF StreamInv
<1> QED  BY <1>3, <1>4

-----------------------------------------------------------------------------
(* handle_tcp().                                                           *)

\* What a segment may do to a connection, unless it brings data.
StepTurn(c, s, d) ==
  /\ ConnTurn(c, d) /\ d.un \in {None, c.un}
  /\ d.ack = c.ack \/ (d.ack = s.seq + 1 /\ ("FIN" \in s.flags \/ "SYN" \in s.flags))
  /\ d.st \in {"SynSent", "SynReceived"} => d.st = c.st /\ d.seq = c.seq
  /\ d.st \in {"Established", "CloseWait"} =>
       \/ c.st \in {"Established", "CloseWait"} /\ d.seq = c.seq
       \/ c.st \in {"SynSent", "SynReceived"} /\ d.seq = c.seq + 1
  /\ c.st = "SynReceived" => d.st = c.st \/ "ACK" \in s.flags
  /\ c.st = "Closed" => d.st = "Closed"
StepReply(d, reply) == reply = << >> \/ reply = <<Bare(d, {"ACK"})>>

\* Every step of handle_tcp() that takes no data turns the connection like that.
LEMMA StepTurns ==
  ASSUME NEW c \in Conn, NEW s \in Segment,
         c.st # "Established" \/ "FIN" \in s.flags \/ s.data = 0
  PROVE  StepTurn(c, s, Step(c, s).conn) /\ StepReply(Step(c, s).conn, Step(c, s).reply)
<1>1. /\ c.st \in States /\ c.seq \in Nat /\ c.ack \in Nat /\ c.un \in {None} \cup Kept
      /\ s.seq \in Nat /\ s.ack \in Nat /\ s.seq + 1 \in Nat
  BY DEF Conn, Segment
<1> DEFINE m == s.seq + 1
<1>2. ASSUME NEW d \in Conn, d.id = c.id, d.key = c.key, d.buf = c.buf, c.st \in Ended => d.st \in Ended
      PROVE  ConnTurn(c, d)
  BY <1>2 DEF ConnTurn
<1>3. StepTurn(c, s, c)
  BY <1>1, <1>2 DEF StepTurn
<1>4. CASE c.st = "SynSent"
  <2> DEFINE d == [c EXCEPT !.seq = s.ack, !.ack = m, !.st = "Established", !.un = None]
             e == [c EXCEPT !.st = "Closed"]
  <2>1. Step(c, s) = SynSentStep(c, s)
    BY <1>4 DEF Step
  <2>2. CASE {"SYN", "ACK"} \subseteq s.flags /\ s.ack = c.seq + 1
    <3>1. Step(c, s).conn = d /\ Step(c, s).reply = <<Bare(d, {"ACK"})>>
      BY <2>1, <2>2 DEF SynSentStep
    <3>2. m \in Nat /\ "Established" \in States /\ "SYN" \in s.flags
      BY <1>1, <2>2 DEF States
    <3> HIDE DEF m
    <3>3. d \in Conn /\ d.id = c.id /\ d.key = c.key /\ d.buf = c.buf /\ d.seq = s.ack /\ d.ack = m /\ d.st = "Established" /\ d.un = None
      BY <1>1, <3>2 DEF Conn
    <3> HIDE DEF d
    <3>4. ConnTurn(c, d)
      BY <1>2, <1>4, <3>3 DEF Ended
    <3>5. StepTurn(c, s, d)
      BY <1>4, <2>2, <3>2, <3>3, <3>4 DEF StepTurn, m
    <3> QED  BY <3>1, <3>5 DEF StepReply
  <2>3. CASE ~({"SYN", "ACK"} \subseteq s.flags) /\ "RST" \in s.flags
    <3>1. Step(c, s).conn = e /\ Step(c, s).reply = << >>
      BY <2>1, <2>3 DEF SynSentStep
    <3>2. e \in Conn /\ e.id = c.id /\ e.key = c.key /\ e.buf = c.buf /\ e.ack = c.ack /\ e.st = "Closed" /\ e.un = c.un
      BY DEF Conn, States
    <3> HIDE DEF e
    <3>3. StepTurn(c, s, e)
      BY <1>2, <1>4, <3>2 DEF StepTurn, Ended
    <3> QED  BY <3>1, <3>3 DEF StepReply
  <2>4. CASE Step(c, s) = [conn |-> c, reply |-> << >>]
    BY <1>3, <2>4 DEF StepReply
  <2> QED  BY <2>1, <2>2, <2>3, <2>4 DEF SynSentStep
<1>5. CASE c.st = "SynReceived"
  <2> DEFINE d == [c EXCEPT !.seq = s.ack, !.st = "Established", !.un = None]
  <2>1. Step(c, s) = SynReceivedStep(c, s)
    BY <1>5 DEF Step
  <2>2. CASE "ACK" \in s.flags /\ s.ack = c.seq + 1
    <3>1. Step(c, s).conn = d /\ Step(c, s).reply = << >>
      BY <2>1, <2>2 DEF SynReceivedStep
    <3>2. d \in Conn /\ d.id = c.id /\ d.key = c.key /\ d.buf = c.buf /\ d.seq = s.ack /\ d.ack = c.ack /\ d.st = "Established" /\ d.un = None
      BY <1>1 DEF Conn, States
    <3> HIDE DEF d
    <3>3. StepTurn(c, s, d)
      BY <1>2, <1>5, <2>2, <3>2 DEF StepTurn, Ended
    <3> QED  BY <3>1, <3>3 DEF StepReply
  <2>3. CASE ~("ACK" \in s.flags /\ s.ack = c.seq + 1)
    <3>1. Step(c, s).conn = c /\ Step(c, s).reply = << >>
      BY <2>1, <2>3 DEF SynReceivedStep
    <3> QED  BY <1>3, <3>1 DEF StepReply
  <2> QED  BY <2>2, <2>3
<1>6. CASE c.st = "Established"
  <2> DEFINE d == IF "ACK" \in s.flags THEN [c EXCEPT !.un = None] ELSE c
             e == [d EXCEPT !.ack = m, !.st = "CloseWait"]
  <2>1. Step(c, s) = EstablishedStep(c, s)
    BY <1>6 DEF Step
  <2>2. /\ d \in Conn /\ d.id = c.id /\ d.key = c.key /\ d.buf = c.buf /\ d.seq = c.seq /\ d.ack = c.ack
        /\ d.st = c.st /\ d.un \in {None, c.un}
    BY DEF Conn
  <2>3. CASE "FIN" \in s.flags
    <3>1. Step(c, s).conn = e /\ Step(c, s).reply = <<Bare(e, {"ACK"})>>
      BY <2>1, <2>3 DEF EstablishedStep
    <3>2. m \in Nat
      BY <1>1
    <3> HIDE DEF m, d
    <3>3. /\ e \in Conn /\ e.id = c.id /\ e.key = c.key /\ e.buf = c.buf /\ e.seq = c.seq /\ e.ack = m
          /\ e.st = "CloseWait" /\ e.un \in {None, c.un}
      BY <2>2, <3>2 DEF Conn, States
    <3> HIDE DEF e
    <3>4. StepTurn(c, s, e)
      BY <1>2, <1>6, <2>3, <3>3 DEF StepTurn, Ended, m
    <3> QED  BY <3>1, <3>4 DEF StepReply
  <2>4. CASE "FIN" \notin s.flags
    <3>1. Step(c, s).conn = d /\ Step(c, s).reply = << >>
      BY <1>6, <2>1, <2>4 DEF EstablishedStep
    <3> HIDE DEF d
    <3>2. StepTurn(c, s, d)
      BY <1>2, <1>6, <2>2 DEF StepTurn
    <3> QED  BY <3>1, <3>2 DEF StepReply
  <2> QED  BY <2>3, <2>4
<1>7. CASE c.st \in {"FinWait1", "FinWait2"}
  <2> DEFINE acked == c.st = "FinWait1" /\ "ACK" \in s.flags
             d == IF acked THEN [c EXCEPT !.un = None, !.st = "FinWait2"] ELSE c
             e == [d EXCEPT !.ack = m, !.st = "TimeWait"]
  <2>1. Step(c, s) = FinWaitStep(c, s)
    BY <1>7 DEF Step
  <2>2. /\ d \in Conn /\ d.id = c.id /\ d.key = c.key /\ d.buf = c.buf /\ d.seq = c.seq /\ d.ack = c.ack
        /\ d.st \in {"FinWait1", "FinWait2"} /\ d.un \in {None, c.un}
    BY <1>7 DEF Conn, States
  <2>3. CASE "FIN" \in s.flags /\ (acked \/ c.st = "FinWait2")
    <3>1. Step(c, s).conn = e /\ Step(c, s).reply = <<Bare(e, {"ACK"})>>
      BY <2>1, <2>3 DEF FinWaitStep
    <3>2. m \in Nat
      BY <1>1
    <3> HIDE DEF m, d
    <3>3. /\ e \in Conn /\ e.id = c.id /\ e.key = c.key /\ e.buf = c.buf /\ e.ack = m
          /\ e.st = "TimeWait" /\ e.un \in {None, c.un}
      BY <2>2, <3>2 DEF Conn, States
    <3> HIDE DEF e
    <3>4. StepTurn(c, s, e)
      BY <1>2, <1>7, <2>3, <3>3 DEF StepTurn, Ended, m
    <3> QED  BY <3>1, <3>4 DEF StepReply
  <2>4. CASE ~("FIN" \in s.flags /\ (acked \/ c.st = "FinWait2"))
    <3>1. Step(c, s).conn = d /\ Step(c, s).reply = << >>
      BY <2>1, <2>4 DEF FinWaitStep
    <3> HIDE DEF d
    <3>2. StepTurn(c, s, d)
      BY <1>2, <1>7, <2>2 DEF StepTurn, Ended
    <3> QED  BY <3>1, <3>2 DEF StepReply
  <2> QED  BY <2>3, <2>4
<1>8. CASE c.st = "LastAck"
  <2> DEFINE d == [c EXCEPT !.st = "Closed", !.un = None]
  <2>1. Step(c, s) = LastAckStep(c, s)
    BY <1>8 DEF Step
  <2>2. d \in Conn /\ d.id = c.id /\ d.key = c.key /\ d.buf = c.buf /\ d.ack = c.ack /\ d.st = "Closed" /\ d.un = None
    BY <1>1 DEF Conn, States
  <2>3. /\ Step(c, s).conn = d \/ Step(c, s).conn = c
        /\ Step(c, s).reply = << >>
    BY <2>1 DEF LastAckStep
  <2> HIDE DEF d
  <2>4. StepTurn(c, s, d)
    BY <1>2, <1>8, <2>2 DEF StepTurn, Ended
  <2> QED  BY <1>3, <2>3, <2>4 DEF StepReply
<1>9. CASE c.st \in {"Closed", "CloseWait", "TimeWait"}
  <2>1. Step(c, s) = [conn |-> c, reply |-> << >>]
    BY <1>9 DEF Step
  <2> QED  BY <1>3, <2>1 DEF StepReply
<1> QED  BY <1>1, <1>4, <1>5, <1>6, <1>7, <1>8, <1>9 DEF States

\* The first segment of the wire.
LEMMA HeadIs ==
  ASSUME NEW q, NEW h, NEW P, NEW n, Wire(q, h, P, n), q # << >>, NEW s, s = Head(q), s.k = "tcp"
  PROVE  /\ InSeg(s, h, P, n) /\ s \in Segment /\ s.key \in Keys /\ s.seq \in Nat /\ s.data \in Nat
         /\ Flows(q, Tail(q)) /\ IsList(Tail(q)) /\ s = q[1] /\ 1 \in 1..Len(q)
         /\ \A i \in 1..Len(Tail(q)) : /\ Tail(q)[i].k = "tcp" => InSeg(Tail(q)[i], h, P, n)
                                       /\ InOrder(s, Tail(q)[i], P)
<1>1. IsList(q)
  BY DEF Wire
<1>2. s = q[1] /\ 1 \in 1..Len(q) /\ Len(q) \in Nat
  BY <1>1, ListIs
<1>3. InSeg(s, h, P, n)
  BY <1>2 DEF Wire
<1>4. s \in Segment /\ s.key \in Keys /\ s.seq \in Nat /\ s.data \in Nat
  BY <1>3 DEF InSeg, Segment
<1>5. IsList(Tail(q)) /\ Len(Tail(q)) \in Nat /\ \A i \in 1..Len(Tail(q)) : i + 1 \in 1..Len(q) /\ Tail(q)[i] = q[i + 1]
  BY <1>1, ListTail, ListIs
<1>6. \A i \in 1..Len(Tail(q)) : 1 < i + 1
  BY <1>5
<1>7. \A i \in 1..Len(Tail(q)) : /\ Tail(q)[i].k = "tcp" => InSeg(Tail(q)[i], h, P, n)
                                 /\ InOrder(s, Tail(q)[i], P)
  BY <1>2, <1>5, <1>6 DEF Wire
<1> QED  BY <1>2, <1>3, <1>4, <1>5, <1>7 DEF Flows

\* A segment without data, or on a connection that takes none.
LEMMA HandleTurnKeeps ==
  ASSUME StreamInv, Shape, NEW c \in conns, NEW s, s = Head(toUs), toUs # << >>, s.k = "tcp", c.key = s.key,
         c.st # "Established" \/ "FIN" \in s.flags \/ s.data = 0,
         Take("tcp", Step(c, s).reply), Update(c, Step(c, s).conn),
         UNCHANGED <<nextId, asked, call, toPeer, peer, taken, sent, cut>>
  PROVE  StreamInv'
<1>1. PICK h : Inv(h, conns, toUs, peer, sent, taken, cut, nextId, toPeer, out, call, asked)
  BY DEF StreamInv
<1>2. /\ InSeg(s, h, peer, nextId) /\ s \in Segment /\ s.key \in Keys /\ s.seq \in Nat
      /\ Flows(toUs, Tail(toUs))
      /\ \A i \in 1..Len(Tail(toUs)) : InOrder(s, Tail(toUs)[i], peer)
  BY <1>1, HeadIs DEF Inv
<1>3. toUs' = Tail(toUs) /\ out' = Step(c, s).reply /\ IsList(toPeer) /\ IsList(out)
  BY DEF Take, Shape
<1> DEFINE d == Step(c, s).conn
<1>4. /\ c \in Conn /\ c.seq \in Nat /\ c.ack \in Nat /\ c.st \in States /\ c.id < nextId
      /\ ConnOk(c, h, conns, toUs, peer, sent, taken, cut, nextId)
      /\ h[c.key] \in Nat /\ sent[c.key] \in Nat /\ (c.key \in Ids => c.key < nextId /\ c.key \in Nat)
      /\ c.un # None => c.un.seg \in Segment /\ Out(c.un.seg, h, conns, toUs, peer, sent, nextId)
  BY <1>1, ConnKnown
<1>5. StepTurn(c, s, d) /\ StepReply(d, out') /\ conns' = (conns \ {c}) \cup {d}
  BY <1>2, <1>3, <1>4, StepTurns DEF Update
<1> HIDE DEF d
<1>6. d \in Conn /\ d.id = c.id /\ d.key = c.key /\ d.buf = c.buf /\ (c.st \in Ended => d.st \in Ended)
      /\ d.seq \in Nat /\ d.ack \in Nat
  BY <1>5 DEF StepTurn, ConnTurn, Conn
<1>7. /\ Later(h, conns, toUs, peer, sent, nextId, h, conns', toUs', peer, sent, nextId)
      /\ \A j \in Keys : Past(toUs, peer, j) => Past(toUs', peer, j)
  BY <1>1, <1>2, <1>3, <1>5, <1>6, ConnLater
<1>8. Acks(h, peer, c.key, d.ack)
  <2>1. CASE d.ack = c.ack
    BY <1>4, <2>1 DEF ConnOk
  <2>2. CASE d.ack = s.seq + 1 /\ "FIN" \in s.flags
    BY <1>2, <2>2 DEF InSeg, Acks
  <2>3. CASE d.ack = s.seq + 1 /\ "SYN" \in s.flags
    BY <1>2, <1>4, <2>3 DEF InSeg, Acks
  <2> QED  BY <1>5, <2>1, <2>2, <2>3 DEF StepTurn
<1>9. /\ d.st \in {"SynSent", "SynReceived"} => d.st = c.st /\ d.seq = c.seq
      /\ d.st \in {"Established", "CloseWait"} => d.seq = sent[c.key] + 1
  BY <1>4, <1>5 DEF StepTurn, ConnOk
<1>10. d.un # None => Out(d.un.seg, h, conns', toUs', peer, sent, nextId)
  BY <1>4, <1>5, <1>7, OutStays DEF StepTurn
<1>11. ConnOk(d, h, conns', toUs', peer, sent, taken, cut, nextId)
  <2>1. ConnTurn(c, d) /\ Flows(toUs, toUs')
    BY <1>2, <1>3, <1>5 DEF StepTurn
  <2> QED  BY <1>1, <1>5, <1>8, <1>9, <1>10, <2>1, ConnTurns
<1>12. /\ IsList(toPeer') /\ IsList(out')
       /\ \A r \in OutSet(toPeer', out') : r \in OutSet(toPeer, out) \/ (r \in Segment /\ Out(r, h, conns', toUs', peer, sent, nextId))
  <2> DEFINE a == Seg(d.key, {"ACK"}, d.seq, d.ack, 0)
  <2>1. a \in Segment /\ a.key = c.key /\ a.flags = {"ACK"} /\ a.ack = d.ack /\ a.data = 0
    <3>1. {"ACK"} \in SUBSET {"SYN", "ACK", "FIN", "PSH", "RST"} /\ 0 \in Nat /\ d.key \in Keys
      BY <1>2, <1>6
    <3> QED  BY <1>6, <3>1, SegIs
  <2>2. out' = << >> \/ out' = <<a>>
    BY <1>5 DEF StepReply, Bare
  <2> HIDE DEF a
  <2>3. Out(a, h, conns', toUs', peer, sent, nextId)
    BY <1>4, <1>8, <2>1 DEF Out
  <2> QED  BY <1>3, <2>1, <2>2, <2>3, OutAdd
<1>13. c.st \in {"SynReceived", "Closed"} /\ c.buf = << >> =>
         Past(toUs', peer, c.key) \/ (d.st \in {"SynReceived", "Closed"} /\ d.buf = << >>)
  <2>1. CASE c.st = "SynReceived" /\ d.st # c.st
    <3>1. "ACK" \in s.flags /\ s.key \in Clients /\ c.key = s.key
      BY <1>4, <1>5, <2>1 DEF StepTurn, ConnOk
    <3>2. peer[s.key].st \notin Early
      BY <1>2, <3>1 DEF InSeg
    <3>3. \A i \in 1..Len(toUs') : toUs'[i].k = "tcp" /\ toUs'[i].key = s.key => "SYN" \notin toUs'[i].flags
      BY <1>2, <1>3, <3>1 DEF InOrder
    <3> QED  BY <3>1, <3>2, <3>3 DEF Past
  <2>2. CASE ~(c.st = "SynReceived" /\ d.st # c.st)
    BY <1>5, <1>6, <2>2 DEF StepTurn
  <2> QED  BY <2>1, <2>2
<1>14. OneConn(c, d, h, conns, toUs, peer, sent, taken, cut, nextId, toPeer, out, call, conns', toUs', toPeer', out', call')
  <2>1. call' = [u \in Tasks |-> call'[u]] /\ \A u \in Tasks : call'[u] = call[u]
    BY DEF Shape
  <2>2. Flows(toUs, toUs')
    BY <1>2, <1>3
  <2> QED  BY <1>5, <1>6, <1>11, <1>12, <1>13, <2>1, <2>2 DEF OneConn
<1>15. Inv(h, conns', toUs', peer, sent, taken, cut, nextId, toPeer', out', call', asked)
  BY <1>1, <1>14, ConnKeeps
<1> QED  BY <1>15 DEF StreamInv

\* A stream goes on with its last unit or the next one.
LEMMA StreamGrows ==
  ASSUME NEW s \in Units, NEW b \in Units, Steps(s \o b), NEW y \in Nat, y # 0,
         y = Top(s \o b) \/ y = Top(s \o b) + 1
  PROVE  Append(b, y) \in Units /\ Steps(s \o Append(b, y)) /\ Top(s \o Append(b, y)) = y
<1> DEFINE r == s \o b
           w == s \o Append(b, y)
<1>1. r \in Seq(Nat) /\ Append(b, y) \in Seq(Nat) /\ Len(r) \in Nat
  BY DEF Units
<1>2. w = Append(r, y)
  BY DEF Units
<1> HIDE DEF r, w
<1>3. w \in Seq(Nat) /\ Len(w) = Len(r) + 1 /\ w[Len(r) + 1] = y /\ \A i \in 1..Len(r) : w[i] = r[i]
  BY <1>1, <1>2
<1>4. w # << >> /\ Top(w) = y
  BY <1>1, <1>3 DEF Top
<1>5. Steps(r) /\ (y = Top(r) \/ y = Top(r) + 1)
  BY DEF r
<1>6. CASE r = << >>
  <2>1. Len(r) = 0 /\ Top(r) = 0
    BY <1>6 DEF Top
  <2>2. y = 1
    BY <1>5, <2>1
  <2>3. w[1] = 1 /\ Len(w) = 1
    BY <1>3, <2>1, <2>2
  <2>4. \A i \in 1..(Len(w) - 1) : FALSE
    BY <2>3
  <2>5. Steps(w)
    BY <2>3, <2>4 DEF Steps
  <2> QED  BY <1>1, <1>4, <2>5 DEF Units, w
<1>7. CASE r # << >>
  <2>1. Len(r) >= 1 /\ Top(r) = r[Len(r)] /\ r[1] = 1
    BY <1>1, <1>5, <1>7 DEF Top, Steps
  <2>2. w[1] = 1
    BY <1>1, <1>3, <2>1
  <2>3. ASSUME NEW i \in 1..(Len(w) - 1) PROVE w[i + 1] = w[i] \/ w[i + 1] = w[i] + 1
    <3>1. CASE i = Len(r)
      BY <1>1, <1>3, <1>5, <2>1, <3>1
    <3>2. CASE i # Len(r)
      <4>1. i \in 1..(Len(r) - 1) /\ i \in 1..Len(r) /\ i + 1 \in 1..Len(r)
        BY <1>1, <1>3, <3>2
      <4>2. r[i + 1] = r[i] \/ r[i + 1] = r[i] + 1
        BY <1>5, <4>1 DEF Steps
      <4> QED  BY <1>3, <4>1, <4>2
    <3> QED  BY <3>1, <3>2
  <2>4. Steps(w)
    BY <2>2, <2>3 DEF Steps
  <2> QED  BY <1>1, <1>4, <2>4 DEF Units, w
<1> QED  BY <1>6, <1>7

\* A segment with data on an established connection.
LEMMA HandleDataKeeps ==
  ASSUME StreamInv, Shape, NEW c \in conns, NEW s, s = Head(toUs), toUs # << >>, s.k = "tcp", c.key = s.key,
         c.st = "Established", "FIN" \notin s.flags, s.data # 0,
         Take("tcp", Step(c, s).reply), Update(c, Step(c, s).conn),
         UNCHANGED <<nextId, asked, call, toPeer, peer, taken, sent, cut>>
  PROVE  StreamInv'
<1>1. PICK h : Inv(h, conns, toUs, peer, sent, taken, cut, nextId, toPeer, out, call, asked)
  BY DEF StreamInv
<1> DEFINE k == s.key
           y == s.data
           p == peer[k]
<1>2. /\ InSeg(s, h, peer, nextId) /\ s \in Segment /\ k \in Keys /\ s.seq \in Nat /\ y \in Nat
      /\ Flows(toUs, Tail(toUs))
      /\ \A i \in 1..Len(Tail(toUs)) : /\ Tail(toUs)[i].k = "tcp" => InSeg(Tail(toUs)[i], h, peer, nextId)
                                       /\ InOrder(s, Tail(toUs)[i], peer)
  BY <1>1, HeadIs DEF Inv
<1>3. toUs' = Tail(toUs) /\ out' = Step(c, s).reply /\ IsList(toPeer) /\ IsList(out)
  BY DEF Take, Shape
<1>4. /\ c \in Conn /\ c.seq \in Nat /\ c.id < nextId /\ c.un \in {None} \cup Kept /\ c.buf \in Units
      /\ ConnOk(c, h, conns, toUs, peer, sent, taken, cut, nextId) /\ nextId \in Nat
      /\ h[k] \in Nat /\ sent[k] \in Nat /\ taken[k] \in Units /\ (k \in Ids => k < nextId /\ k \in Nat)
      /\ c.un # None => c.un.seg \in Segment /\ Out(c.un.seg, h, conns, toUs, peer, sent, nextId)
  BY <1>1, ConnKnown
<1> DEFINE v == IF p.ahead THEN h[k] ELSE y
<1>5. /\ y = s.seq /\ y < p.snd /\ (p.ahead \/ y = h[k] \/ y = h[k] + 1)
      /\ v \in Nat /\ h[k] <= v /\ (p.ahead \/ v = y) /\ (v = h[k] \/ v < p.snd)
  BY <1>2, <1>4 DEF InSeg
<1> DEFINE m == s.seq + 1
           b == Append(c.buf, y)
           e == IF "ACK" \in s.flags THEN [c EXCEPT !.un = None] ELSE c
           d == [e EXCEPT !.buf = b, !.ack = m]
<1>6. conns' = (conns \ {c}) \cup {d} /\ out' = <<Bare(d, {"ACK"})>>
  <2>1. Step(c, s) = EstablishedStep(c, s)
    BY DEF Step
  <2>2. e.buf = c.buf
    BY <1>4 DEF Conn
  <2>3. Step(c, s).conn = d /\ Step(c, s).reply = <<Bare(d, {"ACK"})>>
    BY <2>1, <2>2 DEF EstablishedStep
  <2> HIDE DEF d
  <2> QED  BY <1>3, <2>3 DEF Update
<1>7. m \in Nat /\ m = y + 1 /\ b \in Units
  BY <1>2, <1>4, <1>5 DEF Units
<1>8. /\ d \in Conn /\ d.id = c.id /\ d.key = c.key /\ d.buf = b /\ d.seq = c.seq /\ d.ack = m
      /\ d.st = "Established" /\ d.un \in {None, c.un}
  <2>1. /\ e \in Conn /\ e.id = c.id /\ e.key = c.key /\ e.seq = c.seq
        /\ e.st = "Established" /\ e.un \in {None, c.un}
    BY <1>4 DEF Conn
  <2> HIDE DEF e, m, b
  <2> QED  BY <1>7, <2>1 DEF Conn
<1> HIDE DEF d, e
<1> DEFINE h2 == [h EXCEPT ![k] = v]
<1>9. /\ h \in [Keys -> Nat] /\ sent \in [Keys -> Nat] /\ peer \in [Keys -> Remote] /\ taken \in [Keys -> Units]
      /\ conns \in SUBSET Conn /\ Unique(conns)
  BY <1>1 DEF Inv, Types
<1>10. h2 \in [Keys -> Nat] /\ h2[k] = v /\ \A j \in Keys : j # k => h2[j] = h[j]
  BY <1>2, <1>5, <1>9
<1> HIDE DEF h2, v
<1>11. /\ Later(h, conns, toUs, peer, sent, nextId, h, conns', toUs', peer, sent, nextId)
       /\ Wire(toUs', h, peer, nextId) /\ \A j \in Keys : Past(toUs, peer, j) => Past(toUs', peer, j)
  <2>1. Flows(toUs, toUs') /\ d.id = c.id /\ d.key = c.key /\ conns' = (conns \ {c}) \cup {d}
        /\ (c.st \in Ended => d.st \in Ended)
    BY <1>2, <1>3, <1>6, <1>8 DEF Ended
  <2> QED  BY <1>1, <2>1, ConnLater
<1>12. Later(h, conns, toUs, peer, sent, nextId, h2, conns', toUs', peer, sent, nextId)
  <2>1. \A j \in Keys : h[j] <= h2[j]
    <3>1. \A j \in Keys : h[j] <= h[j]
      BY <1>9
    <3> QED  BY <1>5, <1>10, <3>1
  <2> QED  BY <1>10, <1>11, <2>1 DEF Later
<1>13. /\ Unique(conns')
       /\ \A f \in conns' : f.key # k => f \in conns
       /\ \A f \in conns' : f.key = k => f = d
       /\ \A f \in conns' : \E g \in conns : g.id = f.id /\ g.key = f.key
  <2>1. d.id = c.id /\ d.key = c.key /\ conns' = (conns \ {c}) \cup {d}
    BY <1>6, <1>8
  <2> QED  BY <1>9, <2>1, UpdateIs
<1>14. Acks(h2, peer, k, m)
  <2>1. m <= y + 1
    BY <1>7
  <2> QED  BY <1>5, <1>10, <2>1 DEF Acks
<1>15. ConnOk(d, h2, conns', toUs', peer, sent, taken, cut, nextId)
  <2>1. d.un # None => Out(d.un.seg, h2, conns', toUs', peer, sent, nextId)
    BY <1>4, <1>8, <1>12, OutStays
  <2>2. k \notin cut /\ ~p.ahead => Steps(taken[k] \o d.buf) /\ Top(taken[k] \o d.buf) = h2[k]
    <3> SUFFICES ASSUME k \notin cut, ~p.ahead PROVE Steps(taken[k] \o d.buf) /\ Top(taken[k] \o d.buf) = h2[k]
      OBVIOUS
    <3>1. Steps(taken[k] \o c.buf) /\ Top(taken[k] \o c.buf) = h[k]
      BY <1>4 DEF ConnOk
    <3>2. y = Top(taken[k] \o c.buf) \/ y = Top(taken[k] \o c.buf) + 1
      BY <1>5, <3>1
    <3>3. Steps(taken[k] \o Append(c.buf, y)) /\ Top(taken[k] \o Append(c.buf, y)) = y
      BY <1>2, <1>4, <3>1, <3>2, StreamGrows
    <3> QED  BY <1>5, <1>8, <1>10, <3>3
  <2>3. d.id < nextId /\ (k \in Ids => k = d.id) /\ d.seq = sent[k] + 1
    BY <1>4, <1>8 DEF ConnOk
  <2> HIDE DEF m, b
  <2> QED  BY <1>8, <1>14, <2>1, <2>2, <2>3 DEF ConnOk
<1>16. Wire(toUs', h2, peer, nextId)
  <2>1. ASSUME NEW i \in 1..Len(toUs'), toUs'[i].k = "tcp" PROVE InSeg(toUs'[i], h2, peer, nextId)
    <3> DEFINE r == toUs'[i]
    <3>1. InSeg(r, h, peer, nextId) /\ InOrder(s, r, peer)
      BY <1>2, <1>3, <2>1
    <3> HIDE DEF r
    <3>2. r \in Segment /\ r.key \in Keys /\ r.data \in Nat /\ r.k = "tcp"
      BY <3>1 DEF InSeg, Segment
    <3>3. ASSUME r.key # k PROVE InSeg(r, h2, peer, nextId)
      <4>1. h2[r.key] = h[r.key]
        BY <1>10, <3>2, <3>3
      <4> QED  BY <3>1, <4>1 DEF InSeg
    <3>4. ASSUME r.key = k PROVE InSeg(r, h2, peer, nextId)
      <4>1. r.data # 0 => r.data = h2[k] \/ r.data = h2[k] + 1 \/ p.ahead
        <5>1. r.data # 0 => y <= r.data \/ p.ahead
          BY <3>1, <3>2, <3>4 DEF InOrder
        <5>2. r.data # 0 => r.data = h[k] \/ r.data = h[k] + 1 \/ p.ahead
          BY <3>1, <3>4 DEF InSeg
        <5>3. y \in Nat /\ h[k] \in Nat /\ (p.ahead \/ ((y = h[k] \/ y = h[k] + 1) /\ h2[k] = y)) /\ r.data \in Nat
          BY <1>2, <1>4, <1>5, <1>10, <3>2
        <5> HIDE DEF y, k, p
        <5> QED  BY <5>1, <5>2, <5>3
      <4>2. r.data # 0 => r.data = h2[r.key] \/ r.data = h2[r.key] + 1 \/ peer[r.key].ahead
        BY <3>4, <4>1
      <4> QED  BY <3>1, <4>2 DEF InSeg
    <3>5. InSeg(r, h2, peer, nextId)
      BY <3>3, <3>4
    <3> QED  BY <3>5 DEF r
  <2> QED  BY <1>11, <2>1 DEF Wire
<1>17. PeerOk(k, p, h2, conns', toUs', peer, sent, nextId)
  <2>1. p \in Remote /\ PeerOk(k, p, h, conns, toUs, peer, sent, nextId)
    BY <1>1, <1>2, <1>9 DEF Inv
  <2>2. PeerOk(k, p, h, conns', toUs', peer, sent, nextId)
    BY <1>2, <1>11, <2>1, PeerStays
  <2>3. p.snd \in Nat /\ (p.un # None => p.un.data \in Nat /\ p.un.seq \in Nat)
    BY <2>1 DEF Remote, Segment
  <2>4. p.st = "open" /\ p.un = None /\ ~p.closed /\ ~p.ahead => h2[k] + 1 = p.snd
    BY <1>2, <1>4, <1>5, <1>10, <2>2, <2>3 DEF PeerOk
  <2>5. p.un # None => UnOk(p.un, k, p, h2)
    <3> SUFFICES ASSUME p.un # None PROVE UnOk(p.un, k, p, h2)
      OBVIOUS
    <3>1. UnOk(p.un, k, p, h)
      BY <2>2 DEF PeerOk
    <3>2. p.un.data # 0 => p.un.data = h2[k] \/ p.un.data = h2[k] + 1 \/ p.ahead
      <4>1. (p.un.seq + 1 = p.snd \/ p.ahead) /\ (p.un.data # 0 => p.un.data = p.un.seq /\ (p.un.data = h[k] \/ p.un.data = h[k] + 1 \/ p.ahead))
        BY <3>1 DEF UnOk
      <4> QED  BY <1>2, <1>4, <1>5, <1>10, <2>3, <4>1
    <3> QED  BY <3>1, <3>2 DEF UnOk
  <2> QED  BY <1>5, <1>10, <2>2, <2>4, <2>5 DEF PeerOk
<1>18. k \in Clients => Past(toUs', peer, k)
  <2>1. c.key \in Clients => Past(toUs, peer, c.key)
    BY <1>1, PastKnown
  <2> QED  BY <1>2, <1>11, <2>1
<1>19. /\ IsList(toPeer') /\ IsList(out')
       /\ \A r \in OutSet(toPeer', out') : r \in OutSet(toPeer, out) \/ (r \in Segment /\ Out(r, h2, conns', toUs', peer, sent, nextId))
  <2> DEFINE a == Seg(d.key, {"ACK"}, d.seq, d.ack, 0)
  <2>1. a \in Segment /\ a.key = k /\ a.flags = {"ACK"} /\ a.ack = m /\ a.data = 0
    <3>1. {"ACK"} \in SUBSET {"SYN", "ACK", "FIN", "PSH", "RST"} /\ 0 \in Nat /\ d.key \in Keys
          /\ d.seq \in Nat /\ d.ack \in Nat
      BY <1>2, <1>4, <1>7, <1>8
    <3> QED  BY <1>8, <3>1, SegIs
  <2>2. out' = <<a>>
    BY <1>6 DEF Bare
  <2> HIDE DEF a, m
  <2>3. Out(a, h2, conns', toUs', peer, sent, nextId)
    BY <1>4, <1>14, <2>1 DEF Out
  <2> QED  BY <1>3, <2>1, <2>2, <2>3, OutAdd
<1>20. call' = [u \in Tasks |-> call'[u]] /\ \A u \in Tasks : call'[u] = call[u]
  BY DEF Shape
<1>21. ~(k \in Ids /\ k >= nextId)
  BY <1>4
<1>22. OneKey(k, h, conns, toUs, peer, sent, taken, cut, nextId, toPeer, out, call,
              h2, conns', toUs', peer, sent, taken, cut, nextId, toPeer', out', call')
  BY <1>2, <1>8, <1>9, <1>10, <1>11, <1>12, <1>13, <1>15, <1>16, <1>17, <1>18, <1>19, <1>20, <1>21 DEF OneKey
<1>23. Inv(h2, conns', toUs', peer, sent, taken, cut, nextId, toPeer', out', call', asked)
  BY <1>1, <1>22, KeyKeeps
<1> QED  BY <1>23 DEF StreamInv

\* A segment of a known connection.
LEMMA HandleKnownKeeps ==
  ASSUME StreamInv, HandleKnown
  PROVE  StreamInv'
<1>1. Shape
  BY ShapeHolds
<1>2. toUs # << >> /\ Head(toUs).k = "tcp" /\ UNCHANGED <<nextId, asked, call, toPeer, peer, taken, sent, cut>>
  BY DEF HandleKnown, dgQuiet
<1>3. PICK c \in ByTuple(Head(toUs).key) :
        Take("tcp", Step(c, Head(toUs)).reply) /\ Update(c, Step(c, Head(toUs)).conn)
  BY DEF HandleKnown
<1>4. c \in conns /\ c.key = Head(toUs).key
  BY <1>3 DEF ByTuple
<1>5. CASE c.st # "Established" \/ "FIN" \in Head(toUs).flags \/ Head(toUs).data = 0
  BY <1>1, <1>2, <1>3, <1>4, <1>5, HandleTurnKeeps
<1>6. CASE c.st = "Established" /\ "FIN" \notin Head(toUs).flags /\ Head(toUs).data # 0
  BY <1>1, <1>2, <1>3, <1>4, <1>6, HandleDataKeeps
<1> QED  BY <1>5, <1>6

\* A SYN that opens a connection: nothing was exchanged under its key before.
LEMMA HandleSynKeeps ==
  ASSUME StreamInv, Shape, NEW s, s = Head(toUs), toUs # << >>, s.k = "tcp", ByTuple(s.key) = {},
         s.key \in Clients, "SYN" \in s.flags, NEW c, c = NewConn(nextId, s.key, "SynReceived", s.seq + 1),
         Take("tcp", <<Bare(c, {"SYN", "ACK"})>>),
         conns' = conns \cup {[c EXCEPT !.un = Unacked(Bare(c, {"SYN", "ACK"}))]}, nextId' = nextId + 1,
         UNCHANGED <<asked, call, toPeer, peer, taken, sent, cut>>
  PROVE  StreamInv'
<1>1. PICK h : Inv(h, conns, toUs, peer, sent, taken, cut, nextId, toPeer, out, call, asked)
  BY DEF StreamInv
<1> DEFINE k == s.key
           a == Seg(k, {"SYN", "ACK"}, 0, 1, 0)
           d == [NewConn(nextId, k, "SynReceived", 1) EXCEPT !.un = [seg |-> a, n |-> 0]]
<1>2. /\ InSeg(s, h, peer, nextId) /\ k \in Keys /\ Flows(toUs, Tail(toUs)) /\ s = toUs[1] /\ 1 \in 1..Len(toUs)
  BY <1>1, HeadIs DEF Inv
<1>3. toUs' = Tail(toUs) /\ IsList(toPeer) /\ IsList(out) /\ nextId \in Nat /\ Flows(toUs, toUs')
  BY <1>2 DEF Take, Shape
<1>4. s.seq = 0 /\ c = NewConn(nextId, k, "SynReceived", 1)
  <2>1. s.seq = 0
    BY <1>2 DEF InSeg
  <2>2. s.seq + 1 = 1
    BY <2>1
  <2> QED  BY <2>1, <2>2
<1>5. c.key = k /\ c.seq = 0 /\ c.ack = 1
  BY <1>4 DEF NewConn
<1>6. conns' = conns \cup {d} /\ out' = <<a>>
  BY <1>4, <1>5 DEF Take, Bare, Unacked
<1>7. a \in Segment /\ a.key = k /\ a.flags = {"SYN", "ACK"} /\ a.seq = 0 /\ a.ack = 1 /\ a.data = 0
  <2>1. {"SYN", "ACK"} \in SUBSET {"SYN", "ACK", "FIN", "PSH", "RST"} /\ 0 \in Nat /\ 1 \in Nat
    OBVIOUS
  <2> QED  BY <1>2, <2>1, SegIs
<1> HIDE DEF a
<1>8. /\ d \in Conn /\ d.id = nextId /\ d.key = k /\ d.st = "SynReceived" /\ d.seq = 0 /\ d.ack = 1
      /\ d.buf = << >> /\ d.un = [seg |-> a, n |-> 0] /\ [seg |-> a, n |-> 0].seg = a
  <2> DEFINE w == [seg |-> a, n |-> 0]
  <2>1. "SynReceived" \in States /\ w \in Kept /\ 1 \in Nat /\ w.seg = a
    BY <1>7 DEF States, Kept
  <2>2. d = [NewConn(nextId, k, "SynReceived", 1) EXCEPT !.un = w]
    OBVIOUS
  <2> HIDE DEF d, w
  <2>3. w \in {None} \cup Kept
    BY <2>1
  <2>4. /\ d \in Conn /\ d.id = nextId /\ d.key = k /\ d.st = "SynReceived" /\ d.seq = 0 /\ d.ack = 1
        /\ d.buf = << >> /\ d.un = w
    <3> DEFINE b == NewConn(nextId, k, "SynReceived", 1)
    <3>1. "SynReceived" \in States /\ 1 \in Nat
      BY DEF States
    <3>2. /\ b \in Conn /\ b.id = nextId /\ b.key = k /\ b.st = "SynReceived" /\ b.seq = 0 /\ b.ack = 1
          /\ b.buf = << >> /\ b.un = None
      BY <1>2, <1>3, <3>1, NewIs
    <3>3. d = [b EXCEPT !.un = w]
      BY <2>2
    <3> HIDE DEF b
    <3> QED  BY <2>3, <3>2, <3>3 DEF Conn
  <2> QED  BY <2>1, <2>4 DEF w
<1> HIDE DEF d
<1>9. ~Past(toUs, peer, k)
  BY <1>2 DEF Past
<1>10. Virgin(k, h, conns, sent, taken) /\ sent[k] = 0 /\ taken[k] = << >> /\ h[k] = 0
  BY <1>1, <1>9 DEF Inv, Virgin, Unborn
<1>11. k \notin Ids
  BY TcpAssumption
<1>12. /\ Later(h, conns, toUs, peer, sent, nextId, h, conns', toUs', peer, sent, nextId + 1) /\ Unique(conns')
       /\ \A e \in conns' : e.id < nextId => e \in conns
       /\ \A e \in conns' : e.id = nextId => e = d
       /\ \A e \in conns' : e.key = k => e = d
       /\ Wire(toUs', h, peer, nextId + 1) /\ \A j \in Keys : Past(toUs, peer, j) => Past(toUs', peer, j)
  <2>1. /\ d \in Conn /\ d.id = nextId /\ \A e \in conns : e.key # d.key
        /\ d.key \in Ids => d.key >= nextId
        /\ d.key \in Clients => ~Past(toUs, peer, d.key)
        /\ conns' = conns \cup {d}
    BY <1>6, <1>8, <1>9, <1>11 DEF ByTuple
  <2>2. /\ Later(h, conns, toUs, peer, sent, nextId, h, conns', toUs', peer, sent, nextId + 1) /\ Unique(conns')
        /\ \A e \in conns' : e.id < nextId => e \in conns
        /\ \A e \in conns' : e.id = nextId => e = d
        /\ \A e \in conns' : e.key = d.key => e = d
        /\ Wire(toUs', h, peer, nextId + 1) /\ \A j \in Keys : Past(toUs, peer, j) => Past(toUs', peer, j)
    BY <1>1, <1>3, <2>1, JoinIs
  <2> QED  BY <1>8, <2>2
<1>13. nextId < nextId + 1 /\ 1 <= 0 + 1 /\ nextId + 1 \in Nat
  BY <1>3
<1>14. Acks(h, peer, k, 1)
  BY <1>10, <1>13 DEF Acks
<1>15. Out(a, h, conns', toUs', peer, sent, nextId + 1)
  <2>1. a.flags # {"SYN"} /\ "FIN" \notin a.flags
    BY <1>7
  <2> QED  BY <1>7, <1>11, <1>14, <2>1 DEF Out
<1>16. ConnOk(d, h, conns', toUs', peer, sent, taken, cut, nextId + 1)
  BY <1>8, <1>10, <1>11, <1>13, <1>14, <1>15, EmptyStream DEF ConnOk
<1>17. PeerOk(k, peer[k], h, conns', toUs', peer, sent, nextId + 1)
  <2>1. peer[k] \in Remote /\ PeerOk(k, peer[k], h, conns, toUs, peer, sent, nextId)
    BY <1>1, <1>2 DEF Inv, Types
  <2> QED  BY <1>2, <1>12, <2>1, PeerStays
<1>18. Virgin(k, h, conns', sent, taken)
  BY <1>8, <1>10, <1>12 DEF Virgin
<1>19. call' = [u \in Tasks |-> call'[u]] /\ \A u \in Tasks : call'[u] = call[u]
  BY DEF Shape
<1>20. /\ IsList(toPeer') /\ IsList(out')
       /\ \A r \in OutSet(toPeer', out') : r \in OutSet(toPeer, out) \/ (r \in Segment /\ Out(r, h, conns', toUs', peer, sent, nextId + 1))
  BY <1>3, <1>6, <1>7, <1>15, OutAdd
<1>21. peer \in [Keys -> Remote] /\ taken \in [Keys -> Units]
  BY <1>1 DEF Inv, Types
<1>22. OneKey(k, h, conns, toUs, peer, sent, taken, cut, nextId, toPeer, out, call,
              h, conns', toUs', peer, sent, taken, cut, nextId + 1, toPeer', out', call')
  <2>1. /\ \A e \in conns' : e.key # k => e \in conns
        /\ \A e \in conns' : e.key = k => e \in Conn /\ ConnOk(e, h, conns', toUs', peer, sent, taken, cut, nextId + 1)
        /\ \A e \in conns' : e.id < nextId => \E f \in conns : f.id = e.id /\ f.key = e.key
    BY <1>6, <1>8, <1>12, <1>16
  <2> HIDE DEF k
  <2> QED  BY <1>2, <1>11, <1>12, <1>17, <1>18, <1>19, <1>20, <1>21, <2>1 DEF OneKey
<1>23. Inv(h, conns', toUs', peer, sent, taken, cut, nextId + 1, toPeer', out', call', asked)
  BY <1>1, <1>22, KeyKeeps
<1> QED  BY <1>23 DEF StreamInv

\* Any other segment.
LEMMA HandleUnknownKeeps ==
  ASSUME StreamInv, HandleUnknown
  PROVE  StreamInv'
<1>1. Shape
  BY ShapeHolds
<1>2. /\ toUs # << >> /\ Head(toUs).k = "tcp" /\ ByTuple(Head(toUs).key) = {}
      /\ UNCHANGED <<asked, call, toPeer, peer, taken, sent, cut>>
  BY DEF HandleUnknown, dgQuiet
<1>3. CASE listening /\ Head(toUs).key \in Clients /\ "SYN" \in Head(toUs).flags
  <2> DEFINE s == Head(toUs)
             c == NewConn(nextId, s.key, "SynReceived", s.seq + 1)
  <2>1. /\ Take("tcp", <<Bare(c, {"SYN", "ACK"})>>)
        /\ conns' = conns \cup {[c EXCEPT !.un = Unacked(Bare(c, {"SYN", "ACK"}))]} /\ nextId' = nextId + 1
    BY <1>3 DEF HandleUnknown
  <2> HIDE DEF c
  <2>2. c = NewConn(nextId, s.key, "SynReceived", s.seq + 1)
    BY DEF c
  <2> QED  BY <1>1, <1>2, <1>3, <2>1, <2>2, HandleSynKeeps
<1>4. CASE ~(listening /\ Head(toUs).key \in Clients /\ "SYN" \in Head(toUs).flags)
  <2>1. Take("tcp", << >>) /\ UNCHANGED <<conns, nextId>>
    BY <1>4 DEF HandleUnknown
  <2>2. Flows(toUs, toUs') /\ OutQuiet
    BY <1>1, <1>2, <2>1, TakeQuiet
  <2>3. Quiet
    BY <1>1, <1>2, <2>1, <2>2, StillFine DEF Quiet
  <2> QED  BY <2>3, QuietStep
<1> QED  BY <1>3, <1>4

-----------------------------------------------------------------------------
(* The remote end.                                                         *)

\* It moves on, perhaps with a segment for us.
PeerMove(k, p, h, q, P, n, q2, P2) ==
  /\ k \in Keys /\ p \in Remote /\ P2 = [P EXCEPT ![k] = p]
  /\ P[k].st \notin Early => p.st \notin Early
  /\ (P[k].closed => p.closed) /\ (P[k].ahead => p.ahead) /\ P[k].snd <= p.snd
  /\ \/ q2 = q
     \/ \E s : /\ q2 = Append(q, s) /\ s.k = "tcp" /\ s.key = k /\ InSeg(s, h, P2, n)
               /\ \A i \in 1..Len(q) : InOrder(q[i], s, P2)
               /\ k \in Clients /\ "SYN" \in s.flags => ~Past(q, P, k)

\* What a move of the remote end leaves true.
LEMMA PeerLater ==
  ASSUME NEW h, NEW C, NEW q, NEW P, NEW S, NEW T, NEW X, NEW n, NEW tp, NEW o, NEW cl, NEW ak,
         Inv(h, C, q, P, S, T, X, n, tp, o, cl, ak), NEW k, NEW p, NEW q2, NEW P2,
         PeerMove(k, p, h, q, P, n, q2, P2)
  PROVE  /\ Later(h, C, q, P, S, n, h, C, q2, P2, S, n) /\ Wire(q2, h, P2, n)
         /\ P2 \in [Keys -> Remote] /\ P2[k] = p /\ \A j \in Keys : j # k => P2[j] = P[j]
         /\ \A j \in Keys : j # k \/ j \in Clients => (Past(q, P, j) => Past(q2, P2, j))
<1>0. /\ h \in [Keys -> Nat] /\ P \in [Keys -> Remote] /\ Wire(q, h, P, n)
      /\ S \in [Keys -> Nat] /\ n \in Nat /\ n <= n /\ k \in Keys /\ p \in Remote
  BY DEF Inv, Types, PeerMove
<1>1. P2 \in [Keys -> Remote] /\ P2[k] = p /\ \A j \in Keys : j # k => P2[j] = P[j]
  BY <1>0 DEF PeerMove
<1>2. Goes(P, P2)
  <2>1. \A j \in Keys : P[j].snd \in Nat /\ P2[j].snd \in Nat /\ P[j].snd <= P[j].snd
    BY <1>0, <1>1 DEF Remote
  <2> QED  BY <1>1, <2>1 DEF Goes, PeerMove
<1>3. Wire(q2, h, P2, n) /\ \A j \in Keys : j # k \/ j \in Clients => (Past(q, P, j) => Past(q2, P2, j))
  <2>1. CASE q2 = q
    <3>1. Flows(q, q2)
      BY <2>1 DEF Flows
    <3> QED  BY <1>0, <1>2, <3>1, WireStays
  <2>2. CASE q2 # q
    <3>1. PICK s : /\ q2 = Append(q, s) /\ s.k = "tcp" /\ s.key = k /\ InSeg(s, h, P2, n)
                   /\ \A i \in 1..Len(q) : InOrder(q[i], s, P2)
                   /\ k \in Clients /\ "SYN" \in s.flags => ~Past(q, P, k)
      BY <2>2 DEF PeerMove
    <3>2. /\ Wire(q2, h, P2, n)
          /\ \A j \in Keys : Past(q, P, j) /\ (s.key # j \/ "SYN" \notin s.flags) => Past(q2, P2, j)
      BY <1>0, <1>2, <3>1, WireSeg
    <3> QED  BY <3>1, <3>2
  <2> QED  BY <2>1, <2>2
<1>4. ASSUME NEW j \in Keys, Sealed(C, q, P, j) PROVE Sealed(C, q2, P2, j)
  BY <1>3, <1>4 DEF Sealed
<1>5. \A j \in Keys : h[j] <= h[j] /\ S[j] <= S[j] /\ (P[j].closed => P2[j].closed) /\ (P[j].ahead => P2[j].ahead)
  BY <1>0, <1>2 DEF Goes
<1>6. Later(h, C, q, P, S, n, h, C, q2, P2, S, n)
  BY <1>0, <1>4, <1>5 DEF Later
<1> QED  BY <1>1, <1>3, <1>6

\* A move that leaves the remote end sound keeps the invariant.
LEMMA PeerKeeps ==
  ASSUME NEW h, NEW C, NEW q, NEW P, NEW S, NEW T, NEW X, NEW n, NEW tp, NEW o, NEW cl, NEW ak,
         Inv(h, C, q, P, S, T, X, n, tp, o, cl, ak), NEW k, NEW p, NEW q2, NEW P2,
         PeerMove(k, p, h, q, P, n, q2, P2), PeerOk(k, p, h, C, q2, P2, S, n),
         NEW tp2, IsList(tp2), OutSet(tp2, o) \subseteq OutSet(tp, o)
  PROVE  Inv(h, C, q2, P2, S, T, X, n, tp2, o, cl, ak)
<1>0. /\ C \subseteq Conn /\ T \in [Keys -> Units] /\ k \in Keys /\ Unique(C) /\ IsList(o)
      /\ cl = [t \in Tasks |-> cl[t]]
  BY DEF Inv, Types, PeerMove
<1>1. /\ Later(h, C, q, P, S, n, h, C, q2, P2, S, n) /\ Wire(q2, h, P2, n)
      /\ P2 \in [Keys -> Remote] /\ P2[k] = p /\ \A j \in Keys : j # k => P2[j] = P[j]
      /\ \A j \in Keys : j # k \/ j \in Clients => (Past(q, P, j) => Past(q2, P2, j))
  BY PeerLater
<1>2. \A c \in C : c \in Conn /\ ConnOk(c, h, C, q2, P2, S, T, X, n)
  <2>1. \A c \in C : c \in Conn /\ ConnOk(c, h, C, q, P, S, T, X, n)
    BY <1>0 DEF Inv
  <2> QED  BY <1>1, <2>1, ConnStays
<1>3. k \in Clients => Past(q2, P2, k) \/ Virgin(k, h, C, S, T)
  BY <1>0, <1>1 DEF Inv
<1>4. k \in Ids /\ k >= n => Unborn(k, h, S, T)
  BY DEF Inv
<1>5. OneKey(k, h, C, q, P, S, T, X, n, tp, o, cl, h, C, q2, P2, S, T, X, n, tp2, o, cl)
  BY <1>0, <1>1, <1>2, <1>3, <1>4 DEF OneKey
<1> QED  BY <1>5, KeyKeeps

\* What is known of one remote end.
LEMMA PeerKnown ==
  ASSUME NEW h, NEW C, NEW q, NEW P, NEW S, NEW T, NEW X, NEW n, NEW tp, NEW o, NEW cl, NEW ak,
         Inv(h, C, q, P, S, T, X, n, tp, o, cl, ak), NEW k \in Keys, NEW p, p = P[k]
  PROVE  /\ p \in Remote /\ PeerOk(k, p, h, C, q, P, S, n) /\ h[k] \in Nat /\ S[k] \in Nat /\ n \in Nat
         /\ p.st \in {"none", "synsent", "synrcvd", "open"} /\ p.snd \in Nat /\ p.rcv \in Nat /\ p.resent \in Nat
         /\ p.un \in {None} \cup Segment /\ p.got \in Units /\ Len(p.got) \in Nat /\ p.closed \in BOOLEAN
         /\ p.ahead \in BOOLEAN
         /\ (k \in Ids => k \in Nat) /\ (k \in Ids /\ p.st # "none" => k < n)
<1>1. p \in Remote /\ PeerOk(k, p, h, C, q, P, S, n) /\ h[k] \in Nat /\ S[k] \in Nat /\ n \in Nat
  BY DEF Inv, Types
<1>2. /\ p.st \in {"none", "synsent", "synrcvd", "open"} /\ p.snd \in Nat /\ p.rcv \in Nat /\ p.resent \in Nat
      /\ p.un \in {None} \cup Segment /\ p.got \in Units /\ p.closed \in BOOLEAN /\ p.ahead \in BOOLEAN
  BY <1>1 DEF Remote
<1>3. Len(p.got) \in Nat
  BY <1>2 DEF Units
<1>4. k \in Ids => k \in Nat
  BY DEF Ids
<1>5. k \in Ids /\ p.st # "none" => k < n
  BY <1>1, <1>4 DEF PeerOk
<1> QED  BY <1>1, <1>2, <1>3, <1>4, <1>5

\* What is on the wire for a key.
LEMMA WireKnown ==
  ASSUME NEW h, NEW C, NEW q, NEW P, NEW S, NEW T, NEW X, NEW n, NEW tp, NEW o, NEW cl, NEW ak,
         Inv(h, C, q, P, S, T, X, n, tp, o, cl, ak), NEW i \in 1..Len(q), q[i].k = "tcp"
  PROVE  /\ q[i].key \in Keys /\ q[i].data \in Nat
         /\ q[i].key \in Clients /\ "ACK" \in q[i].flags => P[q[i].key].st \notin Early
         /\ q[i].data # 0 => q[i].data < P[q[i].key].snd
<1>1. InSeg(q[i], h, P, n)
  BY DEF Inv, Wire
<1> QED  BY <1>1 DEF InSeg, Segment

\* A remote end that says something new.
Spoken(p, s, fl) ==
  [p EXCEPT !.un = IF @ = None THEN s ELSE @, !.snd = @ + 1, !.st = IF "SYN" \in fl THEN "synsent" ELSE @,
            !.closed = "FIN" \in fl, !.ahead = @ \/ p.un # None]

SaidIs(k, p, fl, x, s, r) ==
  /\ s \in Segment /\ s.k = "tcp" /\ s.key = k /\ s.flags = fl /\ s.seq = p.snd /\ s.data = x /\ s # None
  /\ r \in Remote /\ r.un = (IF p.un = None THEN s ELSE p.un)
  /\ r.snd = p.snd + 1 /\ r.rcv = p.rcv /\ r.got = p.got
  /\ r.st = (IF "SYN" \in fl THEN "synsent" ELSE p.st)
  /\ r.closed = ("FIN" \in fl) /\ r.ahead = (p.ahead \/ p.un # None)

\* The segment it says, and what it remembers of it.
LEMMA SaysIs ==
  ASSUME NEW k \in Keys, NEW p \in Remote, NEW fl \in SUBSET {"SYN", "ACK", "FIN", "PSH", "RST"}, NEW x \in Nat,
         NEW s, s = Seg(k, fl, p.snd, p.rcv, x),
         NEW r, r = Spoken(p, s, fl)
  PROVE  SaidIs(k, p, fl, x, s, r)
<1>1. /\ p.snd \in Nat /\ p.rcv \in Nat /\ p.st \in {"none", "synsent", "synrcvd", "open"}
      /\ p.un \in {None} \cup Segment /\ p.ahead \in BOOLEAN
  BY DEF Remote
<1>2. s \in Segment /\ s.k = "tcp" /\ s.key = k /\ s.flags = fl /\ s.seq = p.snd /\ s.data = x /\ s # None
  BY <1>1, SegIs
<1> DEFINE m == p.snd + 1
           st == IF "SYN" \in fl THEN "synsent" ELSE p.st
           fin == "FIN" \in fl
           un == IF p.un = None THEN s ELSE p.un
           far == p.ahead \/ p.un # None
<1>3. /\ m \in Nat /\ st \in {"none", "synsent", "synrcvd", "open"} /\ fin \in BOOLEAN
      /\ un \in {None} \cup Segment /\ far \in BOOLEAN
  BY <1>1, <1>2
<1>4. r = [p EXCEPT !.un = un, !.snd = m, !.st = st, !.closed = fin, !.ahead = far]
  BY DEF Spoken
<1> HIDE DEF m, st, fin, un, far
<1>5. /\ r \in Remote /\ r.un = un /\ r.snd = m /\ r.rcv = p.rcv /\ r.got = p.got /\ r.st = st /\ r.closed = fin
      /\ r.ahead = far
  BY <1>2, <1>3, <1>4 DEF Remote
<1> QED  BY <1>2, <1>5 DEF SaidIs, m, st, fin, un, far

\* It opens a connection, sends data, closes or sends again.
LEMMA PeerActsKeeps ==
  ASSUME StreamInv, NEW k \in Keys, PeerActs(k)
  PROVE  StreamInv'
<1>0. Shape
  BY ShapeHolds
<1>1. UNCHANGED <<nextId, asked, call, out, conns, toPeer, taken, sent, cut>>
  BY DEF PeerActs
<1>2. PICK h : Inv(h, conns, toUs, peer, sent, taken, cut, nextId, toPeer, out, call, asked)
  BY DEF StreamInv
<1> DEFINE p == peer[k]
<1>3. /\ p \in Remote /\ PeerOk(k, p, h, conns, toUs, peer, sent, nextId) /\ h[k] \in Nat
      /\ p.st \in {"none", "synsent", "synrcvd", "open"} /\ p.snd \in Nat /\ p.rcv \in Nat /\ p.resent \in Nat
      /\ p.un \in {None} \cup Segment /\ p.closed \in BOOLEAN /\ p.ahead \in BOOLEAN
      /\ (k \in Ids => k \in Nat) /\ (k \in Ids /\ p.st # "none" => k < nextId)
  BY <1>2, PeerKnown
<1>4. \A i \in 1..Len(toUs) : toUs[i].k = "tcp" /\ toUs[i].key = k =>
         /\ toUs[i].data \in Nat
         /\ k \in Clients /\ "ACK" \in toUs[i].flags => p.st \notin Early
         /\ toUs[i].data # 0 => toUs[i].data < p.snd
  BY <1>2, WireKnown
<1>5. IsList(toPeer) /\ OutSet(toPeer, out) \subseteq OutSet(toPeer, out)
  BY <1>0 DEF Shape
<1>6. ASSUME NEW r, peer' = [peer EXCEPT ![k] = r], PeerMove(k, r, h, toUs, peer, nextId, toUs', peer'),
             PeerOk(k, r, h, conns, toUs', peer', sent, nextId)
      PROVE  StreamInv'
  <2>1. Inv(h, conns, toUs', peer', sent, taken, cut, nextId, toPeer, out, call, asked)
    BY <1>2, <1>5, <1>6, PeerKeeps
  <2> QED  BY <1>1, <2>1 DEF StreamInv
<1>7. ASSUME NEW r, p.st \notin Early, PeerMove(k, r, h, toUs, peer, nextId, toUs', peer'), r.snd \in Nat, p.snd <= r.snd,
             r.got = p.got, r.rcv = p.rcv
      PROVE  GotOk(k, r, conns, toUs', peer', sent)
  <2>1. Later(h, conns, toUs, peer, sent, nextId, h, conns, toUs', peer', sent, nextId)
    BY <1>2, <1>7, PeerLater
  <2>2. GotOk(k, p, conns, toUs, peer, sent) /\ (k \in Ids => k < nextId)
    BY <1>3, <1>7 DEF PeerOk, Early
  <2>3. Sealed(conns, toUs, peer, k) => Sealed(conns, toUs', peer', k)
    BY <2>1, <2>2 DEF Later
  <2> QED  BY <1>3, <1>7, <2>2, <2>3 DEF GotOk
<1>8. CASE k \in Clients /\ p.st = "none" /\ PeerSays(k, {"SYN"}, 0)
  <2> DEFINE fl == {"SYN"}
             s == Seg(k, fl, p.snd, p.rcv, 0)
             r == Spoken(p, s, fl)
  <2>1. toUs' = Append(toUs, s) /\ peer' = [peer EXCEPT ![k] = r]
    BY <1>8 DEF PeerSays, Says, Spoken
  <2>2. /\ s \in Segment /\ s.k = "tcp" /\ s.key = k /\ s.flags = fl /\ s.seq = p.snd /\ s.data = 0
        /\ r \in Remote /\ r.un = (IF p.un = None THEN s ELSE p.un) /\ s # None /\ r.snd = p.snd + 1 /\ r.rcv = p.rcv /\ r.got = p.got
        /\ r.st = (IF "SYN" \in fl THEN "synsent" ELSE p.st)
        /\ r.closed = ("FIN" \in fl) /\ r.ahead = (p.ahead \/ p.un # None)
    <3>1. fl \in SUBSET {"SYN", "ACK", "FIN", "PSH", "RST"} /\ 0 \in Nat
      OBVIOUS
    <3>2. s = Seg(k, fl, p.snd, p.rcv, 0) /\ r = Spoken(p, s, fl) /\ p \in Remote
      BY <1>3
    <3> HIDE DEF fl, s, r, p
    <3>3. SaidIs(k, p, fl, 0, s, r)
      BY <3>1, <3>2, SaysIs
    <3> QED  BY <3>3 DEF SaidIs
  <2> HIDE DEF s, r, p
  <2>3. r.st = "synsent" /\ ~r.closed /\ s.flags = {"SYN"} /\ "ACK" \notin s.flags /\ "FIN" \notin s.flags
    BY <2>2
  <2> HIDE DEF fl
  <2>4. /\ p.snd = 0 /\ h[k] = 0 /\ ~p.closed /\ p.rcv = 0 /\ p.got = << >> /\ r.snd = 1 /\ s.seq + 1 = 1
        /\ p.un = None /\ ~p.ahead /\ ~r.ahead /\ r.un = s
    BY <1>3, <1>8, <2>2 DEF PeerOk, Early
  <2>5. k \notin Ids
    BY <1>8, TcpAssumption
  <2>6. PeerMove(k, r, h, toUs, peer, nextId, toUs', peer')
    <3>1. InSeg(s, h, peer', nextId)
      BY <1>8, <2>2, <2>3, <2>4, <2>5 DEF InSeg
    <3>2. \A i \in 1..Len(toUs) : InOrder(toUs[i], s, peer')
      BY <1>4, <1>8, <2>2 DEF InOrder, Early
    <3>3. ~Past(toUs, peer, k)
      BY <1>8 DEF Past, Early, p
    <3>4. peer[k].snd <= r.snd /\ peer[k].st \in Early /\ ~peer[k].closed /\ ~peer[k].ahead
      BY <1>8, <2>4 DEF p, Early
    <3> QED  BY <2>1, <2>2, <3>1, <3>2, <3>3, <3>4 DEF PeerMove
  <2>7. UnOk(s, k, r, h)
    BY <2>2, <2>3, <2>4 DEF UnOk
  <2>8. PeerOk(k, r, h, conns, toUs', peer', sent, nextId)
    BY <1>8, <2>2, <2>3, <2>4, <2>5, <2>7 DEF PeerOk, Early
  <2> QED  BY <1>6, <2>1, <2>6, <2>8
<1>9. CASE p.st = "open" /\ ~p.closed /\ (PeerSays(k, {"ACK"}, p.snd) \/ PeerSays(k, {"FIN", "ACK"}, 0))
  <2>0. PICK fl \in {{"ACK"}, {"FIN", "ACK"}}, x \in {p.snd, 0} : PeerSays(k, fl, x) /\ (x = 0 \/ fl = {"ACK"})
    BY <1>9
  <2> DEFINE s == Seg(k, fl, p.snd, p.rcv, x)
             r == Spoken(p, s, fl)
  <2>1. toUs' = Append(toUs, s) /\ peer' = [peer EXCEPT ![k] = r]
    BY <2>0 DEF PeerSays, Says, Spoken
  <2>2. /\ s \in Segment /\ s.k = "tcp" /\ s.key = k /\ s.flags = fl /\ s.seq = p.snd /\ s.data = x
        /\ r \in Remote /\ r.un = (IF p.un = None THEN s ELSE p.un) /\ s # None /\ r.snd = p.snd + 1 /\ r.rcv = p.rcv /\ r.got = p.got
        /\ r.st = (IF "SYN" \in fl THEN "synsent" ELSE p.st)
        /\ r.closed = ("FIN" \in fl) /\ r.ahead = (p.ahead \/ p.un # None)
    <3>1. fl \in SUBSET {"SYN", "ACK", "FIN", "PSH", "RST"} /\ x \in Nat
      BY <1>3
    <3>2. s = Seg(k, fl, p.snd, p.rcv, x) /\ r = Spoken(p, s, fl) /\ p \in Remote
      BY <1>3
    <3> HIDE DEF s, r, p
    <3>3. s = Seg(k, fl, p.snd, p.rcv, x) /\ p \in Remote /\ r = Spoken(p, s, fl) /\ k \in Keys
      BY <3>2
    <3>4. SaidIs(k, p, fl, x, s, r)
      BY <3>1, <3>3, SaysIs
    <3> QED  BY <3>4 DEF SaidIs
  <2> HIDE DEF s, r
  <2>3. r.st = "open" /\ (r.closed <=> "FIN" \in s.flags) /\ "SYN" \notin s.flags
    BY <1>9, <2>2
  <2>4. /\ GotOk(k, p, conns, toUs, peer, sent) /\ p.snd >= 1 /\ (h[k] = 0 \/ h[k] < p.snd)
        /\ p.un = None /\ ~p.ahead => h[k] + 1 = p.snd
    BY <1>3, <1>9 DEF PeerOk, Early, GotOk
  <2>5. (k \in Ids => k < nextId) /\ p.snd <= r.snd /\ p.snd < r.snd /\ h[k] < r.snd /\ s.seq + 1 = r.snd /\ r.snd \in Nat
    BY <1>3, <1>9, <2>2, <2>4
  <2>6. s.data # 0 => s.data = p.snd /\ s.data = s.seq /\ (s.data = h[k] + 1 \/ r.ahead)
    BY <1>3, <2>0, <2>2, <2>4
  <2>7. peer'[k] = r
    BY <1>2, <2>1 DEF Inv, Types
  <2>8. PeerMove(k, r, h, toUs, peer, nextId, toUs', peer')
    <3>1. InSeg(s, h, peer', nextId)
      BY <2>2, <2>3, <2>5, <2>6, <2>7 DEF InSeg, Early
    <3>2. ASSUME NEW i \in 1..Len(toUs) PROVE InOrder(toUs[i], s, peer')
      <4> SUFFICES ASSUME toUs[i].k = "tcp", toUs[i].key = k, toUs[i].data # 0, s.data # 0
                   PROVE  toUs[i].data <= s.data
        BY <2>2, <2>3 DEF InOrder
      <4>1. toUs[i].data \in Nat /\ toUs[i].data < p.snd
        BY <1>4
      <4> QED  BY <1>3, <2>6, <4>1
    <3>3. r.st \notin Early /\ (peer[k].closed => r.closed) /\ (peer[k].ahead => r.ahead) /\ peer[k].snd <= r.snd
      BY <1>3, <1>9, <2>2, <2>3, <2>5 DEF Early
    <3> QED  BY <2>1, <2>2, <2>3, <3>1, <3>2, <3>3 DEF PeerMove
  <2>9. GotOk(k, r, conns, toUs', peer', sent)
    BY <1>7, <1>9, <2>2, <2>5, <2>8 DEF Early
  <2>10. r.un # None /\ UnOk(r.un, k, r, h)
    <3>1. CASE p.un = None
      BY <2>2, <2>3, <2>5, <2>6, <3>1 DEF UnOk, Early
    <3>2. CASE p.un # None
      <4>1. UnOk(p.un, k, p, h) /\ r.un = p.un /\ r.ahead /\ p.un.seq \in Nat
        BY <1>3, <2>2, <3>2 DEF PeerOk, Segment
      <4>2. p.un.seq + 1 <= r.snd
        BY <1>3, <2>2, <4>1 DEF UnOk
      <4>3. "FIN" \notin p.un.flags /\ (k \in Clients => "SYN" \notin p.un.flags)
        BY <1>9, <4>1 DEF UnOk
      <4> QED  BY <2>3, <3>2, <4>1, <4>2, <4>3 DEF UnOk, Early
    <3> QED  BY <3>1, <3>2
  <2>11. PeerOk(k, r, h, conns, toUs', peer', sent, nextId)
    BY <1>3, <2>2, <2>3, <2>5, <2>9, <2>10 DEF PeerOk, Early
  <2> QED  BY <1>6, <2>1, <2>8, <2>11
<1>10. CASE p.un # None /\ Says(k, [p EXCEPT !.resent = @ + 1], [p.un EXCEPT !.ack = p.rcv])
  <2> DEFINE u == p.un
             s == [u EXCEPT !.ack = p.rcv]
             m == p.resent + 1
             r == [p EXCEPT !.resent = m]
  <2>1. toUs' = Append(toUs, s) /\ peer' = [peer EXCEPT ![k] = r]
    BY <1>10 DEF Says
  <2>2. m \in Nat /\ u \in Segment
    BY <1>3, <1>10
  <2>3. /\ s \in Segment /\ s.k = "tcp" /\ s.key = u.key /\ s.flags = u.flags /\ s.seq = u.seq /\ s.data = u.data
        /\ u.seq \in Nat /\ u.data \in Nat
    <3> HIDE DEF u
    <3> QED  BY <1>3, <2>2 DEF Segment
  <2>4. /\ r \in Remote /\ r.un = u /\ r.snd = p.snd /\ r.rcv = p.rcv /\ r.got = p.got
        /\ r.st = p.st /\ r.closed = p.closed /\ r.ahead = p.ahead
    <3> HIDE DEF m
    <3> QED  BY <1>3, <2>2 DEF Remote
  <2> HIDE DEF s, r, m
  <2>5. UnOk(u, k, p, h) /\ p.st # "none" /\ (k \in Ids => k < nextId)
    BY <1>3, <1>10 DEF PeerOk
  <2>6. u.key = k /\ u.seq + 1 <= p.snd /\ (u.seq + 1 = p.snd \/ p.ahead)
    BY <2>5 DEF UnOk
  <2>7. peer'[k] = r
    BY <1>2, <2>1 DEF Inv, Types
  <2>8. PeerMove(k, r, h, toUs, peer, nextId, toUs', peer')
    <3>1. InSeg(s, h, peer', nextId)
      <4>1. s.data # 0 => s.data = s.seq /\ s.data < r.snd /\ (s.data = h[k] \/ s.data = h[k] + 1 \/ r.ahead)
        BY <1>3, <2>3, <2>4, <2>5, <2>6 DEF UnOk
      <4> QED  BY <2>3, <2>4, <2>5, <2>6, <2>7, <4>1 DEF InSeg, UnOk
    <3>2. ASSUME NEW i \in 1..Len(toUs) PROVE InOrder(toUs[i], s, peer')
      <4> SUFFICES ASSUME toUs[i].k = "tcp", toUs[i].key = k
                   PROVE  /\ k \in Clients /\ "ACK" \in toUs[i].flags => "SYN" \notin s.flags
                          /\ toUs[i].data # 0 /\ s.data # 0 => toUs[i].data <= s.data \/ p.ahead
        BY <2>3, <2>4, <2>6, <2>7 DEF InOrder
      <4>1. k \in Clients /\ "ACK" \in toUs[i].flags => "SYN" \notin s.flags
        BY <1>4, <2>3, <2>5 DEF UnOk, Early
      <4>2. toUs[i].data # 0 /\ s.data # 0 => toUs[i].data <= s.data \/ p.ahead
        <5>1. toUs[i].data # 0 => toUs[i].data \in Nat /\ toUs[i].data < p.snd
          BY <1>4
        <5>2. s.data # 0 => s.data = u.seq
          BY <2>3, <2>5 DEF UnOk
        <5> QED  BY <1>3, <2>3, <2>6, <5>1, <5>2
      <4> QED  BY <4>1, <4>2
    <3>3. k \in Clients /\ "SYN" \in s.flags => ~Past(toUs, peer, k)
      BY <2>3, <2>5 DEF UnOk, Past, Early
    <3>4. /\ (peer[k].st \notin Early => r.st \notin Early) /\ peer[k].snd <= r.snd
          /\ (peer[k].closed => r.closed) /\ (peer[k].ahead => r.ahead)
      BY <1>3, <2>4
    <3> QED  BY <2>1, <2>3, <2>4, <2>6, <3>1, <3>2, <3>3, <3>4 DEF PeerMove
  <2>9. p.st \notin Early => GotOk(k, r, conns, toUs', peer', sent)
    <3>1. r.snd \in Nat /\ p.snd <= r.snd
      BY <1>3, <2>4
    <3> QED  BY <1>7, <2>4, <2>8, <3>1
  <2>10. PeerOk(k, r, h, conns, toUs', peer', sent, nextId)
    <3>1. PeerOk(k, p, h, conns, toUs, peer, sent, nextId)
      BY <1>3
    <3> QED  BY <2>4, <2>9, <3>1 DEF PeerOk, UnOk
  <2> QED  BY <1>6, <2>1, <2>8, <2>10
<1> QED  BY <1>8, <1>9, <1>10 DEF PeerActs

\* An acknowledgement of the remote end, or its refusal.
LEMMA AckSaid ==
  ASSUME NEW h, NEW C, NEW q, NEW P, NEW S, NEW T, NEW X, NEW n, NEW tp, NEW o, NEW cl, NEW ak,
         Inv(h, C, q, P, S, T, X, n, tp, o, cl, ak), NEW k \in Keys, NEW r \in Remote,
         NEW P2, P2 = [P EXCEPT ![k] = r], NEW s \in Segment, s.key = k, "SYN" \notin s.flags, "FIN" \notin s.flags,
         s.data = 0, k \in Ids => k < n, k \in Clients => r.st \notin Early,
         P[k].st \notin Early => r.st \notin Early, P[k].closed => r.closed, P[k].ahead => r.ahead, P[k].snd <= r.snd
  PROVE  PeerMove(k, r, h, q, P, n, Append(q, s), P2)
<1>1. P2[k] = r /\ s.k = "tcp"
  BY DEF Inv, Types, Segment
<1>2. InSeg(s, h, P2, n)
  BY <1>1 DEF InSeg
<1>3. \A i \in 1..Len(q) : InOrder(q[i], s, P2)
  BY DEF InOrder
<1> QED  BY <1>1, <1>2, <1>3 DEF PeerMove

\* What a remote end that is not new makes of a segment.
Heard(p, s) ==
  IF "ACK" \in s.flags /\ p.un # None /\ s.ack > p.un.seq
  THEN [p EXCEPT !.un = Oldest(s.key, p, s.ack)] ELSE p
Taken(p, s) ==
  LET q == Heard(p, s)
      next == s.seq = p.rcv
  IN  [q EXCEPT !.st = IF q.un = None /\ "ACK" \in s.flags THEN "open" ELSE @,
                !.got = IF next /\ s.data # 0 THEN Append(@, s.data) ELSE @,
                !.rcv = IF next /\ (s.data # 0 \/ "FIN" \in s.flags) THEN @ + 1 ELSE @]

\* In particular.
TakenFrom(p, s, r) ==
  /\ r \in Remote /\ r.snd = p.snd /\ r.closed = p.closed /\ r.ahead = p.ahead /\ r.st \in {"synrcvd", "open"}
  /\ p.st = "open" => r.st = "open"
  /\ r.un = p.un \/ (r.un = Oldest(s.key, p, s.ack) /\ p.un # None /\ "ACK" \in s.flags /\ s.ack > p.un.seq)
  /\ r.st = p.st \/ (r.un = None /\ "ACK" \in s.flags)
  /\ r.un = None /\ "ACK" \in s.flags => r.st = "open"
  /\ r.got = (IF s.seq = p.rcv /\ s.data # 0 THEN Append(p.got, s.data) ELSE p.got)
  /\ r.rcv = (IF s.seq = p.rcv /\ (s.data # 0 \/ "FIN" \in s.flags) THEN p.rcv + 1 ELSE p.rcv)

\* What it keeps.
LEMMA OldestIs ==
  ASSUME NEW k \in Keys, NEW p \in Remote, NEW n \in Nat, NEW u, u = Oldest(k, p, n)
  PROVE  /\ u \in {None} \cup Segment /\ (n >= p.snd => u = None)
         /\ u # None => /\ u.key = k /\ u.seq = n /\ n < p.snd /\ "SYN" \notin u.flags /\ "ACK" \in u.flags
                        /\ ("FIN" \in u.flags => p.closed) /\ (u.data # 0 => u.data = n)
<1>1. p.snd \in Nat /\ p.rcv \in Nat /\ 0 \in Nat
  BY DEF Remote
<1>2. CASE n >= p.snd
  BY <1>1, <1>2 DEF Oldest
<1>3. CASE ~(n >= p.snd) /\ p.closed /\ n + 1 = p.snd
  <2> DEFINE fl == {"FIN", "ACK"}
  <2>1. fl \in SUBSET {"SYN", "ACK", "FIN", "PSH", "RST"} /\ "SYN" \notin fl /\ "ACK" \in fl /\ u = Seg(k, fl, n, p.rcv, 0)
    BY <1>3 DEF Oldest
  <2> HIDE DEF fl
  <2>2. u \in Segment /\ u.key = k /\ u.flags = fl /\ u.seq = n /\ u.data = 0
    BY <1>1, <2>1, SegIs
  <2> QED  BY <1>1, <1>3, <2>1, <2>2
<1>4. CASE ~(n >= p.snd) /\ ~(p.closed /\ n + 1 = p.snd)
  <2> DEFINE fl == {"ACK"}
  <2>1. fl \in SUBSET {"SYN", "ACK", "FIN", "PSH", "RST"} /\ "SYN" \notin fl /\ "ACK" \in fl /\ "FIN" \notin fl
        /\ u = Seg(k, fl, n, p.rcv, n)
    BY <1>4 DEF Oldest
  <2> HIDE DEF fl
  <2>2. u \in Segment /\ u.key = k /\ u.flags = fl /\ u.seq = n /\ u.data = n
    BY <1>1, <2>1, SegIs
  <2> QED  BY <1>1, <1>4, <2>1, <2>2
<1> QED  BY <1>2, <1>3, <1>4

\* The parts of what it becomes.
LEMMA TakenIs ==
  ASSUME NEW p \in Remote, NEW s \in Segment, p.st \in {"synrcvd", "open"}, NEW r, r = Taken(p, s)
  PROVE  TakenFrom(p, s, r)
<1>1. /\ p.st \in {"none", "synsent", "synrcvd", "open"} /\ p.rcv \in Nat /\ p.rcv + 1 \in Nat
      /\ p.un \in {None} \cup Segment /\ p.got \in Units /\ s.data \in Nat /\ s.key \in Keys /\ s.ack \in Nat
  BY DEF Remote, Segment
<1> DEFINE q == Heard(p, s)
<1>2. /\ q \in Remote /\ q.snd = p.snd /\ q.closed = p.closed /\ q.ahead = p.ahead /\ q.st = p.st /\ q.rcv = p.rcv /\ q.got = p.got
      /\ q.un = p.un \/ (q.un = Oldest(s.key, p, s.ack) /\ p.un # None /\ "ACK" \in s.flags /\ s.ack > p.un.seq)
  <2>1. CASE "ACK" \in s.flags /\ p.un # None /\ s.ack > p.un.seq
    <3> DEFINE u == Oldest(s.key, p, s.ack)
    <3>1. u \in {None} \cup Segment
      BY <1>1, OldestIs
    <3>2. q = [p EXCEPT !.un = u]
      BY <2>1 DEF Heard
    <3> HIDE DEF q, u
    <3>3. /\ q \in Remote /\ q.snd = p.snd /\ q.closed = p.closed /\ q.ahead = p.ahead /\ q.st = p.st
          /\ q.rcv = p.rcv /\ q.got = p.got /\ q.un = u
      BY <3>1, <3>2 DEF Remote
    <3> QED  BY <2>1, <3>3 DEF u
  <2>2. CASE ~("ACK" \in s.flags /\ p.un # None /\ s.ack > p.un.seq)
    BY <2>2 DEF Heard
  <2> QED  BY <2>1, <2>2
<1> DEFINE st == IF q.un = None /\ "ACK" \in s.flags THEN "open" ELSE q.st
           got == IF s.seq = p.rcv /\ s.data # 0 THEN Append(p.got, s.data) ELSE p.got
           rcv == IF s.seq = p.rcv /\ (s.data # 0 \/ "FIN" \in s.flags) THEN p.rcv + 1 ELSE p.rcv
<1>3. /\ st \in {"synrcvd", "open"} /\ got \in Units /\ rcv \in Nat /\ (p.st = "open" => st = "open")
      /\ st = p.st \/ (q.un = None /\ "ACK" \in s.flags)
      /\ q.un = None /\ "ACK" \in s.flags => st = "open"
  BY <1>1, <1>2 DEF Units
<1>4. r = [q EXCEPT !.st = st, !.got = got, !.rcv = rcv]
  BY <1>2 DEF Taken
<1> HIDE DEF q, st, got, rcv
<1>5. /\ r \in Remote /\ r.snd = q.snd /\ r.closed = q.closed /\ r.ahead = q.ahead /\ r.un = q.un /\ r.st = st /\ r.got = got /\ r.rcv = rcv
  BY <1>2, <1>3, <1>4 DEF Remote
<1>6. /\ r \in Remote /\ r.snd = p.snd /\ r.closed = p.closed /\ r.ahead = p.ahead /\ r.st \in {"synrcvd", "open"}
      /\ p.st = "open" => r.st = "open"
      /\ r.un = p.un \/ (r.un = Oldest(s.key, p, s.ack) /\ p.un # None /\ "ACK" \in s.flags /\ s.ack > p.un.seq)
      /\ r.st = p.st \/ (r.un = None /\ "ACK" \in s.flags)
      /\ r.un = None /\ "ACK" \in s.flags => r.st = "open"
  BY <1>2, <1>3, <1>5
<1>7. r.got = (IF s.seq = p.rcv /\ s.data # 0 THEN Append(p.got, s.data) ELSE p.got)
  BY <1>5 DEF got
<1>8. r.rcv = (IF s.seq = p.rcv /\ (s.data # 0 \/ "FIN" \in s.flags) THEN p.rcv + 1 ELSE p.rcv)
  BY <1>5 DEF rcv
<1> QED  BY <1>6, <1>7, <1>8 DEF TakenFrom

\* Only the next unit, or a FIN behind the last one, counts.
LEMMA TakenOk ==
  ASSUME NEW h, NEW C, NEW q, NEW P, NEW S, NEW T, NEW X, NEW n, NEW tp, NEW o, NEW cl, NEW ak,
         Inv(h, C, q, P, S, T, X, n, tp, o, cl, ak), NEW s \in Segment, Out(s, h, C, q, P, S, n),
         NEW k, k = s.key, NEW p, p = P[k], p.st \in {"synrcvd", "open"},
         NEW r, r = Taken(p, s), NEW q2, NEW P2, PeerMove(k, r, h, q, P, n, q2, P2)
  PROVE  PeerOk(k, r, h, C, q2, P2, S, n)
<1>1. /\ k \in Keys /\ s.seq \in Nat /\ s.ack \in Nat /\ s.data \in Nat
  BY DEF Segment
<1>2. /\ p \in Remote /\ PeerOk(k, p, h, C, q, P, S, n) /\ h[k] \in Nat /\ S[k] \in Nat /\ n \in Nat
      /\ p.snd \in Nat /\ p.rcv \in Nat
      /\ p.un \in {None} \cup Segment /\ p.got \in Units /\ Len(p.got) \in Nat /\ p.closed \in BOOLEAN
         /\ p.ahead \in BOOLEAN
      /\ (k \in Ids => k \in Nat) /\ (k \in Ids => k < n)
  BY <1>1, PeerKnown
<1>3. /\ r \in Remote /\ r.snd = p.snd /\ r.closed = p.closed /\ r.ahead = p.ahead /\ r.st \in {"synrcvd", "open"}
      /\ p.st = "open" => r.st = "open"
      /\ r.un = p.un \/ (r.un = Oldest(s.key, p, s.ack) /\ p.un # None /\ "ACK" \in s.flags /\ s.ack > p.un.seq)
      /\ r.st = p.st \/ (r.un = None /\ "ACK" \in s.flags)
      /\ r.un = None /\ "ACK" \in s.flags => r.st = "open"
      /\ r.got = (IF s.seq = p.rcv /\ s.data # 0 THEN Append(p.got, s.data) ELSE p.got)
      /\ r.rcv = (IF s.seq = p.rcv /\ (s.data # 0 \/ "FIN" \in s.flags) THEN p.rcv + 1 ELSE p.rcv)
  <2>1. TakenFrom(p, s, r)
    BY <1>2, TakenIs
  <2> QED  BY <2>1 DEF TakenFrom
<1>4. GotOk(k, p, C, q, P, S) /\ (Sealed(C, q, P, k) => Sealed(C, q2, P2, k))
  <2>1. Later(h, C, q, P, S, n, h, C, q2, P2, S, n)
    BY PeerLater
  <2> QED  BY <1>1, <1>2, <2>1 DEF PeerOk, Early, Later
<1>5. GotOk(k, r, C, q2, P2, S)
  <2>1. CASE s.seq = p.rcv /\ s.data # 0
    <3>1. r.got = Append(p.got, s.data) /\ r.rcv = p.rcv + 1
      BY <1>3, <2>1
    <3>2. s.data = s.seq /\ s.data <= S[k]
      BY <2>1 DEF Out
    <3>3. p.rcv = Len(p.got) + 1
      BY <1>2, <1>4, <2>1, <3>2 DEF GotOk
    <3>4. s.data = Len(p.got) + 1
      BY <2>1, <3>2, <3>3
    <3>5. /\ Len(r.got) = Len(p.got) + 1 /\ r.got[Len(p.got) + 1] = s.data
          /\ \A i \in 1..Len(p.got) : r.got[i] = p.got[i]
      BY <1>1, <1>2, <3>1 DEF Units
    <3>6. \A i \in 1..Len(r.got) : i \in 1..Len(p.got) \/ i = Len(p.got) + 1
      BY <1>2, <3>5
    <3>7. \A i \in 1..Len(r.got) : r.got[i] = i
      BY <1>4, <3>4, <3>5, <3>6 DEF GotOk
    <3>8. Len(r.got) <= S[k] /\ r.rcv = Len(r.got) + 1 /\ r.snd >= 1
      BY <1>2, <1>3, <1>4, <3>1, <3>2, <3>3, <3>4, <3>5 DEF GotOk
    <3> QED  BY <3>7, <3>8 DEF GotOk
  <2>2. CASE s.seq = p.rcv /\ s.data = 0 /\ "FIN" \in s.flags
    <3>1. r.got = p.got /\ r.rcv = p.rcv + 1
      BY <1>3, <2>2
    <3>2. s.seq = S[k] + 1 /\ Sealed(C, q, P, k)
      BY <2>2 DEF Out
    <3>3. p.rcv = Len(p.got) + 1 /\ Len(p.got) = S[k]
      BY <1>2, <1>4, <2>2, <3>2 DEF GotOk
    <3>4. r.rcv = Len(r.got) + 2
      BY <1>2, <3>1, <3>3
    <3> QED  BY <1>3, <1>4, <3>1, <3>2, <3>3, <3>4 DEF GotOk
  <2>3. CASE ~(s.seq = p.rcv /\ (s.data # 0 \/ "FIN" \in s.flags))
    <3>1. r.got = p.got /\ r.rcv = p.rcv
      BY <1>3, <2>3
    <3> QED  BY <1>3, <1>4, <3>1 DEF GotOk
  <2> QED  BY <2>1, <2>2, <2>3
<1>6. r.st = "open" /\ r.un = None /\ ~r.closed /\ ~r.ahead => h[k] + 1 = r.snd
  <2> SUFFICES ASSUME r.st = "open", r.un = None, ~r.closed, ~r.ahead PROVE h[k] + 1 = p.snd
    BY <1>3
  <2>1. CASE r.un = p.un
    <3>1. p.st = "open"
      BY <1>2, <2>1 DEF PeerOk
    <3> QED  BY <1>2, <1>3, <2>1, <3>1 DEF PeerOk
  <2>2. CASE p.un # None /\ s.ack > p.un.seq
    <3>1. UnOk(p.un, k, p, h) /\ p.un.seq \in Nat /\ (h[k] = 0 \/ h[k] < p.snd)
      BY <1>2, <2>2 DEF PeerOk, Segment
    <3>2. p.un.seq + 1 = p.snd
      BY <1>3, <3>1 DEF UnOk
    <3>3. s.ack <= h[k] + 1
      BY <1>3 DEF Out, Acks
    <3> QED  BY <1>1, <1>2, <2>2, <3>1, <3>2, <3>3
  <2> QED  BY <1>3, <2>1, <2>2
<1>7. r.un # None => UnOk(r.un, k, r, h)
  <2> SUFFICES ASSUME r.un # None PROVE UnOk(r.un, k, r, h)
    OBVIOUS
  <2>1. CASE r.un = p.un
    <3>1. UnOk(p.un, k, p, h)
      BY <1>2, <2>1 DEF PeerOk
    <3> QED  BY <1>3, <2>1, <3>1 DEF UnOk, Early
  <2>2. CASE r.un = Oldest(k, p, s.ack) /\ p.un # None /\ s.ack > p.un.seq
    <3>1. /\ r.un.key = k /\ r.un.seq = s.ack /\ s.ack < p.snd /\ "SYN" \notin r.un.flags
          /\ ("FIN" \in r.un.flags => p.closed) /\ (r.un.data # 0 => r.un.data = s.ack)
      BY <1>1, <1>2, <2>2, OldestIs
    <3>2. UnOk(p.un, k, p, h) /\ p.un.seq \in Nat
      BY <1>2, <2>2 DEF PeerOk, Segment
    <3>3. p.ahead /\ s.ack + 1 <= p.snd
      BY <1>1, <1>2, <2>2, <3>1, <3>2 DEF UnOk
    <3> QED  BY <1>3, <3>1, <3>3 DEF UnOk, Early
  <2> QED  BY <1>3, <2>1, <2>2
<1>8. /\ r.st \notin Early /\ (r.closed \/ r.ahead => r.st = "open") /\ (k \in Clients => r.st # "synrcvd")
      /\ ~(k \in Ids /\ k >= n) /\ (h[k] = 0 \/ h[k] < r.snd) /\ (r.st = "synrcvd" => r.un # None)
  <2>1. r.st = "synrcvd" => r.un # None
    <3> SUFFICES ASSUME r.st = "synrcvd" PROVE r.un # None
      OBVIOUS
    <3>1. p.st = "synrcvd" /\ p.un # None /\ (r.un = None => r.un # p.un)
      BY <1>2, <1>3 DEF PeerOk
    <3> QED  BY <1>3, <3>1
  <2>2. r.closed \/ r.ahead => r.st = "open"
    BY <1>2, <1>3 DEF PeerOk
  <2>3. k \in Clients => r.st # "synrcvd"
    BY <1>2, <1>3 DEF PeerOk
  <2>4. ~(k \in Ids /\ k >= n)
    BY <1>2
  <2>5. r.st \notin Early /\ (h[k] = 0 \/ h[k] < r.snd)
    BY <1>2, <1>3 DEF PeerOk, Early
  <2> QED  BY <2>1, <2>2, <2>3, <2>4, <2>5
<1> QED  BY <1>5, <1>6, <1>7, <1>8 DEF PeerOk, Early

\* It takes a segment of ours.
LEMMA PeerTakesKeeps ==
  ASSUME StreamInv, PeerTakes
  PROVE  StreamInv'
<1>0. Shape
  BY ShapeHolds
<1>1. UNCHANGED <<nextId, asked, call, out, conns, taken, sent, cut>>
  BY DEF PeerTakes
<1>2. PICK h : Inv(h, conns, toUs, peer, sent, taken, cut, nextId, toPeer, out, call, asked)
  BY DEF StreamInv
<1> DEFINE s == Head(toPeer)
           k == s.key
           p == peer[k]
<1>3. /\ IsList(toPeer') /\ OutSet(toPeer', out) \subseteq OutSet(toPeer, out)
      /\ s \in OutSet(toPeer, out)
  <2>1. toPeer # << >> /\ toPeer' = Tail(toPeer) /\ IsList(toPeer)
    BY <1>0 DEF PeerTakes, Shape
  <2>2. /\ IsList(toPeer')
        /\ \A i \in 1..Len(toPeer') : i + 1 \in 1..Len(toPeer) /\ toPeer'[i] = toPeer[i + 1]
    BY <2>1, ListTail
  <2>3. 1 \in 1..Len(toPeer) /\ s = toPeer[1]
    BY <2>1, ListIs
  <2>4. OutSet(toPeer', out) \subseteq OutSet(toPeer, out)
    BY <2>2 DEF OutSet
  <2>5. s \in OutSet(toPeer, out)
    BY <2>3 DEF OutSet
  <2> QED  BY <2>2, <2>4, <2>5
<1>4. s \in Segment /\ Out(s, h, conns, toUs, peer, sent, nextId)
  BY <1>2, <1>3 DEF Inv, Types
<1>5. k \in Keys /\ s.flags \in SUBSET {"SYN", "ACK", "FIN", "PSH", "RST"} /\ (k \in Ids => k < nextId)
  BY <1>4 DEF Segment, Out
<1> HIDE DEF s
<1>6. /\ p \in Remote /\ PeerOk(k, p, h, conns, toUs, peer, sent, nextId) /\ h[k] \in Nat
      /\ p.st \in {"none", "synsent", "synrcvd", "open"} /\ p.snd \in Nat /\ p.rcv \in Nat
      /\ p.closed \in BOOLEAN /\ p.ahead \in BOOLEAN /\ sent[k] \in Nat /\ nextId \in Nat
      /\ (k \in Ids => k \in Nat)
  BY <1>2, <1>5, PeerKnown
<1>7. ASSUME NEW r, PeerMove(k, r, h, toUs, peer, nextId, toUs', peer'),
             PeerOk(k, r, h, conns, toUs', peer', sent, nextId)
      PROVE  StreamInv'
  <2>1. Inv(h, conns, toUs', peer', sent, taken, cut, nextId, toPeer', out, call, asked)
    <3> HIDE DEF k
    <3> QED  BY <1>2, <1>3, <1>7, PeerKeeps
  <2> QED  BY <1>1, <2>1 DEF StreamInv
\* An answer that is a bare acknowledgement or a refusal.
<1>8. ASSUME NEW r \in Remote, NEW u, NEW fl \in {{"ACK"}, {"RST", "ACK"}}, NEW a \in Nat, NEW b \in Nat,
             u = Seg(k, fl, a, b, 0), toUs' = Append(toUs, u), peer' = [peer EXCEPT ![k] = r],
             k \in Clients => r.st \notin Early, p.st \notin Early => r.st \notin Early,
             p.closed => r.closed, p.ahead => r.ahead, p.snd <= r.snd
      PROVE  PeerMove(k, r, h, toUs, peer, nextId, toUs', peer')
  <2>1. fl \in SUBSET {"SYN", "ACK", "FIN", "PSH", "RST"} /\ 0 \in Nat /\ "SYN" \notin fl /\ "FIN" \notin fl
    BY <1>8
  <2> HIDE DEF k
  <2>2. u \in Segment /\ u.key = k /\ u.flags = fl /\ u.data = 0
    BY <1>5, <1>8, <2>1, SegIs
  <2>3. PeerMove(k, r, h, toUs, peer, nextId, Append(toUs, u), peer')
    BY <1>2, <1>5, <1>8, <2>1, <2>2, AckSaid
  <2> QED  BY <1>8, <2>3
\* It stays as it is.
<1>9. ASSUME PeerMove(k, p, h, toUs, peer, nextId, toUs', peer')
      PROVE  PeerOk(k, p, h, conns, toUs', peer', sent, nextId)
  <2> HIDE DEF k
  <2>1. /\ Later(h, conns, toUs, peer, sent, nextId, h, conns, toUs', peer', sent, nextId)
        /\ peer'[k] = p
    BY <1>2, <1>9, PeerLater
  <2>2. PeerOk(k, peer'[k], h, conns, toUs', peer', sent, nextId)
    BY <1>5, <1>6, <2>1, PeerStays
  <2> QED  BY <2>1, <2>2
\* A SYN of ours: it accepts
<1>10. ASSUME p.st = "none", s.flags = {"SYN"}, NEW sa, sa = Seg(k, {"SYN", "ACK"}, 0, 1, 0),
              Says(k, [p EXCEPT !.st = "synrcvd", !.snd = 1, !.rcv = 1, !.un = sa], sa)
       PROVE  StreamInv'
  <2> DEFINE r == [p EXCEPT !.st = "synrcvd", !.snd = 1, !.rcv = 1, !.un = sa]
  <2>1. toUs' = Append(toUs, sa) /\ peer' = [peer EXCEPT ![k] = r]
    BY <1>10 DEF Says
  <2>2. k \in Ids /\ k \notin Clients /\ k < nextId
    BY <1>4, <1>5, <1>10, TcpAssumption DEF Out
  <2>3. p.snd = 0 /\ p.rcv = 0 /\ p.got = << >> /\ ~p.closed /\ ~p.ahead /\ h[k] = 0
    BY <1>6, <1>10 DEF PeerOk, Early
  <2> HIDE DEF k
  <2>4. /\ sa \in Segment /\ sa.k = "tcp" /\ sa.key = k /\ sa.flags = {"SYN", "ACK"}
        /\ sa.seq = 0 /\ sa.data = 0 /\ sa # None
    <3> DEFINE fl == {"SYN", "ACK"}
    <3>1. fl \in SUBSET {"SYN", "ACK", "FIN", "PSH", "RST"} /\ 0 \in Nat /\ 1 \in Nat /\ sa = Seg(k, fl, 0, 1, 0)
      BY <1>10
    <3> HIDE DEF fl
    <3>2. /\ sa \in Segment /\ sa.k = "tcp" /\ sa.key = k /\ sa.flags = fl
          /\ sa.seq = 0 /\ sa.data = 0 /\ sa # None
      BY <1>5, <3>1, SegIs
    <3> QED  BY <3>2 DEF fl
  <2>5. /\ r \in Remote /\ r.st = "synrcvd" /\ r.snd = 1 /\ r.rcv = 1 /\ r.un = sa
        /\ r.got = p.got /\ r.closed = p.closed /\ r.ahead = p.ahead
    <3> HIDE DEF p
    <3> QED  BY <1>6, <2>4 DEF Remote
  <2> HIDE DEF r
  <2>6. PeerMove(k, r, h, toUs, peer, nextId, toUs', peer')
    <3>1. InSeg(sa, h, peer', nextId)
      BY <2>2, <2>4 DEF InSeg
    <3>2. \A i \in 1..Len(toUs) : InOrder(toUs[i], sa, peer')
      BY <2>2, <2>4 DEF InOrder
    <3>3. peer[k].snd <= r.snd /\ peer[k].st \in Early /\ ~peer[k].closed /\ ~peer[k].ahead
      BY <1>10, <2>3, <2>5 DEF Early
    <3> QED  BY <1>5, <2>1, <2>2, <2>4, <2>5, <3>1, <3>2, <3>3 DEF PeerMove
  <2>7. UnOk(sa, k, r, h)
    BY <2>2, <2>4, <2>5 DEF UnOk
  <2>8. GotOk(k, r, conns, toUs', peer', sent)
    <3>1. Len(r.got) = 0
      BY <2>3, <2>5
    <3> QED  BY <1>6, <2>5, <3>1 DEF GotOk
  <2>9. PeerOk(k, r, h, conns, toUs', peer', sent, nextId)
    <3>1. ~(k \in Ids /\ k >= nextId) /\ (h[k] = 0 \/ h[k] < r.snd) /\ r.st \notin Early /\ ~r.closed /\ ~r.ahead
      BY <1>6, <2>2, <2>3, <2>5 DEF Early
    <3> QED  BY <2>2, <2>4, <2>5, <2>7, <2>8, <3>1 DEF PeerOk
  <2> QED  BY <1>7, <2>6, <2>9 DEF k
\* or refuses.
<1>11. ASSUME p.st = "none", s.flags = {"SYN"}, Says(k, p, Seg(k, {"RST", "ACK"}, 0, 1, 0))
       PROVE  StreamInv'
  <2> DEFINE u == Seg(k, {"RST", "ACK"}, 0, 1, 0)
  <2>1. toUs' = Append(toUs, u) /\ peer' = [peer EXCEPT ![k] = p] /\ u = Seg(k, {"RST", "ACK"}, 0, 1, 0)
    BY <1>11 DEF Says
  <2>2. k \notin Clients
    BY <1>4, <1>11, TcpAssumption DEF Out
  <2> HIDE DEF u
  <2>3. PeerMove(k, p, h, toUs, peer, nextId, toUs', peer')
    <3>1. p.snd <= p.snd /\ 0 \in Nat /\ 1 \in Nat
      BY <1>6
    <3> HIDE DEF p
    <3> QED  BY <1>6, <1>8, <2>1, <2>2, <3>1
  <2> QED  BY <1>7, <1>9, <2>3
\* The answer to its own SYN.
<1>12. ASSUME p.st = "synsent", NEW o, o = [p EXCEPT !.st = "open", !.rcv = 1, !.un = None],
              Says(k, o, Seg(k, {"ACK"}, o.snd, o.rcv, 0))
       PROVE  StreamInv'
  <2> DEFINE u == Seg(k, {"ACK"}, o.snd, o.rcv, 0)
  <2>1. toUs' = Append(toUs, u) /\ peer' = [peer EXCEPT ![k] = o] /\ u = Seg(k, {"ACK"}, o.snd, o.rcv, 0)
    BY <1>12 DEF Says
  <2>2. p.snd = 1 /\ p.rcv = 0 /\ p.got = << >> /\ ~p.closed /\ ~p.ahead /\ h[k] = 0
    BY <1>6, <1>12 DEF PeerOk, Early
  <2>3. /\ o \in Remote /\ o.st = "open" /\ o.snd = 1 /\ o.rcv = 1 /\ o.un = None
        /\ o.got = << >> /\ o.closed = p.closed /\ o.ahead = p.ahead
    <3> HIDE DEF p
    <3> QED  BY <1>6, <1>12, <2>2 DEF Remote
  <2> HIDE DEF u
  <2>4. PeerMove(k, o, h, toUs, peer, nextId, toUs', peer')
    <3>1. o.snd \in Nat /\ o.rcv \in Nat /\ o.st \notin Early /\ p.snd <= o.snd /\ ~p.closed /\ ~p.ahead
      BY <2>2, <2>3 DEF Early
    <3> HIDE DEF p
    <3> QED  BY <1>8, <2>1, <2>3, <3>1
  <2>5. GotOk(k, o, conns, toUs', peer', sent)
    <3>1. Len(o.got) = 0
      BY <2>3
    <3> QED  BY <1>6, <2>3, <3>1 DEF GotOk
  <2>6. k \in Clients => o.st # "synrcvd"
    BY <2>3
  <2>7. PeerOk(k, o, h, conns, toUs', peer', sent, nextId)
    BY <1>5, <1>6, <2>2, <2>3, <2>5 DEF PeerOk, Early
  <2> QED  BY <1>7, <2>4, <2>7
\* A SYN again,
<1>13. ASSUME p.st \in {"synrcvd", "open"}, Says(k, p, Seg(k, {"ACK"}, p.snd, p.rcv, 0))
       PROVE  StreamInv'
  <2> DEFINE u == Seg(k, {"ACK"}, p.snd, p.rcv, 0)
  <2>1. toUs' = Append(toUs, u) /\ peer' = [peer EXCEPT ![k] = p] /\ u = Seg(k, {"ACK"}, p.snd, p.rcv, 0)
    BY <1>13 DEF Says
  <2> HIDE DEF u
  <2>2. p.st \notin Early /\ p.snd <= p.snd
    BY <1>6, <1>13 DEF Early
  <2>3. PeerMove(k, p, h, toUs, peer, nextId, toUs', peer')
    <3> HIDE DEF p
    <3> QED  BY <1>6, <1>8, <2>1, <2>2
  <2> QED  BY <1>7, <1>9, <2>3
\* data, a FIN or an acknowledgement.
<1>14. ASSUME p.st \in {"synrcvd", "open"}, NEW r, r = Taken(p, s), peer' = [peer EXCEPT ![k] = r],
              UNCHANGED toUs \/ toUs' = Append(toUs, Seg(k, {"ACK"}, r.snd, r.rcv, 0))
       PROVE  StreamInv'
  <2>1. TakenFrom(p, s, r)
    <3> HIDE DEF p
    <3> QED  BY <1>4, <1>6, <1>14, TakenIs
  <2>2. r \in Remote /\ r.snd = p.snd /\ r.closed = p.closed /\ r.ahead = p.ahead /\ r.st \in {"synrcvd", "open"}
    BY <2>1 DEF TakenFrom
  <2>3. r.st \notin Early /\ p.snd <= r.snd /\ r.snd \in Nat /\ r.rcv \in Nat
    BY <1>6, <2>2 DEF Early, Remote
  <2>4. PeerMove(k, r, h, toUs, peer, nextId, toUs', peer')
    <3>1. CASE UNCHANGED toUs
      BY <1>5, <1>14, <2>2, <2>3, <3>1 DEF PeerMove
    <3>2. CASE toUs' = Append(toUs, Seg(k, {"ACK"}, r.snd, r.rcv, 0))
      <4> DEFINE u == Seg(k, {"ACK"}, r.snd, r.rcv, 0)
      <4>1. u = Seg(k, {"ACK"}, r.snd, r.rcv, 0) /\ toUs' = Append(toUs, u)
        BY <3>2
      <4> HIDE DEF u, p
      <4> QED  BY <1>8, <1>14, <2>2, <2>3, <4>1
    <3> QED  BY <1>14, <3>1, <3>2
  <2>5. PeerOk(k, r, h, conns, toUs', peer', sent, nextId)
    <3>1. k = s.key /\ p = peer[k]
      OBVIOUS
    <3> HIDE DEF k, p
    <3> QED  BY <1>2, <1>4, <1>14, <2>4, <3>1, TakenOk
  <2> QED  BY <1>7, <2>4, <2>5
<1> DEFINE ack(x) == Seg(k, {"ACK"}, x.snd, x.rcv, 0)
           r == Taken(p, s)
           sa == Seg(k, {"SYN", "ACK"}, 0, 1, 0)
           o == [p EXCEPT !.st = "open", !.rcv = 1, !.un = None]
<1>15. \/ p.st = "none" /\ s.flags = {"SYN"} /\ Says(k, [p EXCEPT !.st = "synrcvd", !.snd = 1, !.rcv = 1, !.un = sa], sa)
       \/ p.st = "none" /\ s.flags = {"SYN"} /\ Says(k, p, Seg(k, {"RST", "ACK"}, 0, 1, 0))
       \/ p.st = "synsent" /\ Says(k, o, ack(o))
       \/ p.st \in {"synrcvd", "open"} /\ Says(k, p, ack(p))
       \/ p.st \in {"synrcvd", "open"} /\ Says(k, r, ack(r))
       \/ p.st \in {"synrcvd", "open"} /\ peer' = [peer EXCEPT ![k] = r] /\ UNCHANGED toUs
  BY DEF PeerTakes, Taken, Heard, s
<1>16. Says(k, r, ack(r)) => peer' = [peer EXCEPT ![k] = r] /\ toUs' = Append(toUs, ack(r))
  BY DEF Says
<1>17. CASE p.st \in {"synrcvd", "open"} /\ Says(k, r, ack(r))
  <2> HIDE DEF p, k, r
  <2> QED  BY <1>14, <1>16, <1>17 DEF r
<1> QED  BY <1>10, <1>11, <1>12, <1>13, <1>14, <1>15, <1>16, <1>17

-----------------------------------------------------------------------------
(* Every step.                                                             *)

\* The steps of the host and of the poller.
LEMMA OutsideKeeps ==
  ASSUME StreamInv, Poller \/ Host \/ Retransmit
  PROVE  StreamInv'
<1>0. Shape
  BY ShapeHolds
<1>1. CASE (HandleArp \/ HandleUdp \/ HandleIcmp \/ HandleIcmpv6) /\ UNCHANGED tcpVars
  BY <1>0, <1>1, PollerQuiet, QuietStep
<1>2. CASE (HostAnswers \/ HostSends) /\ UNCHANGED tcpVars
  BY <1>0, <1>2, HostQuiet, QuietStep
<1>3. CASE PollerSends
  BY <1>0, <1>3, SendsQuiet, QuietStep
<1>4. CASE TimeWaitEnds \/ Lose
  BY <1>0, <1>4, LoseQuiet, QuietStep
<1>5. CASE HandleKnown
  BY <1>5, HandleKnownKeeps
<1>6. CASE HandleUnknown
  BY <1>6, HandleUnknownKeeps
<1>7. CASE Retransmit
  BY <1>7, RetransmitKeeps
<1>8. CASE PeerTakes
  BY <1>8, PeerTakesKeeps
<1>9. ASSUME NEW k \in Keys, PeerActs(k) PROVE StreamInv'
  BY <1>9, PeerActsKeeps
<1> QED  BY <1>1, <1>2, <1>3, <1>4, <1>5, <1>6, <1>7, <1>8, <1>9 DEF Poller, Host

\* The steps of a task.
LEMMA TaskKeeps ==
  ASSUME StreamInv, NEW t \in Tasks, Proceed(t) \/ Invoke(t)
  PROVE  StreamInv'
<1>0. Shape
  BY ShapeHolds
<1>1. CASE ResolveMac(t) /\ UNCHANGED tcpVars
  BY <1>0, <1>1, ResolveMacQuiet, QuietStep
<1>2. CASE (UdpSent(t) \/ UdpReceived(t) \/ DnsClear(t) \/ DnsSend(t) \/ DnsWait(t) \/ Ping6Wait(t))
           /\ UNCHANGED tcpVars
  BY <1>0, <1>2, DatagramQuiet, QuietStep
<1>3. CASE ConnectWait(t) \/ AcceptWait(t) \/ CloseWait(t)
  BY <1>0, <1>3, WaitQuiet, QuietStep
<1>4. CASE InvokeUdp(t) \/ InvokeLookup(t) \/ InvokePing6(t) \/ InvokeListener(t) \/ Connect(t) \/ Recv(t)
  BY <1>0, <1>4, InvokeQuiet, QuietStep
<1>5. CASE ConnectSyn(t) \/ ConnectFails(t)
  BY <1>5, ConnectSynKeeps
<1>6. CASE Record(t)
  BY <1>6, RecordKeeps
<1>7. CASE RecvWait(t)
  BY <1>7, RecvWaitKeeps
<1>8. CASE Send(t)
  BY <1>8, SendKeeps
<1>9. CASE Close(t) \/ CloseFails(t)
  BY <1>9, CloseKeeps
<1>10. CASE Proceed(t)
  BY <1>1, <1>2, <1>3, <1>5, <1>6, <1>7, <1>10 DEF Proceed
<1>11. CASE Invoke(t)
  BY <1>4, <1>8, <1>9, <1>11 DEF Invoke, InvokeTcp
<1> QED  BY <1>10, <1>11

\* The streams stay sound in every state: the inductive invariant.
THEOREM Invariant == Spec => []StreamInv
<1>1. Init => StreamInv
  BY InitHolds
<1>2. StreamInv /\ [Next]_vars => StreamInv'
  <2> SUFFICES ASSUME StreamInv, [Next]_vars PROVE StreamInv'
    OBVIOUS
  <2>0. Shape
    BY ShapeHolds
  <2>1. CASE (DhcpDiscover \/ Boot) /\ UNCHANGED tcpVars
    BY <2>0, <2>1, BootQuiet, QuietStep
  <2>2. ASSUME NEW t \in Tasks, Proceed(t) \/ Invoke(t) PROVE StreamInv'
    BY <2>2, TaskKeeps
  <2>3. CASE Poller \/ Host \/ Retransmit
    BY <2>3, OutsideKeeps
  <2>4. CASE UNCHANGED vars
    BY <2>0, <2>4, LoseQuiet, QuietStep
  <2> QED  BY <2>1, <2>2, <2>3, <2>4 DEF Next
<1> QED  BY <1>1, <1>2, PTL DEF Spec

-----------------------------------------------------------------------------
(* What the programs see.                                                  *)

\* What the remote program has read is what SYS_NET_TCP_SEND was given, in order and
\* without gaps, whatever is lost and retransmitted (tcp_send, net_poller_task).
THEOREM SentInOrder == Spec => []PeerStream
<1>1. StreamInv => PeerStream
  <2> SUFFICES ASSUME NEW h, Inv(h, conns, toUs, peer, sent, taken, cut, nextId, toPeer, out, call, asked),
                      NEW k \in Keys
               PROVE  /\ Len(peer[k].got) <= sent[k]
                      /\ \A i \in 1..Len(peer[k].got) : peer[k].got[i] = i
    BY DEF StreamInv, PeerStream
  <2> DEFINE p == peer[k]
  <2>1. PeerOk(k, p, h, conns, toUs, peer, sent, nextId) /\ sent[k] \in Nat
    BY PeerKnown
  <2>2. CASE p.st \notin Early
    BY <2>1, <2>2 DEF PeerOk, GotOk
  <2>3. CASE p.st \in Early
    <3>1. Len(p.got) = 0
      BY <2>1, <2>3 DEF PeerOk
    <3> QED  BY <2>1, <3>1
  <2> QED  BY <2>2, <2>3
<1> QED  BY <1>1, Invariant, PTL

\* z is w behind a 0.
Behind(w, z) ==
  /\ w \in Units /\ Len(w) \in Nat /\ Len(z) = Len(w) + 1 /\ z[1] = 0
  /\ \A i \in 1..Len(w) : z[i + 1] = w[i] /\ w[i] \in Nat
  /\ w # << >> \/ Len(w) = 0

\* What has been handed over and what waits, behind the 0 before the first unit.
LEMMA StreamIs ==
  ASSUME NEW a \in Units, NEW b \in Units
  PROVE  Behind(a \o b, <<0>> \o a \o b)
<1> DEFINE w == a \o b
           z == <<0>> \o a \o b
<1> DEFINE y == <<0>> \o a
<1>1. <<0>> \in Units /\ Len(<<0>>) = 1 /\ <<0>>[1] = 0
  BY DEF Units
<1>2. w \in Units /\ Len(w) = Len(a) + Len(b) /\ Len(a) \in Nat /\ Len(b) \in Nat
      /\ \A i \in 1..Len(w) : w[i] = IF i <= Len(a) THEN a[i] ELSE b[i - Len(a)]
  BY DEF Units
<1>3. /\ y \in Units /\ Len(y) = Len(a) + 1 /\ y[1] = 0
      /\ \A i \in 1..Len(a) : y[i + 1] = a[i]
  BY <1>1, <1>2 DEF Units
<1> HIDE DEF y
<1>4. /\ Len(z) = Len(y) + Len(b)
      /\ \A i \in 1..Len(z) : z[i] = IF i <= Len(y) THEN y[i] ELSE b[i - Len(y)]
  BY <1>3 DEF y, Units
<1> HIDE DEF w, z
<1>5. Len(z) = Len(w) + 1 /\ z[1] = 0
  BY <1>2, <1>3, <1>4
<1>6. ASSUME NEW i \in 1..Len(w) PROVE z[i + 1] = w[i] /\ w[i] \in Nat
  <2>1. i + 1 \in 1..Len(z) /\ w[i] \in Nat
    BY <1>2, <1>5 DEF Units
  <2>2. CASE i <= Len(a)
    BY <1>2, <1>3, <1>4, <2>1, <2>2
  <2>3. CASE i > Len(a)
    <3>1. ~(i + 1 <= Len(y)) /\ i + 1 - Len(y) = i - Len(a)
      BY <1>2, <1>3, <2>3
    <3>2. z[i + 1] = b[i + 1 - Len(y)] /\ w[i] = b[i - Len(a)]
      BY <1>2, <1>4, <2>1, <2>3, <3>1
    <3> QED  BY <2>1, <3>1, <3>2
  <2> QED  BY <1>2, <2>2, <2>3
<1>7. w # << >> \/ Len(w) = 0
  OBVIOUS
<1>8. Behind(w, z)
  BY <1>2, <1>5, <1>6, <1>7 DEF Behind
<1> QED  BY <1>8 DEF w, z

\* Such a stream skips nothing.
LEMMA Gapless ==
  ASSUME NEW a \in Units, NEW b \in Units, Steps(a \o b)
  PROVE  \A i \in 1..(Len(<<0>> \o a \o b) - 1) :
           \/ (<<0>> \o a \o b)[i + 1] = (<<0>> \o a \o b)[i] + 1
           \/ i > 1 /\ (<<0>> \o a \o b)[i + 1] = (<<0>> \o a \o b)[i]
<1> DEFINE w == a \o b
           z == <<0>> \o a \o b
<1>1. Steps(w)
  OBVIOUS
<1> HIDE DEF w, z
<1>2. /\ w \in Units /\ Len(w) \in Nat /\ Len(z) = Len(w) + 1 /\ z[1] = 0
      /\ \A j \in 1..Len(w) : z[j + 1] = w[j] /\ w[j] \in Nat
      /\ w # << >> \/ Len(w) = 0
  BY StreamIs DEF Behind, w, z
<1>3. ASSUME NEW i \in 1..(Len(z) - 1) PROVE z[i + 1] = z[i] + 1 \/ (i > 1 /\ z[i + 1] = z[i])
  <2>1. i \in 1..Len(w) /\ Len(w) # 0
    BY <1>2
  <2>2. CASE i = 1
    <3>1. w # << >> /\ z[i + 1] = w[1]
      BY <1>2, <2>1, <2>2
    <3> QED  BY <1>1, <1>2, <2>2, <3>1 DEF Steps
  <2>3. CASE i # 1
    <3>1. i - 1 \in 1..(Len(w) - 1) /\ i - 1 \in 1..Len(w) /\ (i - 1) + 1 = i /\ i > 1
      BY <1>2, <2>1, <2>3
    <3>2. z[i] = w[i - 1] /\ z[i + 1] = w[i] /\ w[i] \in Nat /\ w[i - 1] \in Nat
      BY <1>2, <2>1, <3>1
    <3>3. w[i] = w[i - 1] \/ w[i] = w[i - 1] + 1
      BY <1>1, <3>1 DEF Steps
    <3> QED  BY <3>1, <3>2, <3>3
  <2> QED  BY <2>2, <2>3
<1> QED  BY <1>3 DEF z

\* What SYS_NET_TCP_RECV hands over, with what waits in recv_buffer, skips no unit of
\* the stream of a remote end that waits for every acknowledgement, unless a receiver's
\* buffer was too short (handle_tcp, tcp_recv).
THEOREM ReceivedInOrder == Spec => []NoGap
<1>1. StreamInv => NoGap
  <2> SUFFICES ASSUME NEW h, Inv(h, conns, toUs, peer, sent, taken, cut, nextId, toPeer, out, call, asked),
                      NEW c \in conns, c.key \notin cut, ~peer[c.key].ahead
               PROVE  LET stream == <<0>> \o taken[c.key] \o c.buf
                      IN  \A i \in 1..(Len(stream) - 1) :
                            stream[i + 1] = stream[i] + 1 \/ (i > 1 /\ stream[i + 1] = stream[i])
    BY DEF StreamInv, NoGap
  <2>1. Steps(taken[c.key] \o c.buf) /\ taken[c.key] \in Units /\ c.buf \in Units
    BY DEF Inv, ConnOk, Types, Conn
  <2> DEFINE a == taken[c.key]
             b == c.buf
  <2>2. Steps(a \o b) /\ a \in Units /\ b \in Units
    BY <2>1
  <2> HIDE DEF a, b
  <2>3. \A i \in 1..(Len(<<0>> \o a \o b) - 1) :
           \/ (<<0>> \o a \o b)[i + 1] = (<<0>> \o a \o b)[i] + 1
           \/ i > 1 /\ (<<0>> \o a \o b)[i + 1] = (<<0>> \o a \o b)[i]
    BY <2>2, Gapless
  <2> QED  BY <2>3 DEF a, b
<1> QED  BY <1>1, Invariant, PTL

-----------------------------------------------------------------------------
(* Answers.                                                                *)

AnswerInv == last = [t \in Tasks |-> last[t]] /\ OwnAnswer

\* A result that is no foreign answer, or none.
Fair(r) == r.op = "dns" /\ r.res = "ok" => r.val = r.x
LastFine == UNCHANGED last \/ \E t \in Tasks : \E r : Fair(r) /\ last' = [last EXCEPT ![t] = r]

\* What a call returns.
LEMMA ReturnsFair ==
  ASSUME NEW t \in Tasks, NEW res, NEW val, ReturnWith(t, res, val),
         call[t].op # "dns" \/ res # "ok" \/ val = call[t].x
  PROVE  LastFine
<1> DEFINE r == [op |-> call[t].op, x |-> call[t].x, res |-> res, val |-> val, n |-> last[t].n + 1]
<1>1. last' = [last EXCEPT ![t] = r]
  BY DEF ReturnWith
<1>2. Fair(r)
  BY DEF Fair
<1> QED  BY <1>1, <1>2 DEF LastFine

\* The calls under way.
LEMMA ProceedFair ==
  ASSUME NEW t \in Tasks, Proceed(t)
  PROVE  LastFine
<1>1. CASE ResolveMac(t)
  <2>1. UNCHANGED last \/ ReturnWith(t, "error", 0)
    BY <1>1 DEF ResolveMac, Return
  <2> QED  BY <2>1, ReturnsFair DEF LastFine
<1>2. CASE UdpSent(t)
  BY <1>2, ReturnsFair DEF UdpSent, Return
<1>3. CASE UdpReceived(t)
  <2>1. call[t].op = "recv" /\ \E res, val : ReturnWith(t, res, val)
    BY <1>3 DEF UdpReceived, Return
  <2> QED  BY <2>1, ReturnsFair
<1>4. CASE DnsClear(t) \/ DnsSend(t) \/ ConnectSyn(t) \/ Record(t)
  BY <1>4 DEF DnsClear, DnsSend, ConnectSyn, Record, LastFine
<1>5. CASE DnsWait(t)
  <2>1. \/ Answered(t) /\ ReturnWith(t, "ok", response.x)
        \/ UNCHANGED last
        \/ ReturnWith(t, "timeout", 0)
    BY <1>5 DEF DnsWait, Waiting, Return
  <2>2. CASE Answered(t) /\ ReturnWith(t, "ok", response.x)
    BY <2>2, ReturnsFair DEF Answered
  <2>3. CASE ReturnWith(t, "timeout", 0)
    BY <2>3, ReturnsFair
  <2> QED  BY <2>1, <2>2, <2>3 DEF LastFine
<1>6. CASE Ping6Wait(t) \/ ConnectFails(t) \/ ConnectWait(t) \/ AcceptWait(t) \/ RecvWait(t) \/ CloseWait(t)
  <2>1. call[t].op # "dns" /\ \E res : Return(t, res)
    BY <1>6 DEF Ping6Wait, ConnectFails, ConnectWait, AcceptWait, RecvWait, CloseWait
  <2> QED  BY <2>1, ReturnsFair DEF Return
<1> QED  BY <1>1, <1>2, <1>3, <1>4, <1>5, <1>6 DEF Proceed

\* The calls a program makes.
LEMMA InvokeFair ==
  ASSUME NEW t \in Tasks, Invoke(t)
  PROVE  LastFine
<1>1. ASSUME NEW port, UdpBind(t, port) PROVE LastFine
  <2> DEFINE bad == [op |-> "bind", x |-> 0, res |-> "error", val |-> 0, n |-> last[t].n + 1]
             good == [op |-> "bind", x |-> nextId, res |-> "ok", val |-> 0, n |-> last[t].n + 1]
  <2>1. last' = [last EXCEPT ![t] = bad] \/ last' = [last EXCEPT ![t] = good]
    BY <1>1 DEF UdpBind
  <2>2. Fair(bad) /\ Fair(good)
    BY DEF Fair
  <2> QED  BY <2>1, <2>2 DEF LastFine
<1>2. ASSUME NEW id, UdpClose(t, id) PROVE LastFine
  <2> DEFINE r == [op |-> "close", x |-> id, res |-> "ok", val |-> 0, n |-> last[t].n + 1]
  <2>1. last' = [last EXCEPT ![t] = r]
    BY <1>2 DEF UdpClose
  <2>2. Fair(r)
    BY DEF Fair
  <2> QED  BY <2>1, <2>2 DEF LastFine
<1>3. ASSUME NEW id, UdpSendTo(t, id, "far") \/ UdpRecvFrom(t, id) PROVE UNCHANGED last
  BY <1>3 DEF UdpSendTo, UdpRecvFrom
<1>4. InvokeUdp(t) => LastFine
  BY <1>1, <1>2, <1>3 DEF InvokeUdp, LastFine
<1>5. (\/ InvokeLookup(t) \/ InvokePing6(t) \/ InvokeListener(t)
       \/ Connect(t) \/ Send(t) \/ Recv(t) \/ Close(t)) => UNCHANGED last
  BY DEF InvokeLookup, DnsLookup, InvokePing6, Ping6, Connect, Send, Recv, Close,
         InvokeListener, Listen, Accept, dgVars
<1>6. CloseFails(t) => LastFine
  <2> SUFFICES ASSUME CloseFails(t) PROVE LastFine
    OBVIOUS
  <2>1. PICK id : last' = [last EXCEPT ![t] = [op |-> "close", x |-> id, res |-> "error", val |-> 0, n |-> last[t].n + 1]]
    BY DEF CloseFails
  <2> DEFINE r == [op |-> "close", x |-> id, res |-> "error", val |-> 0, n |-> last[t].n + 1]
  <2>2. Fair(r)
    BY DEF Fair
  <2> QED  BY <2>1, <2>2 DEF LastFine
<1> QED  BY <1>4, <1>5, <1>6 DEF Invoke, InvokeTcp, LastFine

\* Nobody else returns anything.
LEMMA OthersFair ==
  ASSUME (DhcpDiscover \/ Boot) \/ Poller \/ Retransmit \/ Host \/ UNCHANGED vars
  PROVE  LastFine
<1>1. DhcpDiscover \/ Boot => UNCHANGED last
  BY DEF DhcpDiscover, Boot
<1>2. Poller => UNCHANGED last
  BY DEF Poller, HandleArp, HandleUdp, HandleIcmp, HandleIcmpv6, HandleKnown, HandleUnknown,
         PollerSends, TimeWaitEnds, dgQuiet, dgVars
<1>3. Host => UNCHANGED last
  BY DEF Host, HostAnswers, HostSends, PeerActs, PeerTakes, Lose
<1> QED  BY <1>1, <1>2, <1>3 DEF Retransmit, vars, dgVars, LastFine

\* A name is resolved to the answer of its own query, although all lookups share one
\* response buffer that each of them empties (dns_lookup, handle_udp).
THEOREM AnswersAreOwn == Spec => []OwnAnswer
<1>1. Init => AnswerInv
  BY DEF Init, AnswerInv, OwnAnswer
<1>2. AnswerInv /\ [Next]_vars => AnswerInv'
  <2> SUFFICES ASSUME AnswerInv, [Next]_vars PROVE AnswerInv'
    OBVIOUS
  <2>1. LastFine
    BY ProceedFair, InvokeFair, OthersFair DEF Next
  <2>2. CASE UNCHANGED last
    BY <2>2 DEF AnswerInv, OwnAnswer
  <2>3. ASSUME NEW t \in Tasks, NEW r, Fair(r), last' = [last EXCEPT ![t] = r] PROVE AnswerInv'
    <3>1. last' = [u \in Tasks |-> IF u = t THEN r ELSE last[u]]
      BY <2>3 DEF AnswerInv
    <3> QED  BY <2>3, <3>1 DEF AnswerInv, OwnAnswer, Fair
  <2> QED  BY <2>1, <2>2, <2>3 DEF LastFine
<1>3. AnswerInv => OwnAnswer
  BY DEF AnswerInv
<1> QED  BY <1>1, <1>2, <1>3, PTL DEF Spec

=============================================================================
