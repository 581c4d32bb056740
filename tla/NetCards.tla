------------------------------ MODULE NetCards ------------------------------
(***************************************************************************)
(* The network cards: src/kernel/src/virtio_net.rs and e1000e.rs.  Frames  *)
(* are sent one a call, polled under a lock, from memory that is given     *)
(* back when the call returns; frames are received into a ring of buffers  *)
(* that go back to the card one by one.  `card' says which driver a        *)
(* behaviour is about.  Frames carry numbers: those sent count the calls,  *)
(* those received the arrivals; 0 is whatever a buffer given back holds.   *)
(***************************************************************************)
EXTENDS Integers, Sequences, FiniteSets, SequencesExt

CONSTANTS
  TxRing, RxRing,   \* TX_DESC_COUNT; RX_DESC_COUNT and RX_BUFFER_COUNT
  UsedMod,          \* the virtqueue's indices wrap here
  NetBudget         \* bounds: [sends |-> , arrivals |-> , timeouts |-> ]

ASSUME NetCardsAssumption ==
  /\ TxRing \in Nat \ {0} /\ RxRing \in Nat \ {0} /\ UsedMod \in Nat \ {0, 1}
  /\ NetBudget \in [sends : Nat, arrivals : Nat, timeouts : Nat]

VARIABLES
  card,         \* "virtio" or "e1000e"
  link,         \* the link is up
  tx,           \* the transmit ring: queue and indices
  send,         \* the call of send_packet() in progress, or the last one
  wire,         \* the frames that left
  rx,           \* the receive ring
  taken,        \* receive_packet() between its copy and the return of the buffer
  arrived,      \* the frames the card put into buffers: [n |-> , good |-> ]
  delivered,    \* what receive_packet() has returned
  quota         \* the rest of the budget

netVars == <<card, link, tx, send, wire, rx, taken, arrived, delivered, quota>>

Nothing == [n |-> 0, good |-> FALSE]
Free == [frame |-> 0, dd |-> FALSE]

-----------------------------------------------------------------------------
(* Sending.                                                                *)

Sending == send.st = "poll"

\* A call of send_packet() and how far it gets at once.
NewSend(st, at, clean, ring) ==
  /\ ~Sending /\ quota.sends > 0
  /\ quota' = [quota EXCEPT !.sends = @ - 1]
  /\ send' = [n |-> send.n + 1, st |-> st, at |-> at, clean |-> clean]
  /\ tx' = ring
  /\ UNCHANGED <<card, link, wire, rx, taken, arrived, delivered>>

\* virtio: the header and the frame in descriptor 0, and the notification.
SendVirtio ==
  /\ card = "virtio"
  /\ NewSend("poll", 0, tx.owed = 0, [tx EXCEPT !.queue = Append(@, send.n + 1), !.owed = @ + 1])

\* e1000e: the link is asked for first; the next descriptor is written over whatever
\* it held.
SendE1000e ==
  /\ card = "e1000e"
  /\ IF link
     THEN NewSend("poll", tx.cur, TRUE,
                  [tx EXCEPT !.desc[tx.cur] = [frame |-> send.n + 1, dd |-> FALSE],
                             !.cur = (@ + 1) % TxRing])
     ELSE NewSend("err", 0, TRUE, tx)

\* What the card finds in the frame's memory.
InMemory(n) == IF Sending /\ n = send.n THEN {n} ELSE {n, 0}

\* The card sends the next frame of its ring and says so.
Transmit ==
  /\ \/ /\ card = "virtio" /\ tx.queue # <<>>
        /\ \E n \in InMemory(Head(tx.queue)) : wire' = Append(wire, n)
        /\ tx' = [tx EXCEPT !.queue = Tail(@), !.used = (@ + 1) % UsedMod]
     \/ /\ card = "e1000e" /\ tx.head # tx.cur
        /\ \E n \in InMemory(tx.desc[tx.head].frame) : wire' = Append(wire, n)
        /\ tx' = [tx EXCEPT !.desc[tx.head].dd = TRUE, !.head = (@ + 1) % TxRing]
  /\ UNCHANGED <<card, link, send, rx, taken, arrived, delivered, quota>>

\* What the polling loop waits for: the next used index, or the descriptor's DD.
SentOk == IF card = "virtio" THEN tx.used = (tx.last + 1) % UsedMod ELSE tx.desc[send.at].dd

Sent ==
  /\ Sending /\ SentOk
  /\ send' = [send EXCEPT !.st = "ok"]
  /\ tx' = IF card = "virtio" THEN [tx EXCEPT !.last = (@ + 1) % UsedMod, !.owed = @ - 1] ELSE tx
  /\ UNCHANGED <<card, link, wire, rx, taken, arrived, delivered, quota>>

\* The frame's memory is given back although the card still has its address.  The
\* e1000e driver polls memory the compiler may take for unchanged, so that it may
\* give up in any state.
SendTimeout ==
  /\ Sending /\ quota.timeouts > 0
  /\ card = "virtio" => ~SentOk
  /\ quota' = [quota EXCEPT !.timeouts = @ - 1]
  /\ send' = [send EXCEPT !.st = "err"]
  /\ UNCHANGED <<card, link, tx, wire, rx, taken, arrived, delivered>>

LinkChange ==
  /\ card = "e1000e" /\ quota.sends > 0
  /\ link' = ~link
  /\ UNCHANGED <<card, tx, send, wire, rx, taken, arrived, delivered, quota>>

-----------------------------------------------------------------------------
(* Receiving.                                                              *)

\* The card has a buffer for the next frame.
RxRoom == IF card = "virtio" THEN rx.avail # <<>> ELSE rx.head # rx.tail

\* A frame arrives; a bad one is as short as the header, or has no length.
Arrive(good) ==
  /\ quota.arrivals > 0 /\ RxRoom
  /\ quota' = [quota EXCEPT !.arrivals = @ - 1]
  /\ LET f == [n |-> Len(arrived) + 1, good |-> good]
     IN  /\ arrived' = Append(arrived, f)
         /\ rx' = IF card = "virtio"
                  THEN [rx EXCEPT !.avail = Tail(@), !.used = Append(@, Head(rx.avail)),
                                  !.buf[Head(rx.avail)] = f]
                  ELSE [rx EXCEPT !.buf[rx.head] = f, !.dd[rx.head] = TRUE,
                                  !.head = (@ + 1) % RxRing]
  /\ UNCHANGED <<card, link, tx, send, wire, taken, delivered>>

\* receive_packet() copies the frame: that of the next entry of the used ring, or of
\* the descriptor whose turn it is.
RxTakeVirtio ==
  /\ card = "virtio" /\ taken.at = -1 /\ rx.used # <<>>
  /\ taken' = [at |-> Head(rx.used), frame |-> rx.buf[Head(rx.used)]]
  /\ rx' = [rx EXCEPT !.used = Tail(@)]
  /\ UNCHANGED <<card, link, tx, send, wire, arrived, delivered, quota>>

RxTakeE1000e ==
  /\ card = "e1000e" /\ taken.at = -1 /\ rx.dd[rx.cur]
  /\ taken' = [at |-> rx.cur, frame |-> rx.buf[rx.cur]]
  /\ UNCHANGED <<card, link, tx, send, wire, rx, arrived, delivered, quota>>

\* The buffer goes back: to the available ring, or by moving RDT to the descriptor
\* (for a bad frame, one further than it was).
Returned(r, at, good) ==
  IF card = "virtio" THEN [r EXCEPT !.avail = Append(@, at)]
  ELSE [r EXCEPT !.dd[at] = FALSE, !.cur = (@ + 1) % RxRing,
                 !.tail = IF good THEN at ELSE (@ + 1) % RxRing]

RxGive ==
  /\ taken.at # -1
  /\ rx' = Returned(rx, taken.at, taken.frame.good)
  /\ delivered' = IF taken.frame.good THEN Append(delivered, taken.frame) ELSE delivered
  /\ taken' = [at |-> -1, frame |-> Nothing]
  /\ UNCHANGED <<card, link, tx, send, wire, arrived, quota>>

-----------------------------------------------------------------------------
\* new(): empty rings.
FreshTx ==
  [queue |-> <<>>, used |-> 0, last |-> 0, owed |-> 0,
   desc |-> [i \in 0 .. TxRing - 1 |-> Free], head |-> 0, cur |-> 0]

\* fill_rx_queue() gives the virtio card its buffers, RDT = RX_DESC_COUNT - 1 the e1000e.
FilledRx ==
  [avail |-> [i \in 1 .. RxRing |-> i - 1], used |-> <<>>,
   buf |-> [i \in 0 .. RxRing - 1 |-> Nothing], dd |-> [i \in 0 .. RxRing - 1 |-> FALSE],
   head |-> 0, tail |-> RxRing - 1, cur |-> 0]

NetInit ==
  /\ card \in {"virtio", "e1000e"}
  /\ link = TRUE
  /\ tx = FreshTx
  /\ send = [n |-> 0, st |-> "idle", at |-> 0, clean |-> TRUE]
  /\ wire = <<>>
  /\ rx = FilledRx
  /\ taken = [at |-> -1, frame |-> Nothing]
  /\ arrived = <<>>
  /\ delivered = <<>>
  /\ quota = NetBudget

NetStep ==
  \/ SendVirtio \/ SendE1000e \/ Transmit \/ Sent \/ SendTimeout \/ LinkChange
  \/ \E good \in BOOLEAN : Arrive(good)
  \/ RxTakeVirtio \/ RxTakeE1000e \/ RxGive

\* A frame whose call returns success has left, unchanged: the e1000e driver keeps
\* this always, also when it writes over a descriptor the card has not come to; the
\* virtio driver for calls that begin with no answer outstanding (one is left by every
\* call that timed out).
SentWhenOk ==
  (send.st # "ok" /\ send'.st = "ok" /\ send.clean) => Contains(wire, send.n)

\* receive_packet() has nothing to return and holds no buffer.
RxEmpty == taken.at = -1 /\ rx.used = <<>> /\ \A i \in DOMAIN rx.dd : ~rx.dd[i]

\* The good frames are delivered in the order they arrived in, each once and
\* unchanged; one that is missing arrived after all that are delivered, and none is
\* missing once the ring is empty.
ReceivedInOrder ==
  /\ \A i \in DOMAIN delivered :
       delivered[i].good /\ delivered[i].n \in DOMAIN arrived /\ delivered[i] = arrived[delivered[i].n]
  /\ \A i, j \in DOMAIN delivered : i < j => delivered[i].n < delivered[j].n
  /\ \A n \in DOMAIN arrived :
       arrived[n].good /\ (\A i \in DOMAIN delivered : delivered[i].n # n) =>
         ~RxEmpty /\ \A i \in DOMAIN delivered : delivered[i].n < n
=============================================================================
