------------------------------ MODULE Datagram ------------------------------
(***************************************************************************)
(* The connectionless half of kernel/src/netstack: ARP, UDP sockets, DNS,  *)
(* DHCP at boot, ICMP and ICMPv6, and wait_net_condition(), on which every *)
(* blocking network call waits for the task net_poller.                    *)
(*                                                                         *)
(* NET_STATE is one spin lock, and the network calls run with interrupts   *)
(* on, so one action is one lock section of a call or of the poller.  The  *)
(* poller answers a packet after it has left the lock: what it has still   *)
(* to send is out.  Deadlines are not counted: a call whose check fails    *)
(* may time out at any moment, a superset of the real orders.              *)
(*                                                                         *)
(* The other end of the wire (host) is external: it may answer a request   *)
(* late, more than once or never.                                          *)
(***************************************************************************)
EXTENDS Naturals, Sequences, FiniteSets, SequencesExt

CONSTANTS
  None,         \* no packet, no response
  Tasks,        \* the tasks that make network calls
  Workloads,    \* the programs the tasks may run: functions from Tasks
  MaxArp,       \* ARP_CACHE_MAX (64 in the code)
  ArpTries,     \* requests resolve_mac() sends (3)
  DnsTries,     \* queries dns_lookup() sends (2)
  Ephemeral,    \* the ports from 49152 on, as a sequence
  MaxCalls,     \* bound: network calls a task makes, by program
  MaxGrams,     \* bound: datagrams the host sends by itself
  MaxWire       \* bound: frames on their way to the kernel

ASSUME DatagramAssumption ==
  /\ MaxArp \in Nat \ {0} /\ ArpTries \in Nat \ {0} /\ DnsTries \in Nat \ {0}
  /\ MaxGrams \in Nat /\ MaxWire \in Nat \ {0}
  /\ Ephemeral # <<>>
  /\ \A w \in Workloads : DOMAIN w = Tasks

VARIABLES
  program,      \* what each task does (fixed)
  booted,       \* how far main() is: "init", "dhcp", "up" (net_poller spawned)
  arp,          \* arp_cache: IP addresses, the oldest first
  sockets,      \* udp_sockets
  nextId,       \* tcp_next_id, shared by sockets and connections
  nextPort,     \* udp_next_port: an index of Ephemeral
  response,     \* udp_response
  echo,         \* icmpv6_echo_reply
  call,         \* where each task is in its call
  last,         \* the last result of each task
  asked,        \* frames the kernel has sent and the host may answer
  toUs,         \* frames on their way to the kernel, in order
  out,          \* frames the poller has to send before it goes on
  grams         \* datagrams the host has sent by itself

dgVars == <<program, booted, arp, sockets, nextId, nextPort, response, echo,
            call, last, asked, toUs, out, grams>>

Idle == [op |-> "idle", step |-> "idle", x |-> 0, port |-> 0, dst |-> "none",
         tries |-> 0, att |-> 0, seq |-> 0, ack |-> 0]

\* The next hop whose MAC address is resolved: a host outside the subnet is
\* reached through the gateway.
NextHop(ip) == IF ip = "far" THEN "gw" ELSE ip

-----------------------------------------------------------------------------
(* The ARP cache.                                                          *)

Cached(ip) == Contains(arp, ip)

\* arp_update() that forgets to look for the address first.
ArpUpdate_Twice(c, ip) == Append(IF Len(c) >= MaxArp THEN Tail(c) ELSE c, ip)

\* arp_update(): nothing to do for a known address; the oldest entry makes room.
ArpUpdate(c, ip) ==
  IF Contains(c, ip) THEN c
  ELSE Append(IF Len(c) >= MaxArp THEN Tail(c) ELSE c, ip)

-----------------------------------------------------------------------------
(* Calls.                                                                  *)

Calls == {t \in Tasks : call[t].op # "idle"}

Begin(t, c) ==
  /\ booted = "up"
  /\ call[t] = Idle
  /\ last[t].n < MaxCalls[program[t]]
  /\ call' = [call EXCEPT ![t] = c]

ReturnWith(t, res, val) ==
  /\ call' = [call EXCEPT ![t] = Idle]
  /\ last' = [last EXCEPT ![t] =
       [op |-> call[t].op, x |-> call[t].x, res |-> res, val |-> val, n |-> @.n + 1]]

Return(t, res) == ReturnWith(t, res, 0)

Goto(t, step) == call' = [call EXCEPT ![t].step = step]

Sent(frame) == asked' = asked \union {frame}

\* wait_net_condition(): the check is repeated at every tick and whenever the
\* poller has handled a packet, so a call waits while its check fails and may
\* give up at any such moment.
Waiting(t, check) == call[t].step = "wait" /\ check

GivesUp(t, check) == call[t].step = "wait" /\ ~check

\* resolve_mac(): one look at the cache, then up to ArpTries requests.
ResolveMac(t) ==
  LET hop == NextHop(call[t].dst)
      ask == [k |-> "arp", ip |-> hop]
  IN  /\ \/ /\ call[t].step = "resolve"
            /\ IF Cached(hop) THEN Goto(t, "go") /\ UNCHANGED asked
               ELSE /\ call' = [call EXCEPT ![t].step = "arpwait", ![t].tries = 1]
                    /\ Sent(ask)
            /\ UNCHANGED last
         \/ /\ call[t].step = "arpwait"
            /\ Cached(hop)
            /\ call' = [call EXCEPT ![t].step = "go", ![t].tries = 0]
            /\ UNCHANGED <<asked, last>>
         \/ /\ call[t].step = "arpwait"
            /\ ~Cached(hop)
            /\ IF call[t].tries < ArpTries
               THEN /\ call' = [call EXCEPT ![t].tries = @ + 1]
                    /\ Sent(ask)
                    /\ UNCHANGED last
               ELSE Return(t, "error") /\ UNCHANGED asked
      /\ UNCHANGED <<program, booted, arp, sockets, nextId, nextPort, response, echo,
                     toUs, out, grams>>

-----------------------------------------------------------------------------
(* UDP sockets.                                                            *)

SocketOf(id) == {i \in 1..Len(sockets) : sockets[i].id = id}

\* The check of udp_bind() for a port that is in use.
PortFree(port) == \A i \in 1..Len(sockets) : sockets[i].port # port

\* udp_bind(): port 0 takes the next ephemeral port and does not look whether it
\* is in use; any other port must be free.
UdpBind(t, port) ==
  /\ program[t] \in {"udp", "binder"}
  /\ booted = "up" /\ call[t] = Idle /\ last[t].n < MaxCalls[program[t]]
  /\ LET p == IF port = 0 THEN Ephemeral[nextPort] ELSE port
     IN  IF port # 0 /\ ~PortFree(port)
         THEN /\ last' = [last EXCEPT ![t] =
                  [op |-> "bind", x |-> 0, res |-> "error", val |-> 0, n |-> @.n + 1]]
              /\ UNCHANGED <<sockets, nextId, nextPort>>
         ELSE /\ sockets' = Append(sockets, [id |-> nextId, port |-> p, queue |-> <<>>])
              /\ nextId' = nextId + 1
              /\ nextPort' = IF port = 0 THEN (nextPort % Len(Ephemeral)) + 1 ELSE nextPort
              /\ last' = [last EXCEPT ![t] =
                           [op |-> "bind", x |-> nextId, res |-> "ok", val |-> 0, n |-> @.n + 1]]
  /\ UNCHANGED <<program, booted, arp, response, echo, call, asked, toUs, out, grams>>

\* udp_send_to(): the socket must exist, then the address is resolved.
UdpSendTo(t, id, dst) ==
  /\ program[t] \in {"udp", "binder"}
  /\ SocketOf(id) # {}
  /\ Begin(t, [Idle EXCEPT !.op = "send", !.step = "resolve", !.x = id, !.dst = dst])
  /\ UNCHANGED <<program, booted, arp, sockets, nextId, nextPort, response, echo,
                 last, asked, toUs, out, grams>>

\* send_udp_packet() once the address is known; the datagram is the host's.
UdpSent(t) ==
  /\ call[t].op = "send" /\ call[t].step = "go"
  /\ Return(t, "ok")
  /\ UNCHANGED <<program, booted, arp, sockets, nextId, nextPort, response, echo,
                 asked, toUs, out, grams>>

UdpRecvFrom(t, id) ==
  /\ program[t] \in {"udp", "binder"}
  /\ Begin(t, [Idle EXCEPT !.op = "recv", !.step = "wait", !.x = id])
  /\ UNCHANGED <<program, booted, arp, sockets, nextId, nextPort, response, echo,
                 last, asked, toUs, out, grams>>

\* The check of udp_recv_from(): a datagram, or the socket is gone.
HasGram(t) ==
  \A i \in SocketOf(call[t].x) : sockets[i].queue # <<>>

UdpReceived(t) ==
  /\ call[t].op = "recv"
  /\ \/ /\ Waiting(t, HasGram(t))
        /\ IF SocketOf(call[t].x) = {} THEN Return(t, "error") /\ UNCHANGED sockets
           ELSE LET i == CHOOSE i \in SocketOf(call[t].x) : TRUE
                IN  /\ ReturnWith(t, "ok", Head(sockets[i].queue))
                    /\ sockets' = [sockets EXCEPT ![i].queue = Tail(@)]
     \/ /\ GivesUp(t, HasGram(t))
        /\ Return(t, "timeout")
        /\ UNCHANGED sockets
  /\ UNCHANGED <<program, booted, arp, nextId, nextPort, response, echo, asked, toUs,
                 out, grams>>

UdpClose(t, id) ==
  /\ program[t] \in {"udp", "binder"}
  /\ call[t] = Idle /\ last[t].n < MaxCalls[program[t]]
  /\ \E i \in SocketOf(id) : sockets' = RemoveAt(sockets, i)
  /\ last' = [last EXCEPT ![t] =
                [op |-> "close", x |-> id, res |-> "ok", val |-> 0, n |-> @.n + 1]]
  /\ UNCHANGED <<program, booted, arp, nextId, nextPort, response, echo, call, asked,
                 toUs, out, grams>>

-----------------------------------------------------------------------------
(* DNS.                                                                    *)

\* dns_lookup(): a random query id (the number of the call here, so distinct) and
\* a random source port.
DnsLookup(t, port) ==
  /\ program[t] = "dns"
  /\ Begin(t, [Idle EXCEPT !.op = "dns", !.step = "clear", !.x = nextId,
                           !.port = port, !.dst = "dns"])
  /\ nextId' = nextId + 1
  /\ UNCHANGED <<program, booted, arp, sockets, nextPort, response, echo, last,
                 asked, toUs, out, grams>>

\* Each attempt empties the one response buffer of the kernel, whoever waits on it,
DnsClear(t) ==
  /\ call[t].op = "dns" /\ call[t].step = "clear"
  /\ response' = None
  /\ Goto(t, "resolve")
  /\ UNCHANGED <<program, booted, arp, sockets, nextId, nextPort, echo, last,
                 asked, toUs, out, grams>>

\* The attempt is not counted.
NextAttempt_NotCounted(n) == n

\* for attempt in 0..2
NextAttempt(n) == n + 1

\* sends the query,
DnsSend(t) ==
  /\ call[t].op = "dns" /\ call[t].step = "go"
  /\ Sent([k |-> "query", x |-> call[t].x, port |-> call[t].port])
  /\ call' = [call EXCEPT ![t].step = "wait", ![t].att = NextAttempt(@)]
  /\ UNCHANGED <<program, booted, arp, sockets, nextId, nextPort, response, echo,
                 last, toUs, out, grams>>

\* A lookup that takes any response.
Answered_AnyId(t) == response # None

\* and waits for a response with its port and its id, which it leaves in the
\* buffer.
Answered(t) ==
  response # None /\ response.port = call[t].port /\ response.x = call[t].x

DnsWait(t) ==
  /\ call[t].op = "dns"
  /\ \/ Waiting(t, Answered(t)) /\ ReturnWith(t, "ok", response.x)
     \/ /\ GivesUp(t, Answered(t))
        /\ IF call[t].att < DnsTries THEN Goto(t, "clear") /\ UNCHANGED last
           ELSE Return(t, "timeout")
  /\ UNCHANGED <<program, booted, arp, sockets, nextId, nextPort, response, echo,
                 asked, toUs, out, grams>>

-----------------------------------------------------------------------------
(* ICMPv6 echo.                                                            *)

\* sys_net_ping6(): the buffer is emptied, the request sent, the reply awaited.
Ping6(t) ==
  /\ program[t] = "ping6"
  /\ Begin(t, [Idle EXCEPT !.op = "ping6", !.step = "wait"])
  /\ echo' = FALSE
  /\ Sent([k |-> "echo"])
  /\ UNCHANGED <<program, booted, arp, sockets, nextId, nextPort, response, last,
                 toUs, out, grams>>

\* wait_icmpv6_echo_reply() takes whatever reply is there.
Ping6Wait(t) ==
  /\ call[t].op = "ping6"
  /\ \/ Waiting(t, echo) /\ echo' = FALSE /\ Return(t, "ok")
     \/ GivesUp(t, echo) /\ Return(t, "timeout") /\ UNCHANGED echo
  /\ UNCHANGED <<program, booted, arp, sockets, nextId, nextPort, response, asked,
                 toUs, out, grams>>

-----------------------------------------------------------------------------
(* Boot.                                                                   *)

\* netstack::init() calls dhcp_discover(), which binds port 68 and broadcasts a
\* DISCOVER, before net_poller is spawned.
DhcpDiscover ==
  /\ booted = "init"
  /\ booted' = "dhcp"
  /\ sockets' = Append(sockets, [id |-> nextId, port |-> 68, queue |-> <<>>])
  /\ nextId' = nextId + 1
  /\ Sent([k |-> "discover"])
  /\ UNCHANGED <<program, arp, nextPort, response, echo, call, last, toUs, out, grams>>

\* Nobody takes a frame from the NIC while it waits, so wait_dhcp_response() can
\* only time out: no REQUEST is sent, the default configuration stays, and the
\* error path leaves the socket open.  Then main() spawns the poller.
Boot ==
  /\ booted = "dhcp"
  /\ booted' = "up"
  /\ UNCHANGED <<program, arp, sockets, nextId, nextPort, response, echo, call, last,
                 asked, toUs, out, grams>>

-----------------------------------------------------------------------------
(* net_poller: handle_packet().                                            *)

\* The first frame, and what the poller will send once it has left NET_STATE.
Take(kind, reply) ==
  /\ booted = "up" /\ out = <<>> /\ toUs # <<>>
  /\ Head(toUs).k = kind
  /\ toUs' = Tail(toUs)
  /\ out' = reply

\* handle_arp(): every packet teaches the sender's address; a request for our
\* address is answered.
HandleArp ==
  /\ \/ Take("arpreq", <<[k |-> "arprep"]>>)
     \/ Take("arprep", <<>>)
  /\ arp' = ArpUpdate(arp, Head(toUs).ip)
  /\ UNCHANGED <<program, booted, sockets, nextId, nextPort, response, echo, call, last,
                 asked, grams>>

\* handle_ipv4() and handle_udp(): the sender's address is learned; the first
\* socket on the port takes the datagram, else a datagram from port 53 replaces
\* the response buffer.
HandleUdp ==
  /\ Take("udp", <<>>)
  /\ LET f == Head(toUs)
         here == {i \in 1..Len(sockets) : sockets[i].port = f.port}
         first == CHOOSE i \in here : \A j \in here : i <= j
     IN  /\ arp' = ArpUpdate(arp, f.ip)
         /\ IF here # {}
            THEN /\ sockets' = [sockets EXCEPT ![first].queue = Append(@, f.x)]
                 /\ UNCHANGED response
            ELSE /\ response' = IF f.dns THEN [port |-> f.port, x |-> f.x] ELSE response
                 /\ UNCHANGED sockets
  /\ UNCHANGED <<program, booted, nextId, nextPort, echo, call, last, asked, grams>>

\* handle_ipv4() and handle_icmp(): an echo request is answered.
HandleIcmp ==
  /\ Take("ping", <<[k |-> "pong"]>>)
  /\ arp' = ArpUpdate(arp, Head(toUs).ip)
  /\ UNCHANGED <<program, booted, sockets, nextId, nextPort, response, echo, call, last,
                 asked, grams>>

\* handle_ipv6() and handle_icmpv6(): a request and a neighbour solicitation are
\* answered, a reply is put in the buffer.
HandleIcmpv6 ==
  /\ \/ Take("echoreq6", <<[k |-> "echorep6"]>>) /\ UNCHANGED echo
     \/ Take("solicit", <<[k |-> "advert"]>>) /\ UNCHANGED echo
     \/ Take("echorep6", <<>>) /\ echo' = TRUE
  /\ UNCHANGED <<program, booted, arp, sockets, nextId, nextPort, response, call, last,
                 asked, grams>>

-----------------------------------------------------------------------------
(* The host.                                                               *)

Room == Len(toUs) < MaxWire

\* A request is answered, perhaps late, perhaps again (counted in grams), perhaps
\* never.  An ARP request is answered while a call waits for it: a later answer
\* would only warm the cache.  An OFFER is sent in one of the workloads.
HostAnswers ==
  /\ Room
  /\ \E f \in asked :
       /\ f.k = "arp" => \E t \in Tasks : call[t].step = "arpwait"
       /\ f.k = "discover" => \E t \in Tasks : program[t] = "binder"
       /\ toUs' = Append(toUs,
            CASE f.k = "arp"   -> [k |-> "arprep", ip |-> f.ip]
              [] f.k = "query" -> [k |-> "udp", ip |-> "dns", port |-> f.port,
                                   x |-> f.x, dns |-> TRUE]
              [] f.k = "discover" -> [k |-> "udp", ip |-> "gw", port |-> 68, x |-> 0,
                                      dns |-> FALSE]
              [] f.k = "echo"  -> [k |-> "echorep6"])
       /\ \/ asked' = asked \ {f} /\ UNCHANGED grams
          \/ f.k = "query" /\ grams < MaxGrams /\ grams' = grams + 1 /\ UNCHANGED asked
  /\ UNCHANGED <<program, booted, arp, sockets, nextId, nextPort, response, echo, call,
                 last, out>>

\* Frames nobody asked for, while some program listens.
HostSends ==
  /\ Room /\ grams < MaxGrams
  /\ \E t \in Tasks : program[t] \in {"udp", "ping6"}
  /\ \E f \in [k : {"udp"}, ip : {"dns", "far"}, x : {grams + 100}, dns : {FALSE},
               port : {s.port : s \in Range(sockets)}]
          \union [k : {"arpreq", "ping"}, ip : {"gw", "far"}]
          \union [k : {"echoreq6", "solicit"}] :
       toUs' = Append(toUs, f)
  /\ grams' = grams + 1
  /\ UNCHANGED <<program, booted, arp, sockets, nextId, nextPort, response, echo, call,
                 last, asked, out>>

=============================================================================
