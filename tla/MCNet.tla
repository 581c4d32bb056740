-------------------------------- MODULE MCNet --------------------------------
\* The network stack with two tasks.  Each workload gives both a program, so that
\* one run covers several small scenarios.  A pusher is a server that sends, a
\* binder a UDP program that makes one call.
EXTENDS Tcp

TheWorkloads ==
  {<<"client", "off">>, <<"server", "off">>, <<"pusher", "off">>, <<"dns", "dns">>,
   <<"binder", "dns">>, <<"udp", "ping6">>}

\* One port, so that sockets and lookups collide on it.
EphemeralPorts == <<49152>>

CallBounds ==
  [client |-> 2, server |-> 2, pusher |-> 2, dns |-> 1, udp |-> 2,
   binder |-> 1, ping6 |-> 1, off |-> 0]

SendBounds == [client |-> 0, server |-> 0, pusher |-> 2]

PeerBounds ==
  [client |-> 0, server |-> 2, pusher |-> 0, dns |-> 0, udp |-> 0,
   binder |-> 0, ping6 |-> 0, off |-> 0]
=============================================================================
