--------------------------- MODULE MCPacketStream ---------------------------
(* Model values for PacketStream.                                          *)
EXTENDS PacketStream

Peers(transport, lengths, cuts, most) ==
  [transport |-> transport, lengths |-> lengths, cuts |-> cuts, most |-> most]

\* Empty packets, small ones, one that does not fit in the ring as it is made
\* and, over TCP, one larger than every ring; over KCP also packets that all
\* divide the ring, two of which already fill it.
AllSetups == {Peers("tcp", {0, 3, 14}, FALSE, 2), Peers("kcp", {0, 1, 5}, TRUE, 2),
              Peers("kcp", {0}, FALSE, 3), Peers("udp", {0, 1, 5}, FALSE, 3)}
=============================================================================
