---------------------------- MODULE PacketStream ----------------------------
(***************************************************************************)
(* connection::on_read: the bytes of a peer arrive in recv_buff_ in pieces *)
(* and are cut into packets, each a length and as many bytes.  Over TCP    *)
(* the pieces are what the kernel hands out; over KCP they are messages,   *)
(* which ikcp_recv only gives whole; over UDP they are datagrams, which    *)
(* are lost, overtake each other and are cut to the space there is.  The   *)
(* calls on_recv makes are part of the model as far as they touch          *)
(* recv_buff_: disconnect() resets it over TCP and leaves it alone         *)
(* otherwise; connect() makes the next connection at once over KCP and    *)
(* UDP, and over UDP starts a receive behind the bytes on_read is at.      *)
(*                                                                         *)
(*   recv_buff  recv_buff_                                                 *)
(*   state      state_ of the connection, connected or not                 *)
(*   reading    on_read is in its loop                                     *)
(*   sent       the packets the peer sent on this connection               *)
(*   wire       messages on their way (over TCP a single run of bytes)     *)
(*   bound      the peer may use its socket: over KCP it has kcp_          *)
(*   backlog    over KCP, what is in send_buff_ of a peer that has not     *)
(*   pending    over UDP, the receives the reactor has, each with the      *)
(*              place and the space do_read gave it                        *)
(*   done       over UDP, the sizes of those that completed, while their   *)
(*              handlers wait for their turn                               *)
(*   crossed    over UDP, the connection was made within on_recv, or while *)
(*              a datagram of an earlier socket waited for its handler     *)
(*   got        what on_recv was given while connected, as bytes           *)
(*   carry      what recv_buff_ held when the connection was made          *)
(*   session    number of connections made                                 *)
(*   setup      the transport and the peer, see Setup                      *)
(*   fault      "thrown": ERROR_WRITE_NO_SPACE left io_service::run();     *)
(*              "loop": on_read delivers the same bytes for ever           *)
(***************************************************************************)
EXTENDS Circle, SequencesExt

CONSTANTS
  LengthSize,   \* sizeof(uint32)
  Base,         \* number of values of a byte
  Setups,       \* transports and peers, see Setup
  MaxSessions   \* bound: connections

Byte  == 0..Base - 1
Power[k \in 0..LengthSize] == IF k = 0 THEN 1 ELSE Base * Power[k - 1]
Width == Power[LengthSize]

\* The transport, the lengths of the packets the peer sends, whether its
\* messages may hold part of a packet (over KCP, where a packet lies across the
\* end of send_buff_; a datagram never does), and, a bound, how many packets it
\* sends on a connection.
Setup ==
  [transport : {"tcp", "kcp", "udp"}, lengths : SUBSET (0..Width - LengthSize - 1),
   cuts : BOOLEAN, most : Nat]

ASSUME PacketStreamConstants ==
  /\ LengthSize \in Nat \ {0} /\ Base \in Nat \ {0, 1}
  /\ Setups \subseteq Setup /\ \A s \in Setups : s.transport = "udp" => ~s.cuts
  /\ Junk \notin Byte /\ DefaultSize > 1
  /\ MaxSessions \in Nat

VARIABLES
  recv_buff, state, reading, sent, wire, bound, backlog, pending, done, crossed,
  got, carry, session, fault, setup

peerVars == <<sent, bound, backlog>>
udpVars  == <<pending, done, crossed>>
connVars == <<got, carry, session, setup>>
streamVars == <<recv_buff, state, reading, peerVars, wire, udpVars, connVars, fault>>

Transport == setup.transport

Connected == state = "connected"

-----------------------------------------------------------------------------

\* A uint32 as bytes, the lowest first.
AsBytes(n) ==
  LET Rest[i \in 0..LengthSize] == IF i = 0 THEN n ELSE Rest[i - 1] \div Base
  IN  [i \in 1..LengthSize |-> Rest[i - 1] % Base]

\* The k-th packet of a connection.  Its bytes tell it from its neighbours.
Packet(length, k) == AsBytes(length) \o [i \in 1..length |-> k % Base]

\* The lengths on_read may take the first bytes for, none if there are too
\* few.  What a cell holds that was never written is anybody's guess.
ReadLengths ==
  IF get_count(recv_buff) < LengthSize THEN {}
  ELSE LET w == read(recv_buff, 0, LengthSize)
       IN  {n \in 0..Width - 1 :
              \A i \in 1..LengthSize : w[i] \in {Junk, AsBytes(n)[i]}}

\* Mutant: a packet that ends with the last byte is not seen.
Whole_Strict(length) == length + LengthSize < get_count(recv_buff)

\* length + sizeof(uint32), in 32 bits.
SizeOf(length) == (length + LengthSize) % Width

\* A packet of that length is there as a whole.
Whole(length) == SizeOf(length) <= get_count(recv_buff)

-----------------------------------------------------------------------------
(* The peer and the network                                                *)

\* do_write of KCP: all that lies in one piece is one message, so that what
\* lies across the end of send_buff_ is two.
Messages(bytes, cut) ==
  IF bytes = <<>> THEN <<>>
  ELSE IF cut \in 1..Len(bytes) - 1
       THEN <<SubSeq(bytes, 1, cut), SubSeq(bytes, cut + 1, Len(bytes))>>
       ELSE <<bytes>>

\* send(packet), and do_write, which over KCP does nothing without kcp_.
PeerSends(length, cut) ==
  LET p == Packet(length, Len(sent))
  IN  /\ Connected /\ fault = "none" /\ Len(sent) < setup.most
      /\ sent' = Append(sent, p)
      /\ wire' = CASE Transport = "tcp" -> wire \o p
                   [] Transport = "udp" -> Append(wire, p)
                   [] OTHER -> IF bound THEN wire \o Messages(p, cut) ELSE wire
      /\ backlog' = IF Transport = "kcp" /\ ~bound THEN backlog \o p ELSE backlog
      /\ UNCHANGED <<recv_buff, state, reading, bound, udpVars, connVars, fault>>

\* The peer is a client and has the answer to its hello: what it has queued
\* becomes one message, or two.
PeerBinds(cut) ==
  /\ Transport = "kcp" /\ Connected /\ fault = "none" /\ ~bound
  /\ bound' = TRUE
  /\ wire' = wire \o Messages(backlog, cut)
  /\ backlog' = <<>>
  /\ UNCHANGED <<recv_buff, state, reading, sent, udpVars, connVars, fault>>

\* A connection over KCP begins without kcp_ at the client.
NewPeer ==
  sent' = <<>> /\ wire' = <<>> /\ bound' = (Transport # "kcp") /\ backlog' = <<>>

DatagramLost ==
  /\ Transport = "udp" /\ wire # <<>>
  /\ wire' = Tail(wire)
  /\ UNCHANGED <<recv_buff, state, reading, peerVars, udpVars, connVars, fault>>

InFlight == IF Transport = "tcp" THEN wire ELSE FlattenSeq(wire) \o backlog

-----------------------------------------------------------------------------
(* The socket                                                              *)

\* Mutant: the buffers are not reset.
close_Keeps(r) == r

\* close(), which over TCP resets the buffers.
close(r) == IF Transport = "tcp" THEN reset(r) ELSE r

\* data is put where get_end() was when the receive was made.
Received(g, at, data) ==
  [g EXCEPT !.mem = [i \in DOMAIN @ |->
     IF i - at \in 0..Len(data) - 1 THEN data[i - at + 1] ELSE @[i]]]

\* It is counted, and on_read is called.
Take(g, data) ==
  /\ recv_buff' = written(Received(g, g.tail, data), Len(data))
  /\ reading' = TRUE
  /\ UNCHANGED <<state, peerVars, udpVars, connVars, fault>>

\* The ring once get_continguious_space() has expanded a full one.
Room == GrowContinguious(recv_buff)
RoomAtEnd == continguious_space(Room.head, Room.tail, Room.size)

\* The receive loop of tcp::socket::do_read takes what there is.
ReceiveBytes(n) ==
  /\ Transport = "tcp" /\ Connected /\ ~reading /\ fault = "none"
  /\ n <= RoomAtEnd /\ n <= Len(wire)
  /\ Take(Room, SubSeq(wire, 1, n))
  /\ wire' = SubSeq(wire, n + 1, Len(wire))

\* kcp::socket::update takes one message, if it fits.
ReceiveMessage ==
  /\ Transport = "kcp" /\ Connected /\ ~reading /\ fault = "none"
  /\ wire # <<>> /\ Len(Head(wire)) <= RoomAtEnd
  /\ Take(Room, Head(wire))
  /\ wire' = Tail(wire)

\* get_continguious_space() throws, from the receive loop or from update.
NoRoom ==
  /\ Transport # "udp" /\ Connected /\ ~reading /\ fault = "none"
  /\ RoomAtEnd = 0
  /\ fault' = "thrown"
  /\ UNCHANGED <<recv_buff, state, reading, peerVars, wire, udpVars, connVars>>

\* udp::socket::do_read has the reactor receive behind what the ring holds.
Posted(g) == [at |-> g.tail, room |-> continguious_space(g.head, g.tail, g.size)]

\* A datagram, or what fits of it, is put where the oldest receive wants it;
\* the handler has to wait for its turn.
Complete(i) ==
  LET p == Head(pending)
      n == MinOf(Len(wire[i]), p.room)
  IN  /\ Transport = "udp" /\ Connected /\ ~reading /\ fault = "none"
      /\ pending # <<>>
      /\ recv_buff' = Received(recv_buff, p.at, SubSeq(wire[i], 1, n))
      /\ pending' = Tail(pending) /\ done' = Append(done, n)
      /\ wire' = RemoveAt(wire, i)
      /\ UNCHANGED <<state, reading, peerVars, crossed, connVars, fault>>

\* The handler of do_read counts the bytes behind what the ring holds by now,
\* also when the connection has ended or there is another.
Handle ==
  /\ ~reading /\ fault = "none" /\ done # <<>>
  /\ recv_buff' = written(recv_buff, Head(done))
  /\ done' = Tail(done)
  /\ reading' = TRUE
  /\ UNCHANGED <<state, peerVars, wire, pending, crossed, connVars, fault>>

-----------------------------------------------------------------------------
(* The connection                                                          *)

\* One turn of on_read: the packet is given to on_recv, which may disconnect,
\* and is removed.  A size of zero removes nothing: the loop goes on with the
\* same bytes.
Deliver(length, drop) ==
  /\ reading /\ fault = "none"
  /\ Whole(length)
  /\ drop => Connected
  /\ got' = IF Connected THEN Append(got, SubSeq(Contents(recv_buff), 1, SizeOf(length)))
            ELSE got
  /\ state' = IF drop THEN "disconnected" ELSE state
  /\ recv_buff' = remove(IF drop THEN close(recv_buff) ELSE recv_buff, SizeOf(length))
  /\ fault' = IF SizeOf(length) = 0 /\ ~drop THEN "loop" ELSE "none"
  /\ wire' = IF drop THEN <<>> ELSE wire
  /\ pending' = IF drop THEN <<>> ELSE pending
  /\ UNCHANGED <<reading, peerVars, done, crossed, carry, session, setup>>

\* A turn of on_read in which on_recv connects again.  Over KCP and UDP the
\* connection is there at once; over UDP its do_read finds the packet still in
\* the ring, and expands a full one.  The packet is removed afterwards.
Reconnect(length) ==
  LET r == IF Transport = "udp" THEN Room ELSE recv_buff
  IN  /\ reading /\ fault = "none" /\ Transport # "tcp" /\ session < MaxSessions
      /\ Whole(length)
      /\ state' = "connected" /\ session' = session + 1
      /\ recv_buff' = remove(r, SizeOf(length))
      /\ fault' = IF Transport = "udp" /\ RoomAtEnd = 0 THEN "thrown" ELSE "none"
      /\ pending' = IF Transport = "udp" THEN <<Posted(r)>> ELSE <<>>
      /\ crossed' = (Transport = "udp")
      /\ carry' = Contents(recv_buff') /\ got' = <<>> /\ NewPeer
      /\ UNCHANGED <<reading, done, setup>>

OnReadBreaks ==
  \/ get_count(recv_buff) < LengthSize
  \/ \E length \in ReadLengths : ~Whole(length)

\* Mutant: what on_read left of a datagram is kept.
Return_Keeps ==
  LET g == IF Transport = "udp" THEN Room ELSE recv_buff
  IN  /\ reading /\ fault = "none" /\ OnReadBreaks
      /\ reading' = FALSE
      /\ recv_buff' = IF Connected THEN g ELSE close(g)
      /\ pending' = IF Transport = "udp" /\ Connected THEN Append(pending, Posted(g))
                    ELSE pending
      /\ UNCHANGED <<state, peerVars, wire, done, crossed, connVars, fault>>

\* on_read returns.  Over UDP what it left is dropped and do_read follows,
\* whose receive fails unless there is a connection.  When on_recv has
\* disconnected, the receive loop of TCP asks for space, meets the closed
\* socket and closes it again.
Return ==
  LET empty == GrowContinguious(reset(recv_buff))
      loops == Transport = "tcp" /\ ~Connected
  IN  /\ reading /\ fault = "none" /\ OnReadBreaks
      /\ reading' = FALSE
      /\ recv_buff' = CASE Transport = "udp" -> empty
                        [] loops -> close(Room)
                        [] OTHER -> recv_buff
      /\ fault' = IF loops /\ RoomAtEnd = 0 THEN "thrown" ELSE "none"
      /\ pending' = IF Transport = "udp" /\ Connected THEN Append(pending, Posted(empty))
                    ELSE pending
      /\ UNCHANGED <<state, peerVars, wire, done, crossed, connVars>>

\* disconnect() by the application's timer, or close() after an error.  The
\* receives that have not completed are aborted.
Disconnect ==
  /\ Connected /\ ~reading /\ fault = "none"
  /\ state' = "disconnected"
  /\ recv_buff' = close(recv_buff)
  /\ wire' = <<>> /\ pending' = <<>>
  /\ UNCHANGED <<reading, peerVars, done, crossed, connVars, fault>>

\* connect() closes the socket first; over UDP do_read ends it.
Connect ==
  LET g == GrowContinguious(close(recv_buff))
  IN  /\ ~Connected /\ ~reading /\ fault = "none" /\ session < MaxSessions
      /\ state' = "connected" /\ session' = session + 1
      /\ recv_buff' = IF Transport = "udp" THEN g ELSE close(recv_buff)
      /\ pending' = IF Transport = "udp" THEN <<Posted(g)>> ELSE <<>>
      /\ crossed' = (Transport = "udp" /\ done # <<>>)
      /\ carry' = Contents(recv_buff') /\ got' = <<>> /\ NewPeer
      /\ UNCHANGED <<reading, done, fault, setup>>

-----------------------------------------------------------------------------

StreamInit ==
  /\ recv_buff = New /\ state = "disconnected" /\ reading = FALSE
  /\ sent = <<>> /\ wire = <<>> /\ bound = FALSE /\ backlog = <<>>
  /\ pending = <<>> /\ done = <<>> /\ crossed = FALSE /\ got = <<>> /\ carry = <<>>
  /\ session = 0 /\ fault = "none" /\ setup \in Setups

on_read ==
  \/ \E length \in ReadLengths, drop \in BOOLEAN : Deliver(length, drop)
  \/ \E length \in ReadLengths : Reconnect(length)
  \/ Return

Receive == \/ \E n \in 1..Len(wire) : ReceiveBytes(n)
           \/ ReceiveMessage
           \/ NoRoom
           \/ \E i \in 1..Len(wire) : Complete(i)
           \/ Handle

\* A packet is cut anywhere or not at all; packets that divide send_buff_ are
\* only told apart.
Cuts == IF setup.cuts THEN 0..Len(backlog)
        ELSE {Len(FlattenSeq(SubSeq(sent, 1, k))) : k \in 0..Len(sent)}
Peer ==
  \/ \E length \in setup.lengths :
       \E cut \in IF setup.cuts THEN 0..length + 1 ELSE {0} : PeerSends(length, cut)
  \/ \E cut \in Cuts : PeerBinds(cut)

StreamNext == Peer \/ DatagramLost \/ Receive \/ on_read \/ Disconnect \/ Connect

StreamSpec == StreamInit /\ [][StreamNext]_streamVars

\* The receive loop goes on while the kernel has bytes, and update is called
\* on every tick; on_read is a loop of the same thread.
FairSpec == StreamSpec /\ WF_streamVars(Receive) /\ WF_streamVars(on_read)

-----------------------------------------------------------------------------

\* No byte of a connection is lost, repeated or moved on its way to on_recv,
\* whatever wraps, grows or comes in pieces.  What the buffer held before
\* comes first.
Conserved ==
  Connected /\ Transport # "udp" =>
    FlattenSeq(got) \o Contents(recv_buff) \o InFlight = carry \o FlattenSeq(sent)

\* The application is given the packets of its peer, whole and in order, also
\* on a connection made after on_recv had disconnected the one before.  Only
\* KCP, whose close() keeps the buffer, may have old bytes in front.
OwnPackets ==
  Connected =>
    CASE Transport = "tcp" -> IsPrefix(got, sent)
      [] Transport = "kcp" -> IsPrefix(got, sent) \/ carry # <<>>
      [] OTHER -> TRUE

\* on_read loops for ever, and the ring throws, only where the bytes are not
\* those of the peer: stale ones after on_recv has disconnected, or, over
\* KCP, behind half a packet of another connection, or, over UDP, on a
\* connection that on_recv made or a late datagram met.  And it throws for a
\* packet that no ring can hold, which is what its limit is for.
Foreign == ~Connected \/ carry # <<>> \/ crossed
LargestRing == Grow(New, LAMBDA r : FALSE).size
FaultsOnlyOnForeign ==
  /\ fault = "loop" => Foreign
  /\ fault = "thrown" =>
       Foreign \/ \E i \in 1..Len(sent) : Len(sent[i]) >= LargestRing

\* ikcp_recv cannot give the next message, and nothing will change that: it
\* starves at the end of the ring, while there is room for it in front.
Starved ==
  /\ Transport = "kcp" /\ Connected /\ ~reading /\ fault = "none"
  /\ wire # <<>> /\ RoomAtEnd > 0 /\ Len(Head(wire)) > RoomAtEnd

\* Packets of one size that divides the size of the ring, as those of the two
\* programs do, and the next message is one of them.
Even ==
  /\ ~setup.cuts
  /\ \E n \in 1..DefaultSize - 1 :
       DefaultSize % n = 0 /\ \A length \in setup.lengths : length + LengthSize = n
Single == \E i \in 1..Len(sent) : Head(wire) = sent[i]

\* Once the peer has its kcp_, every packet is delivered, unless the connection
\* ends, the ring is too small, old bytes are in front or a message starves.
\* Where packets divide the ring only a message of several starves: what a
\* client had queued before the answer to its hello.
Delivered ==
  (Connected /\ Transport # "udp" /\ bound /\ Len(got) < Len(sent)) ~>
    (Len(got) = Len(sent) \/ Foreign \/ fault # "none" \/ (Starved /\ ~(Even /\ Single)))

\* Whatever is lost, overtakes or is cut, a datagram that is delivered is a
\* packet of the peer, whole, smaller than the ring, and nothing of it stays
\* behind for the next.  It is not so on a connection that on_recv made, whose
\* receive starts behind the packet and is read from the front, or that was
\* made before the handler of an earlier socket's datagram had run.
WholeDatagrams ==
  Connected /\ Transport = "udp" =>
    /\ ~crossed => /\ \A i \in 1..Len(got) : \E j \in 1..Len(sent) : got[i] = sent[j]
                   /\ \A i \in 1..Len(got) : Len(got[i]) < recv_buff.size
    /\ ~reading => recv_buff.head = 0 /\ recv_buff.tail = 0
=============================================================================
