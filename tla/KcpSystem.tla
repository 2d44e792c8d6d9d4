----------------------------- MODULE KcpSystem -----------------------------
(***************************************************************************)
(* The client programs, the server's kcp::acceptor and its sessions over a *)
(* network that loses, repeats and reorders datagrams.  What KcpSession    *)
(* and DatagramAcceptor leave to each other is joined here: which session  *)
(* a datagram reaches, and whether both ends mean the same conversation.   *)
(*                                                                         *)
(*   cl        of each client: the port of its udp socket, 0 while it is   *)
(*             disconnected; the conversation of kcp_, 0 while it is null; *)
(*             the session that number came from (link, a history)         *)
(*   sessions  the server's connections: id (a history), the port they are *)
(*             connected to, conv, open, and deaf when their reader ended  *)
(*   ac        the acceptor: up, the counter of get_conv, the receives     *)
(*             completed and remote_endpoint_, which they share (0 when    *)
(*             no handler is left to read it)                              *)
(*   net       datagrams: port, up (to the server), conv, and the session  *)
(*             its sender means (id, a history)                            *)
(*   ports, ids, faults   the next port and session, disturbances left     *)
(*   spoiled   ports whose hello was repeated, whose session the server    *)
(*             disconnected, or that were in use when it crashed (history) *)
(*   unheard   ports that were not accepted though they sent a hello: it   *)
(*             was lost, the second receive overwrote its sender, or       *)
(*             connect() of the session's socket failed (history)          *)
(*   restarts  how often the server was restarted                          *)
(*   mixed     ikcp_input has taken a datagram of another session          *)
(***************************************************************************)
EXTENDS Naturals, FiniteSets

CONSTANTS
  Client,
  Receives,     \* outstanding receives of the acceptor, 2 in the code
  MaxConv,      \* conversation numbers are 1..MaxConv: 2^32 - 1 in the code
  MaxPort,      \* bound: sockets opened
  MaxSession,   \* bound: sessions made
  MaxFaults     \* bound: datagrams lost or repeated, disconnects, restarts,
                \* failures of connect()

ASSUME KcpSystemConstants ==
  /\ Receives \in Nat \ {0} /\ MaxConv \in Nat \ {0} /\ MaxPort \in Nat
  /\ MaxSession \in Nat /\ MaxFaults \in Nat

VARIABLES cl, sessions, ac, net, ports, ids, faults, spoiled, unheard, restarts, mixed

vars == <<cl, sessions, ac, net, ports, ids, faults, spoiled, unheard, restarts, mixed>>

Port == 1..MaxPort
NoSocket == [port |-> 0, kcp |-> 0, link |-> 0]
Datagram(port, up, conv, id) == [port |-> port, up |-> up, conv |-> conv, id |-> id]
Hello(port) == Datagram(port, TRUE, 0, 0)

\* A fault of the network, an application or a process.
Fault == faults > 0 /\ faults' = faults - 1

\* The network delivers m once, or keeps it to deliver it again.
Taken(m) ==
  \/ net' = net \ {m} /\ UNCHANGED <<faults, spoiled>>
  \/ /\ Fault /\ UNCHANGED net
     /\ spoiled' = IF m.conv = 0 THEN spoiled \cup {m.port} ELSE spoiled

-----------------------------------------------------------------------------
(* The client                                                              *)

\* connect(): a new socket, and a hello.
Connect(c) ==
  /\ cl[c].port = 0 /\ ports <= MaxPort
  /\ cl' = [cl EXCEPT ![c] = [NoSocket EXCEPT !.port = ports]]
  /\ net' = net \cup {Hello(ports)}
  /\ ports' = ports + 1
  /\ UNCHANGED <<sessions, ac, ids, faults, spoiled, unheard, restarts, mixed>>

\* disconnect() by the application.
Disconnect(c) ==
  /\ cl[c].port # 0 /\ Fault
  /\ cl' = [cl EXCEPT ![c] = NoSocket]
  /\ UNCHANGED <<sessions, ac, net, ports, ids, spoiled, unheard, restarts, mixed>>

\* KCP sends, or repeats, something of the conversation.
ClientSends(c) ==
  /\ cl[c].kcp # 0
  /\ net' = net \cup {Datagram(cl[c].port, TRUE, cl[c].kcp, cl[c].link)}
  /\ UNCHANGED <<cl, sessions, ac, ports, ids, faults, spoiled, unheard, restarts, mixed>>

\* The first datagram gives the connector its conversation; ikcp_input ignores
\* those of other conversations.
Input(e, m) ==
  IF e.kcp = 0 THEN [e EXCEPT !.kcp = m.conv, !.link = m.id] ELSE e

ClientReceives(c, m) ==
  /\ ~m.up /\ cl[c].port = m.port /\ Taken(m)
  /\ cl' = [cl EXCEPT ![c] = Input(@, m)]
  /\ mixed' = (mixed \/ (cl'[c].kcp = m.conv /\ cl'[c].link # m.id))
  /\ UNCHANGED <<sessions, ac, ports, ids, unheard, restarts>>

\* The server's host answers that nobody has the port: the client's receive
\* fails, and it closes.
ServerUnreachable(c, m) ==
  /\ m.up /\ ~ac.up /\ cl[c].port = m.port /\ Taken(m)
  /\ cl' = [cl EXCEPT ![c] = NoSocket]
  /\ UNCHANGED <<sessions, ac, ports, ids, unheard, restarts, mixed>>

-----------------------------------------------------------------------------
(* The server                                                              *)

OpenFor(port) == {s \in sessions : s.port = port /\ s.open}

\* Mutants: nobody asks whether the remote has a session; endpoints are
\* compared without their ports.
is_accepted_Never(port) == FALSE
is_accepted_AnyPort(port) == sessions # {}

is_accepted(port) == \E s \in sessions : s.port = port

\* Mutant: the counter stands still.
get_conv_Same(conv) == 1

\* The counter wraps from its largest value to 1 and skips the numbers in
\* convs_: of those that are free, the nearest after it.
Free == {k \in 1..MaxConv : \A s \in sessions : s.conv # k}
Distance(conv, k) == IF k > conv THEN k - conv ELSE k + MaxConv - conv
get_conv(conv) ==
  CHOOSE k \in Free : \A j \in Free : Distance(conv, k) <= Distance(conv, j)

\* Nobody has the socket: the kernel gives the datagram to the acceptor, which
\* only looks at where it comes from.
AcceptorReceives(m) ==
  /\ m.up /\ ac.up /\ OpenFor(m.port) = {} /\ ac.done < Receives /\ Taken(m)
  /\ ac' = [ac EXCEPT !.done = @ + 1, !.remote = m.port]
  /\ unheard' = unheard \cup
       {p \in {ac.remote} : ac.done > 0 /\ p # m.port /\ ~is_accepted(p)}
  /\ UNCHANGED <<cl, sessions, ports, ids, restarts, mixed>>

Handled(a) == [a EXCEPT !.done = @ - 1, !.remote = IF a.done = 1 THEN 0 ELSE @]

\* The handler of a receive whose sender has a session.
Refuse ==
  /\ is_accepted(ac.remote)
  /\ ac' = Handled(ac)
  /\ UNCHANGED <<sessions, ids, faults, unheard>>

\* connect() of the new socket fails: always, once MaxSession sessions were
\* made.
ConnectFails ==
  /\ ~is_accepted(ac.remote)
  /\ IF ids > MaxSession THEN UNCHANGED faults ELSE Fault
  /\ ac' = Handled(ac)
  /\ unheard' = unheard \cup {ac.remote}
  /\ UNCHANGED <<sessions, ids>>

\* A session under the next number.  get_conv does not return while every
\* number is in use.
Accept ==
  /\ ~is_accepted(ac.remote) /\ ids <= MaxSession /\ Free # {}
  /\ LET conv == get_conv(ac.conv)
     IN  /\ ac' = [Handled(ac) EXCEPT !.conv = conv]
         /\ sessions' = sessions \cup
              {[id |-> ids, port |-> ac.remote, conv |-> conv,
                open |-> TRUE, deaf |-> FALSE]}
  /\ ids' = ids + 1
  /\ UNCHANGED <<faults, unheard>>

RunAccept ==
  /\ ac.up /\ ac.done > 0
  /\ Refuse \/ ConnectFails \/ Accept
  /\ UNCHANGED <<cl, net, ports, spoiled, restarts, mixed>>

SessionSends(s) ==
  /\ s.open
  /\ net' = net \cup {Datagram(s.port, FALSE, s.conv, s.id)}
  /\ UNCHANGED <<cl, sessions, ac, ports, ids, faults, spoiled, unheard, restarts, mixed>>

Becomes(s, t) == sessions' = (sessions \ {s}) \cup {t}

\* A hello ends the reader of a session.
SessionReceives(s, m) ==
  /\ m.up /\ s \in OpenFor(m.port) /\ ~s.deaf /\ Taken(m)
  /\ Becomes(s, [s EXCEPT !.deaf = (m.conv = 0)])
  /\ mixed' = (mixed \/ (m.conv = s.conv /\ m.id # s.id))
  /\ UNCHANGED <<cl, ac, ports, ids, unheard, restarts>>

\* The client's host answers that nobody has the port: the session closes.
ClientUnreachable(s, m) ==
  /\ ~m.up /\ s \in OpenFor(m.port) /\ \A c \in Client : cl[c].port # m.port
  /\ Taken(m)
  /\ Becomes(s, [s EXCEPT !.open = FALSE])
  /\ UNCHANGED <<cl, ac, ports, ids, unheard, restarts, mixed>>

\* disconnect() by the server's application.
SessionCloses(s) ==
  /\ s.open /\ Fault
  /\ Becomes(s, [s EXCEPT !.open = FALSE])
  /\ spoiled' = spoiled \cup {s.port}
  /\ UNCHANGED <<cl, ac, net, ports, ids, unheard, restarts, mixed>>

\* Only its receive kept the session.
SessionDestroyed(s) ==
  /\ ~s.open \/ s.deaf
  /\ sessions' = sessions \ {s}
  /\ UNCHANGED <<cl, ac, net, ports, ids, faults, spoiled, unheard, restarts, mixed>>

Listening(up) == [up |-> up, conv |-> 0, done |-> 0, remote |-> 0]

Crash ==
  /\ ac.up /\ Fault
  /\ ac' = Listening(FALSE) /\ sessions' = {}
  /\ spoiled' = 1..(ports - 1)
  /\ UNCHANGED <<cl, net, ports, ids, unheard, restarts, mixed>>

\* The numbers begin again at 1.
Restart ==
  /\ ~ac.up
  /\ ac' = Listening(TRUE) /\ restarts' = restarts + 1
  /\ UNCHANGED <<cl, sessions, net, ports, ids, faults, spoiled, unheard, mixed>>

-----------------------------------------------------------------------------

Lost(m) ==
  /\ Fault /\ net' = net \ {m}
  /\ unheard' = IF m.conv = 0 THEN unheard \cup {m.port} ELSE unheard
  /\ UNCHANGED <<cl, sessions, ac, ports, ids, spoiled, restarts, mixed>>

Init ==
  /\ cl = [c \in Client |-> NoSocket] /\ sessions = {}
  /\ ac = Listening(TRUE) /\ net = {} /\ ports = 1 /\ ids = 1
  /\ faults = MaxFaults /\ spoiled = {} /\ unheard = {}
  /\ restarts = 0 /\ mixed = FALSE

Arrives(m) ==
  \/ \E c \in Client : ClientReceives(c, m) \/ ServerUnreachable(c, m)
  \/ AcceptorReceives(m)
  \/ \E s \in sessions : SessionReceives(s, m) \/ ClientUnreachable(s, m)

Next ==
  \/ \E c \in Client : Connect(c) \/ Disconnect(c) \/ ClientSends(c)
  \/ \E s \in sessions : SessionSends(s) \/ SessionCloses(s) \/ SessionDestroyed(s)
  \/ \E m \in net : Arrives(m) \/ Lost(m)
  \/ RunAccept \/ Crash \/ Restart

Spec == Init /\ [][Next]_vars

\* A datagram that is not lost arrives, also if the acceptor's receives are all
\* taken for a while; handlers run; a session sends (the server's timer), and
\* KCP repeats what it sends.
FairSpec ==
  /\ Spec /\ WF_vars(RunAccept)
  /\ \A p \in Port :
       /\ SF_vars(Hello(p) \in net /\ Arrives(Hello(p)))
       /\ WF_vars(\E s \in OpenFor(p) : SessionSends(s))
       /\ SF_vars(\E m \in net : m.port = p /\ ~m.up /\ Arrives(m))

-----------------------------------------------------------------------------
(* Properties                                                              *)

\* No datagram of one session is taken for one of another, however they are
\* delayed and whoever reconnects, until the server is restarted or has made
\* more sessions than there are numbers.  Then numbers are given again, and a
\* client that did not notice that its session is gone meets a stranger under
\* its old number.
NoCrossTalk == mixed => restarts > 0 \/ ids > MaxConv + 1

Talking(c) ==
  \E s \in sessions : s.id = cl[c].link /\ s.port = cl[c].port /\ s.open /\ ~s.deaf

\* A client that has a conversation is heard by the session it came from, and
\* no other session takes its datagrams, unless the server crashed or
\* disconnected it or the network repeated its hello.  In those cases the
\* acceptor makes a session with another number of the client's next datagram,
\* and both sides stay connected without hearing each other.  Clients that
\* connect after a crash are as well off as the first ones.
Partners ==
  \A c \in Client :
    cl[c].kcp # 0 /\ cl[c].port \notin spoiled =>
      Talking(c) /\ Cardinality(OpenFor(cl[c].port)) = 1

\* A client that connects gets a conversation with its own session, unless it
\* is disconnected or spoiled, finds nobody at the server's port, or its hello
\* was lost, overwritten or refused by connect().
Talks ==
  \A c \in Client :
    cl[c].port # 0 ~> \/ Talking(c) \/ cl[c].port = 0
                      \/ cl[c].port \in unheard \cup spoiled
=============================================================================
