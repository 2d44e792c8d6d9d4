-------------------------- MODULE DatagramAcceptor --------------------------
(***************************************************************************)
(* udp::acceptor and kcp::acceptor: one udp socket on which the first      *)
(* datagram of every remote endpoint arrives, and a session, with a socket *)
(* of its own, for every remote that was accepted.  What a session does is *)
(* KcpSession; here it is open, then closed, then destroyed.               *)
(*                                                                         *)
(*   rcv        async_receive_from operations waiting in the reactor       *)
(*   inbox      datagrams the kernel holds for socket_, by their sender    *)
(*   remote     remote_endpoint_, which every receive overwrites           *)
(*   queue      handlers of socket_ that are ready to run                  *)
(*   ended      receives that failed and were not repeated (history)       *)
(*   endpoints  remote_endpoints_: how often each remote is in it          *)
(*   conv       the static counter of get_conv                             *)
(*   convs      convs_: the remote of the session, or None                 *)
(*   sessions   the sockets that exist, and whether they are open          *)
(***************************************************************************)
EXTENDS Naturals, Sequences, FiniteSets

CONSTANTS
  Kcp,        \* kcp::acceptor, otherwise udp::acceptor
  Remotes,    \* remote endpoints
  None,
  MaxConv,    \* conversation numbers are 1..MaxConv: 2^32 - 1 in the code
  MaxInbox,   \* bound: datagrams the kernel holds for socket_
  MaxFaults   \* bound: failures of receive and connect

ASSUME AcceptorConstants ==
  /\ Kcp \in BOOLEAN /\ None \notin Remotes
  /\ MaxConv \in Nat \ {0} /\ MaxInbox \in Nat /\ MaxFaults \in Nat

VARIABLES
  ac,      \* the acceptor, its socket and its sessions
  faults   \* failures left

vars == <<ac, faults>>

\* udp::acceptor::listen calls the virtual do_accept, and so does
\* kcp::acceptor::listen after it.
Receives == IF Kcp THEN 2 ELSE 1

Session == [remote : Remotes, conv : 0..MaxConv, open : BOOLEAN]

\* "event" is the reactor's entry for socket_, "accept" a receive that was
\* completed before, "failed" one that was completed with an error.
Acceptor ==
  [rcv : 0..Receives, inbox : Seq(Remotes), remote : Remotes \cup {None},
   queue : Seq({"event", "accept", "failed"}), ended : 0..Receives,
   endpoints : [Remotes -> Nat], conv : 0..MaxConv,
   convs : [1..MaxConv -> Remotes \cup {None}], sessions : SUBSET Session]

-----------------------------------------------------------------------------
(* asio::ip::udp::socket                                                   *)

\* async_receive_from tries at once unless another receive waits already.
async_receive_from(a) ==
  IF a.rcv = 0 /\ a.inbox # <<>>
  THEN [a EXCEPT !.remote = Head(a.inbox), !.inbox = Tail(@),
                 !.queue = Append(@, "accept")]
  ELSE [a EXCEPT !.rcv = @ + 1]

-----------------------------------------------------------------------------
(* udp::acceptor and kcp::acceptor                                         *)

\* Mutant: a remote whose session is closed but not destroyed counts as new.
is_accepted_OnlyOpen(a, r) == \E s \in a.sessions : s.remote = r /\ s.open

is_accepted(a, r) == a.endpoints[r] > 0

\* Mutant: a number in use is not skipped.
get_conv_InUse(a) == (a.conv % MaxConv) + 1

\* The counter wraps from its largest value to 1 and skips the numbers in
\* use: of those that are free, the nearest after it.
Free(a) == {c \in 1..MaxConv : a.convs[c] = None}
Distance(a, c) == IF c > a.conv THEN c - a.conv ELSE c + MaxConv - a.conv
get_conv(a) ==
  CHOOSE c \in Free(a) : \A d \in Free(a) : Distance(a, c) <= Distance(a, d)

\* A session for remote_endpoint_: the handler of do_accept once connect has
\* succeeded, up to and including on_connected.
accept(a) ==
  LET c == IF Kcp THEN get_conv(a) ELSE 0
  IN  [a EXCEPT
         !.endpoints[a.remote] = @ + 1,
         !.sessions = @ \cup {[remote |-> a.remote, conv |-> c, open |-> TRUE]},
         !.conv = IF Kcp THEN c ELSE @,
         !.convs = IF Kcp THEN [@ EXCEPT ![c] = a.remote] ELSE @]

do_accept(a) == async_receive_from(a)

\* Mutant: the next receive is not started when connect fails.
accept_handler_GivesUp(a, refused) ==
  CASE is_accepted(a, a.remote) -> do_accept(a)
    [] ~is_accepted(a, a.remote) /\ refused -> a
    [] OTHER -> do_accept(accept(a))

\* The handler of a receive without error.  refused: connect fails.
accept_handler(a, refused) ==
  do_accept(IF is_accepted(a, a.remote) \/ refused THEN a ELSE accept(a))

\* The deleter of the shared endpoint, when session s is destroyed.
close(a, s) ==
  [a EXCEPT !.sessions = @ \ {s},
            !.endpoints[s.remote] = IF @ > 0 THEN @ - 1 ELSE @,
            !.convs = IF Kcp THEN [@ EXCEPT ![s.conv] = None] ELSE @]

-----------------------------------------------------------------------------
(* Steps of the io_service                                                 *)

Spend(c) == LET n == IF c THEN 1 ELSE 0 IN faults >= n /\ faults' = faults - n

EpollWait ==
  /\ ac.inbox # <<>> /\ \A i \in DOMAIN ac.queue : ac.queue[i] # "event"
  /\ ac' = [ac EXCEPT !.queue = Append(@, "event")]
  /\ UNCHANGED faults

NextIs(op) == ac.queue # <<>> /\ Head(ac.queue) = op
Popped == [ac EXCEPT !.queue = Tail(@)]

\* get_conv does not return while every number is in use.
Handled(a, refused) ==
  /\ Kcp /\ ~is_accepted(a, a.remote) /\ ~refused => Free(a) # {}
  /\ ac' = accept_handler(a, refused)

\* perform_io: n waiting receives complete, each with the next datagram; the
\* handler of the first runs at once, and finds the sender of the last.
PerformIO ==
  /\ NextIs("event")
  /\ \E refused \in BOOLEAN :
       LET a == Popped
           n == IF a.rcv < Len(a.inbox) THEN a.rcv ELSE Len(a.inbox)
           b == [a EXCEPT !.rcv = @ - n, !.remote = a.inbox[n],
                          !.inbox = SubSeq(@, n + 1, Len(@)),
                          !.queue = @ \o [i \in 1..(n - 1) |-> "accept"]]
       IN  /\ Spend(refused)
           /\ IF n = 0 THEN ac' = a ELSE Handled(b, refused)

RunAccept ==
  /\ NextIs("accept")
  /\ \E refused \in BOOLEAN : Spend(refused) /\ Handled(Popped, refused)

\* A receive fails, and its handler returns without do_accept.
ReceiveFails ==
  /\ ac.rcv > 0 /\ Spend(TRUE)
  /\ ac' = [ac EXCEPT !.rcv = @ - 1, !.queue = Append(@, "failed")]

RunFailed ==
  /\ NextIs("failed")
  /\ ac' = [Popped EXCEPT !.ended = @ + 1]
  /\ UNCHANGED faults

\* The kernel delivers to the connected socket of the sender's session, if
\* there is one, and otherwise to socket_.
DatagramArrives ==
  /\ Len(ac.inbox) < MaxInbox
  /\ \E r \in Remotes :
       /\ \A s \in ac.sessions : ~(s.remote = r /\ s.open)
       /\ ac' = [ac EXCEPT !.inbox = Append(@, r)]
  /\ UNCHANGED faults

Closed(ss) ==
  [ac EXCEPT !.sessions = {[s EXCEPT !.open = @ /\ s \notin ss] : s \in @}]

\* A session closes its socket: it read an error, or was disconnected.
SessionCloses ==
  /\ \E s \in ac.sessions : s.open /\ ac' = Closed({s})
  /\ UNCHANGED faults

\* kcp::acceptor::on_time updates every session that convs_ holds; those that
\* cannot send close.
OnTime ==
  /\ Kcp
  /\ \E lost \in SUBSET ac.sessions :
       /\ \A s \in lost : s.open /\ ac.convs[s.conv] = s.remote
       /\ ac' = Closed(lost)
  /\ UNCHANGED faults

\* The last reference to a session goes.
SessionDestroyed ==
  /\ \E s \in ac.sessions : ac' = close(ac, s)
  /\ UNCHANGED faults

-----------------------------------------------------------------------------

Fresh ==
  [rcv |-> 0, inbox |-> <<>>, remote |-> None, queue |-> <<>>, ended |-> 0,
   endpoints |-> [r \in Remotes |-> 0], conv |-> 0,
   convs |-> [c \in 1..MaxConv |-> None], sessions |-> {}]

listen(a) == IF Kcp THEN do_accept(do_accept(a)) ELSE do_accept(a)

Init == ac = listen(Fresh) /\ faults = MaxFaults

Next ==
  \/ EpollWait \/ PerformIO \/ RunAccept \/ ReceiveFails \/ RunFailed
  \/ DatagramArrives \/ SessionCloses \/ OnTime \/ SessionDestroyed

Spec == Init /\ [][Next]_vars

-----------------------------------------------------------------------------
(* Properties                                                              *)

\* The members keep their types; no more receives wait than listen() started.
TypeOK == ac \in Acceptor /\ faults \in 0..MaxFaults

\* remote_endpoints_ holds exactly the remotes whose session exists, each
\* once: however datagrams, closes and late destructions interleave, no
\* remote has two sessions and none is locked out by a session that is gone.
OneSession ==
  /\ \A s, t \in ac.sessions : s.remote = t.remote => s = t
  /\ \A r \in Remotes :
       ac.endpoints[r] = IF \E s \in ac.sessions : s.remote = r THEN 1 ELSE 0

\* convs_ holds exactly the sessions that exist, each under its own number,
\* also after the counter has wrapped: on_time never updates a session that
\* was destroyed and misses none.
ConvUnique ==
  /\ \A s \in ac.sessions :
       s.conv \in 1..MaxConv /\ ac.convs[s.conv] = s.remote
  /\ \A c \in 1..MaxConv : ac.convs[c] # None =>
       \E s \in ac.sessions : s.conv = c /\ s.remote = ac.convs[c]

Count(op) == Cardinality({i \in DOMAIN ac.queue : ac.queue[i] = op})

\* The receives that listen() started go on: each waits, has completed or
\* has failed, whatever becomes of the remotes.
Accepting == ac.rcv + Count("accept") + Count("failed") + ac.ended = Receives
=============================================================================
