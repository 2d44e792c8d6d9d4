----------------------------- MODULE UdpSession -----------------------------
(***************************************************************************)
(* A connection on a udp::socket: the client's udp::connector, or what     *)
(* udp::acceptor made of a remote's first datagram.  As in KcpSession the  *)
(* endpoint is one record, the member functions are operators on it and a  *)
(* step of Next runs one handler of the io_service to completion.          *)
(*                                                                         *)
(*   app      the application that uses it                                 *)
(*   state    connection::state_                                           *)
(*   up       what the application was last told (history variable)        *)
(*   fd       the udp socket is open                                       *)
(*   err      the kernel has an error to report on it (ICMP unreachable)   *)
(*   inbox    datagrams the kernel holds for it                            *)
(*   rd       async_receive operations that wait, each by where in         *)
(*            recv_buff_ its datagram will go: at the front, where on_read *)
(*            looks, or behind a datagram that on_read is still at         *)
(*   holding  on_read is at a datagram in recv_buff_                       *)
(*   queue    handlers ready to run                                        *)
(*   crossed  connect() was called from within on_read (history)           *)
(*   misread  on_read was given something else than the datagram received  *)
(*   late     a datagram of an earlier socket reached a connected          *)
(*            application                                                  *)
(*   gone     the connection was destroyed                                 *)
(*   thrown   an exception left a handler and io_service::run()            *)
(***************************************************************************)
EXTENDS Naturals, Sequences, SequencesExt

CONSTANTS
  Apps,        \* the applications, see App
  MaxInbox,    \* bound: datagrams the kernel holds
  MaxFaults,   \* bound: faults of the network and calls of disconnect
  MaxQueue     \* bound: no timer expires while this many handlers wait

\* An application: whether someone keeps a shared_ptr to the connection, what
\* a timer of it may do, what on_recv may do, and whether on_disconnected may
\* call connect().
App ==
  [owned : BOOLEAN, tick : SUBSET {"nothing", "poll", "disconnect"},
   recv : SUBSET {"nothing", "send", "disconnect"}, reconnects : SUBSET BOOLEAN]

ASSUME UdpConstants ==
  /\ Apps \subseteq App
  /\ MaxInbox \in Nat /\ MaxFaults \in Nat /\ MaxQueue \in Nat

VARIABLES
  ep,      \* the endpoint and its share of the io_service
  faults   \* disturbances left (see MaxFaults)

vars == <<ep, faults>>

(***************************************************************************)
(* Queue entries: "event" is the reactor's entry for the open descriptor,  *)
(* "stale" one whose descriptor was closed since, "read" a completed       *)
(* receive and "tick" a timer.  Of a receive, own says that its datagram   *)
(* is what stands at the front of recv_buff_, old that its socket has been *)
(* closed.                                                                 *)
(***************************************************************************)
Entry(op) == [op |-> op, ok |-> TRUE, own |-> TRUE, old |-> FALSE]
Received(at) == [Entry("read") EXCEPT !.own = (at = "front")]
Failed == [Entry("read") EXCEPT !.ok = FALSE]

Post(s, item) == [s EXCEPT !.queue = Append(@, item)]
Reads(s)      == {i \in DOMAIN s.queue : s.queue[i].op = "read"}

-----------------------------------------------------------------------------
(* asio::ip::udp::socket, as the library uses it                           *)

\* close(): waiting receives are posted with operation_aborted, datagrams in
\* the kernel are dropped, a queued descriptor entry finds nothing to do.
socket_close(s) ==
  IF ~s.fd THEN s
  ELSE [s EXCEPT
          !.fd = FALSE, !.err = FALSE, !.inbox = 0, !.rd = <<>>,
          !.queue = [i \in DOMAIN @ |->
                       CASE @[i].op = "event" -> Entry("stale")
                         [] @[i].op = "read"  -> [@[i] EXCEPT !.old = TRUE]
                         [] OTHER             -> @[i]]
                    \o [i \in DOMAIN s.rd |-> Failed]]

Ready(s) == s.err \/ s.inbox > 0

\* One receive that does not wait, into place at, posts its result.  A
\* datagram at the front replaces that of a receive completed earlier.
Take(s, at) ==
  IF s.err THEN Post([s EXCEPT !.err = FALSE], Failed)
  ELSE Post([s EXCEPT !.inbox = @ - 1,
                      !.queue = [i \in DOMAIN @ |->
                                   IF at = "front" THEN [@[i] EXCEPT !.own = FALSE]
                                   ELSE @[i]]],
            Received(at))

\* async_receive tries at once unless another receive waits already, and
\* posts the result; a closed socket posts bad_descriptor.
async_receive(s, at) ==
  CASE ~s.fd -> Post(s, Failed)
    [] s.fd /\ s.rd = <<>> /\ Ready(s) -> Take(s, at)
    [] OTHER -> [s EXCEPT !.rd = Append(@, at)]

-----------------------------------------------------------------------------
(* udp::socket, connection, udp::connector                                 *)

\* get_end() of a ring that on_read has not emptied lies behind its datagram.
do_read(s) == async_receive(s, IF s.holding THEN "behind" ELSE "front")

\* open() without its do_write(), which has something to send only if the
\* socket before failed to: see send.
open(s) == do_read(s)

connected(s) ==
  IF s.state = "CONNECTED" THEN s
  ELSE open([s EXCEPT !.state = "CONNECTED", !.up = TRUE])

\* Mutant: connect() calls close() instead of disconnect().
Fail_Closes(s) == socket_close(s)

\* The disconnect() of connect(), when connect or the send of the hello fails.
Fail(s) == socket_close([s EXCEPT !.state = "DISCONNECTED", !.up = FALSE])

\* connect() after its close(), with result res.  udp::socket::open throws if
\* on_disconnected has opened the socket.
reopen(s, res) ==
  LET t == [s EXCEPT !.fd = TRUE, !.state = "CONNECTING", !.crossed = @ \/ s.holding]
  IN  CASE s.fd         -> [s EXCEPT !.thrown = TRUE]
        [] ~s.fd /\ res -> connected(t)
        [] OTHER        -> Fail(t)

\* on_disconnected may call connect(), whose close() is that of a
\* disconnected connection.
on_disconnected(s, reconnect) ==
  LET t == [s EXCEPT !.up = FALSE]
  IN  IF reconnect THEN reopen(socket_close(t), TRUE) ELSE t

on_close(s, reconnect) ==
  IF s.state = "CONNECTED"
  THEN on_disconnected([s EXCEPT !.state = "DISCONNECTED"], reconnect)
  ELSE s

\* Mutant: the application hears of it too early.
close_TellsFirst(s, reconnect) == socket_close(on_close(s, reconnect))

close(s, reconnect) == on_close(socket_close(s), reconnect)

disconnect(s, reconnect) ==
  IF s.state = "DISCONNECTED" THEN s
  ELSE on_disconnected(close([s EXCEPT !.state = "DISCONNECTED"], FALSE), reconnect)

\* If connect() fails, on_disconnected may call it again.
connect(s, res, reconnect) ==
  LET t == reopen(close(s, reconnect), res)
  IN  IF t.state = "DISCONNECTED" /\ reconnect THEN reopen(t, TRUE) ELSE t

\* The send is synchronous and reports a pending error or a closed socket.
\* close() then comes before send_buff_ is emptied: if on_disconnected connects,
\* the do_write() of open() sends the packet again, on the new socket, with
\* result res.  If that fails as well, on_disconnected does not connect here:
\* were it to, the two would call each other until a send succeeds.
send(s, res, reconnect) ==
  LET t == close([s EXCEPT !.err = FALSE], reconnect)
  IN  CASE s.fd /\ ~s.err                     -> s
        [] (~s.fd \/ s.err) /\ t.fd /\ ~res    -> close(t, FALSE)
        [] OTHER                             -> t

on_recv(s, call, res, reconnect) ==
  CASE call = "send"       -> send(s, res, reconnect)
    [] call = "disconnect" -> disconnect(s, reconnect)
    [] OTHER               -> s

\* The handler of a receive: on_read takes what is at the front, recv_buff_
\* is reset, and do_read follows whatever on_recv did to the socket.
read_handler(s, item, call, res, reconnect) ==
  IF ~item.ok THEN close(s, reconnect)
  ELSE LET t == [s EXCEPT !.holding = TRUE,
                          !.misread = @ \/ ~item.own,
                          !.late = @ \/ (item.old /\ s.state = "CONNECTED")]
       IN  do_read([on_recv(t, call, res, reconnect) EXCEPT !.holding = FALSE])

\* Mutant: a send that fails is followed by a reconnect at once.
poll_AtOnce(s, res, reconnect) ==
  LET t == IF s.state = "CONNECTED" THEN send(s, res, reconnect) ELSE s
  IN  IF t.state = "DISCONNECTED" THEN connect(t, res, reconnect) ELSE t

\* on_time of the client program, were it a udp::connector.
poll(s, res, reconnect) ==
  CASE s.state = "DISCONNECTED" -> connect(s, res, reconnect)
    [] s.state = "CONNECTED"    -> send(s, res, reconnect)
    [] OTHER                    -> s

\* The handlers of receives hold the only other references to the connection.
Settle(s) ==
  IF ~s.app.owned /\ s.rd = <<>> /\ Reads(s) = {}
  THEN [socket_close(s) EXCEPT !.gone = TRUE] ELSE s

-----------------------------------------------------------------------------
(* Steps of the io_service                                                 *)

Running == ~ep.thrown /\ ~ep.gone
NextIs(op) == Running /\ ep.queue # <<>> /\ Head(ep.queue).op = op
Popped == [ep EXCEPT !.queue = Tail(@)]
Spend(n) == faults >= n /\ faults' = faults - n
Cost(c) == IF c THEN 1 ELSE 0

EpollWait ==
  /\ Running /\ ep.fd /\ Ready(ep)
  /\ \A i \in DOMAIN ep.queue : ep.queue[i].op # "event"
  /\ ep' = Post(ep, Entry("event"))
  /\ UNCHANGED faults

\* perform_io: receives complete while there is something to receive.  The
\* handler of the first runs at once, that of the second (at most two
\* receives wait) is posted.
Completed(s) ==
  LET t == Take([s EXCEPT !.rd = Tail(@)], Head(s.rd))
  IN  IF t.rd # <<>> /\ Ready(t)
      THEN Take([t EXCEPT !.rd = Tail(@)], Head(t.rd)) ELSE t

PerformIO ==
  /\ NextIs("event")
  /\ \E call \in ep.app.recv, res \in BOOLEAN, reconnect \in ep.app.reconnects :
       LET s == Popped
           t == Completed(s)
           first == Len(s.queue) + 1
       IN  IF s.rd = <<>> \/ ~Ready(s) THEN ep' = s /\ UNCHANGED faults
           ELSE /\ ep' = Settle(read_handler(
                           [t EXCEPT !.queue = RemoveAt(@, first)],
                           t.queue[first], call, res, reconnect))
                /\ Spend(Cost(call = "disconnect") + Cost(~res))

RunRead ==
  /\ NextIs("read")
  /\ \E call \in ep.app.recv, res \in BOOLEAN, reconnect \in ep.app.reconnects :
       /\ ep' = Settle(read_handler(Popped, Head(ep.queue), call, res, reconnect))
       /\ Spend(Cost(call = "disconnect") + Cost(~res))

RunStale ==
  /\ NextIs("stale")
  /\ ep' = Popped
  /\ UNCHANGED faults

TimerExpires ==
  /\ Running /\ Len(ep.queue) < MaxQueue
  /\ \A i \in DOMAIN ep.queue : ep.queue[i].op # "tick"
  /\ ep' = Post(ep, Entry("tick"))
  /\ UNCHANGED faults

RunTick ==
  /\ NextIs("tick")
  /\ \E then \in ep.app.tick, res \in BOOLEAN, reconnect \in ep.app.reconnects :
       /\ ep' = Settle(CASE then = "poll"       -> poll(Popped, res, reconnect)
                         [] then = "disconnect" -> disconnect(Popped, reconnect)
                         [] OTHER               -> Popped)
       /\ Spend(Cost(then = "disconnect") + Cost(~res))

-----------------------------------------------------------------------------
(* The network                                                             *)

\* A datagram arrives; those that are lost do not.
DatagramArrives ==
  /\ Running /\ ep.fd /\ ep.inbox < MaxInbox
  /\ ep' = [ep EXCEPT !.inbox = @ + 1]
  /\ UNCHANGED faults

PeerUnreachable ==
  /\ Running /\ ep.fd /\ ~ep.err /\ Spend(1)
  /\ ep' = [ep EXCEPT !.err = TRUE]

-----------------------------------------------------------------------------

Fresh(app) ==
  [app |-> app, state |-> "DISCONNECTED", up |-> FALSE, fd |-> FALSE,
   err |-> FALSE, inbox |-> 0, rd |-> <<>>, holding |-> FALSE, queue |-> <<>>,
   crossed |-> FALSE, misread |-> FALSE, late |-> FALSE, gone |-> FALSE,
   thrown |-> FALSE]

\* A connector after mgr::connect.  A connection that udp::acceptor made is in
\* the same state, and does what a connector does that never polls.
Init ==
  /\ faults = MaxFaults
  /\ \E app \in Apps : ep = connect(Fresh(app), TRUE, FALSE)

Run == PerformIO \/ RunRead \/ RunStale \/ RunTick

Next == EpollWait \/ Run \/ TimerExpires \/ DatagramArrives \/ PeerUnreachable

\* io_service::run() runs the handlers, epoll reports a readable socket and
\* the timer of the application repeats.
Fairness == WF_vars(Run) /\ WF_vars(EpollWait) /\ WF_vars(TimerExpires)

Spec == Init /\ [][Next]_vars
FairSpec == Spec /\ Fairness

-----------------------------------------------------------------------------
(* Properties                                                              *)

\* However disconnects, errors and reconnects are nested, CONNECTED means that
\* the application was told so, that the socket is open and that the endpoint
\* is not deaf: a receive of this socket waits or has completed.  No connect()
\* opens an open socket (udp::socket::open would throw), and a connection that
\* nobody keeps is not destroyed before on_disconnected.
Attached ==
  /\ ~ep.thrown /\ (ep.gone => ~ep.up)
  /\ Running => (ep.up <=> ep.state = "CONNECTED")
  /\ Running /\ ep.state = "CONNECTED" =>
       /\ ep.fd
       /\ ep.rd # <<>> \/ \E i \in Reads(ep) : ~ep.queue[i].old

\* The application only polls.
Polls == ep.app.tick = {"poll"} /\ ep.app.reconnects = {FALSE} /\ ep.app.owned

\* on_read is given the datagram that was received, and one receive waits at
\* a time, with two exceptions that end in a second receive: connect() was
\* called from within on_read (do_read of the new socket then points behind
\* the datagram that is about to be dropped), or a receive that completed on
\* one socket was handled on the next, which does not happen to an application
\* that polls.
RightPlace ==
  /\ ep.misread \/ Len(ep.rd) > 1 => ep.crossed \/ ep.late
  /\ Polls => ~ep.late

\* An application that polls is connected again and, once the faults end, the
\* receives that close() aborted stop closing the socket that follows,
\* provided the io_service runs out of handlers again and again: a timer that
\* expires each time before the aborted receive is handled reconnects for ever.
Stabilises ==
  /\ (Polls /\ ep.state = "DISCONNECTED") ~> ep.state = "CONNECTED"
  /\ []<>(ep.queue = <<>>) => <>[](Polls => ep.state = "CONNECTED")
=============================================================================
