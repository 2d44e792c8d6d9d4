----------------------------- MODULE KcpSession -----------------------------
(***************************************************************************)
(* One end of a KCP conversation: a connection on a kcp::socket, either    *)
(* the client's kcp::connector or what kcp::acceptor made of a hello, with *)
(* the handler queue of the single threaded io_service.  As in             *)
(* TcpConnection the endpoint is one record and the member functions are   *)
(* operators on it; a step of Next runs one handler to completion.         *)
(*                                                                         *)
(*   app     the application that uses it                                  *)
(*   state   connection::state_                                            *)
(*   up      what the application was last told (history variable)         *)
(*   kcp     the conversation of kcp_, 0 while kcp_ is null                *)
(*   out     packets in send_buff_                                         *)
(*   fd      the udp socket is open                                        *)
(*   err     the kernel has an error to report on it (ICMP unreachable)    *)
(*   inbox   datagrams the kernel holds for it; a datagram is its conv     *)
(*   rd      async_receive operations waiting in the reactor               *)
(*   buf     the conv in buffer_, which all receives share                 *)
(*   queue   handlers ready to run                                         *)
(*   hello   the datagram that asks for a conversation                     *)
(*   peer    the conversation the other side has for this udp socket       *)
(*   deaf    a datagram of conversation 0 ended the reader (history)       *)
(*   gone    the connection was destroyed                                  *)
(*   thrown  an exception left a handler and io_service::run()             *)
(*   damage  kcp_ was released while ikcp_update was using it: nothing is  *)
(*           said of what follows                                          *)
(***************************************************************************)
EXTENDS Naturals, Sequences

CONSTANTS
  Apps,        \* the applications, see App
  MaxConv,     \* conversations are 1..MaxConv
  MaxOut,      \* bound: packets the application leaves in send_buff_
  MaxInbox,    \* bound: datagrams the kernel holds
  MaxFaults,   \* bound: faults of the network and calls of disconnect
  MaxQueue     \* bound: no timer expires while this many handlers wait

\* An application: which end it is, whether someone keeps a shared_ptr to the
\* connection, what on_time may do besides update(), what on_recv may do, and
\* whether on_disconnected may call connect().
App ==
  [role : {"client", "session"}, owned : BOOLEAN,
   tick : SUBSET {"nothing", "poll", "send", "disconnect"},
   recv : SUBSET {"nothing", "send", "disconnect"}, reconnects : SUBSET BOOLEAN]

ASSUME KcpConstants ==
  /\ Apps \subseteq App
  /\ MaxConv \in Nat \ {0} /\ MaxOut \in Nat /\ MaxInbox \in Nat
  /\ MaxFaults \in Nat /\ MaxQueue \in Nat

VARIABLES
  ep,      \* the endpoint and its share of the io_service
  faults   \* disturbances left (see MaxFaults)

vars == <<ep, faults>>

(***************************************************************************)
(* Queue entries: "event" is the reactor's entry for the open descriptor,  *)
(* "stale" one whose descriptor was closed since, "read" a completed       *)
(* receive and "tick" mgr's repeating timer.                               *)
(***************************************************************************)
Entry(op, ok) == [op |-> op, ok |-> ok]

Post(s, item) == [s EXCEPT !.queue = Append(@, item)]
Reads(s)      == {i \in DOMAIN s.queue : s.queue[i].op = "read"}
HasEvent(s)   == \E i \in DOMAIN s.queue : s.queue[i].op = "event"

-----------------------------------------------------------------------------
(* asio::ip::udp::socket, as the library uses it                           *)

\* close(): waiting receives are posted with operation_aborted, datagrams in
\* the kernel are dropped, a queued descriptor entry finds nothing to do.
socket_close(s) ==
  IF ~s.fd THEN s
  ELSE [s EXCEPT
          !.fd = FALSE, !.err = FALSE, !.inbox = <<>>, !.rd = 0,
          !.hello = "none", !.peer = 0,
          !.queue = [i \in DOMAIN @ |->
                       IF @[i].op = "event" THEN Entry("stale", TRUE) ELSE @[i]]
                    \o [i \in 1..s.rd |-> Entry("read", FALSE)]]

\* One receive that does not wait: the error, or else the oldest datagram.
Ready(s) == s.err \/ s.inbox # <<>>
Took(s) ==
  IF s.err THEN [s EXCEPT !.err = FALSE]
  ELSE [s EXCEPT !.buf = Head(s.inbox), !.inbox = Tail(@)]

\* async_receive tries at once unless another receive waits already, and
\* posts the result; a closed socket posts bad_descriptor.
async_receive(s) ==
  CASE ~s.fd -> Post(s, Entry("read", FALSE))
    [] s.fd /\ s.rd = 0 /\ Ready(s) -> Post(Took(s), Entry("read", ~s.err))
    [] OTHER -> [s EXCEPT !.rd = @ + 1]

-----------------------------------------------------------------------------
(* kcp::socket, connection, kcp::connector                                 *)

do_read(s) == async_receive(s)

\* Everything in send_buff_ is handed to KCP, once there is one.
do_write(s) == IF s.kcp # 0 /\ s.out > 0 THEN [s EXCEPT !.out = 0] ELSE s

\* connection::send of a finished packet.
send(s) ==
  IF s.out < MaxOut THEN do_write([s EXCEPT !.out = @ + 1]) ELSE s

open(s) == do_write(do_read(s))

connected(s) ==
  IF s.state = "CONNECTED" THEN s
  ELSE open([s EXCEPT !.state = "CONNECTED", !.up = TRUE])

\* ikcp_release at the end of kcp::socket::close.
release(s) == [s EXCEPT !.kcp = 0]

\* Mutant: connect() calls close() instead of disconnect().
Fail_Closes(s) == release(socket_close(s))

\* The disconnect() of connect(), when connect or the send of the hello fails.
Fail(s) == release(socket_close([s EXCEPT !.state = "DISCONNECTED", !.up = FALSE]))

\* connect() after its close(), with result res.  udp::socket::open throws if
\* on_disconnected has opened the socket.
reopen(s, res) ==
  LET t == [s EXCEPT !.fd = TRUE, !.state = "CONNECTING", !.hello = "sent",
                     !.deaf = FALSE]
  IN  CASE s.fd            -> [s EXCEPT !.thrown = TRUE]
        [] ~s.fd /\ res    -> connected(t)
        [] OTHER           -> Fail(t)

\* on_disconnected may call connect(), whose close() is that of a
\* disconnected connection.
on_disconnected(s, reconnect) ==
  LET t == [s EXCEPT !.up = FALSE]
  IN  IF reconnect THEN reopen(release(socket_close(t)), TRUE) ELSE t

on_close(s, reconnect) ==
  IF s.state = "CONNECTED"
  THEN on_disconnected([s EXCEPT !.state = "DISCONNECTED"], reconnect)
  ELSE s

\* Mutant: kcp_ is not released.
close_KeepsKcp(s, reconnect) == on_close(socket_close(s), reconnect)

\* kcp::socket::close.  The buffers are not reset.  kcp_ is released after
\* on_close, so it is that of a connection made in the meantime, if any.
close(s, reconnect) == release(on_close(socket_close(s), reconnect))

\* Mutant: the application is not told.
disconnect_Silent(s, reconnect) ==
  IF s.state = "DISCONNECTED" THEN s
  ELSE release(socket_close([s EXCEPT !.state = "DISCONNECTED"]))

disconnect(s, reconnect) ==
  IF s.state = "DISCONNECTED" THEN s
  ELSE on_disconnected(close([s EXCEPT !.state = "DISCONNECTED"], FALSE), reconnect)

\* If connect() fails, on_disconnected may call it again.
connect(s, res, reconnect) ==
  LET t == reopen(close(s, reconnect), res)
  IN  IF t.state = "DISCONNECTED" /\ reconnect THEN reopen(t, TRUE) ELSE t

on_recv(s, call, reconnect) ==
  CASE call = "send"       -> send(s)
    [] call = "disconnect" -> disconnect(s, reconnect)
    [] OTHER               -> s

\* Mutants: the first datagram starts two receives; an error ends the reader
\* without close().
read_handler_Twice(s, ok, reconnect) ==
  CASE ~ok -> close(s, reconnect)
    [] ok /\ s.buf = 0 -> [s EXCEPT !.deaf = TRUE]
    [] ok /\ s.buf # 0 /\ s.kcp = 0 ->
         do_read(do_read(do_write([s EXCEPT !.kcp = s.buf])))
    [] OTHER -> do_read(s)
read_handler_Returns(s, ok, reconnect) ==
  CASE ~ok -> s
    [] ok /\ s.buf = 0 -> [s EXCEPT !.deaf = TRUE]
    [] OTHER -> do_read(IF s.kcp = 0 THEN do_write([s EXCEPT !.kcp = s.buf]) ELSE s)

\* The handler of a receive.  The first datagram of a conversation creates
\* kcp_ and sends what has been waiting; ikcp_input ignores datagrams of
\* other conversations.  Conversation 0 returns without do_read.
read_handler(s, ok, reconnect) ==
  CASE ~ok -> close(s, reconnect)
    [] ok /\ s.buf = 0 -> [s EXCEPT !.deaf = TRUE]
    [] OTHER -> do_read(IF s.kcp = 0 THEN do_write([s EXCEPT !.kcp = s.buf]) ELSE s)

\* update(): ikcp_update, which calls output if it has something to send
\* (sends), then a message that is complete goes to on_recv (got).  A send
\* that fails closes the socket and releases kcp_ under ikcp_update.
update(s, sends, got, call, reconnect) ==
  CASE s.kcp = 0 -> s
    [] s.kcp # 0 /\ sends /\ (s.err \/ ~s.fd) ->
         [close(s, reconnect) EXCEPT !.damage = TRUE]
    [] OTHER -> IF got THEN on_recv(s, call, reconnect) ELSE s

\* on_time of the client program after update().
poll(s, res, reconnect) ==
  CASE s.state = "DISCONNECTED" -> connect(s, res, reconnect)
    [] s.state = "CONNECTED"    -> send(s)
    [] OTHER                    -> s

\* The handlers of receives hold the only other references to the connection
\* (and, in the server program, for one second, that of its timer).
Settle(s) ==
  IF ~s.app.owned /\ s.rd = 0 /\ Reads(s) = {}
  THEN [socket_close(s) EXCEPT !.gone = TRUE] ELSE s

-----------------------------------------------------------------------------
(* Steps of the io_service                                                 *)

Running == ~ep.thrown /\ ~ep.damage /\ ~ep.gone
NextIs(op) == Running /\ ep.queue # <<>> /\ Head(ep.queue).op = op
Popped == [ep EXCEPT !.queue = Tail(@)]

EpollWait ==
  /\ Running /\ ep.fd /\ Ready(ep) /\ ~HasEvent(ep)
  /\ ep' = Post(ep, Entry("event", TRUE))
  /\ UNCHANGED faults

\* perform_io: receives complete while there is something to receive; the
\* handler of the first runs at once, the others (at most two receives wait,
\* see MaxQueue) are posted.
PerformIO ==
  /\ NextIs("event")
  /\ \E reconnect \in ep.app.reconnects :
       LET s == Popped
           t == [Took(s) EXCEPT !.rd = @ - 1]
           u == IF t.rd > 0 /\ Ready(t)
                THEN Post([Took(t) EXCEPT !.rd = @ - 1], Entry("read", ~t.err))
                ELSE t
       IN  ep' = IF s.rd = 0 \/ ~Ready(s) THEN s
                 ELSE Settle(read_handler(u, ~s.err, reconnect))
  /\ UNCHANGED faults

RunRead ==
  /\ NextIs("read")
  /\ \E reconnect \in ep.app.reconnects :
       ep' = Settle(read_handler(Popped, Head(ep.queue).ok, reconnect))
  /\ UNCHANGED faults

RunStale ==
  /\ NextIs("stale")
  /\ ep' = Popped
  /\ UNCHANGED faults

TimerExpires ==
  /\ Running /\ Len(ep.queue) < MaxQueue
  /\ \A i \in DOMAIN ep.queue : ep.queue[i].op # "tick"
  /\ ep' = Post(ep, Entry("tick", TRUE))
  /\ UNCHANGED faults

Spend(n) == faults >= n /\ faults' = faults - n
Cost(c) == IF c THEN 1 ELSE 0

\* on_time: update(), then what the application does.
RunTick ==
  /\ NextIs("tick")
  /\ \E sends \in BOOLEAN, got \in BOOLEAN, call \in ep.app.recv,
        then \in ep.app.tick, res \in BOOLEAN, reconnect \in ep.app.reconnects :
       LET s == update(Popped, sends, got, call, reconnect)
       IN  /\ ep' = Settle(
                IF s.damage THEN s
                ELSE CASE then = "poll"       -> poll(s, res, reconnect)
                       [] then = "send"       -> send(s)
                       [] then = "disconnect" -> disconnect(s, reconnect)
                       [] OTHER               -> s)
           /\ Spend(Cost(call = "disconnect") + Cost(then = "disconnect")
                    + Cost(~res))

-----------------------------------------------------------------------------
(* The network and the other side                                          *)

\* The hello arrives: the acceptor has a conversation for this socket.
PeerAccepts ==
  /\ Running /\ ep.hello = "sent"
  /\ \E conv \in 1..MaxConv : ep' = [ep EXCEPT !.hello = "taken", !.peer = conv]
  /\ UNCHANGED faults

HelloLost ==
  /\ Running /\ ep.hello = "sent" /\ Spend(1)
  /\ ep' = [ep EXCEPT !.hello = "lost"]

\* A datagram of the conversation arrives; those that are lost do not.
PeerSends ==
  /\ Running /\ ep.peer # 0 /\ Len(ep.inbox) < MaxInbox
  /\ ep' = [ep EXCEPT !.inbox = Append(@, ep.peer)]
  /\ UNCHANGED faults

\* The network delivers a client's hello a second time.
HelloRepeated ==
  /\ Running /\ ep.app.role = "session" /\ ep.fd /\ Len(ep.inbox) < MaxInbox
  /\ Spend(1)
  /\ ep' = [ep EXCEPT !.inbox = Append(@, 0)]

PeerUnreachable ==
  /\ Running /\ ep.fd /\ ~ep.err /\ Spend(1)
  /\ ep' = [ep EXCEPT !.err = TRUE]

-----------------------------------------------------------------------------

Fresh(app) ==
  [app |-> app, state |-> "DISCONNECTED", up |-> FALSE, kcp |-> 0,
   out |-> 0, fd |-> FALSE, err |-> FALSE, inbox |-> <<>>, rd |-> 0, buf |-> 0, queue |-> <<>>,
   hello |-> "none", peer |-> 0, deaf |-> FALSE, gone |-> FALSE,
   thrown |-> FALSE, damage |-> FALSE]

\* A connector after mgr::connect, or a connection that kcp::acceptor made.
Init ==
  /\ faults = MaxFaults
  /\ \E app \in Apps :
     \/ app.role = "client" /\ ep = Settle(connect(Fresh(app), TRUE, FALSE))
     \/ /\ app.role = "session"
        /\ ep = connected([Fresh(app) EXCEPT !.fd = TRUE, !.kcp = 1, !.peer = 1,
                                        !.hello = "taken"])

Run == PerformIO \/ RunRead \/ RunStale \/ RunTick

Next ==
  \/ EpollWait \/ PerformIO \/ RunRead \/ RunStale \/ TimerExpires \/ RunTick
  \/ PeerAccepts \/ HelloLost \/ PeerSends \/ HelloRepeated \/ PeerUnreachable

\* io_service::run() runs the handlers, epoll reports a readable socket, the
\* repeating timer expires, a hello arrives or is lost, and KCP repeats its
\* datagrams until one arrives.
Fairness ==
  /\ WF_vars(Run) /\ WF_vars(EpollWait) /\ WF_vars(TimerExpires)
  /\ WF_vars(PeerAccepts \/ HelloLost)
  /\ WF_vars(ep.inbox = <<>> /\ PeerSends)

Spec == Init /\ [][Next]_vars
FairSpec == Spec /\ Fairness

-----------------------------------------------------------------------------
(* Properties                                                              *)

\* Whatever closes the socket, on_connected and on_disconnected come in
\* pairs, CONNECTED means an open socket, and no connect() opens a socket that
\* is open: udp::socket::open would throw through io_service::run().
Paired ==
  /\ ~ep.thrown
  /\ ~ep.gone /\ ~ep.damage =>
       /\ ep.up <=> ep.state = "CONNECTED"
       /\ ep.state = "CONNECTED" => ep.fd

\* The application neither disconnects nor reconnects from a callback: with
\* one that does, the two properties below fail, as a receive of the socket
\* that was closed is handled when the next one is open.
Calm == "disconnect" \notin ep.app.tick \cup ep.app.recv /\ TRUE \notin ep.app.reconnects

\* A connected endpoint has exactly one receive, waiting or completed, unless
\* a datagram of conversation 0 made it deaf.
OneReader ==
  Calm /\ Running /\ ep.state = "CONNECTED" /\ ~ep.deaf =>
    \/ ep.rd = 1 /\ Reads(ep) = {}
    \/ ep.rd = 0 /\ \E i \in DOMAIN ep.queue : Reads(ep) = {i}

\* An endpoint never takes up a conversation of an earlier socket: kcp_ is
\* that of the acceptor's session for the present one.  Packets wait in
\* send_buff_ only until there is a conversation.
ConvOfPeer ==
  /\ Calm /\ Running /\ ep.kcp # 0 => ep.fd /\ ep.kcp = ep.peer
  /\ Running /\ ep.out > 0 => ep.kcp = 0

\* A connection that nobody keeps is not destroyed before the application is
\* told on_disconnected, unless a datagram of conversation 0 made it deaf.
ToldFirst == ep.gone /\ ep.up => ep.deaf

\* With the client's polling, a connector that somebody keeps and that has
\* been disconnected gets a conversation again, unless its hello is lost.
Recovers ==
  (Calm /\ ep.app.owned /\ ep.app.tick = {"poll"} /\ ep.state = "DISCONNECTED")
    ~> (ep.kcp # 0 \/ ep.hello = "lost" \/ ep.damage)
=============================================================================
