--------------------------- MODULE TcpConnection ---------------------------
(***************************************************************************)
(* One TCP endpoint of the library: a simple::reactor::connection, the     *)
(* asio::reactor::tcp::socket it owns and the tcp::connector that reopens  *)
(* it, driven by the handler queue of the single threaded io_service.      *)
(*                                                                         *)
(* The endpoint is one record, and every member function that changes it   *)
(* is an operator from records to records of the same name, so that the    *)
(* nested calls of the code (close -> on_close -> on_disconnected ->       *)
(* connect -> close) are nested applications.  One step of Next is one     *)
(* handler run to completion, as one thread runs io_service::run().        *)
(*                                                                         *)
(*   state    connection::state_                                           *)
(*   sending  the SENDING bit of tcp::socket::state_                       *)
(*   out      packets in send_buff_                                        *)
(*   fd       the asio socket is open                                      *)
(*   nb       non_blocking(true) was called on it                          *)
(*   net      what the kernel knows of the open socket: "syn" (connect in  *)
(*            progress), "up", "refused", "gone" (peer closed or reset)    *)
(*   rd wr cn operations waiting in the reactor: wait_read, wait_write     *)
(*            and async_connect                                            *)
(*   queue    the io_service's queue of handlers ready to run              *)
(*   blocked  the call of receive or send on a socket that is not          *)
(*            non-blocking in which the io_service's only thread waits     *)
(*   up       what the application was last told (history variable)        *)
(*   thrown   an exception left a handler and io_service::run()            *)
(*   early    connect(2) was asked again on the socket that on_disconnected *)
(*            had opened, and said at once that it is connected (history)  *)
(***************************************************************************)
EXTENDS Naturals, Sequences

CONSTANTS
  TickCalls,   \* what a timer of the application may do: subset of Calls
  ConnCalls,   \* what on_connected may do
  RecvCalls,   \* what on_recv may do
  Reconnects,  \* what on_disconnected may do: subset of Replies
  MaxOut,      \* bound: packets the application leaves in send_buff_
  MaxFaults,   \* bound: faults and unsolicited calls of connect/disconnect
  MaxQueue     \* bound: no timer expires while this many handlers wait

Calls == {"nothing", "poll", "send", "connect", "disconnect"}

\* How connect(2) ends in a call of connect(): the answer is still to come,
\* the socket is connected when the call returns, or it has failed.
Answers == {"syn", "up", "refused"}

\* on_disconnected does not call connect(), or does so with such an end.
Replies == {"no", "syn", "refused"}

ASSUME TcpConstants ==
  /\ TickCalls \subseteq Calls
  /\ ConnCalls \subseteq {"nothing", "send"}
  /\ RecvCalls \subseteq {"nothing", "send", "disconnect"}
  /\ Reconnects \subseteq Replies
  /\ MaxOut \in Nat
  /\ MaxFaults \in Nat
  /\ MaxQueue \in Nat

VARIABLES
  ep,      \* the endpoint and its share of the io_service
  faults   \* disturbances left (see MaxFaults)

vars == <<ep, faults>>

States == {"DISCONNECTED", "CONNECTING", "CONNECTED"}
Nets   == {"none", "syn", "up", "refused", "gone"}

(***************************************************************************)
(* Queue entries.  "in", "out" and "inout" are the reactor's entry for the *)
(* open descriptor with the events epoll_wait reported; "stale" is such an *)
(* entry whose descriptor was closed since.  "read", "write" and "connect" *)
(* are completed operations, ok telling whether their error code is clear. *)
(***************************************************************************)
Events == {"in", "out", "inout"}
Ops    == {"read", "write", "connect"}
Item   == [op : Ops \cup Events \cup {"stale", "tick"}, ok : BOOLEAN]
Entry(op, ok) == [op |-> op, ok |-> ok]
Repeat(n, item) == [i \in 1..n |-> item]

Endpoint ==
  [state : States, sending : BOOLEAN, out : 0..MaxOut, fd : BOOLEAN,
   nb : BOOLEAN, net : Nets, rd : Nat, wr : Nat, cn : Nat, queue : Seq(Item),
   blocked : {"no", "receive", "send"}, up : BOOLEAN, thrown : BOOLEAN,
   early : BOOLEAN]

Queued(s, ops) == \E i \in DOMAIN s.queue : s.queue[i].op \in ops
Post(s, item)  == [s EXCEPT !.queue = Append(@, item)]

-----------------------------------------------------------------------------
(* asio::ip::tcp::socket, as the library uses it                           *)

\* close(): every waiting operation is posted with operation_aborted, reads
\* first, and a queued descriptor entry finds nothing to do any more.
socket_close(s) ==
  IF ~s.fd THEN s
  ELSE [s EXCEPT
          !.fd = FALSE, !.nb = FALSE, !.net = "none", !.rd = 0, !.wr = 0, !.cn = 0,
          !.queue = [i \in DOMAIN @ |->
                       IF @[i].op \in Events THEN Entry("stale", TRUE) ELSE @[i]]
                    \o Repeat(s.rd, Entry("read", FALSE))
                    \o Repeat(s.cn, Entry("connect", FALSE))
                    \o Repeat(s.wr, Entry("write", FALSE))]

\* async_connect() opens a closed socket and calls connect(2).  Only an answer
\* still to come leaves the operation with the reactor; any other result is
\* posted at once, success too.  A socket that is connecting is not asked
\* anew: it says EALREADY, or that it is connected now.
async_connect(s, answer) ==
  LET t == [s EXCEPT !.fd = TRUE, !.net = answer]
  IN  CASE answer = "refused" -> Post(t, Entry("connect", FALSE))
        [] answer # "refused" /\ s.net \notin {"none", "refused"} ->
             Post([t EXCEPT !.early = @ \/ answer = "up"],
                  Entry("connect", answer = "up"))
        [] OTHER -> [t EXCEPT !.cn = @ + 1]

\* async_wait(): bad_descriptor is posted at once for a closed socket.
async_wait_read(s) ==
  IF s.fd THEN [s EXCEPT !.rd = @ + 1] ELSE Post(s, Entry("read", FALSE))

async_wait_write(s) ==
  IF s.fd THEN [s EXCEPT !.wr = @ + 1] ELSE Post(s, Entry("write", FALSE))

-----------------------------------------------------------------------------
(* tcp::socket, connection, tcp::connector                                 *)

do_read(s) == async_wait_read(s)

do_write(s) ==
  IF ~s.sending /\ s.out > 0
  THEN async_wait_write([s EXCEPT !.sending = TRUE])
  ELSE s

\* connection::send of a finished packet; the application keeps at most
\* MaxOut packets waiting.
send(s) ==
  IF s.out < MaxOut THEN do_write([s EXCEPT !.out = @ + 1]) ELSE s

\* Mutants of close(): state_ keeps SENDING; the descriptor stays open.
reset_KeepsSending(s) == socket_close([s EXCEPT !.out = 0])
reset_KeepsSocket(s) == [s EXCEPT !.sending = FALSE, !.out = 0]

\* tcp::socket::close up to its call of on_close.
reset(s) == socket_close([s EXCEPT !.sending = FALSE, !.out = 0])

connecting(s) == [s EXCEPT !.state = "CONNECTING"]

\* on_disconnected: the application is told, and may call connect() at once.
\* The state is DISCONNECTED here, so the on_close of that connect's close
\* does nothing.
on_disconnected(s, reconnect) ==
  LET t == [s EXCEPT !.up = FALSE]
  IN  IF reconnect = "no" THEN t
      ELSE async_connect(connecting(reset(t)), reconnect)

on_close(s, reconnect) ==
  IF s.state = "CONNECTED"
  THEN on_disconnected([s EXCEPT !.state = "DISCONNECTED"], reconnect)
  ELSE s

close(s, reconnect) == on_close(reset(s), reconnect)

\* connection::disconnect: DISCONNECTED before the socket is closed, so the
\* on_close of that close does nothing.
disconnect(s, reconnect) ==
  IF s.state = "DISCONNECTED" THEN s
  ELSE on_disconnected(reset([s EXCEPT !.state = "DISCONNECTED"]), reconnect)

\* Mutant: a connect() that does not close the socket first.
connect_WithoutClose(s, reconnect, answer) == async_connect(connecting(s), answer)

connect(s, reconnect, answer) ==
  async_connect(connecting(close(s, reconnect)), answer)

\* Mutant: an open() that leaves out non_blocking(true).
open_Blocking(s) ==
  IF s.fd THEN do_write(do_read(s)) ELSE [s EXCEPT !.thrown = TRUE]

\* tcp::socket::open: non_blocking(true) throws when the socket is closed.
open(s) ==
  IF s.fd THEN do_write(do_read([s EXCEPT !.nb = TRUE]))
  ELSE [s EXCEPT !.thrown = TRUE]

on_connected(s, call) ==
  LET t == [s EXCEPT !.up = TRUE]
  IN  IF call = "send" THEN send(t) ELSE t

connected(s, call) ==
  IF s.state = "CONNECTED" THEN s
  ELSE open(on_connected([s EXCEPT !.state = "CONNECTED"], call))

on_recv(s, call, reconnect) ==
  CASE call = "send"       -> send(s)
    [] call = "disconnect" -> disconnect(s, reconnect)
    [] OTHER               -> s

-----------------------------------------------------------------------------
(* The handlers                                                            *)

\* Mutant: a failed connect closes the socket but leaves CONNECTING.
connect_handler_Closes(s, ok, call, reconnect) ==
  IF ok THEN connected(s, call) ELSE close(s, reconnect)

connect_handler(s, ok, call, reconnect) ==
  IF ok THEN connected(s, call) ELSE disconnect(s, reconnect)

\* Mutant: after would_block the handler does not wait again.
read_handler_Once(s, ok, data, call, reconnect) ==
  LET t == IF ok /\ data /\ s.net \in {"up", "gone"}
           THEN on_recv(s, call, reconnect) ELSE s
  IN  IF ~ok \/ t.net \notin {"syn", "up"} THEN close(t, reconnect) ELSE t

\* The wait_read handler.  data: bytes came before the receive that ended
\* the loop, and on_recv ran.  That last receive fails on a closed, refused
\* or finished socket; on a live or still connecting one it says would_block,
\* or, if the socket is not non-blocking, waits there.
read_handler(s, ok, data, call, reconnect) ==
  LET t == IF ok /\ data /\ s.net \in {"up", "gone"}
           THEN on_recv(s, call, reconnect) ELSE s
  IN  CASE ~ok \/ t.net \notin {"syn", "up"} -> close(t, reconnect)
        [] ok /\ t.net \in {"syn", "up"} /\ t.nb -> do_read(t)
        [] OTHER -> [t EXCEPT !.blocked = "receive"]

\* The wait_write handler sends n packets; err: the peer's reset met it.  A
\* send of no bytes on an open stream socket does nothing and cannot fail;
\* one on a connecting socket that is not non-blocking waits.
write_handler(s, ok, n, err, reconnect) ==
  CASE ~ok \/ ~s.fd \/ err -> close(s, reconnect)
    [] ok /\ s.fd /\ ~err /\ s.out > 0 /\ s.net = "syn" /\ ~s.nb ->
         [s EXCEPT !.blocked = "send"]
    [] OTHER -> do_write([s EXCEPT !.out = @ - n, !.sending = FALSE])

\* Outcomes of the send loop on socket s: a blocking send sends it all.
Sendable(s) ==
  CASE s.net \notin {"up", "gone"} -> {0}
    [] s.net \in {"up", "gone"} /\ s.nb -> 0..s.out
    [] OTHER -> {s.out}
SendErrs(s) ==
  CASE s.out = 0 \/ s.net \in {"none", "syn", "up"} -> {FALSE}
    [] s.out > 0 /\ s.net = "refused" -> {TRUE}
    [] OTHER -> BOOLEAN

\* Unsolicited calls of disconnect() and connect(), and a connect(2) that
\* fails at once, count against faults.
Spend(call, answers) ==
  IF call \in {"connect", "disconnect"} \/ "refused" \in answers
  THEN faults > 0 /\ faults' = faults - 1
  ELSE UNCHANGED faults

\* One completed operation runs its handler from state s.
Complete(s, item) ==
  \E reconnect \in Reconnects :
    \/ /\ item.op = "connect"
       /\ \E call \in ConnCalls :
            ep' = connect_handler(s, item.ok, call, reconnect)
       /\ Spend("nothing", {reconnect})
    \/ /\ item.op = "read"
       /\ \E data \in BOOLEAN, call \in RecvCalls :
            /\ ep' = read_handler(s, item.ok, data, call, reconnect)
            /\ Spend(call, {reconnect})
    \/ /\ item.op = "write"
       /\ \E n \in Sendable(s), err \in SendErrs(s) :
            ep' = write_handler(s, item.ok, n, err, reconnect)
       /\ Spend("nothing", {reconnect})

-----------------------------------------------------------------------------
(* Steps of the io_service                                                 *)

Running == ~ep.thrown /\ ep.blocked = "no"
NextIs(ops) == Running /\ ep.queue # <<>> /\ Head(ep.queue).op \in ops
Popped == [ep EXCEPT !.queue = Tail(@)]

Merge(old, new) == IF old = new THEN old ELSE "inout"

\* epoll_wait reports events on the socket and queues its descriptor, or adds
\* them to the entry that is queued already.
EpollWait(ev) ==
  /\ Running /\ ep.fd /\ ep.net # "syn"
  /\ ep' = IF Queued(ep, Events)
           THEN [ep EXCEPT !.queue = [i \in DOMAIN @ |->
                   IF @[i].op \in Events THEN Entry(Merge(@[i].op, ev), TRUE)
                   ELSE @[i]]]
           ELSE Post(ep, Entry(ev, TRUE))
  /\ UNCHANGED faults

\* Operations that ev completes, in the reactor's order: the write queue,
\* which the connect leads, then the read queue.
Done(ev, cok) ==
  (IF ev = "in" THEN <<>>
   ELSE Repeat(ep.cn, Entry("connect", cok)) \o Repeat(ep.wr, Entry("write", TRUE)))
  \o (IF ev = "out" THEN <<>> ELSE Repeat(ep.rd, Entry("read", TRUE)))

ConnectResults ==
  CASE ep.net = "up"   -> {TRUE}
    [] ep.net = "gone" -> BOOLEAN
    [] OTHER           -> {FALSE}

\* perform_io: the first completed operation's handler runs at once, the
\* others are posted.
PerformIO ==
  /\ NextIs(Events)
  /\ \E cok \in ConnectResults :
       LET ev == Head(ep.queue).op
           s  == [Popped EXCEPT
                    !.cn = IF ev = "in" THEN @ ELSE 0,
                    !.wr = IF ev = "in" THEN @ ELSE 0,
                    !.rd = IF ev = "out" THEN @ ELSE 0]
       IN  IF Done(ev, cok) = <<>> THEN ep' = s /\ UNCHANGED faults
           ELSE Complete([s EXCEPT !.queue = @ \o Tail(Done(ev, cok))],
                         Head(Done(ev, cok)))

\* A posted completion reaches the head of the queue.
RunPosted ==
  /\ NextIs(Ops)
  /\ Complete(Popped, Head(ep.queue))

\* A call that waited in poll(2) goes on: receive when there is data, eof or
\* an error, send when the connect was answered.
Unblock ==
  /\ ~ep.thrown /\ ep.blocked # "no" /\ ep.net # "syn"
  /\ LET s == [ep EXCEPT !.blocked = "no"]
     IN  \E reconnect \in Reconnects :
           \/ /\ ep.blocked = "receive"
              /\ \E data \in BOOLEAN, call \in RecvCalls :
                   /\ ep.net = "up" => data
                   /\ ep' = read_handler(s, TRUE, data, call, reconnect)
                   /\ Spend(call, {reconnect})
           \/ /\ ep.blocked = "send"
              /\ \E n \in Sendable(s), err \in SendErrs(s) :
                   ep' = write_handler(s, TRUE, n, err, reconnect)
              /\ Spend("nothing", {reconnect})

RunStale ==
  /\ NextIs({"stale"})
  /\ ep' = Popped
  /\ UNCHANGED faults

\* A timer of the application expires; its handler is queued.
TimerExpires ==
  /\ Running /\ TickCalls # {} /\ ~Queued(ep, {"tick"})
  /\ Len(ep.queue) < MaxQueue
  /\ ep' = Post(ep, Entry("tick", TRUE))
  /\ UNCHANGED faults

\* on_time of the client program: reconnect when down, send when up.
poll(s, reconnect, answer) ==
  CASE s.state = "DISCONNECTED" -> connect(s, reconnect, answer)
    [] s.state = "CONNECTED"    -> send(s)
    [] OTHER                    -> s

RunTick ==
  /\ NextIs({"tick"})
  /\ \E call \in TickCalls, reconnect \in Reconnects, answer \in Answers :
       /\ \/ call = "nothing" /\ ep' = Popped
          \/ call = "poll" /\ ep' = poll(Popped, reconnect, answer)
          \/ call = "send" /\ ep' = send(Popped)
          \/ call = "connect" /\ ep' = connect(Popped, reconnect, answer)
          \/ call = "disconnect" /\ ep' = disconnect(Popped, reconnect)
       /\ Spend(call, {reconnect, answer})

-----------------------------------------------------------------------------
(* The network                                                             *)

PeerAccepts ==
  /\ ~ep.thrown /\ ep.net = "syn"
  /\ ep' = [ep EXCEPT !.net = "up"]
  /\ UNCHANGED faults

PeerRefuses ==
  /\ ~ep.thrown /\ ep.net = "syn" /\ faults > 0
  /\ ep' = [ep EXCEPT !.net = "refused"]
  /\ faults' = faults - 1

PeerGoes ==
  /\ ~ep.thrown /\ ep.net = "up" /\ faults > 0
  /\ ep' = [ep EXCEPT !.net = "gone"]
  /\ faults' = faults - 1

-----------------------------------------------------------------------------

Fresh ==
  [state |-> "DISCONNECTED", sending |-> FALSE, out |-> 0, fd |-> FALSE,
   nb |-> FALSE, net |-> "none", rd |-> 0, wr |-> 0, cn |-> 0,
   queue |-> <<>>, blocked |-> "no", up |-> FALSE, thrown |-> FALSE,
   early |-> FALSE]

\* Either a connector on which mgr::connect was called, or a connection an
\* acceptor made of an accepted socket and called connected() on.
Init ==
  /\ faults = MaxFaults
  /\ \/ \E answer \in Answers : ep = connect(Fresh, "no", answer)
     \/ \E call \in ConnCalls :
          ep = connected([Fresh EXCEPT !.fd = TRUE, !.nb = TRUE, !.net = "up"], call)

\* The exception ended the process: nothing is left to happen.
Ended == ep.thrown /\ UNCHANGED vars

Run == PerformIO \/ RunPosted \/ RunStale \/ RunTick

Next ==
  \/ \E ev \in Events : EpollWait(ev)
  \/ PerformIO \/ RunPosted \/ RunStale \/ Unblock
  \/ TimerExpires \/ RunTick
  \/ PeerAccepts \/ PeerRefuses \/ PeerGoes
  \/ Ended

\* io_service::run() keeps running handlers, epoll reports a writable or
\* finished socket someone waits for, the repeating timer expires and the
\* kernel ends every connection attempt.
Fairness ==
  /\ WF_vars(Run)
  /\ WF_vars(ep.cn + ep.wr > 0 /\ EpollWait("out"))
  /\ WF_vars(ep.net \in {"refused", "gone"} /\ EpollWait("inout"))
  /\ WF_vars(ep.net # "up" /\ Unblock)
  /\ WF_vars(TimerExpires)
  /\ WF_vars(PeerAccepts \/ PeerRefuses)

Spec == Init /\ [][Next]_vars
FairSpec == Spec /\ Fairness

-----------------------------------------------------------------------------
(* Properties                                                              *)

TypeOK == ep \in Endpoint /\ faults \in 0..MaxFaults

Failed(item) == item.op \in Ops /\ ~item.ok
QueuedReads  == {i \in DOMAIN ep.queue : ep.queue[i].op = "read"}

\* on_connected and on_disconnected come in pairs: whichever path closes the
\* socket, the application was last told on_connected exactly when state_ is
\* CONNECTED (close/on_close, disconnect and connect's own close agree).
Paired == ep.up <=> ep.state = "CONNECTED"

\* An established connection always has exactly one wait_read: its handler
\* holds the shared_ptr that keeps the connection alive and is what notices
\* the peer closing; two of them would run the receive loop twice.
OneReader ==
  ep.state = "CONNECTED" /\ ~ep.thrown =>
    \/ ep.rd = 1 /\ QueuedReads = {}
    \/ ep.rd = 0 /\ \E i \in DOMAIN ep.queue : QueuedReads = {i}

\* Packets never rest in send_buff_ without a wait_write on its way: SENDING
\* is set whenever bytes wait, and whenever it is set a handler will come to
\* clear it (do_write's test of SENDING loses no wakeup).
NoLostWakeup ==
  /\ ep.out > 0 => ep.sending
  /\ ep.sending => ep.wr > 0 \/ Queued(ep, {"write"}) \/ ep.blocked = "send"

\* A connection attempt always has its async_connect handler to come, so no
\* sequence of closes and reconnects leaves the state CONNECTING for good.
NeverStuckConnecting ==
  ep.state = "CONNECTING" => ep.cn > 0 \/ Queued(ep, {"connect"})

\* Completions of an earlier socket of the same connection (aborted by
\* close()) have all run before the next socket is established: none is left
\* to close it, and CONNECTED means an open socket.  open() throws through
\* io_service::run() for want of one in a single case: connect() was called
\* while connected, its on_disconnected called connect() too, and connect(2),
\* asked twice on that socket, said at once that it is connected; the success
\* is then queued behind the read of the first socket, which closes the second.
NoStaleKill ==
  /\ ep.thrown => ep.early
  /\ ep.state = "CONNECTED" /\ ~ep.thrown =>
       /\ ep.fd
       /\ \A i \in DOMAIN ep.queue : ~Failed(ep.queue[i])

\* The io_service's thread can only be caught in a blocking call while a
\* connect is in progress: a completion of the previous socket then reads the
\* new one, on which open() has not yet called non_blocking(true).
BlocksOnlyConnecting ==
  ep.blocked # "no" => ep.state = "CONNECTING" /\ ep.fd /\ ~ep.nb

\* With the client's on_time, which calls connect() when disconnected, and
\* finitely many faults, a lost connection comes back, unless the thread is
\* caught in such a blocking receive.
Recovers ==
  ep.state = "DISCONNECTED" ~>
    (ep.state = "CONNECTED" \/ ep.blocked = "receive")
=============================================================================
