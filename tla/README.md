# A TLA+ verification of simple_network

`simple_network` is a small C++ network library (`src/lib`) with a client and a
server program (`src/src`). A single thread runs asio's `io_service`; sockets,
timers and acceptors are objects whose completion handlers it runs one after the
other. There are no locks: what is hard is the order in which handlers run, and
what they find changed when they do.

## Parts of the system

| part | state | operations | interacts with |
|---|---|---|---|
| `connection` (connection.h) | `state_` DISCONNECTED / CONNECTING / CONNECTED | `connected`, `connecting`, `disconnect`, `send`; called back: `on_read`, `on_close` | calls its socket's `open`, `close`, `do_write`; the application's `on_connected`, `on_disconnected`, `on_recv` |
| `tcp::socket` | SENDING bit, `recv_buff_`, `send_buff_`, the asio socket | `open`, `close`, `do_read`, `do_write` and their handlers | calls `on_close`, `on_read` of its connection |
| `tcp::connector`, `tcp::acceptor` | remote endpoint; listening socket | `connect` and its handler; `do_accept` | close and open the socket, `connecting`, `connected`, `disconnect` |
| `buffer::circle` | `data_`, `head_`, `tail_` | `write`, `read`, `remove`, `remove_from_back`, `written`, `expand`, `reset` | sockets fill and empty it through pointers, packets through `write` and `read` |
| `packet::writer`, `packet::reader` | position and length in a buffer, the packet around | `<<`, `flush`, destructor; `>>` | a buffer; `connection::send` |
| `timer::base` | the asio timer | `delay`, `cancel`, `do_time` and its handler | the application's `on_time` |
| `mgr` | `io_service_`, `timers_`, a repeating timer | `run`, `stop`, `on_time`, `add`, `remove`, `connect`, `listen` | calls `on_time` of kcp connectors and acceptors |
| `kcp::socket`, `kcp::connector` | `kcp_`, buffers, udp socket | `open`, `close`, `update`, `output`, `do_read`, `do_write`, `connect` | ikcp, the remote acceptor by datagrams |
| `udp::acceptor`, `kcp::acceptor` | `remote_endpoints_`, `convs_`, one receive buffer | `do_accept`, `is_accepted`, `close`, `get_conv`, `on_time` | makes sockets, erased by their endpoints' deleter |
| `udp::socket`, `udp::connector` | buffers, udp socket | `open`, `close`, `do_read`, `do_write`, `connect` | `on_close`, `on_read` of its connection |
| `buffer::array`, `buffer::bip` | other buffers | the interface of `circle` | not instantiated by any code |

The hard behaviours are: completions of an operation on an earlier socket that
run after the socket was closed and opened again; callbacks that disconnect or
reconnect while the caller is still at work (`close` -> `on_close` ->
`on_disconnected` -> `connect` -> `close`, or `on_read` -> `on_recv` ->
`disconnect`); timers that are restarted while their expiry is queued, and that
register and unregister while `mgr` goes through them; ring buffers at their wrap
and at their limit; lost, repeated and reordered datagrams; a server that is
restarted. `PROJECT.json` lists each at its line under `hazards`.

What makes each part correct:

- connection and sockets: what the application was told agrees with `state_`;
  an established connection has one reader and nothing waits in `send_buff_`
  without a writer; an attempt always ends; nothing of an old socket disturbs an
  established one; a lost connection comes back.
- `on_read`: the application is given the packets its peer sent on this
  connection, whole and in order, however they were cut.
- buffers: each is a queue of bytes, and never touches memory outside its array.
- packets: every length is right, and what was not flushed leaves no trace.
- timers: one wait at a time, a repeating timer goes on, a cancelled one stops;
  a tick calls every registered element once.
- datagram sessions: each remote endpoint has one session, each conversation
  number one socket, client and server mean the same conversation, and a session
  that loses a datagram recovers.

## Modules

| module | models |
|---|---|
| `TcpConnection` | connection + tcp::socket + tcp::connector + the io_service's queue, as asio's epoll reactor fills it |
| `KcpSession` | the same of one end of a KCP conversation |
| `UdpSession` | the same of a connection on a udp::socket |
| `MCTcpConnection`, `MCKcpSession`, `MCUdpSession` | the applications: the two programs, and any |
| `DatagramAcceptor` | udp::acceptor and kcp::acceptor with the sessions they make |
| `KcpSystem` | clients, kcp::acceptor and its sessions composed over a network |
| `Circle` | buffer::circle as operators on records |
| `ByteQueue` | abstract specification of a buffer |
| `CircleBuffer`, `MCCircleBuffer` | a ring as `send_buff_`, under packet writers; it implements `ByteQueue` |
| `PacketStream`, `MCPacketStream` | a ring as `recv_buff_`, under `connection::on_read`, over the three transports |
| `Packet` | packet::writer and packet::reader with packets inside packets |
| `ArrayBuffer`, `BipBuffer` | the two other buffers |
| `SpareBuffers`, `MCSpareBuffers` | either of them; it implements `ByteQueue`, but for some reads of `bip` |
| `Timer` | timer::base with the asio timer and its queued handlers |
| `TimerSet` | mgr with `timers_` and the loop of `on_time` |
| `TcpConnectionProofs`, `KcpSessionProofs`, `UdpSessionProofs`, `DatagramAcceptorProofs`, `KcpSystemProofs` | theorems about the module of that name |
| `TimerProofs` | theorems about `Timer` and `TimerSet` |
| `CircleBufferProofs` | theorems about the ring: `CircleBuffer` and `PacketStream` |
| `QueueProofs` | theorems about the other buffers, `SpareBuffers`, and about `Packet`, which takes its buffer for a queue |

How they fit together: the session modules count packets and leave bytes to the
buffer modules; `CircleBuffer` shows when the ring is a queue, which `Packet`
takes for granted; `KcpSession` has the acceptor's side as its environment and
`DatagramAcceptor` the sessions' ends as its own, and `KcpSystem` joins both
with several clients; the repeating timer that drives a session is `Timer`, and
the loop that reaches it from there is `TimerSet`.

### TcpConnection

The endpoint is a record, `ep`. Every member function is an operator of the
same name from records to records, so that the nesting of calls in the code is
the nesting of operators in the model; a step of `Next` is one handler run to
completion, one report of epoll, or one event of the network. The handlers'
code is `connect_handler`, `read_handler` and `write_handler`. What asio does is
taken from the vendored asio: `close()` posts the waiting operations with
`operation_aborted`, behind everything queued before; `async_connect` asks
connect(2) at once, on a socket just opened or on one that is open, which answers
that the attempt is under way (the reactor waits for it), has succeeded or has
failed (the completion is posted behind everything queued); a descriptor's events complete first the write queue, which the
connect leads, then the read queue, the first handler runs at once and the others
are posted; `receive` and `send` on a socket without `non_blocking(true)` wait in
`poll`. Bytes are abstracted to packets: `out` counts those in `send_buff_`, and
the receive loop is one step that may call `on_recv` before it ends in
would_block, an error or a blocking wait. The history variable `early` says that
a connect(2) asked again on an open socket succeeded at once. One expiry of the
application's timer is queued at a time.

The application is a parameter: `TickCalls`, `ConnCalls`, `RecvCalls` and
`Reconnects` are the calls it may make from a timer and from `on_connected`,
`on_recv` and `on_disconnected`. `disconnect()` from `on_connected` is not among
them: `connected()` would then call `open()` on a closed socket, which throws
through `io_service::run()` (connection.h:43-44).

### KcpSession and UdpSession

Built like `TcpConnection`. The application is the record `ep.app`, one of
`Apps`: whether it is a connector or a session of the acceptor (KCP), whether
anybody but the pending receives keeps a reference (the client program's `main`
drops its own), and what it calls from its timer and its callbacks.
`on_disconnected` that calls `connect()` is unfolded once, and that inner
`connect()` succeeds. Over UDP it runs before `send_buff_.reset()` when a send has
failed, so that `open()` sends the packet once more on the new socket: `send`
takes the result of that, and a second failure closes without a third attempt.

Over KCP a datagram is its conversation number, 0 for a hello. The first
datagram creates `kcp_` and sends what waits in `send_buff_`; `release` is the
`ikcp_release` at the end of `close()`, after `on_close`. KCP itself is what the
code sees of it: `update` may have something to send, and may have a message
complete. A send that fails inside `ikcp_update` releases the kcp that is in use;
the behaviour ends there with `damage`.

Over UDP a waiting receive is kept by where in `recv_buff_` its datagram will
go: at the front, where `on_read` looks, or behind a datagram `on_read` is still
at. A completed one knows whether its datagram is still what stands at the front
(`own`) and whether its socket was closed meanwhile (`old`). The copy in
`do_write` of a wrapped `send_buff_` is left out: it is dead code, since every
`do_write` empties the ring it starts with.

### DatagramAcceptor

One module for both acceptors, `Kcp` chooses. `udp::acceptor` has one receive
outstanding; `kcp::acceptor` two, because `udp::acceptor::listen` already calls
the virtual `do_accept`. `perform_io` completes as many receives as there are
datagrams before the first handler runs, so all of them find the sender of the
last. `remote_endpoints_` is counted per remote, since the code only asks whether
a remote is in it and erases one. `get_conv` is written without its recursion:
of the numbers not in use, the nearest after the counter. A session is open,
closed (the kernel sends its remote's datagrams to the acceptor again), then
destroyed (the endpoint's deleter runs).

### KcpSystem

The parts of `KcpSession` and `DatagramAcceptor` that the other side can see: of
a client its port and conversation, of a session its remote, its number, whether
it is open and whether its reader has ended, of the acceptor its counter, the
receives completed and the one `remote_endpoint_` they share. `get_conv` is that of
`DatagramAcceptor`: the counter wraps after `MaxConv` and leaves out numbers in use.
A datagram may be lost, delivered twice and overtaken; each of these, a disconnect,
a `connect` of a new session that fails (`ConnectFails`) and a crash of the server
cost a fault. History says which session a datagram was meant for (`link`, `id`),
which ports were disturbed (`spoiled`), and which sent a hello that came to nothing
(`unheard`): it was lost, its sender was overwritten in `remote_endpoint_` before a
handler ran, or its session could not connect. A hello that the acceptor has and
ignores is none of these.

### Circle, CircleBuffer, ByteQueue

`Circle` keeps the widths that matter: `tail_` is a `size_t` that
`remove_from_back` may take below zero, differences are converted to `int`.
Cells that hold no live byte are `Junk`, so that a byte that was not copied
shows. `write` is modelled chunk by chunk: `Copies` is the set of (address,
byte) pairs that its recursion copies, which may lie behind the array
(`Overruns`) or never be complete (`Recurs`). `CircleBuffer` adds the users; the
packet writer's life is `Open`, `Write`, `Flush` or `Destroy`. `sizes` is what the
program writes: words only, as the two programs, or values of other sizes. A step
that writes outside the array or recurs without end ends the behaviour with
`damage`: nothing can be said of what follows.

### PacketStream

Bytes are real here, with lengths in `LengthSize` digits of base `Base`, so that
`length + sizeof(uint32)` wraps as in the code. Over TCP one step receives what the
kernel has, over KCP a message, if it fits the space up to the end of the ring.
Over UDP `do_read` gives the reactor a place and a space (`pending`), a datagram is
put there, cut to the space (`Complete`), and its handler counts and parses it
later (`Handle`, of those in `done`). Each turn of `on_read`'s loop is one step, in
which `on_recv` may disconnect (`Deliver`) or, over KCP and UDP, where a connection
is there at once, connect again (`Reconnect`); between two turns nothing else runs.
`crossed` marks a UDP connection made in that way, or while a datagram of an earlier
socket waited for its handler. A cell never written is read as any byte.

The peer over KCP is `kcp::socket::do_write`, which makes one message of all that
lies in one piece in `send_buff_`, two of what lies across its end (`Messages`). A
client that has no answer to its hello yet (`bound` is false) queues its packets
(`backlog`), and all of them go out together when the answer comes (`PeerBinds`).
Packets that a client keeps in `send_buff_` over a reconnect are packets of the
next connection. `setup` is the transport and what the peer sends.

### Packet

A cell is a uint32, of `Width` values. Writers are a stack; `done` is what the
application meant. `MaxDepth` and `MaxItems` bound how deep packets lie in each
other and how many cells a packet has when one more is written; `Width` is
assumed to be at least their product, so that a uint32 holds every length.
The reader is `Reader`, `Enter` and `Skip` (a reader of a packet inside), `Get`
(`>>`) and `send` (`connection::send(reader)`), evaluated on the finished buffer.

### ArrayBuffer, BipBuffer, SpareBuffers

The member functions of the two buffers that change them or tell what they hold or
have room for, as operators and as actions: writes and reads at the end, the front
and at an offset, `get_space` with its `expand()`, `remove`, `remove_from_back`,
`written`, `reset`. `SpareBuffers` chooses one buffer at the start and checks it
against `ByteQueue`, whose steps show the offset and the bytes of a call (`io`).
`Misread` is the one step in which a `bip` is no queue.

### Timer and TimerSet

In `Timer`, `waits` are the `async_wait`s pending on the asio timer, `queue` the
handlers ready to run. `on_expiry` is the handler of an expired wait:
`expires_from_now` (which aborts pending waits), `on_time`, in which the
application may call `delay` or `cancel`, then `do_time` if the timer repeats.

In `TimerSet`, a turn of the loop (`call`) moves the iterator on and then calls
the element it stood on, which erases and inserts others. The order of an
`unordered_set` is not known: `ahead` is the set of elements still to come, an
inserted element may get a place on either side of the iterator, and a rehash
gives every element a new place.

## Runs

| run | bounds | what it shows |
|---|---|---|
| `tcp_any` | 2 packets, 4 faults or unsolicited connects/disconnects, timers only while fewer than 5 handlers are queued | the six invariants of an endpoint under any application; 4 disturbances allow an established connection to be lost, reconnected, aborted and lost again, with the completions of three sockets in the queue |
| `tcp_client` | 2 packets, 3 faults, 4 handlers | `Recovers`, under fairness |
| `circle` | ring of 8, growing to 32, `size_t` of 7 bits, words of 2 bytes, or values of 1 and 3 | two expansions with every alignment of head and tail: where `write` is right (`WriteSafe`, `WordsSafe`), refinement of `ByteQueue` |
| `timer` | 3 calls from outside, any number from `on_time` | the timer's invariants, and `Served` under fairness |
| `timer_set` | 3 timers, 1 rehash, any number of ticks | the loop uses no element that is gone as long as calls erase only their own, and calls each once |
| `kcp` | 2 conversations, 2 packets, 2 datagrams in the kernel, 4 faults, 4 handlers; client, server and any application | one reader, the conversation of the present socket, `ToldFirst` for a session that only its receive keeps, `Paired`, and `Recovers` under fairness |
| `acceptor` | kcp, 3 remotes, counter up to 3, 2 datagrams, 2 failures | sessions, `remote_endpoints_` and `convs_` agree after the counter has wrapped with every set of numbers in use; both receives go on |
| `stream` | ring of 4 growing to 16, words of 2 bytes of 5 values, 2 connections of 2 packets, or 3 over UDP, lengths 0, 3 and 14 over TCP, 0, 1 and 5 over KCP (cut anywhere) and UDP, 3 packets of 0 over KCP uncut | packets of every kind: empty, wrapping, that make the ring grow once and twice, larger than every ring; messages of several packets, one larger than the ring; a second connection made by a timer and within `on_recv`; `Delivered` under fairness |
| `udp` | 2 datagrams in the kernel, 4 faults, 3 handlers; an application that polls, and any, kept and not kept | `Attached`, `RightPlace`, and `Stabilises` under fairness |
| `kcp_system` | 2 clients, 2 sockets, 2 conversation numbers, 3 sessions, 2 faults | `NoCrossTalk`, `Partners`, and `Talks` under fairness: two clients at once, or one that reconnects, with a loss and a repetition, two disconnects, or a crash and one of them; the third session gets a number the second time |
| `buffers` | array of 1 growing to 6, bip of 2 growing to 5, values of 1 and 3 bytes | all growths and the limit, both regions with every split, calls at every offset: `QueueButMisreads`, and what goes wrong only at the limit |
| `packet` | packets three deep, 2 cells each, 2 packets | `Exact`, and what a reader makes of it |

The sizes of the rings are smaller than the code's 1024 and 409600 bytes but of
the same kind: powers of two, with an expansion by four that the limit stops. Three
values for bytes suffice to see a byte missing, repeated or exchanged with a
neighbour. The limit of the array in the run, 6, lies below twice the size before
the last growth, as in the code (262144 and 409600).

Deadlock is not checked where the system may stop: a buffer that is damaged, a
stream that has been delivered, a timer that has fired or was cancelled, an
io_service that was stopped, a datagram endpoint that was destroyed, and a
writer or a network at its bounds.

Fairness.

- `tcp_client`: the thread runs queued handlers (`io_service::run`), epoll
  reports a writable or finished socket that someone waits for, the repeating
  timer expires, the kernel ends every connection attempt, and a blocked call
  returns when the peer has gone; nothing is assumed of the peer's data.
- `timer`: the clock runs and queued handlers are run.
- `kcp`: as `tcp_client`, and a hello arrives or is lost, and once the acceptor
  has a conversation its datagrams arrive in the end (KCP repeats them).
- `stream`: the receive loop goes on while there are bytes (TCP) and `update` is
  called on every tick (KCP); `on_read` is a loop of the same thread.
- `udp`: handlers run, epoll reports, the timer repeats. The second part of
  `Stabilises` assumes in addition that the handlers' queue is empty again and
  again, which the code does not guarantee but a 20 ms timer makes likely.
- `kcp_system`: handlers run, a hello that is not lost arrives, open sessions
  send (the server's timer), and of the datagrams KCP repeats to a client some
  arrive. Arrival is strongly fair: the acceptor's receives may all be taken for
  a while.

## What the models show of the code

TCP.

- A read completion that was queued when its socket was closed runs after
  `connect()` has opened the next one, and then receives on that socket before
  `open()` has made it non-blocking: the io thread waits in `receive` until the
  peer sends or closes (tcp/socket.h:49 against :27). It needs only a connection
  lost while data is queued and a reconnect before the handler runs; the client's
  polling reaches it. `BlocksOnlyConnecting` states that this is the only way to
  block, and `Recovers` excepts it.
- `connect()` on an established connection whose `on_disconnected` connects too
  asks connect(2) twice on the same socket. If the second answer is that the socket
  is connected, as on loopback, the success is queued behind the aborted read of
  the first socket (tcp/connector.h:34): that read's handler closes the second
  socket, and `open()`, called for the success, throws through
  `io_service::run()`. `NoStaleKill` states that this is the only way to that
  exception, and that in all other cases nothing of an earlier socket is left when
  the next one is established.
- When `on_recv` disconnects, `on_read` goes on with the emptied ring
  (connection.h:89): `remove` moves `head_` past `tail_`, so that old bytes count as
  received and are parsed while disconnected, at worst for ever. None of them
  reaches the next connection (`OwnPackets`).
- `length + sizeof(uint32)` wraps to 0 for a length of 2^32-4 (connection.h:84):
  `on_read` then delivers the same bytes for ever. `FaultsOnlyOnForeign` states
  that bytes of a peer that uses the packet writer never do this.

Rings and packets.

- `write` cuts its chunks by `get_continguious_space`, which counts free cells
  after `tail_`, not cells up to the end of the array (circle.h:110). A value
  that crosses the end is written behind the array; one of size-1 bytes into an
  empty ring recurs for ever. Words never cross the end of a ring that has not
  been expanded; after a partial send, `expand()` may leave `tail_` at any
  alignment (`WordsSafe`, `WriteSafe`).
- The test `tail_ < 0` in `remove_from_back` is of an unsigned number and never
  true; modular arithmetic makes it unnecessary (`RefinesByteQueue`).
- `>>` never advances a reader (packet.h:41), and a packet inside another one is
  not passed on as it is by `send(reader)`: `tail_` counts from the start of the
  buffer, `length_` from the packet (packet.h:104). Both are stated as they are in
  `PeerReads`.
- `array`, at the last growth, returns the number of its bytes as its space and
  may be overrun by `write` or a receive (array.h:39); it throws at its limit
  although there is room in front. `bip` ignores the offset of a read that begins
  in region b (bip.h:154), and at its limit a patch across the regions throws with
  half of it written (bip.h:196). Below their limits both are safe
  (`SafeBelowLimit`); `array` is a queue, and so is `bip` but for those reads
  (`QueueButMisreads`).

Timers.

- `delay()` while an expiry of the same timer is queued: the stale handler's
  `expires_from_now` aborts the new wait, and `on_time` runs too early. A
  one-shot expiry then ends a repeating timer. `cancel()` from `on_time` of a
  repeating timer has no effect (`clash` in `Timer` marks these cases, and
  `KeepsTicking` and `CancelStops` hold in all others).
- A call from `mgr::on_time` that unregisters the next element leaves the
  iterator dangling, and an insertion that rehashes the table may leave out or
  repeat elements in that tick (mgr.h:97); `ErasesSelfSafely` and `EachOnce` hold
  in all other cases.

KCP.

- `kcp::acceptor` keeps two receives on one `remote_endpoint_`
  (kcp/acceptor.h:32). Two hellos that are in the kernel together are both taken
  before a handler runs: the second sender is accepted, the first never. `Talks`
  excepts such a client (`unheard`), and no other whose hello has arrived.
- A lost hello is not repeated (kcp/connector.h:52): the connector is connected
  for the application, without a conversation, for ever; `Recovers` and `Talks`
  except it.
- A hello that the network repeats reaches the session's socket and ends its
  reader (kcp/socket.h:81); the session is then destroyed without
  `on_disconnected` if nobody else keeps it. `ToldFirst` and `OneReader` except
  such a session (`deaf`).
- A session that the server disconnects is made again, with another number, of
  the client's next datagram: both sides stay connected and do not hear each other
  (kcp/acceptor.h:40); `Partners` holds in all other cases.
- Conversation numbers are given again: from 1 after a restart, and after the
  counter has wrapped, when `get_conv` leaves out only those in use
  (kcp/acceptor.h:86-89). A client that did not notice that its session is gone then
  talks to another client's session. `NoCrossTalk` holds until the server was
  restarted or has made more sessions than there are numbers.
- With an application that disconnects and reconnects in callbacks, a receive
  completed for the old socket creates `kcp_` for the new one with the old
  conversation, and two receives then share `buffer_`. With the client program's
  polling this does not happen (`ConvOfPeer`, `OneReader`).
- `close()` keeps the buffers: half a packet of the old conversation stays in
  front of the new one (kcp/socket.h:64); `OwnPackets` excepts such a connection.
- `ikcp_recv` needs room for the whole message up to the end of the ring
  (kcp/socket.h:33): a message that does not fit there starves while there is room
  in front. A single packet whose size divides the ring, as those of the two
  programs, never does. But the client program queues 8 bytes on every tick until
  its hello is answered, and sends them as one message (kcp/socket.h:95): more than
  1023 bytes starve at the server, and everything behind them. `Delivered` states
  both.
- The client program's connector is destroyed by its first failed receive, since
  `main` keeps no reference (client.cc:65); `Recovers` is about one that is kept.

UDP.

- The receive that `close()` aborts closes, when it is handled, the socket opened
  since (udp/socket.h:41). An application that polls comes out of this once its
  timer does not expire before the aborted receive is handled; one that reconnects
  from `on_disconnected` never does (`Stabilises`).
- A reconnect from within `on_recv`, or a completed receive that is handled after
  a reconnect, leaves two receives, one of which points behind the datagram that
  is being dropped: what it receives is not what `on_read` reads
  (udp/socket.h:46, `RightPlace`), so that the application may be given bytes that
  are no packet. `WholeDatagrams` excepts such a connection (`crossed`).
- After a failed send `on_disconnected` runs before `send_buff_.reset()`
  (udp/socket.h:65): if it connects, the packet is sent again on the new socket.
  Where the port stays refused that send fails too, and `close`, `on_disconnected`
  and `connect` go on calling each other until one succeeds.
- The ring never grows over UDP: a packet that does not fit it as it is made is
  never delivered (`WholeDatagrams`).

None of these contradicts a comment, test or document of the repository, which
has none on these points.

## Proofs

Every theorem is about all values of the constants that satisfy the ASSUMEs of
its module: any number of packets, faults, datagrams, remotes, clients, timers
and calls, any size of a ring. Where a bound of a run is a guard of the model, it
is a constant like any other.

`TcpConnectionProofs` proves all six invariants of `TcpConnection`, for every
application. The first inductive invariant, `Sound`, states `TypeOK`, `Paired`,
`NeverStuckConnecting` and `NoLostWakeup` of a record. It is preserved by every
member function (one lemma each, in the order of the calls), but not by taking a
completion from the queue: the completion of the connect may be the one `Attempt`
relies on, that of a wait_write the one `Wakes` relies on. `Without` is what is
left in that moment; the handler's lemma shows that it restores the rest. The
lemmas `HasConcat`, `HasAppend`, `HasPop`, `HasRepeat` and `HasMapped` say what
the queue operations do to the set of operations queued. The second invariant,
`Held`, is about places in the queue, and gives `NoStaleKill`, `OneReader` and
`BlocksOnlyConnecting`. It has three cases. As long as connect(2) has not answered
at once on an open socket, `Ordered`: a closed socket has nothing in the reactor
(`Shut`), an attempt that succeeds is not queued but handled where it is reported
(`Calm`), and whatever completed before an attempt comes before the descriptor's
entry that reports it (`Opening`). So when `connected()` runs, nothing of an
earlier socket is left (`Live`), and from then on there is one reader, pending or
queued (`Single`). After such an answer, `Caught`: the success stands behind
completions of the first socket only, one of them its read, whose handler closes
the second socket or blocks on it; so nothing is established any more before
`open()` throws. And then, `Over`: the exception has left `run()`.

`KcpSessionProofs` proves `Paired`, `ToldFirst`, `ConvOfPeer` and `OneReader`.
The invariant has two layers. `Basic` holds with every application: what was told
agrees with `state_` (`Told`), a connected endpoint is not without a receive
unless it was made deaf (`Waits`), packets wait only for a conversation
(`Flushed`), a closed socket has no peer (`Shut`). `One` holds with an application
that neither disconnects nor reconnects from a callback, while nothing is damaged:
at most one receive (`Single`), which brings, like the kernel's buffer, only
datagrams of the present peer (`Honest`, `Held`), so that `kcp_` is absent or the
conversation of that peer.

`UdpSessionProofs` proves `Attached` and `RightPlace`, with three layers:
`Core` for every application; `Nice`, until `connect()` was called within
`on_read` or a completed receive was handled late; `Polled`, for an application
that only polls, whose receives of earlier sockets come before the present one.

`DatagramAcceptorProofs` proves `OneSession` and `Accepting`, for both acceptors,
and for a kcp acceptor `ConvUnique`, for any set of remotes, any width of the
counter. The first inductive invariant adds to the types `Sender`: a completed
receive has left some sender in `remote_endpoint_`. That `get_conv` returns a
number not in use rests on the nearest of the free numbers existing
(`GetConvFree`, by well-foundedness of the naturals). For `Accepting` the second
one, `Counted`, says that receives waiting, completed, failed and ended add up to
those `listen()` started; its lemmas count the entries of the queue.

`KcpSystemProofs` proves `NoCrossTalk` and `Partners` for any set of clients, any
number of receives of the acceptor, and any number of faults, ports and sessions.
Neither is inductive. `Numbers` says that until a restart, and as long as no more
sessions were made than there are numbers, a conversation number is the number of
its session wherever it is written down: in a session, a client or a datagram. It
rests on what `get_conv` returns (`ConvFacts`: the nearest free number exists, by
well-foundedness, is not in use, and is the next one as long as that is free).
`Pairing`, which does not depend on the numbers, says of every port in use that nothing has spoiled: it has at
most one session, open and with its reader; its hello is gone once it has one, or
once the acceptor has its sender noted; and every other datagram and every
conversation of it names that session. `Hellos` says that number 0 is a hello's
only; `Fresh` keeps ports that were not given out
yet from appearing anywhere.

`CircleBufferProofs` proves that the ring implements `ByteQueue`, and `WriteSafe`
and `WordsSafe`, for every power of two as its size, every larger one as the
number of `size_t` values, and every size of header and values (`WordsSafe`: the
header has more than one byte and divides the default size). It starts from
numbers modulo n and from powers of two dividing each other; then each member
function has a lemma that says what it does to `Contents`: `remove` and
`remove_from_back` (also when `tail_` goes below zero), `expand` and its
repetition, `written`, `copy`. What the recursion of `write` copies is shown in
two steps: the recursion is well defined since every call has fewer bytes left
(`CopiesExist`), and if it neither recurs for ever nor overruns, every byte goes
to its own cell (`CopiesExact`). The provers have no induction over data;
`LeastNat` (a set of naturals that is not empty has a least element) takes its
place: of the values a statement fails for, the least is examined. The invariant
for the refinement, `Sound`, says that the ring is well formed and that a writer's
bytes are the last ones, which is why its destructor removes no others. `WriteSafe`
needs `Near`: `tail_` is below the size or less than one size below zero, since a
second destructor cannot run before a write has reduced it. `WordsSafe` needs
`Words`: in a ring that was never expanded `tail_` is a multiple of the word, as
`remove` moves `head_` only, and so is every writer's length; so a word neither
crosses the end nor is a patch of the first cells of a full ring.

The same module proves `Conserved`, `OwnPackets`, `FaultsOnlyOnForeign` and
`WholeDatagrams` of `PacketStream`, for every size of the ring and of a length,
every base, any set of packets and every way of cutting them. None of the last
three is inductive. `StreamInv` adds to `Conserved` that on a connection without
old bytes `got` are the first packets sent and, between two calls of `on_read`,
what the ring holds is less than the next packet (`InStep`); over UDP, that the
ring is empty between two datagrams and, on a connection that is not `crossed`, has
either one receive, at the front, or one datagram that waits for its handler, the
beginning of a packet (`Datagrams`, `Begins`). The argument for `Deliver`: by
`Conserved` and `InStep` the bytes from the front of the ring on are the next
packets sent, the bytes of a length tell the length (`LengthRead`, from the
digits of a number), so `on_read` takes exactly the next packet, and cancelling
it on both sides of `Conserved` keeps the equation. `LargestIs` says that a ring
that can grow no more is `LargestRing`; with `InStep` this shows that it throws
only for a packet that is larger. Lemmas on `FlattenSeq` (`FlattenAppend`,
`FlattenConcat`, `FlattenFirst`) and on functions defined by recursion
(`Iterates`, `Stays`) carry these proofs.

`QueueProofs` proves that `array` implements `ByteQueue` and `bip` all of it but for
its misreads (`QueueButMisreads`), and `SafeBelowLimit` and `ReadsBack`, for every default size, limit, number of values
and sizes of what is written (`SizeT`, the number of `size_t` values, is larger
than a buffer and what is written to it together). `ArrayGood` says that the bytes
lie between `head_` and `tail_` and that the size is the default size doubled
until the limit; memory is damaged only at the limit, and only if the last growth
was by less than the size before it (`SmallStep`). `BipGood` says that the bytes lie in region a and then in
region b, which is in front of it; that without a byte in region a there is no
region b; and that an empty region b was begun only because it had more room than
there is behind region a, which is what keeps `get_space` and `write` agreed on
where the next byte goes. Each member function has a lemma on `Contents`; the
repetition of `expand()` is well defined since every turn makes the buffer larger.

It also proves `Exact` and `PeerReads` of `Packet`, for packets inside packets at
any depth and of any size that a uint32 holds. `PacketInv` says that `send_buff_`
is the packets sent followed by what each writer has added (`Upto`); that only the
innermost writer may have been flushed (`Nested`); where `head_` points
(`Placed`); and that a packet at depth j has fewer than `Limit(j)` cells, its
inner ones included. `Placed` is the reason why `~writer()` may decide by the cell
at `head_`: a writer inside another that was flushed has its `head_` behind the
missing length of the packet around it, among cells that are values and lengths
(`NoMark`), so nothing is taken back. For `PeerReads`, `BuffIs` finds the i-th
packet at the front of what is left of the buffer; `AfterIs` says where the reader
stands behind k packets, by showing that the places it should stand at satisfy
the recursion of `After`; and `LessWraps` is why `send` of a packet inside another
never has the right length: `tail_` is too large by at least 1 and by less than
`Width`.

`TimerProofs` proves `OneWait`, `KeepsTicking` and `CancelStops` of `Timer` for
any number of calls. They are not inductive: a repeating timer's wait could be
aborted by a second, one-shot expiry. `Inductive` says that an undisturbed timer
has exactly one wait, pending or expired, of the kind asked for. It also proves
`ErasesSelfSafely` and `EachOnce` of `TimerSet` for any set of timers, any number
of ticks and rehashes. The inductive invariant adds to the types that the
iterator, as long as nobody erased another's element, stands on a registered
element or at the end, with only registered elements ahead (`Iterator`), and that
in a tick without rehash an element that stayed has been called once if the
iterator has passed it, and not at all if it is still to come (`Progress`).

`CircleBufferProofs` and `QueueProofs` both hold the general lemmas on recursive
functions, parts of sequences and `FlattenSeq`: the modules they extend name
their state alike, so that neither can extend the other.

What the proofs changed in the models: two CASEs had arms that overlap
(`RunTick` of `KcpSession`, `DamageOf` of `CircleBuffer`), which TLC resolves by
the first and TLA+ by none; they are now disjoint. `IsPowerOf2` is stated by
divisors, `Count` of `DatagramAcceptor` by the cardinality of the places, the
repeated growth of the array by the recursive function `Grown`, none of which
changes a value. Assumptions that the runs met without saying so are now stated:
`PacketStream` has a ring of more than one byte and cuts no UDP datagram at the
sender, `SpareBuffers` writes nothing that would not fit the address space beside
the buffer, and in `Packet` a uint32 holds every length.

Model-checked only: liveness (`Recovers`, `Served`, `Delivered`, `Stabilises`,
`Talks`), since the prover has no fairness. Every safety invariant that a run
checks is proved, and so are the refinement of `ByteQueue` by the ring and what
holds of it for the two other buffers.

## Plan

Every part of the system that keeps state of its own is modelled, but for the
accept loop of TCP, and every safety property is proved. What would be worth
doing next:

1. `Packet` over the ring itself, so that `Exact` and the refinement of
   `ByteQueue` meet in one composed module.
2. The accept loop of TCP and the SIGINT handler.

## Not modelled

- The accept loop of `tcp::acceptor`: one asynchronous accept that is started
  again until it fails, and then never again. The socket it makes is an initial
  state of `TcpConnection`.
- The SIGINT handler, which calls `io_service::stop()` and may wait for a mutex
  the interrupted thread holds; `stop` itself is a step of `TimerSet`.
- The time between `bind` and `connect` of a session's socket
  (kcp/acceptor.h:44), in which it takes anybody's datagrams; exceptions of
  `open` and `bind` when descriptors run out.
- The result of `ikcp_send`, which the code ignores; the recursion of a
  `connect()` that fails again and again from `on_disconnected`, by itself or by the
  send that `open()` repeats; over UDP, a receive that completes at once within the
  `do_read` of a reconnect from `on_recv`, which is a later step in the model.
- The libraries (asio, gtest, and ikcp, which is not in the repository) beyond
  what is used of them; what is used of asio names its lines under `src/deps/asio`; addresses and ports; printing; `test.cc`, which tests
  `sqrtf`.
