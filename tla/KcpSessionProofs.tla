-------------------------- MODULE KcpSessionProofs --------------------------
(***************************************************************************)
(* Proofs about KcpSession, for every application, bound and number of     *)
(* faults.  As in TcpConnectionProofs the invariant is a predicate of an   *)
(* endpoint record and each member function has a lemma that says what it  *)
(* establishes from what.  Inductive has two layers: Sound, which holds of *)
(* every application, and One, which holds while the application neither   *)
(* disconnects nor reconnects from a callback (Steady) and is where the    *)
(* order of receives, closes and reconnects matters.                       *)
(***************************************************************************)
EXTENDS KcpSession, SequenceTheorems, TLAPS

Item == [op : {"event", "stale", "read", "tick"}, ok : BOOLEAN]

Endpoint ==
  [app : App, state : {"DISCONNECTED", "CONNECTING", "CONNECTED"}, up : BOOLEAN,
   kcp : Nat, out : Nat, fd : BOOLEAN, err : BOOLEAN, inbox : Seq(Nat), rd : Nat,
   buf : Nat, queue : Seq(Item), hello : {"none", "sent", "taken", "lost"},
   peer : Nat, deaf : BOOLEAN, gone : BOOLEAN, thrown : BOOLEAN, damage : BOOLEAN]

\* CONNECTED is what the application was told, and means an open socket.
Told(s) ==
  /\ ~s.thrown /\ s.state # "CONNECTING"
  /\ s.up <=> s.state = "CONNECTED"
  /\ s.state = "CONNECTED" => s.fd

\* No receive waits and none has completed.
Idle(s) == s.rd = 0 /\ Reads(s) = {}

\* A connected endpoint is not without a receive, unless it is deaf.
Waits(s) == s.state = "CONNECTED" /\ ~s.deaf => ~Idle(s)

\* Packets wait only for a conversation.
Flushed(s) == s.kcp # 0 => s.out = 0

\* A closed socket has no peer and nothing in the kernel; a hello that is on
\* its way is that of the open socket, and has made no conversation yet.
Shut(s) ==
  /\ ~s.fd => s.peer = 0 /\ s.inbox = <<>> /\ s.rd = 0
  /\ s.hello = "sent" => s.fd /\ s.peer = 0

\* There is at most one receive, and what it brought, or what the kernel holds
\* for it, is of the peer's conversation or a hello.
Single(s) ==
  /\ s.rd <= 1 /\ (s.rd = 1 => Reads(s) = {})
  /\ \A i, j \in Reads(s) : i = j
Honest(s) == \A i \in DOMAIN s.inbox : s.inbox[i] \in {0, s.peer}
Held(s)   == \A i \in Reads(s) : s.queue[i].ok => s.buf \in {0, s.peer}

One(s) ==
  /\ Single(s) /\ Honest(s) /\ Held(s)
  /\ s.kcp \in {0, s.peer}
  /\ s.state = "DISCONNECTED" => ~s.fd /\ Idle(s) /\ s.kcp = 0

Steady(app) == "disconnect" \notin app.tick \cup app.recv /\ TRUE \notin app.reconnects

Basic(s) == s \in Endpoint /\ Told(s) /\ Waits(s) /\ Flushed(s) /\ Shut(s)
Sound(s) == Basic(s) /\ (Steady(s.app) /\ ~s.damage => One(s))

\* The invariant of an endpoint between two steps.
Lives(s) ==
  /\ s \in Endpoint /\ ~s.thrown
  /\ s.gone /\ s.up => s.deaf
  /\ ~s.gone => Sound(s)

Inductive == Lives(ep)

-----------------------------------------------------------------------------
(* The handler queue                                                       *)

ReadsIn(q) == {i \in DOMAIN q : q[i].op = "read"}

\* A function on 1..n is a sequence.
LEMMA FunctionIsSeq ==
  ASSUME NEW S, NEW n \in Nat, NEW f \in [1..n -> S]
  PROVE  f \in Seq(S)
BY SeqDef

\* Posting one entry.
LEMMA AppendLemma ==
  ASSUME NEW q \in Seq(Item), NEW item \in Item
  PROVE  LET r == Append(q, item)
         IN  /\ r \in Seq(Item) /\ Len(r) = Len(q) + 1 /\ r[Len(q) + 1] = item
             /\ \A i \in DOMAIN q : r[i] = q[i]
             /\ item.op # "read" => ReadsIn(r) = ReadsIn(q)
             /\ item.op = "read" => ReadsIn(r) = ReadsIn(q) \cup {Len(q) + 1}
<1> DEFINE r == Append(q, item)
<1>1. /\ r \in Seq(Item) /\ Len(r) = Len(q) + 1 /\ r[Len(q) + 1] = item
      /\ \A i \in 1..Len(q) : r[i] = q[i]
  BY AppendProperties
<1>2. DOMAIN q = 1..Len(q) /\ DOMAIN r = 1..Len(q) + 1 /\ Len(q) \in Nat
  BY <1>1, LenProperties
<1> HIDE DEF r
<1>3. DOMAIN r = DOMAIN q \cup {Len(q) + 1}
  BY <1>2
<1>4. \A i \in DOMAIN q : r[i] = q[i]
  BY <1>1, <1>2
<1>5. item.op # "read" => ReadsIn(r) = ReadsIn(q)
  BY <1>1, <1>3, <1>4 DEF ReadsIn
<1>6. item.op = "read" => ReadsIn(r) = ReadsIn(q) \cup {Len(q) + 1}
  BY <1>1, <1>3, <1>4 DEF ReadsIn
<1> QED BY <1>1, <1>4, <1>5, <1>6 DEF r

\* What is left when the first entry is taken.
LEMMA PopLemma ==
  ASSUME NEW q \in Seq(Item), q # <<>>
  PROVE  LET t == Tail(q)
         IN  /\ Head(q) \in Item /\ t \in Seq(Item)
             /\ \A i \in ReadsIn(t) : i + 1 \in ReadsIn(q) /\ q[i + 1] = t[i] /\ i \in Nat
             /\ Head(q).op = "read" => 1 \in ReadsIn(q) /\ q[1] = Head(q)
             /\ Head(q).op # "read" /\ ReadsIn(q) # {} => ReadsIn(t) # {}
<1> DEFINE t == Tail(q)
<1>1. /\ Head(q) \in Item /\ t \in Seq(Item)
      /\ Len(t) = Len(q) - 1
      /\ \A i \in 1..Len(t) : t[i] = q[i + 1]
  BY HeadTailProperties
<1>2. Len(q) \in Nat \ {0} /\ DOMAIN q = 1..Len(q)
  BY EmptySeq, LenProperties
<1>3. DOMAIN t = 1..Len(q) - 1
  BY <1>1, LenProperties
<1>4. Head(q) = q[1]
  OBVIOUS
<1> HIDE DEF t
<1>5. \A i \in ReadsIn(t) : i + 1 \in ReadsIn(q) /\ q[i + 1] = t[i] /\ i \in Nat
  BY <1>1, <1>2, <1>3 DEF ReadsIn
<1>6. Head(q).op = "read" => 1 \in ReadsIn(q) /\ q[1] = Head(q)
  BY <1>2, <1>4 DEF ReadsIn
<1>7. ASSUME Head(q).op # "read", ReadsIn(q) # {} PROVE ReadsIn(t) # {}
  <2>1. PICK i \in DOMAIN q : q[i].op = "read"
    BY <1>7 DEF ReadsIn
  <2>2. i - 1 \in DOMAIN t /\ t[i - 1] = q[i]
    BY <1>1, <1>2, <1>3, <1>4, <1>7, <2>1
  <2> QED BY <2>1, <2>2 DEF ReadsIn
<1> QED BY <1>1, <1>5, <1>6, <1>7 DEF t

\* Entries that are queued.
LEMMA Entries ==
  \A op \in {"event", "stale", "read", "tick"}, ok \in BOOLEAN :
    Entry(op, ok) \in Item /\ Entry(op, ok).op = op /\ Entry(op, ok).ok = ok
BY DEF Entry, Item

-----------------------------------------------------------------------------
(* The socket                                                              *)

\* The fields that neither a receive nor send_buff_ touches.
Same(r, s) ==
  /\ r.app = s.app /\ r.state = s.state /\ r.up = s.up /\ r.kcp = s.kcp
  /\ r.fd = s.fd /\ r.hello = s.hello /\ r.peer = s.peer /\ r.deaf = s.deaf
  /\ r.gone = s.gone /\ r.thrown = s.thrown /\ r.damage = s.damage

\* The fields that close() of the udp socket does not touch.
Kept(r, s) ==
  /\ r.app = s.app /\ r.state = s.state /\ r.up = s.up /\ r.kcp = s.kcp
  /\ r.out = s.out /\ r.deaf = s.deaf /\ r.gone = s.gone
  /\ r.thrown = s.thrown /\ r.damage = s.damage

\* close(): the descriptor and what the kernel held are gone.
LEMMA SocketCloseLemma ==
  ASSUME NEW s \in Endpoint
  PROVE  LET r == socket_close(s)
         IN  /\ r \in Endpoint /\ ~r.fd /\ Kept(r, s)
             /\ Shut(s) => Shut(r)
             /\ Idle(s) => Idle(r)
<1> DEFINE r == socket_close(s)
<1>1. CASE ~s.fd
  BY <1>1 DEF socket_close, Kept
<1>2. CASE s.fd
  <2> DEFINE m == [i \in DOMAIN s.queue |->
                     IF s.queue[i].op = "event" THEN Entry("stale", TRUE)
                     ELSE s.queue[i]]
             a == [i \in 1..s.rd |-> Entry("read", FALSE)]
             w == m \o a
  <2>1. s.queue \in Seq(Item) /\ s.rd \in Nat
    BY DEF Endpoint
  <2>2. DOMAIN s.queue = 1..Len(s.queue) /\ Len(s.queue) \in Nat
    BY <2>1, LenProperties
  <2>3. \A i \in DOMAIN s.queue : s.queue[i] \in Item
    BY <2>1, <2>2, ElementOfSeq
  <2>4. m \in [1..Len(s.queue) -> Item]
    BY <2>2, <2>3, Entries
  <2>5. a \in [1..s.rd -> Item]
    BY Entries
  <2>6. m \in Seq(Item) /\ a \in Seq(Item)
    <3> HIDE DEF m, a
    <3> QED BY <2>1, <2>2, <2>4, <2>5, FunctionIsSeq
  <2>7. r = [s EXCEPT !.fd = FALSE, !.err = FALSE, !.inbox = <<>>, !.rd = 0,
                      !.hello = "none", !.peer = 0, !.queue = w]
    BY <1>2 DEF socket_close
  <2>8. w \in Seq(Item)
    BY <2>6, ConcatProperties
  <2>9. ASSUME s.rd = 0, ReadsIn(s.queue) = {} PROVE ReadsIn(w) = {}
    <3>1. a = <<>>
      BY <2>6, <2>9, EmptySeq
    <3>2. w = m
      <4> HIDE DEF m, a
      <4> QED BY <2>6, <3>1, ConcatEmptySeq
    <3>3. \A i \in DOMAIN s.queue : m[i].op # "read"
      BY <2>9, Entries DEF ReadsIn
    <3> QED BY <3>2, <3>3 DEF ReadsIn
  <2> HIDE DEF w, r
  <2>10. r \in Endpoint /\ r.queue = w
    <3>1. <<>> \in Seq(Nat)
      OBVIOUS
    <3> QED BY <2>7, <2>8, <3>1 DEF Endpoint
  <2>11. /\ ~r.fd /\ r.peer = 0 /\ r.inbox = <<>> /\ r.rd = 0 /\ r.hello = "none"
         /\ Kept(r, s)
    BY <2>7 DEF Endpoint, Kept
  <2>12. Shut(r) /\ (Idle(s) => Idle(r))
    BY <2>9, <2>10, <2>11 DEF Shut, Idle, Reads, ReadsIn
  <2> QED BY <2>10, <2>11, <2>12 DEF r
<1> QED BY <1>1, <1>2

\* async_receive leaves a receive, and exactly one if there was none; what it
\* brings comes out of the kernel.
LEMMA ReadLemma ==
  ASSUME NEW s \in Endpoint
  PROVE  LET r == do_read(s)
         IN  /\ r \in Endpoint /\ Same(r, s) /\ r.out = s.out /\ ~Idle(r)
             /\ Shut(s) => Shut(r)
             /\ s.fd /\ Idle(s) /\ Honest(s) => Single(r) /\ Honest(r) /\ Held(r)
<1> DEFINE r == do_read(s)
<1>1. s.queue \in Seq(Item) /\ s.rd \in Nat /\ s.inbox \in Seq(Nat) /\ s.err \in BOOLEAN
      /\ s.fd \in BOOLEAN
  BY DEF Endpoint
<1>2. Len(s.queue) \in Nat
  BY <1>1, LenProperties
<1>3. CASE ~s.fd
  <2> DEFINE q == Append(s.queue, Entry("read", FALSE))
  <2>1. q \in Seq(Item) /\ ReadsIn(q) = ReadsIn(s.queue) \cup {Len(s.queue) + 1}
    BY <1>1, Entries, AppendLemma
  <2>2. r = [s EXCEPT !.queue = q]
    BY <1>3 DEF do_read, async_receive, Post
  <2> HIDE DEF q, r
  <2>3. r \in Endpoint /\ r.queue = q
    BY <2>1, <2>2 DEF Endpoint
  <2>4. Same(r, s) /\ r.out = s.out /\ r.inbox = s.inbox /\ r.rd = s.rd
    BY <2>2 DEF Endpoint, Same
  <2> QED BY <1>3, <2>1, <2>3, <2>4 DEF Idle, Shut, Reads, ReadsIn, Same, r
<1>4. CASE s.fd /\ ~(s.rd = 0 /\ Ready(s))
  <2> DEFINE n == s.rd + 1
  <2>1. r = [s EXCEPT !.rd = n]
    BY <1>4 DEF do_read, async_receive
  <2>2. n \in Nat /\ n # 0 /\ (s.rd = 0 => n = 1)
    BY <1>1
  <2> HIDE DEF n, r
  <2>3. r \in Endpoint /\ r.rd = n
    BY <2>1, <2>2 DEF Endpoint
  <2>4. Same(r, s) /\ r.out = s.out /\ r.inbox = s.inbox /\ r.queue = s.queue
    BY <2>1 DEF Endpoint, Same
  <2>5. ~Idle(r) /\ (Shut(s) => Shut(r))
    BY <1>4, <2>2, <2>3, <2>4 DEF Idle, Shut, Same
  <2>6. Idle(s) /\ Honest(s) => Single(r) /\ Honest(r) /\ Held(r)
    BY <2>2, <2>3, <2>4 DEF Idle, Honest, Single, Held, Reads, Same
  <2> QED BY <2>3, <2>4, <2>5, <2>6 DEF r
<1>5. CASE s.fd /\ s.rd = 0 /\ s.err
  <2> DEFINE q == Append(s.queue, Entry("read", FALSE))
  <2>1. /\ q \in Seq(Item) /\ ReadsIn(q) = ReadsIn(s.queue) \cup {Len(s.queue) + 1}
        /\ q[Len(s.queue) + 1].ok = FALSE
    BY <1>1, Entries, AppendLemma
  <2>2. r = [s EXCEPT !.err = FALSE, !.queue = q]
    BY <1>1, <1>5 DEF do_read, async_receive, Post, Took, Ready
  <2> HIDE DEF q, r
  <2>3. r \in Endpoint /\ r.queue = q
    BY <2>1, <2>2 DEF Endpoint
  <2>4. Same(r, s) /\ r.out = s.out /\ r.inbox = s.inbox /\ r.rd = s.rd
    BY <2>2 DEF Endpoint, Same
  <2>5. ~Idle(r) /\ (Shut(s) => Shut(r))
    BY <1>5, <2>1, <2>3, <2>4 DEF Idle, Shut, Same, Reads, ReadsIn
  <2>6. Idle(s) /\ Honest(s) => Single(r) /\ Honest(r) /\ Held(r)
    BY <1>5, <2>1, <2>3, <2>4 DEF Idle, Honest, Single, Held, Reads, ReadsIn, Same
  <2> QED BY <2>3, <2>4, <2>5, <2>6 DEF r
<1>6. CASE s.fd /\ s.rd = 0 /\ ~s.err /\ s.inbox # <<>>
  <2> DEFINE q == Append(s.queue, Entry("read", TRUE))
             h == Head(s.inbox)
             l == Tail(s.inbox)
  <2>1. /\ q \in Seq(Item) /\ ReadsIn(q) = ReadsIn(s.queue) \cup {Len(s.queue) + 1}
    BY <1>1, Entries, AppendLemma
  <2>2. r = [s EXCEPT !.buf = h, !.inbox = l, !.queue = q]
    BY <1>1, <1>6 DEF do_read, async_receive, Post, Took, Ready
  <2>3. h \in Nat /\ l \in Seq(Nat)
    BY <1>1, <1>6, HeadTailProperties
  <2>4. ASSUME Honest(s)
        PROVE  h \in {0, s.peer} /\ \A i \in DOMAIN l : l[i] \in {0, s.peer}
    BY <1>1, <1>6, <2>4 DEF Honest
  <2> HIDE DEF q, h, l, r
  <2>5. r \in Endpoint /\ r.queue = q /\ r.buf = h /\ r.inbox = l
    BY <2>1, <2>2, <2>3 DEF Endpoint
  <2>6. Same(r, s) /\ r.out = s.out /\ r.rd = s.rd
    BY <2>2 DEF Endpoint, Same
  <2>7. ~Idle(r) /\ (Shut(s) => Shut(r))
    BY <1>6, <2>1, <2>5, <2>6 DEF Idle, Shut, Same, Reads, ReadsIn
  <2>8. Idle(s) /\ Honest(s) => Single(r) /\ Honest(r) /\ Held(r)
    BY <1>6, <2>1, <2>4, <2>5, <2>6 DEF Idle, Honest, Single, Held, Reads, ReadsIn, Same
  <2> QED BY <2>5, <2>6, <2>7, <2>8 DEF r
<1> QED BY <1>3, <1>4, <1>5, <1>6 DEF Ready

-----------------------------------------------------------------------------
(* kcp::socket and connection                                              *)

\* Only send_buff_ differs.
Quiet(r, s) ==
  /\ Same(r, s) /\ r.inbox = s.inbox /\ r.rd = s.rd /\ r.buf = s.buf
  /\ r.queue = s.queue

\* A change of send_buff_ alone.
LEMMA QuietLemma ==
  ASSUME NEW s, NEW r, Quiet(r, s)
  PROVE  /\ Told(s) => Told(r)
         /\ Waits(s) => Waits(r)
         /\ Shut(s) => Shut(r)
         /\ One(s) => One(r)
         /\ Idle(s) => Idle(r)
         /\ Honest(s) => Honest(r)
BY DEF Quiet, Same, Told, Waits, Shut, One, Single, Honest, Held, Idle, Reads

\* do_write leaves nothing behind once there is a conversation.
LEMMA WriteLemma ==
  ASSUME NEW s \in Endpoint
  PROVE  LET r == do_write(s) IN r \in Endpoint /\ Quiet(r, s) /\ Flushed(r)
<1> DEFINE r == do_write(s)
<1>1. s.out \in Nat
  BY DEF Endpoint
<1>2. CASE s.kcp # 0 /\ s.out > 0
  <2>1. r = [s EXCEPT !.out = 0]
    BY <1>2 DEF do_write
  <2> HIDE DEF r
  <2>2. r \in Endpoint /\ r.out = 0 /\ Quiet(r, s)
    BY <2>1 DEF Endpoint, Quiet, Same
  <2> QED BY <2>2 DEF Flushed, r
<1>3. CASE ~(s.kcp # 0 /\ s.out > 0)
  BY <1>1, <1>3 DEF do_write, Quiet, Same, Flushed
<1> QED BY <1>2, <1>3

LEMMA SendLemma ==
  ASSUME NEW s, Sound(s)
  PROVE  LET r == send(s) IN Sound(r) /\ Quiet(r, s)
<1> DEFINE t == [s EXCEPT !.out = @ + 1]
<1>1. s \in Endpoint /\ s.out + 1 \in Nat
  BY DEF Sound, Basic, Endpoint
<1>2. t \in Endpoint /\ Quiet(t, s)
  <2> DEFINE n == s.out + 1
  <2>1. t = [s EXCEPT !.out = n] /\ n \in Nat
    BY <1>1
  <2> HIDE DEF n, t
  <2>2. t \in Endpoint
    BY <1>1, <2>1 DEF Endpoint
  <2>3. Quiet(t, s)
    BY <1>1, <2>1 DEF Endpoint, Quiet, Same
  <2> QED BY <2>2, <2>3
<1> HIDE DEF t
<1>3. do_write(t) \in Endpoint /\ Quiet(do_write(t), t) /\ Flushed(do_write(t))
  BY <1>2, WriteLemma
<1> DEFINE r == send(s)
<1>4. r \in Endpoint /\ Flushed(r) /\ Quiet(r, s)
  <2>1. r = s \/ r = do_write(t)
    BY DEF send, t
  <2>2. Quiet(s, s) /\ Flushed(s)
    BY DEF Quiet, Same, Sound, Basic
  <2> QED BY <1>1, <1>2, <1>3, <2>1, <2>2 DEF Quiet, Same
<1> HIDE DEF r
<1>5. Told(r) /\ Waits(r) /\ Shut(r) /\ (One(s) => One(r))
  BY <1>4, QuietLemma DEF Sound, Basic
<1>6. r.app = s.app /\ r.damage = s.damage
  BY <1>4 DEF Quiet, Same
<1> QED BY <1>4, <1>5, <1>6 DEF Sound, Basic, r

\* What no member function of the connection changes.
Ends(r, s) == r.app = s.app /\ r.gone = s.gone /\ r.damage = s.damage

\* connected() tells the application and starts the one receive.
LEMMA ConnectedLemma ==
  ASSUME NEW s \in Endpoint, s.state # "CONNECTED", s.fd, ~s.thrown, Shut(s)
  PROVE  LET r == connected(s)
         IN  /\ Basic(r) /\ Ends(r, s) /\ r.state = "CONNECTED"
             /\ Idle(s) /\ Honest(s) /\ s.kcp \in {0, s.peer} => One(r)
<1> DEFINE t == [s EXCEPT !.state = "CONNECTED", !.up = TRUE]
<1>1. /\ t \in Endpoint /\ t.state = "CONNECTED" /\ t.up /\ t.fd /\ ~t.thrown
      /\ t.app = s.app /\ t.gone = s.gone /\ t.damage = s.damage
      /\ t.rd = s.rd /\ t.queue = s.queue /\ t.inbox = s.inbox /\ t.peer = s.peer
      /\ t.kcp = s.kcp /\ t.hello = s.hello
  BY DEF Endpoint
<1>2. connected(s) = do_write(do_read(t))
  BY DEF connected, open
<1> HIDE DEF t
<1>3. Shut(t) /\ (Idle(s) => Idle(t)) /\ (Honest(s) => Honest(t))
  BY <1>1 DEF Shut, Idle, Honest, Reads
<1> DEFINE u == do_read(t)
<1>4. /\ u \in Endpoint /\ Same(u, t) /\ ~Idle(u) /\ Shut(u)
      /\ Idle(t) /\ Honest(t) => Single(u) /\ Honest(u) /\ Held(u)
  BY <1>1, <1>3, ReadLemma
<1> HIDE DEF u
<1>5. Told(u) /\ Waits(u)
  BY <1>1, <1>4 DEF Told, Waits, Same
<1>6. Idle(s) /\ Honest(s) /\ s.kcp \in {0, s.peer} => One(u)
  BY <1>1, <1>3, <1>4 DEF One, Same
<1> DEFINE r == do_write(u)
<1>7. r \in Endpoint /\ Quiet(r, u) /\ Flushed(r)
  BY <1>4, WriteLemma
<1> HIDE DEF r
<1>8. Told(r) /\ Waits(r) /\ Shut(r) /\ (One(u) => One(r))
  BY <1>4, <1>5, <1>7, QuietLemma
<1>9. Ends(r, s) /\ r.state = "CONNECTED"
  BY <1>1, <1>4, <1>7 DEF Ends, Quiet, Same
<1>10. connected(s) = r
  BY <1>2 DEF r, u
<1> QED BY <1>6, <1>7, <1>8, <1>9, <1>10 DEF Basic

\* A closed and disconnected endpoint without receives.
LEMMA ClosedOne ==
  ASSUME NEW s, ~s.fd, Idle(s), s.kcp = 0, Shut(s)
  PROVE  One(s)
BY DEF One, Idle, Single, Honest, Held, Shut

LEMMA ReleaseLemma ==
  ASSUME NEW s \in Endpoint
  PROVE  LET r == release(s)
         IN  /\ r \in Endpoint /\ r.kcp = 0 /\ Flushed(r) /\ Ends(r, s)
             /\ r.state = s.state /\ r.up = s.up /\ r.fd = s.fd /\ r.thrown = s.thrown
             /\ r.deaf = s.deaf
             /\ (Shut(s) => Shut(r)) /\ (Idle(s) => Idle(r)) /\ (Told(s) => Told(r))
             /\ (Waits(s) => Waits(r))
<1> DEFINE r == release(s)
<1>1. r = [s EXCEPT !.kcp = 0]
  BY DEF release
<1> HIDE DEF r
<1>2. r \in Endpoint /\ r.kcp = 0
  BY <1>1 DEF Endpoint
<1>3. /\ Ends(r, s) /\ r.state = s.state /\ r.up = s.up /\ r.fd = s.fd
      /\ r.thrown = s.thrown /\ r.deaf = s.deaf /\ r.peer = s.peer /\ r.rd = s.rd
      /\ r.inbox = s.inbox /\ r.hello = s.hello /\ r.queue = s.queue
  BY <1>1 DEF Endpoint, Ends
<1> QED BY <1>2, <1>3 DEF Shut, Idle, Told, Waits, Flushed, Reads, r

\* connect() after its close(): a connected endpoint with one receive, or a
\* closed one again.
LEMMA ReopenLemma ==
  ASSUME NEW s \in Endpoint, ~s.fd, ~s.thrown, Shut(s), s.kcp = 0, NEW res \in BOOLEAN
  PROVE  LET r == reopen(s, res)
         IN  /\ Basic(r) /\ Ends(r, s)
             /\ ~res => r.state = "DISCONNECTED" /\ ~r.fd /\ r.kcp = 0
             /\ res => r.state = "CONNECTED"
             /\ Idle(s) => One(r)
             /\ ~res /\ Idle(s) => Idle(r)
<1> DEFINE t == [s EXCEPT !.fd = TRUE, !.state = "CONNECTING", !.hello = "sent",
                          !.deaf = FALSE]
<1>1. /\ t \in Endpoint /\ t.fd /\ t.state = "CONNECTING" /\ t.hello = "sent"
  BY DEF Endpoint
<1>2. /\ ~t.thrown /\ Ends(t, s) /\ t.peer = s.peer /\ t.inbox = s.inbox
      /\ t.rd = s.rd /\ t.queue = s.queue /\ t.kcp = 0
  BY DEF Endpoint, Ends
<1>3. s.peer = 0 /\ s.inbox = <<>>
  BY DEF Shut
<1>4. reopen(s, res) = IF res THEN connected(t) ELSE Fail(t)
  BY DEF reopen
<1> HIDE DEF t
<1>5. Shut(t) /\ Honest(t) /\ (Idle(s) => Idle(t))
  BY <1>1, <1>2, <1>3 DEF Shut, Honest, Idle, Reads
<1>6. CASE res
  <2>1. /\ Basic(connected(t)) /\ Ends(connected(t), t)
        /\ connected(t).state = "CONNECTED"
        /\ Idle(t) => One(connected(t))
    BY <1>1, <1>2, <1>5, ConnectedLemma
  <2> QED BY <1>2, <1>4, <1>5, <1>6, <2>1 DEF Ends
<1>7. CASE ~res
  <2> DEFINE u == [t EXCEPT !.state = "DISCONNECTED", !.up = FALSE]
  <2>1. u \in Endpoint /\ u.state = "DISCONNECTED" /\ ~u.up
    BY <1>1 DEF Endpoint
  <2>2. /\ Ends(u, t) /\ ~u.thrown /\ u.fd = t.fd /\ u.peer = t.peer
        /\ u.inbox = t.inbox /\ u.rd = t.rd /\ u.queue = t.queue /\ u.hello = t.hello
    BY <1>1, <1>2 DEF Endpoint, Ends
  <2>3. Fail(t) = release(socket_close(u))
    BY DEF Fail
  <2> HIDE DEF u
  <2>4. Shut(u) /\ (Idle(t) => Idle(u))
    BY <1>5, <2>2 DEF Shut, Idle, Reads
  <2> DEFINE v == socket_close(u)
  <2>5. /\ v \in Endpoint /\ ~v.fd /\ Kept(v, u) /\ Shut(v) /\ (Idle(u) => Idle(v))
    BY <2>1, <2>4, SocketCloseLemma
  <2> HIDE DEF v
  <2>6. Told(v) /\ Waits(v)
    BY <2>1, <2>2, <2>5 DEF Kept, Told, Waits
  <2> DEFINE r == release(v)
  <2>7. /\ r \in Endpoint /\ r.kcp = 0 /\ Flushed(r) /\ Ends(r, v)
        /\ r.state = v.state /\ ~r.fd /\ Shut(r) /\ (Idle(v) => Idle(r))
        /\ Told(r) /\ Waits(r)
    BY <2>5, <2>6, ReleaseLemma
  <2> HIDE DEF r
  <2>8. Basic(r) /\ Ends(r, s) /\ r.state = "DISCONNECTED"
    BY <1>2, <2>1, <2>2, <2>5, <2>7 DEF Basic, Kept, Ends
  <2>9. Idle(s) => One(r) /\ Idle(r)
    BY <1>5, <2>4, <2>5, <2>7, ClosedOne
  <2>10. reopen(s, res) = r
    BY <1>4, <1>7, <2>3 DEF r, v
  <2> QED BY <1>7, <2>7, <2>8, <2>9, <2>10
<1> QED BY <1>6, <1>7

\* on_disconnected on a closed socket, with or without a connect() in it.
LEMMA ToldLemma ==
  ASSUME NEW s \in Endpoint, ~s.fd, ~s.thrown, Shut(s), s.state = "DISCONNECTED",
         Flushed(s), NEW reconnect \in BOOLEAN
  PROVE  LET r == on_disconnected(s, reconnect)
         IN  /\ Basic(r) /\ Ends(r, s)
             /\ ~reconnect => /\ r.state = "DISCONNECTED" /\ ~r.fd
                              /\ Idle(s) => Idle(r)
<1> DEFINE t == [s EXCEPT !.up = FALSE]
<1>1. t \in Endpoint /\ ~t.up
  BY DEF Endpoint
<1>2. /\ Ends(t, s) /\ ~t.fd /\ ~t.thrown /\ t.state = s.state /\ t.peer = s.peer
      /\ t.inbox = s.inbox /\ t.rd = s.rd /\ t.queue = s.queue /\ t.hello = s.hello
      /\ t.kcp = s.kcp /\ t.out = s.out
  BY DEF Endpoint, Ends
<1>3. on_disconnected(s, reconnect) =
        IF reconnect THEN reopen(release(socket_close(t)), TRUE) ELSE t
  BY DEF on_disconnected
<1> HIDE DEF t
<1>4. Shut(t) /\ (Idle(s) => Idle(t)) /\ Told(t) /\ Waits(t) /\ Flushed(t)
  BY <1>1, <1>2 DEF Shut, Idle, Reads, Told, Waits, Flushed
<1>5. CASE reconnect
  <2> DEFINE u == release(t)
  <2>1. socket_close(t) = t
    BY <1>2 DEF socket_close
  <2>2. u \in Endpoint /\ u.kcp = 0 /\ ~u.fd /\ ~u.thrown /\ Shut(u) /\ Ends(u, t)
    BY <1>1, <1>2, <1>4, ReleaseLemma
  <2> HIDE DEF u
  <2>3. Basic(reopen(u, TRUE)) /\ Ends(reopen(u, TRUE), u)
    BY <2>2, ReopenLemma
  <2>4. on_disconnected(s, reconnect) = reopen(u, TRUE)
    BY <1>3, <1>5, <2>1 DEF u
  <2> QED BY <1>2, <1>5, <2>2, <2>3, <2>4 DEF Ends
<1>6. CASE ~reconnect
  BY <1>1, <1>2, <1>3, <1>4, <1>6 DEF Basic
<1> QED BY <1>5, <1>6

\* kcp::socket::close.  Of a connected endpoint it makes a disconnected or a
\* reconnected one; of a disconnected one only the socket and kcp_ go.
LEMMA CloseLemma ==
  ASSUME NEW s \in Endpoint, ~s.thrown, s.state # "CONNECTING", Shut(s), Flushed(s),
         NEW reconnect \in BOOLEAN
  PROVE  LET r == close(s, reconnect)
         IN  /\ r \in Endpoint /\ Ends(r, s) /\ Shut(r) /\ ~r.thrown /\ r.kcp = 0
             /\ s.state = "CONNECTED" \/ ~s.up => Basic(r)
             /\ s.state = "DISCONNECTED" =>
                  ~r.fd /\ r.state = "DISCONNECTED" /\ (Idle(s) => Idle(r))
             /\ ~reconnect /\ Idle(s) => One(r)
<1> DEFINE t == socket_close(s)
<1>1. t \in Endpoint /\ ~t.fd /\ Kept(t, s) /\ Shut(t) /\ (Idle(s) => Idle(t))
  BY SocketCloseLemma
<1>2. close(s, reconnect) = release(on_close(t, reconnect))
  BY DEF close
<1> HIDE DEF t
<1>3. CASE s.state = "CONNECTED"
  <2> DEFINE u == [t EXCEPT !.state = "DISCONNECTED"]
  <2>1. u \in Endpoint /\ u.state = "DISCONNECTED"
    BY <1>1 DEF Endpoint
  <2>2. /\ Ends(u, t) /\ ~u.fd /\ ~u.thrown /\ u.peer = t.peer /\ u.kcp = t.kcp
        /\ u.out = t.out /\ u.inbox = t.inbox /\ u.rd = t.rd /\ u.queue = t.queue
        /\ u.hello = t.hello
    BY <1>1 DEF Endpoint, Ends, Kept
  <2>3. on_close(t, reconnect) = on_disconnected(u, reconnect)
    BY <1>1, <1>3 DEF on_close, Kept
  <2> HIDE DEF u
  <2>4. Shut(u) /\ Flushed(u) /\ (Idle(t) => Idle(u))
    BY <1>1, <2>2 DEF Shut, Flushed, Idle, Reads, Kept
  <2> DEFINE v == on_disconnected(u, reconnect)
  <2>5. /\ Basic(v) /\ Ends(v, u)
        /\ ~reconnect => v.state = "DISCONNECTED" /\ ~v.fd /\ (Idle(u) => Idle(v))
    BY <2>1, <2>2, <2>4, ToldLemma
  <2> HIDE DEF v
  <2>6. v \in Endpoint /\ Told(v) /\ Waits(v) /\ Shut(v) /\ ~v.thrown
    BY <2>5 DEF Basic, Told
  <2> DEFINE r == release(v)
  <2>7. /\ r \in Endpoint /\ r.kcp = 0 /\ Flushed(r) /\ Ends(r, v) /\ r.fd = v.fd
        /\ ~r.thrown /\ Shut(r) /\ (Idle(v) => Idle(r)) /\ Told(r) /\ Waits(r)
    BY <2>6, ReleaseLemma
  <2> HIDE DEF r
  <2>8. Basic(r) /\ Ends(r, s)
    BY <1>1, <2>2, <2>5, <2>7 DEF Basic, Ends, Kept
  <2>9. ~reconnect /\ Idle(s) => One(r)
    BY <1>1, <2>4, <2>5, <2>7, ClosedOne
  <2>10. close(s, reconnect) = r
    BY <1>2, <2>3 DEF r, v
  <2> QED BY <1>3, <2>7, <2>8, <2>9, <2>10
<1>4. CASE s.state # "CONNECTED"
  <2> DEFINE r == release(t)
  <2>1. on_close(t, reconnect) = t
    BY <1>1, <1>4 DEF on_close, Kept
  <2>2. /\ r \in Endpoint /\ r.kcp = 0 /\ Flushed(r) /\ Ends(r, t) /\ ~r.fd
        /\ r.state = t.state /\ r.up = t.up /\ r.thrown = t.thrown
        /\ Shut(r) /\ (Idle(t) => Idle(r))
    BY <1>1, ReleaseLemma
  <2> HIDE DEF r
  <2>3. /\ r.state = "DISCONNECTED" /\ Ends(r, s) /\ ~r.thrown /\ r.up = s.up
    <3>1. s.state = "DISCONNECTED"
      BY <1>4 DEF Endpoint
    <3> QED BY <1>1, <2>2, <3>1 DEF Ends, Kept
  <2>4. ~s.up => Basic(r)
    BY <2>2, <2>3 DEF Basic, Told, Waits
  <2>5. Idle(s) => One(r) /\ Idle(r)
    BY <1>1, <2>2, ClosedOne
  <2>6. close(s, reconnect) = r
    BY <1>2, <2>1 DEF r
  <2> QED BY <1>4, <2>2, <2>3, <2>4, <2>5, <2>6
<1> QED BY <1>3, <1>4

LEMMA DisconnectLemma ==
  ASSUME NEW s, Basic(s), NEW reconnect \in BOOLEAN
  PROVE  Basic(disconnect(s, reconnect)) /\ Ends(disconnect(s, reconnect), s)
<1>1. s \in Endpoint /\ ~s.thrown /\ s.state # "CONNECTING" /\ Shut(s) /\ Flushed(s)
  BY DEF Basic, Told
<1>2. CASE s.state = "DISCONNECTED"
  BY <1>2 DEF disconnect, Ends
<1>3. CASE s.state # "DISCONNECTED"
  <2> DEFINE t == [s EXCEPT !.state = "DISCONNECTED"]
  <2>1. t \in Endpoint /\ t.state = "DISCONNECTED"
    BY <1>1 DEF Endpoint
  <2>2. /\ Ends(t, s) /\ ~t.thrown /\ t.fd = s.fd /\ t.peer = s.peer /\ t.kcp = s.kcp
        /\ t.out = s.out /\ t.inbox = s.inbox /\ t.rd = s.rd /\ t.hello = s.hello
    BY <1>1 DEF Endpoint, Ends
  <2>3. disconnect(s, reconnect) = on_disconnected(close(t, FALSE), reconnect)
    BY <1>3 DEF disconnect
  <2> HIDE DEF t
  <2>4. Shut(t) /\ Flushed(t)
    BY <1>1, <2>2 DEF Shut, Flushed
  <2> DEFINE u == close(t, FALSE)
  <2>5. /\ u \in Endpoint /\ Ends(u, t) /\ Shut(u) /\ ~u.thrown /\ u.kcp = 0 /\ ~u.fd
        /\ u.state = "DISCONNECTED"
    BY <2>1, <2>2, <2>4, CloseLemma
  <2> HIDE DEF u
  <2>6. Basic(on_disconnected(u, reconnect)) /\ Ends(on_disconnected(u, reconnect), u)
    BY <2>5, ToldLemma DEF Flushed
  <2> QED BY <2>2, <2>3, <2>5, <2>6 DEF Ends, u
<1> QED BY <1>2, <1>3

LEMMA ConnectLemma ==
  ASSUME NEW s, Basic(s), s.state = "DISCONNECTED",
         NEW res \in BOOLEAN, NEW reconnect \in BOOLEAN
  PROVE  LET r == connect(s, res, reconnect)
         IN  Basic(r) /\ Ends(r, s) /\ (Idle(s) => One(r))
<1>1. s \in Endpoint /\ ~s.thrown /\ s.state # "CONNECTING" /\ Shut(s) /\ Flushed(s)
  BY DEF Basic, Told
<1> DEFINE t == close(s, reconnect)
<1>2. /\ t \in Endpoint /\ Ends(t, s) /\ Shut(t) /\ ~t.thrown /\ t.kcp = 0 /\ ~t.fd
      /\ Idle(s) => Idle(t)
  BY <1>1, CloseLemma
<1> HIDE DEF t
<1> DEFINE u == reopen(t, res)
<1>3. /\ Basic(u) /\ Ends(u, t)
      /\ ~res => u.state = "DISCONNECTED" /\ ~u.fd /\ u.kcp = 0 /\ (Idle(t) => Idle(u))
      /\ res => u.state = "CONNECTED"
      /\ Idle(t) => One(u)
  BY <1>2, ReopenLemma
<1>4. connect(s, res, reconnect) =
        IF u.state = "DISCONNECTED" /\ reconnect THEN reopen(u, TRUE) ELSE u
  BY DEF connect, t
<1> HIDE DEF u
<1>5. CASE u.state = "DISCONNECTED" /\ reconnect
  <2>1. u \in Endpoint /\ ~u.fd /\ u.kcp = 0 /\ ~u.thrown /\ Shut(u)
    BY <1>3, <1>5 DEF Basic, Told
  <2>2. /\ Basic(reopen(u, TRUE)) /\ Ends(reopen(u, TRUE), u)
        /\ Idle(u) => One(reopen(u, TRUE))
    BY <2>1, ReopenLemma
  <2> QED BY <1>2, <1>3, <1>4, <1>5, <2>2 DEF Ends
<1>6. CASE ~(u.state = "DISCONNECTED" /\ reconnect)
  BY <1>2, <1>3, <1>4, <1>6 DEF Ends
<1> QED BY <1>5, <1>6

-----------------------------------------------------------------------------
(* Handlers                                                                *)

\* What the application's choices mean.
LEMMA Choices ==
  ASSUME NEW s \in Endpoint
  PROVE  /\ \A reconnect \in s.app.reconnects :
              reconnect \in BOOLEAN /\ (Steady(s.app) => ~reconnect)
         /\ Steady(s.app) => "disconnect" \notin s.app.recv /\ "disconnect" \notin s.app.tick
<1>1. s.app \in App
  BY DEF Endpoint
<1>2. s.app.reconnects \subseteq BOOLEAN
  BY <1>1 DEF App
<1> QED BY <1>2 DEF Steady

LEMMA RecvLemma ==
  ASSUME NEW s, Sound(s), NEW call \in s.app.recv, NEW reconnect \in s.app.reconnects
  PROVE  Sound(on_recv(s, call, reconnect)) /\ Ends(on_recv(s, call, reconnect), s)
<1>1. Basic(s) /\ s \in Endpoint /\ Ends(s, s)
  BY DEF Sound, Basic, Ends
<1>2. CASE call = "send"
  BY <1>2, SendLemma DEF on_recv, Quiet, Same, Ends
<1>3. CASE call = "disconnect"
  <2>1. reconnect \in BOOLEAN /\ ~Steady(s.app)
    BY <1>1, <1>3, Choices
  <2>2. Basic(disconnect(s, reconnect)) /\ Ends(disconnect(s, reconnect), s)
    BY <1>1, <2>1, DisconnectLemma
  <2>3. on_recv(s, call, reconnect) = disconnect(s, reconnect)
    BY <1>3 DEF on_recv
  <2> QED BY <2>1, <2>2, <2>3 DEF Sound, Ends
<1>4. CASE call # "send" /\ call # "disconnect"
  BY <1>1, <1>4 DEF on_recv
<1> QED BY <1>2, <1>3, <1>4

\* A handler of a receive finds its endpoint as it was, less that receive:
\* with a steady application it was the only one, the endpoint is connected
\* and what the receive brought is of the peer.
Handling(s, ok) ==
  /\ s \in Endpoint /\ Told(s) /\ Flushed(s) /\ Shut(s)
  /\ Steady(s.app) /\ ~s.damage =>
       /\ Idle(s) /\ Honest(s) /\ s.kcp \in {0, s.peer} /\ s.state = "CONNECTED"
       /\ ok => s.buf \in {0, s.peer}

LEMMA ReadHandlerLemma ==
  ASSUME NEW s, NEW ok \in BOOLEAN, Handling(s, ok), NEW reconnect \in s.app.reconnects
  PROVE  LET r == read_handler(s, ok, reconnect) IN Sound(r) /\ Ends(r, s)
<1>1. /\ s \in Endpoint /\ ~s.thrown /\ s.state # "CONNECTING" /\ Shut(s) /\ Flushed(s)
      /\ Told(s)
  BY DEF Handling, Told
<1>2. reconnect \in BOOLEAN /\ (Steady(s.app) => ~reconnect)
  BY <1>1, Choices
<1>3. CASE ~ok
  <2> DEFINE r == close(s, reconnect)
  <2>1. /\ Ends(r, s) /\ (~reconnect /\ Idle(s) => One(r))
        /\ s.state = "CONNECTED" \/ ~s.up => Basic(r)
    BY <1>1, <1>2, CloseLemma
  <2>2. Basic(r)
    BY <1>1, <2>1 DEF Told
  <2>3. read_handler(s, ok, reconnect) = r
    BY <1>3 DEF read_handler
  <2> HIDE DEF r
  <2> QED BY <1>2, <2>1, <2>2, <2>3 DEF Sound, Ends, Handling
<1>4. CASE ok /\ s.buf = 0
  <2> DEFINE r == [s EXCEPT !.deaf = TRUE]
  <2>1. r \in Endpoint /\ r.deaf
    BY <1>1 DEF Endpoint
  <2>2. Ends(r, s) /\ r.rd = s.rd /\ r.queue = s.queue
        /\ r.inbox = s.inbox /\ r.out = s.out /\ r.state = s.state /\ r.up = s.up
        /\ r.thrown = s.thrown /\ r.fd = s.fd /\ r.peer = s.peer /\ r.hello = s.hello
        /\ r.kcp = s.kcp
    BY <1>1 DEF Endpoint, Ends
  <2>3. read_handler(s, ok, reconnect) = r
    BY <1>4 DEF read_handler
  <2> HIDE DEF r
  <2>4. Basic(r)
    BY <1>1, <2>1, <2>2 DEF Basic, Told, Waits, Flushed, Shut
  <2>5. Steady(r.app) /\ ~r.damage => One(r)
    BY <2>2 DEF One, Ends, Handling, Idle, Single, Honest, Held, Reads
  <2> QED BY <2>2, <2>3, <2>4, <2>5 DEF Sound
<1>5. CASE ok /\ s.buf # 0
  <2> DEFINE k == [s EXCEPT !.kcp = s.buf]
             t == IF s.kcp = 0 THEN do_write(k) ELSE s
  <2>1. /\ t \in Endpoint /\ Ends(t, s) /\ Flushed(t) /\ Shut(t) /\ Told(t)
        /\ t.state = s.state
        /\ Steady(s.app) /\ ~s.damage =>
             Idle(t) /\ Honest(t) /\ t.kcp \in {0, t.peer}
    <3>1. CASE s.kcp # 0
      BY <1>1, <3>1 DEF Ends, Handling
    <3>2. CASE s.kcp = 0
      <4>1. k \in Endpoint /\ k.kcp = s.buf
        <5>1. s.buf \in Nat
          BY <1>1 DEF Endpoint
        <5> QED BY <1>1, <5>1 DEF Endpoint
      <4>2. /\ Ends(k, s) /\ k.state = s.state /\ k.up = s.up /\ k.thrown = s.thrown
            /\ k.fd = s.fd /\ k.peer = s.peer /\ k.hello = s.hello /\ k.rd = s.rd
            /\ k.inbox = s.inbox /\ k.queue = s.queue
        BY <1>1 DEF Endpoint, Ends
      <4> HIDE DEF k
      <4>3. /\ Shut(k) /\ Told(k) /\ (Idle(s) => Idle(k)) /\ (Honest(s) => Honest(k))
        BY <1>1, <4>2 DEF Shut, Told, Idle, Honest, Reads
      <4> DEFINE w == do_write(k)
      <4>4. w \in Endpoint /\ Quiet(w, k) /\ Flushed(w)
        BY <4>1, WriteLemma
      <4>5. t = w
        BY <3>2
      <4> HIDE DEF w, t
      <4>6. /\ Shut(w) /\ Told(w) /\ (Idle(k) => Idle(w)) /\ (Honest(k) => Honest(w))
        BY <4>3, <4>4, QuietLemma
      <4>7. Ends(w, s) /\ w.state = s.state /\ w.kcp = s.buf /\ w.peer = s.peer
        BY <4>1, <4>2, <4>4 DEF Ends, Quiet, Same
      <4> QED BY <1>5, <4>3, <4>4, <4>5, <4>6, <4>7 DEF Handling
    <3> QED BY <3>1, <3>2
  <2>2. read_handler(s, ok, reconnect) = do_read(t)
    BY <1>5 DEF read_handler
  <2> HIDE DEF t
  <2> DEFINE r == do_read(t)
  <2>3. /\ r \in Endpoint /\ Same(r, t) /\ r.out = t.out /\ ~Idle(r) /\ Shut(r)
        /\ t.fd /\ Idle(t) /\ Honest(t) => Single(r) /\ Honest(r) /\ Held(r)
    BY <2>1, ReadLemma
  <2> HIDE DEF r
  <2>4. Basic(r)
    BY <2>1, <2>3 DEF Basic, Told, Waits, Flushed, Same
  <2>5. Ends(r, s)
    BY <2>1, <2>3 DEF Ends, Same
  <2>6. Steady(r.app) /\ ~r.damage => One(r)
    BY <2>1, <2>3, <2>5 DEF One, Same, Ends, Handling, Told
  <2> QED BY <2>2, <2>4, <2>5, <2>6 DEF Sound, r
<1> QED BY <1>3, <1>4, <1>5

LEMMA UpdateLemma ==
  ASSUME NEW s, Sound(s), NEW sends \in BOOLEAN, NEW got \in BOOLEAN,
         NEW call \in s.app.recv, NEW reconnect \in s.app.reconnects
  PROVE  LET r == update(s, sends, got, call, reconnect)
         IN  Sound(r) /\ r.app = s.app /\ r.gone = s.gone
<1>1. /\ Basic(s) /\ s \in Endpoint /\ ~s.thrown /\ s.state # "CONNECTING" /\ Shut(s)
      /\ Flushed(s) /\ Told(s)
  BY DEF Sound, Basic, Told
<1>2. reconnect \in BOOLEAN
  BY <1>1, Choices
<1>3. CASE s.kcp = 0
  BY <1>3 DEF update
<1>4. CASE s.kcp # 0 /\ sends /\ (s.err \/ ~s.fd)
  <2> DEFINE t == close(s, reconnect)
             r == [t EXCEPT !.damage = TRUE]
  <2>1. Ends(t, s) /\ (s.state = "CONNECTED" \/ ~s.up => Basic(t))
    BY <1>1, <1>2, CloseLemma
  <2>2. Basic(t) /\ t \in Endpoint
    BY <1>1, <2>1 DEF Told, Basic
  <2>3. update(s, sends, got, call, reconnect) = r
    BY <1>4 DEF update
  <2> HIDE DEF t
  <2>4. r \in Endpoint /\ r.damage
    BY <2>2 DEF Endpoint
  <2>5. /\ r.app = t.app /\ r.gone = t.gone /\ r.state = t.state /\ r.up = t.up
        /\ r.thrown = t.thrown /\ r.fd = t.fd /\ r.peer = t.peer /\ r.hello = t.hello
        /\ r.kcp = t.kcp /\ r.out = t.out /\ r.rd = t.rd /\ r.queue = t.queue
        /\ r.inbox = t.inbox /\ r.deaf = t.deaf
    BY <2>2 DEF Endpoint
  <2> HIDE DEF r
  <2>6. Basic(r)
    BY <2>2, <2>4, <2>5 DEF Basic, Told, Waits, Flushed, Shut, Idle, Reads
  <2> QED BY <2>1, <2>3, <2>4, <2>5, <2>6 DEF Sound, Ends
<1>5. CASE s.kcp # 0 /\ ~(sends /\ (s.err \/ ~s.fd))
  <2>1. /\ Sound(on_recv(s, call, reconnect))
        /\ Ends(on_recv(s, call, reconnect), s)
    BY RecvLemma
  <2>2. \/ update(s, sends, got, call, reconnect) = s
        \/ update(s, sends, got, call, reconnect) = on_recv(s, call, reconnect)
    BY <1>5 DEF update
  <2> QED BY <2>1, <2>2 DEF Ends
<1> QED BY <1>3, <1>4, <1>5

LEMMA PollLemma ==
  ASSUME NEW s, Sound(s), NEW res \in BOOLEAN, NEW reconnect \in s.app.reconnects
  PROVE  LET r == poll(s, res, reconnect) IN Sound(r) /\ Ends(r, s)
<1>1. Basic(s) /\ s \in Endpoint /\ Ends(s, s)
  BY DEF Sound, Basic, Ends
<1>2. reconnect \in BOOLEAN
  BY <1>1, Choices
<1>3. CASE s.state = "DISCONNECTED"
  <2> DEFINE r == connect(s, res, reconnect)
  <2>1. Basic(r) /\ Ends(r, s) /\ (Idle(s) => One(r))
    BY <1>1, <1>2, <1>3, ConnectLemma
  <2>2. poll(s, res, reconnect) = r
    BY <1>3 DEF poll
  <2> HIDE DEF r
  <2> QED BY <1>3, <2>1, <2>2 DEF Sound, Ends, One
<1>4. CASE s.state = "CONNECTED"
  BY <1>4, SendLemma DEF poll, Quiet, Same, Ends
<1>5. CASE s.state # "DISCONNECTED" /\ s.state # "CONNECTED"
  BY <1>1, <1>5 DEF poll
<1> QED BY <1>3, <1>4, <1>5

\* A connection that nobody keeps and that has no receive left is destroyed:
\* it is disconnected or deaf.
LEMMA SettleLemma ==
  ASSUME NEW s, Sound(s), ~s.gone
  PROVE  Lives(Settle(s))
<1>1. s \in Endpoint /\ Told(s) /\ Waits(s)
  BY DEF Sound, Basic
<1>2. CASE ~s.app.owned /\ s.rd = 0 /\ Reads(s) = {}
  <2> DEFINE t == socket_close(s)
             r == [t EXCEPT !.gone = TRUE]
  <2>1. t \in Endpoint /\ Kept(t, s)
    BY <1>1, SocketCloseLemma
  <2>2. Settle(s) = r
    BY <1>2 DEF Settle
  <2> HIDE DEF t
  <2>3. r \in Endpoint /\ r.gone
    BY <2>1 DEF Endpoint
  <2>4. r.up = s.up /\ r.deaf = s.deaf /\ r.thrown = s.thrown
    BY <2>1 DEF Endpoint, Kept
  <2> HIDE DEF r
  <2>5. s.up => s.deaf
    BY <1>1, <1>2 DEF Told, Waits, Idle
  <2> QED BY <1>1, <2>2, <2>3, <2>4, <2>5 DEF Lives, Told
<1>3. CASE ~(~s.app.owned /\ s.rd = 0 /\ Reads(s) = {})
  BY <1>1, <1>3 DEF Settle, Lives, Told
<1> QED BY <1>2, <1>3

-----------------------------------------------------------------------------
(* Steps                                                                   *)

\* An entry leaves the queue.  If it is that of a receive, its handler has to
\* restore what the invariant says of receives.
LEMMA PoppedLemma ==
  ASSUME Lives(ep), Running, ep.queue # <<>>
  PROVE  /\ Sound(ep) /\ Popped \in Endpoint /\ Ends(Popped, ep) /\ ~Popped.gone
         /\ Head(ep.queue) \in Item
         /\ Head(ep.queue).op # "read" => Sound(Popped)
         /\ Head(ep.queue).op = "read" => Handling(Popped, Head(ep.queue).ok)
<1> DEFINE q == ep.queue
           t == Tail(q)
           s == Popped
<1>1. ep \in Endpoint /\ Sound(ep) /\ Basic(ep) /\ ~ep.gone
  BY DEF Lives, Sound, Basic, Running
<1>2. q \in Seq(Item) /\ q # <<>>
  BY <1>1 DEF Endpoint
<1>3. s = [ep EXCEPT !.queue = t]
  BY DEF Popped
<1> HIDE DEF q
<1>4. /\ Head(q) \in Item /\ t \in Seq(Item)
      /\ \A i \in ReadsIn(t) : i + 1 \in ReadsIn(q) /\ q[i + 1] = t[i] /\ i \in Nat
      /\ Head(q).op = "read" => 1 \in ReadsIn(q) /\ q[1] = Head(q)
      /\ Head(q).op # "read" /\ ReadsIn(q) # {} => ReadsIn(t) # {}
  BY <1>2, PopLemma
<1> HIDE DEF t, s
<1>5. s \in Endpoint /\ s.queue = t
  BY <1>1, <1>3, <1>4 DEF Endpoint
<1>6. /\ Same(s, ep) /\ s.out = ep.out /\ s.rd = ep.rd /\ s.inbox = ep.inbox
      /\ s.buf = ep.buf
  BY <1>1, <1>3 DEF Endpoint, Same
<1>7. Told(s) /\ Flushed(s) /\ Shut(s)
  BY <1>1, <1>6 DEF Basic, Told, Flushed, Shut, Same
<1>8. Reads(s) = ReadsIn(t) /\ Reads(ep) = ReadsIn(q)
  BY <1>5 DEF Reads, ReadsIn, q
<1>9. ASSUME Head(q).op # "read" PROVE Sound(s)
  <2>1. Waits(s)
    BY <1>1, <1>4, <1>6, <1>8, <1>9 DEF Basic, Waits, Idle, Same
  <2>2. ASSUME Steady(s.app), ~s.damage PROVE One(s)
    <3>1. One(ep)
      BY <1>1, <1>6, <2>2 DEF Sound, Same
    <3>2. Reads(ep) = {} => Reads(s) = {}
      BY <1>4, <1>8
    <3>3. Single(s)
      <4>1. \A i, j \in Reads(s) : i \in Nat /\ j \in Nat /\ i + 1 = j + 1
        BY <1>4, <1>8, <3>1 DEF One, Single
      <4>2. \A i, j \in Reads(s) : i = j
        BY <4>1
      <4> QED BY <1>6, <3>1, <3>2, <4>2 DEF One, Single
    <3>4. Held(s)
      BY <1>4, <1>5, <1>6, <1>8, <3>1 DEF One, Held, Same, q
    <3> QED BY <1>6, <3>1, <3>2, <3>3, <3>4 DEF One, Honest, Idle, Same
  <2> QED BY <1>5, <1>7, <2>1, <2>2 DEF Sound, Basic
<1>10. ASSUME Head(q).op = "read" PROVE Handling(s, Head(q).ok)
  <2>1. ASSUME Steady(s.app), ~s.damage
        PROVE  /\ Idle(s) /\ Honest(s) /\ s.kcp \in {0, s.peer} /\ s.state = "CONNECTED"
               /\ Head(q).ok => s.buf \in {0, s.peer}
    <3>1. One(ep)
      BY <1>1, <1>6, <2>1 DEF Sound, Same
    <3>2. 1 \in Reads(ep) /\ q[1] = Head(q)
      BY <1>4, <1>8, <1>10
    <3>3. Reads(s) = {}
      <4>1. \A i \in Reads(s) : i \in Nat /\ i + 1 = 1
        BY <1>4, <1>8, <3>1, <3>2 DEF One, Single
      <4>2. \A i \in Reads(s) : i = 0 /\ i \in DOMAIN t
        BY <1>8, <4>1 DEF ReadsIn
      <4>3. 0 \notin DOMAIN t
        BY <1>4, LenProperties
      <4> QED BY <4>2, <4>3
    <3>4. s.rd = 0
      <4>1. ep.rd \in Nat
        BY <1>1 DEF Endpoint
      <4> QED BY <1>6, <3>1, <3>2, <4>1 DEF One, Single
    <3>5. s.state = "CONNECTED"
      <4>1. s.state # "DISCONNECTED"
        BY <1>6, <3>1, <3>2 DEF One, Idle, Same
      <4> QED BY <1>5, <1>7, <4>1 DEF Told, Endpoint
    <3>6. Head(q).ok => s.buf \in {0, s.peer}
      BY <1>6, <3>1, <3>2 DEF One, Held, Same, q
    <3> QED BY <1>6, <3>1, <3>3, <3>4, <3>5, <3>6 DEF One, Honest, Idle, Same
  <2> QED BY <1>5, <1>7, <2>1 DEF Handling
<1> QED BY <1>1, <1>4, <1>5, <1>6, <1>9, <1>10 DEF s, q, Ends, Same

\* A waiting receive takes the error or the oldest datagram.
LEMMA TookLemma ==
  ASSUME NEW s \in Endpoint, s.rd > 0, Ready(s)
  PROVE  LET r == [Took(s) EXCEPT !.rd = @ - 1]
         IN  /\ r \in Endpoint /\ Same(r, s) /\ r.out = s.out /\ r.queue = s.queue
             /\ r.rd = s.rd - 1
             /\ Honest(s) => Honest(r) /\ (~s.err => r.buf \in {0, s.peer})
<1> DEFINE n == s.rd - 1
           r == [Took(s) EXCEPT !.rd = @ - 1]
<1>1. s.rd \in Nat /\ s.inbox \in Seq(Nat) /\ n \in Nat
  BY DEF Endpoint
<1>2. CASE s.err
  <2>1. r = [s EXCEPT !.err = FALSE, !.rd = n]
    BY <1>2 DEF Took, Endpoint
  <2> HIDE DEF r, n
  <2>2. r \in Endpoint /\ r.rd = n
    BY <1>1, <2>1 DEF Endpoint
  <2>3. Same(r, s) /\ r.out = s.out /\ r.queue = s.queue /\ r.inbox = s.inbox
    BY <2>1 DEF Endpoint, Same
  <2> QED BY <1>2, <2>2, <2>3 DEF Honest, Same, r, n
<1>3. CASE ~s.err
  <2> DEFINE h == Head(s.inbox)
             l == Tail(s.inbox)
  <2>1. r = [s EXCEPT !.buf = h, !.inbox = l, !.rd = n]
    BY <1>3 DEF Took, Endpoint
  <2>2. s.inbox # <<>>
    BY <1>3 DEF Ready
  <2>3. h \in Nat /\ l \in Seq(Nat)
    BY <1>1, <2>2, HeadTailProperties
  <2>4. ASSUME Honest(s)
        PROVE  h \in {0, s.peer} /\ \A i \in DOMAIN l : l[i] \in {0, s.peer}
    BY <1>1, <2>2, <2>4 DEF Honest
  <2> HIDE DEF r, n, h, l
  <2>5. r \in Endpoint /\ r.rd = n /\ r.buf = h /\ r.inbox = l
    BY <1>1, <2>1, <2>3 DEF Endpoint
  <2>6. Same(r, s) /\ r.out = s.out /\ r.queue = s.queue
    BY <2>1 DEF Endpoint, Same
  <2> QED BY <2>4, <2>5, <2>6 DEF Honest, Same, r, n
<1> QED BY <1>2, <1>3

LEMMA PerformLemma ==
  ASSUME Lives(ep), PerformIO PROVE Lives(ep')
<1> DEFINE s == Popped
           t == [Took(s) EXCEPT !.rd = @ - 1]
           u == IF t.rd > 0 /\ Ready(t)
                THEN Post([Took(t) EXCEPT !.rd = @ - 1], Entry("read", ~t.err))
                ELSE t
<1>1. Running /\ ep.queue # <<>> /\ Head(ep.queue).op = "event"
  BY DEF PerformIO, NextIs
<1>2. PICK reconnect \in ep.app.reconnects :
        ep' = IF s.rd = 0 \/ ~Ready(s) THEN s
              ELSE Settle(read_handler(u, ~s.err, reconnect))
  BY DEF PerformIO
<1>3. Sound(s) /\ ~s.gone /\ s.app = ep.app
  BY <1>1, PoppedLemma DEF Ends
<1>4. /\ s \in Endpoint /\ s.rd \in Nat /\ s.err \in BOOLEAN /\ Told(s) /\ Flushed(s)
      /\ Shut(s)
  BY <1>3 DEF Sound, Basic, Endpoint
<1> HIDE DEF s
<1>5. CASE s.rd = 0 \/ ~Ready(s)
  BY <1>2, <1>3, <1>4, <1>5 DEF Lives, Told
<1>6. CASE s.rd > 0 /\ Ready(s)
  <2>1. /\ t \in Endpoint /\ Same(t, s) /\ t.out = s.out /\ t.queue = s.queue
        /\ t.rd = s.rd - 1
        /\ Honest(s) => Honest(t) /\ (~s.err => t.buf \in {0, s.peer})
    BY <1>4, <1>6, TookLemma
  <2>2. s.fd /\ (s.hello = "sent" => s.peer = 0)
    BY <1>4, <1>6 DEF Shut
  <2> HIDE DEF t
  <2>3. /\ u \in Endpoint /\ Same(u, s) /\ u.out = s.out /\ (t.rd = 0 => u = t)
    <3>1. CASE t.rd > 0 /\ Ready(t)
      <4> DEFINE v == [Took(t) EXCEPT !.rd = @ - 1]
                 e == Entry("read", ~t.err)
                 q == Append(v.queue, e)
      <4>1. v \in Endpoint /\ Same(v, t) /\ v.out = t.out
        BY <2>1, <3>1, TookLemma
      <4>2. u = [v EXCEPT !.queue = q]
        BY <3>1 DEF Post
      <4> HIDE DEF v, u
      <4>3. q \in Seq(Item)
        <5>1. e \in Item
          BY Entries
        <5>2. v.queue \in Seq(Item)
          BY <4>1 DEF Endpoint
        <5> HIDE DEF e
        <5> QED BY <5>1, <5>2, AppendLemma
      <4> HIDE DEF q
      <4>4. u \in Endpoint
        BY <4>1, <4>2, <4>3 DEF Endpoint
      <4>5. Same(u, v) /\ u.out = v.out
        BY <4>1, <4>2 DEF Endpoint, Same
      <4> QED BY <2>1, <3>1, <4>1, <4>4, <4>5 DEF Same
    <3>2. CASE ~(t.rd > 0 /\ Ready(t))
      BY <2>1, <3>2
    <3> QED BY <3>1, <3>2
  <2> HIDE DEF u
  <2>4. Told(u) /\ Flushed(u) /\ Shut(u)
    BY <1>4, <2>2, <2>3 DEF Told, Flushed, Shut, Same
  <2>5. ASSUME Steady(u.app), ~u.damage
        PROVE  /\ Idle(u) /\ Honest(u) /\ u.kcp \in {0, u.peer} /\ u.state = "CONNECTED"
               /\ ~s.err => u.buf \in {0, u.peer}
    <3>1. One(s)
      BY <1>3, <2>3, <2>5 DEF Sound, Same
    <3>2. s.rd = 1 /\ Reads(s) = {}
      BY <1>4, <1>6, <3>1 DEF One, Single
    <3>3. u = t
      BY <2>1, <2>3, <3>2
    <3>4. Idle(u)
      BY <2>1, <3>2, <3>3 DEF Idle, Reads
    <3>5. u.state = "CONNECTED"
      <4>1. s.state # "DISCONNECTED"
        BY <3>1, <3>2 DEF One, Idle
      <4> QED BY <1>4, <2>3, <4>1 DEF Told, Endpoint, Same
    <3> QED BY <2>1, <2>3, <3>1, <3>3, <3>4, <3>5 DEF One, Same
  <2>6. Handling(u, ~s.err)
    BY <2>3, <2>4, <2>5 DEF Handling
  <2> DEFINE w == read_handler(u, ~s.err, reconnect)
  <2>7. Sound(w) /\ Ends(w, u)
    <3>1. reconnect \in u.app.reconnects
      BY <1>3, <2>3 DEF Same
    <3> QED BY <1>4, <2>6, <3>1, ReadHandlerLemma
  <2>8. ep' = Settle(w)
    BY <1>2, <1>6
  <2>9. ~w.gone
    BY <1>3, <2>3, <2>7 DEF Ends, Same
  <2> HIDE DEF w
  <2> QED BY <2>7, <2>8, <2>9, SettleLemma
<1> QED BY <1>4, <1>5, <1>6

LEMMA TickLemma ==
  ASSUME Lives(ep), RunTick PROVE Lives(ep')
<1>1. Running /\ ep.queue # <<>> /\ Head(ep.queue).op = "tick"
  BY DEF RunTick, NextIs
<1> DEFINE p == Popped
<1>2. PICK sends \in BOOLEAN, got \in BOOLEAN, call \in ep.app.recv,
           then \in ep.app.tick, res \in BOOLEAN, reconnect \in ep.app.reconnects :
        LET s == update(p, sends, got, call, reconnect)
        IN  ep' = Settle(
              IF s.damage THEN s
              ELSE CASE then = "poll"       -> poll(s, res, reconnect)
                     [] then = "send"       -> send(s)
                     [] then = "disconnect" -> disconnect(s, reconnect)
                     [] OTHER               -> s)
  BY DEF RunTick
<1>3. Sound(p) /\ ~p.gone /\ p.app = ep.app
  BY <1>1, PoppedLemma DEF Ends
<1> HIDE DEF p
<1> DEFINE s == update(p, sends, got, call, reconnect)
           r == IF s.damage THEN s
                ELSE CASE then = "poll"       -> poll(s, res, reconnect)
                       [] then = "send"       -> send(s)
                       [] then = "disconnect" -> disconnect(s, reconnect)
                       [] OTHER               -> s
<1>4. Sound(s) /\ s.app = ep.app /\ ~s.gone
  BY <1>3, UpdateLemma
<1>5. ep' = Settle(r)
  BY <1>2
<1> HIDE DEF s
<1>6. s \in Endpoint /\ Basic(s)
  BY <1>4 DEF Sound, Basic
<1>7. Sound(r) /\ r.gone = s.gone
  <2>1. reconnect \in s.app.reconnects
    BY <1>4
  <2>2. CASE s.damage
    BY <1>4, <2>2
  <2>3. CASE ~s.damage /\ then = "poll"
    BY <1>4, <2>1, <2>3, PollLemma DEF Ends
  <2>4. CASE ~s.damage /\ then = "send"
    BY <1>4, <2>4, SendLemma DEF Quiet, Same
  <2>5. CASE ~s.damage /\ then = "disconnect"
    <3>1. reconnect \in BOOLEAN /\ ~Steady(s.app)
      BY <1>4, <1>6, <2>1, <2>5, Choices
    <3>2. Basic(disconnect(s, reconnect)) /\ Ends(disconnect(s, reconnect), s)
      BY <1>6, <3>1, DisconnectLemma
    <3>3. r = disconnect(s, reconnect)
      BY <2>5
    <3> HIDE DEF r
    <3> QED BY <3>1, <3>2, <3>3 DEF Sound, Ends
  <2>6. CASE ~s.damage /\ then \notin {"poll", "send", "disconnect"}
    BY <1>4, <2>6
  <2> QED BY <2>2, <2>3, <2>4, <2>5, <2>6
<1> HIDE DEF r
<1> QED BY <1>4, <1>5, <1>7, SettleLemma

\* The network and the other side change the kernel's end of the socket; the
\* entries they post are not receives.
LEMMA OutsideLemma ==
  ASSUME Lives(ep),
         EpollWait \/ TimerExpires \/ PeerAccepts \/ HelloLost \/ PeerSends
           \/ HelloRepeated \/ PeerUnreachable
  PROVE  Lives(ep')
<1>1. ep \in Endpoint /\ Running /\ ~ep.gone /\ ~ep.thrown /\ Sound(ep) /\ Basic(ep)
  BY DEF Lives, Sound, Basic, Running, EpollWait, TimerExpires, PeerAccepts, HelloLost,
         PeerSends, HelloRepeated, PeerUnreachable
<1>2. ASSUME NEW op \in {"event", "tick"}, ep' = Post(ep, Entry(op, TRUE))
      PROVE  Lives(ep')
  <2> DEFINE e == Entry(op, TRUE)
             q == Append(ep.queue, e)
  <2>1. ep.queue \in Seq(Item) /\ e \in Item /\ e.op # "read"
    BY <1>1, Entries DEF Endpoint
  <2> HIDE DEF e
  <2>2. /\ q \in Seq(Item) /\ ReadsIn(q) = ReadsIn(ep.queue)
        /\ \A i \in DOMAIN ep.queue : q[i] = ep.queue[i]
    BY <2>1, AppendLemma
  <2>3. ep' = [ep EXCEPT !.queue = q]
    BY <1>2 DEF Post, e
  <2> HIDE DEF q
  <2>4. ep' \in Endpoint /\ ep'.queue = q
    BY <1>1, <2>2, <2>3 DEF Endpoint
  <2>5. /\ Same(ep', ep) /\ ep'.out = ep.out /\ ep'.rd = ep.rd /\ ep'.inbox = ep.inbox
        /\ ep'.buf = ep.buf
    BY <1>1, <2>3 DEF Endpoint, Same
  <2>6. Reads(ep') = Reads(ep) /\ \A i \in Reads(ep) : ep'.queue[i] = ep.queue[i]
    BY <2>2, <2>4 DEF Reads, ReadsIn
  <2>7. Basic(ep')
    BY <1>1, <2>4, <2>5, <2>6 DEF Basic, Told, Waits, Idle, Flushed, Shut, Same
  <2>8. One(ep) => One(ep')
    BY <2>5, <2>6 DEF One, Single, Honest, Held, Idle, Same
  <2> QED BY <1>1, <2>4, <2>5, <2>7, <2>8 DEF Lives, Sound, Same
<1>3. ASSUME NEW l \in Seq(Nat), ep' = [ep EXCEPT !.inbox = l], ep.fd,
             Honest(ep) => \A i \in DOMAIN l : l[i] \in {0, ep.peer}
      PROVE  Lives(ep')
  <2>1. ep' \in Endpoint /\ ep'.inbox = l
    BY <1>1, <1>3 DEF Endpoint
  <2>2. /\ Same(ep', ep) /\ ep'.out = ep.out /\ ep'.rd = ep.rd /\ ep'.queue = ep.queue
        /\ ep'.buf = ep.buf
    BY <1>1, <1>3 DEF Endpoint, Same
  <2>3. Basic(ep')
    BY <1>1, <1>3, <2>1, <2>2 DEF Basic, Told, Waits, Idle, Reads, Flushed, Shut, Same
  <2>4. One(ep) => One(ep')
    BY <1>3, <2>1, <2>2 DEF One, Single, Honest, Held, Idle, Reads, Same
  <2> QED BY <1>1, <2>1, <2>2, <2>3, <2>4 DEF Lives, Sound, Same
<1>4. ASSUME NEW c \in Nat, ep.inbox \in Seq(Nat), Honest(ep), c \in {0, ep.peer}
      PROVE  LET l == Append(ep.inbox, c)
             IN  \A i \in DOMAIN l : l[i] \in {0, ep.peer}
  BY <1>4, AppendProperties, LenProperties DEF Honest
<1>5. ep.inbox \in Seq(Nat) /\ ep.peer \in Nat
  BY <1>1 DEF Endpoint
<1>6. CASE EpollWait
  BY <1>2, <1>6 DEF EpollWait
<1>7. CASE TimerExpires
  BY <1>2, <1>7 DEF TimerExpires
<1>8. CASE PeerSends
  <2>1. ep.peer # 0 /\ ep' = [ep EXCEPT !.inbox = Append(ep.inbox, ep.peer)]
    BY <1>8 DEF PeerSends
  <2>2. ep.fd
    BY <1>1, <2>1 DEF Basic, Shut
  <2>3. Append(ep.inbox, ep.peer) \in Seq(Nat)
    BY <1>5, AppendProperties
  <2> QED BY <1>3, <1>4, <1>5, <2>1, <2>2, <2>3
<1>9. CASE HelloRepeated
  <2>1. ep.fd /\ ep' = [ep EXCEPT !.inbox = Append(ep.inbox, 0)]
    BY <1>9 DEF HelloRepeated
  <2>2. Append(ep.inbox, 0) \in Seq(Nat)
    BY <1>5, AppendProperties
  <2> QED BY <1>3, <1>4, <1>5, <2>1, <2>2
<1>10. CASE HelloLost
  <2>1. ep' = [ep EXCEPT !.hello = "lost"]
    BY <1>10 DEF HelloLost
  <2>2. ep' \in Endpoint /\ ep'.hello = "lost"
    BY <1>1, <2>1 DEF Endpoint
  <2>3. /\ Kept(ep', ep) /\ ep'.fd = ep.fd /\ ep'.peer = ep.peer /\ ep'.inbox = ep.inbox
        /\ ep'.rd = ep.rd /\ ep'.queue = ep.queue /\ ep'.buf = ep.buf
    BY <1>1, <2>1 DEF Endpoint, Kept
  <2>4. Basic(ep')
    BY <1>1, <2>2, <2>3 DEF Basic, Told, Waits, Idle, Reads, Flushed, Shut, Kept
  <2>5. One(ep) => One(ep')
    BY <2>3 DEF One, Single, Honest, Held, Idle, Reads, Kept
  <2> QED BY <1>1, <2>2, <2>3, <2>4, <2>5 DEF Lives, Sound, Kept
<1>11. CASE PeerUnreachable
  <2>1. ep' = [ep EXCEPT !.err = TRUE]
    BY <1>11 DEF PeerUnreachable
  <2>2. ep' \in Endpoint
    BY <1>1, <2>1 DEF Endpoint
  <2>3. /\ Quiet(ep', ep) /\ ep'.out = ep.out
    BY <1>1, <2>1 DEF Endpoint, Quiet, Same
  <2>4. Told(ep') /\ Waits(ep') /\ Shut(ep') /\ (One(ep) => One(ep'))
    BY <1>1, <2>3, QuietLemma DEF Basic
  <2>5. Flushed(ep')
    BY <1>1, <2>3 DEF Basic, Flushed, Quiet, Same
  <2> QED BY <1>1, <2>2, <2>3, <2>4, <2>5 DEF Lives, Sound, Basic, Quiet, Same
<1>12. CASE PeerAccepts
  <2>1. PICK conv \in 1..MaxConv : ep' = [ep EXCEPT !.hello = "taken", !.peer = conv]
    BY <1>12 DEF PeerAccepts
  <2>2. ep.hello = "sent" /\ ep.peer = 0 /\ ep.fd
    BY <1>1, <1>12 DEF PeerAccepts, Basic, Shut
  <2>3. ep' \in Endpoint /\ ep'.hello = "taken" /\ ep'.peer = conv
    <3>1. conv \in Nat
      BY KcpConstants
    <3> QED BY <1>1, <2>1, <3>1 DEF Endpoint
  <2>4. /\ Kept(ep', ep) /\ ep'.fd = ep.fd /\ ep'.inbox = ep.inbox /\ ep'.buf = ep.buf
        /\ ep'.rd = ep.rd /\ ep'.queue = ep.queue
    BY <1>1, <2>1 DEF Endpoint, Kept
  <2>5. Shut(ep')
    BY <1>1, <2>2, <2>3, <2>4 DEF Basic, Shut
  <2>6. Told(ep') /\ Waits(ep') /\ Flushed(ep')
    BY <1>1, <2>4 DEF Basic, Told, Waits, Idle, Reads, Flushed, Kept
  <2>7. One(ep) => One(ep')
    BY <2>2, <2>3, <2>4 DEF One, Single, Honest, Held, Idle, Reads, Kept
  <2> QED BY <1>1, <2>3, <2>4, <2>5, <2>6, <2>7 DEF Lives, Sound, Basic, Kept
<1> QED BY <1>6, <1>7, <1>8, <1>9, <1>10, <1>11, <1>12

LEMMA NextInductive == Inductive /\ [Next]_vars => Inductive'
<1> SUFFICES ASSUME Lives(ep), [Next]_vars PROVE Lives(ep')
  BY DEF Inductive
<1>1. CASE PerformIO
  BY <1>1, PerformLemma
<1>2. CASE RunRead
  <2>1. Running /\ ep.queue # <<>> /\ Head(ep.queue).op = "read"
    BY <1>2 DEF RunRead, NextIs
  <2> DEFINE s == Popped
             ok == Head(ep.queue).ok
  <2>2. PICK reconnect \in ep.app.reconnects : ep' = Settle(read_handler(s, ok, reconnect))
    BY <1>2 DEF RunRead
  <2>3. Handling(s, ok) /\ s.app = ep.app /\ ~s.gone /\ ok \in BOOLEAN
    BY <2>1, PoppedLemma DEF Ends, Item
  <2> HIDE DEF s, ok
  <2> DEFINE r == read_handler(s, ok, reconnect)
  <2>4. Sound(r) /\ Ends(r, s)
    BY <2>3, ReadHandlerLemma
  <2> HIDE DEF r
  <2> QED BY <2>2, <2>3, <2>4, SettleLemma DEF Ends, r
<1>3. CASE RunStale
  <2>1. /\ Running /\ ep.queue # <<>> /\ Head(ep.queue).op = "stale"
        /\ ep' = Popped
    BY <1>3 DEF RunStale, NextIs
  <2>2. Sound(Popped)
    BY <2>1, PoppedLemma
  <2>3. ~Popped.gone /\ Popped \in Endpoint
    BY <2>1, PoppedLemma
  <2> QED BY <2>1, <2>2, <2>3 DEF Lives, Sound, Basic, Told
<1>4. CASE RunTick
  BY <1>4, TickLemma
<1>5. CASE UNCHANGED vars
  BY <1>5 DEF vars
<1> QED BY <1>1, <1>2, <1>3, <1>4, <1>5, OutsideLemma DEF Next

LEMMA InitInductive == Init => Inductive
<1> SUFFICES ASSUME Init PROVE Lives(ep)
  BY DEF Inductive
<1>1. PICK app \in Apps :
        \/ ep = Settle(connect(Fresh(app), TRUE, FALSE))
        \/ ep = connected([Fresh(app) EXCEPT !.fd = TRUE, !.kcp = 1, !.peer = 1,
                                             !.hello = "taken"])
  BY DEF Init
<1>2. app \in App
  BY KcpConstants
<1>3. <<>> \in Seq(Item) /\ <<>> \in Seq(Nat)
  OBVIOUS
<1> DEFINE f == Fresh(app)
<1>4. f \in Endpoint
  BY <1>2, <1>3 DEF Fresh, Endpoint
<1>5. /\ f.state = "DISCONNECTED" /\ ~f.up /\ f.kcp = 0 /\ ~f.fd /\ f.rd = 0
      /\ f.inbox = <<>> /\ f.queue = <<>> /\ f.hello = "none" /\ f.peer = 0
      /\ ~f.thrown /\ ~f.gone
  BY DEF Fresh
<1> HIDE DEF f
<1>6. Idle(f)
  BY <1>5 DEF Idle, Reads
<1>7. CASE ep = Settle(connect(f, TRUE, FALSE))
  <2> DEFINE r == connect(f, TRUE, FALSE)
  <2>1. Basic(f)
    BY <1>4, <1>5 DEF Basic, Told, Waits, Flushed, Shut
  <2>2. Basic(r) /\ Ends(r, f) /\ One(r)
    BY <1>5, <1>6, <2>1, ConnectLemma
  <2> HIDE DEF r
  <2> QED BY <1>5, <1>7, <2>2, SettleLemma DEF r, Sound, Ends
<1>8. CASE ep = connected([f EXCEPT !.fd = TRUE, !.kcp = 1, !.peer = 1, !.hello = "taken"])
  <2> DEFINE s == [f EXCEPT !.fd = TRUE, !.kcp = 1, !.peer = 1, !.hello = "taken"]
  <2>1. s \in Endpoint /\ s.fd /\ s.kcp = 1 /\ s.peer = 1 /\ s.hello = "taken"
    BY <1>4 DEF Endpoint
  <2>2. /\ s.state = f.state /\ s.thrown = f.thrown /\ s.gone = f.gone /\ s.rd = f.rd
        /\ s.queue = f.queue /\ s.inbox = f.inbox
    BY <1>4 DEF Endpoint
  <2> HIDE DEF s
  <2>3. Shut(s) /\ Idle(s) /\ Honest(s)
    BY <1>5, <1>6, <2>1, <2>2 DEF Shut, Idle, Honest, Reads
  <2> DEFINE r == connected(s)
  <2>4. Basic(r) /\ Ends(r, s) /\ One(r)
    BY <1>5, <2>1, <2>2, <2>3, ConnectedLemma
  <2>5. ep = r
    BY <1>8 DEF s
  <2> HIDE DEF r
  <2> QED BY <1>5, <2>2, <2>4, <2>5 DEF Lives, Sound, Basic, Told, Ends
<1> QED BY <1>1, <1>7, <1>8 DEF f

-----------------------------------------------------------------------------

\* The inductive invariant holds of every behaviour.
THEOREM InductiveHolds == Spec => []Inductive
BY InitInductive, NextInductive, PTL DEF Spec

\* on_connected and on_disconnected come in pairs and no connect() opens an
\* open socket, for every application, also one that disconnects and
\* reconnects from within the callbacks.
THEOREM PairedHolds == Spec => []Paired
<1>1. Inductive => Paired
  BY DEF Inductive, Lives, Sound, Basic, Told, Paired
<1> QED BY <1>1, InductiveHolds, PTL

\* A session that only its receive keeps alive is not destroyed before the
\* application is told, unless a repeated hello ended the receive.
THEOREM ToldFirstHolds == Spec => []ToldFirst
<1>1. Inductive => ToldFirst
  BY DEF Inductive, Lives, ToldFirst
<1> QED BY <1>1, InductiveHolds, PTL

\* The endpoint takes up no conversation of an earlier socket, and packets
\* wait in send_buff_ only while there is none.
THEOREM ConvOfPeerHolds == Spec => []ConvOfPeer
<1>1. Inductive => ConvOfPeer
  <2> SUFFICES ASSUME Inductive PROVE ConvOfPeer
    OBVIOUS
  <2>1. ASSUME Running PROVE Sound(ep) /\ ep \in Endpoint
    BY <2>1 DEF Inductive, Lives, Running
  <2>2. ASSUME Calm, Running, ep.kcp # 0 PROVE ep.fd /\ ep.kcp = ep.peer
    <3>1. One(ep) /\ Told(ep)
      BY <2>1, <2>2 DEF Calm, Running, Sound, Basic, Steady
    <3>2. ep.state \in {"DISCONNECTED", "CONNECTED"}
      BY <2>1, <2>2, <3>1 DEF Endpoint, Told
    <3> QED BY <2>2, <3>1, <3>2 DEF One, Told
  <2>3. ASSUME Running, ep.out > 0 PROVE ep.kcp = 0
    BY <2>1, <2>3 DEF Sound, Basic, Flushed
  <2> QED BY <2>2, <2>3 DEF ConvOfPeer
<1> QED BY <1>1, InductiveHolds, PTL

\* However receives, errors, timers and reconnects of the polling client are
\* interleaved, a connected endpoint that is not deaf has exactly one receive.
THEOREM OneReaderHolds == Spec => []OneReader
<1>1. Inductive => OneReader
  <2> SUFFICES ASSUME Inductive, Calm, Running, ep.state = "CONNECTED", ~ep.deaf
               PROVE  \/ ep.rd = 1 /\ Reads(ep) = {}
                      \/ ep.rd = 0 /\ \E i \in DOMAIN ep.queue : Reads(ep) = {i}
    BY DEF OneReader
  <2>1. Sound(ep) /\ ep \in Endpoint
    BY DEF Inductive, Lives, Running
  <2>2. Single(ep) /\ ~Idle(ep)
    BY <2>1 DEF Calm, Running, Sound, Basic, Steady, One, Waits
  <2>3. ep.rd \in {0, 1}
    BY <2>1, <2>2 DEF Single, Endpoint
  <2>4. CASE ep.rd = 1
    BY <2>2, <2>4 DEF Single
  <2>5. CASE ep.rd = 0
    <3>1. PICK i \in Reads(ep) : TRUE
      BY <2>2, <2>5 DEF Idle
    <3>2. Reads(ep) = {i} /\ i \in DOMAIN ep.queue
      BY <2>2, <3>1 DEF Single, Reads
    <3> QED BY <2>5, <3>2
  <2> QED BY <2>3, <2>4, <2>5
<1> QED BY <1>1, InductiveHolds, PTL
=============================================================================
