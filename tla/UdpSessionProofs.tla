-------------------------- MODULE UdpSessionProofs --------------------------
(***************************************************************************)
(* Proofs about UdpSession, for every application, bound and number of     *)
(* faults.  The invariant is a predicate of an endpoint record, in three   *)
(* layers: Core and Waits hold of every application; Nice holds until      *)
(* connect() is called within on_read or a receive of an earlier socket is *)
(* handled on a later one; Polled holds of the application that only       *)
(* polls, and is about the order of the handlers in the queue.             *)
(***************************************************************************)
EXTENDS UdpSession, SequenceTheorems, TLAPS

Item == [op : {"event", "stale", "read", "tick"}, ok : BOOLEAN, own : BOOLEAN,
         old : BOOLEAN]
Place == {"front", "behind"}

Endpoint ==
  [app : App, state : {"DISCONNECTED", "CONNECTING", "CONNECTED"}, up : BOOLEAN,
   fd : BOOLEAN, err : BOOLEAN, inbox : Nat, rd : Seq(Place), holding : BOOLEAN,
   queue : Seq(Item), crossed : BOOLEAN, misread : BOOLEAN, late : BOOLEAN,
   gone : BOOLEAN, thrown : BOOLEAN]

\* The positions in a queue of the receives of an earlier socket that brought
\* a datagram, of those of the present one, of the receives that failed, of the
\* descriptor's entries and of the timer's.
OldOk(q)  == {i \in DOMAIN q : q[i].op = "read" /\ q[i].ok /\ q[i].old}
NewOk(q)  == {i \in DOMAIN q : q[i].op = "read" /\ q[i].ok /\ ~q[i].old}
Bad(q)    == {i \in DOMAIN q : q[i].op = "read" /\ ~q[i].ok}
Events(q) == {i \in DOMAIN q : q[i].op = "event"}
Ticks(q)  == {i \in DOMAIN q : q[i].op = "tick"}

Before(I, J) == \A i \in I, j \in J : i < j

\* A closed socket has nothing in the kernel and no entry of its own.
Shut(s) ==
  ~s.fd => /\ s.inbox = 0 /\ ~s.err /\ s.rd = <<>>
           /\ Events(s.queue) = {} /\ NewOk(s.queue) = {}

\* CONNECTED is what the application was told and means an open socket;
\* receives of earlier sockets are handled before anything of this one.
Core(s) ==
  /\ s \in Endpoint /\ ~s.thrown /\ s.state # "CONNECTING"
  /\ (s.up <=> s.state = "CONNECTED") /\ (s.fd <=> s.state = "CONNECTED")
  /\ Shut(s)
  /\ Before(OldOk(s.queue), Events(s.queue) \cup NewOk(s.queue))

\* A connected endpoint has a receive of its socket.
Waits(s) ==
  s.state = "CONNECTED" =>
    s.rd # <<>> \/ \E i \in Reads(s) : ~s.queue[i].old

\* One receive at most has not failed, and every datagram that is still to be
\* handled stands where on_read looks.
Tidy(s) ==
  /\ ~s.misread /\ s.rd \in {<<>>, <<"front">>}
  /\ s.rd # <<>> => NewOk(s.queue) = {}
  /\ \A i, j \in NewOk(s.queue) : i = j
  /\ \A i \in OldOk(s.queue) \cup NewOk(s.queue) : s.queue[i].own
Nice(s) == ~s.crossed /\ ~s.late => Tidy(s)

PollsOnly(app) == app.tick = {"poll"} /\ app.reconnects = {FALSE} /\ app.owned

\* A tick, which may connect, comes after every receive of an earlier socket;
\* a failed one comes before what the next socket brings.
InOrder(s) ==
  /\ ~s.crossed /\ ~s.late
  /\ s.state = "CONNECTED" => OldOk(s.queue) = {}
  /\ Before(OldOk(s.queue), Ticks(s.queue))
  /\ \A i, j \in Ticks(s.queue) : i = j
  /\ s.rd # <<>> => Before(Bad(s.queue), Events(s.queue))
  /\ NewOk(s.queue) # {} => Bad(s.queue) = {}
Polled(s) == PollsOnly(s.app) => InOrder(s)

Sound(s) == Core(s) /\ ~s.holding /\ Waits(s) /\ Nice(s) /\ Polled(s)

\* The invariant of an endpoint between two steps.
Lives(s) ==
  /\ s \in Endpoint /\ ~s.thrown /\ Nice(s) /\ Polled(s)
  /\ s.gone => ~s.up
  /\ ~s.gone => Sound(s)

Inductive == Lives(ep)

-----------------------------------------------------------------------------
(* The handler queue                                                       *)

\* A function on 1..n is a sequence.
LEMMA FunctionIsSeq ==
  ASSUME NEW S, NEW n \in Nat, NEW f \in [1..n -> S]
  PROVE  f \in Seq(S)
BY SeqDef

\* Entries have positions.
LEMMA Positions ==
  ASSUME NEW q \in Seq(Item)
  PROVE  /\ Len(q) \in Nat /\ DOMAIN q = 1..Len(q)
         /\ \A i \in DOMAIN q : q[i] \in Item
BY LenProperties, ElementOfSeq

\* Posting one entry.
LEMMA AppendLemma ==
  ASSUME NEW q \in Seq(Item), NEW item \in Item
  PROVE  LET r == Append(q, item)
             n == Len(q) + 1
         IN  /\ r \in Seq(Item) /\ Len(r) = n
             /\ DOMAIN r = DOMAIN q \cup {n} /\ n \notin DOMAIN q /\ r[n] = item
             /\ \A i \in DOMAIN q : r[i] = q[i] /\ i < n
<1> DEFINE r == Append(q, item)
           n == Len(q) + 1
<1>1. /\ r \in Seq(Item) /\ Len(r) = n /\ r[n] = item
      /\ \A i \in 1..Len(q) : r[i] = q[i]
  BY AppendProperties
<1>2. DOMAIN q = 1..Len(q) /\ DOMAIN r = 1..n /\ Len(q) \in Nat
  BY <1>1, LenProperties
<1> HIDE DEF r
<1>3. DOMAIN r = DOMAIN q \cup {n} /\ n \notin DOMAIN q
  BY <1>2
<1>4. \A i \in DOMAIN q : r[i] = q[i] /\ i < n
  BY <1>1, <1>2
<1> QED BY <1>1, <1>3, <1>4 DEF r

\* Posting several.
LEMMA ConcatLemma ==
  ASSUME NEW q \in Seq(Item), NEW a \in Seq(Item)
  PROVE  LET r == q \o a
         IN  /\ r \in Seq(Item) /\ DOMAIN q \subseteq DOMAIN r
             /\ \A i \in DOMAIN q : r[i] = q[i]
             /\ \A i \in DOMAIN r \ DOMAIN q : \E k \in DOMAIN a : r[i] = a[k]
<1> DEFINE r == q \o a
<1>1. /\ r \in Seq(Item) /\ Len(r) = Len(q) + Len(a)
      /\ \A i \in 1..Len(q) + Len(a) :
           r[i] = IF i <= Len(q) THEN q[i] ELSE a[i - Len(q)]
  BY ConcatProperties
<1>2. /\ DOMAIN q = 1..Len(q) /\ DOMAIN a = 1..Len(a) /\ DOMAIN r = 1..Len(r)
      /\ Len(q) \in Nat /\ Len(a) \in Nat
  BY <1>1, LenProperties
<1> HIDE DEF r
<1>3. DOMAIN q \subseteq DOMAIN r /\ \A i \in DOMAIN q : r[i] = q[i]
  BY <1>1, <1>2
<1>4. ASSUME NEW i \in DOMAIN r \ DOMAIN q PROVE \E k \in DOMAIN a : r[i] = a[k]
  <2>1. i - Len(q) \in DOMAIN a /\ r[i] = a[i - Len(q)]
    BY <1>1, <1>2
  <2> QED BY <2>1
<1> QED BY <1>1, <1>3, <1>4 DEF r

\* What is left when the first entry is taken.
LEMMA PopLemma ==
  ASSUME NEW q \in Seq(Item), q # <<>>
  PROVE  LET t == Tail(q)
         IN  /\ Head(q) \in Item /\ t \in Seq(Item)
             /\ 1 \in DOMAIN q /\ q[1] = Head(q)
             /\ \A i \in DOMAIN t : i \in Nat \ {0} /\ i + 1 \in DOMAIN q /\ q[i + 1] = t[i]
             /\ \A i \in DOMAIN q :
                  i \in Nat /\ (i = 1 \/ (i - 1 \in DOMAIN t /\ t[i - 1] = q[i]))
<1> DEFINE t == Tail(q)
<1>1. /\ Head(q) \in Item /\ t \in Seq(Item)
      /\ Len(t) = Len(q) - 1
      /\ \A i \in 1..Len(t) : t[i] = q[i + 1]
  BY HeadTailProperties
<1>2. Len(q) \in Nat \ {0} /\ DOMAIN q = 1..Len(q)
  BY EmptySeq, LenProperties
<1>3. DOMAIN t = 1..Len(q) - 1
  BY <1>1, LenProperties
<1>4. Head(q) = q[1] /\ 1 \in DOMAIN q
  BY <1>2
<1> HIDE DEF t
<1>5. \A i \in DOMAIN t : i \in Nat \ {0} /\ i + 1 \in DOMAIN q /\ q[i + 1] = t[i]
  BY <1>1, <1>2, <1>3
<1>6. \A i \in DOMAIN q :
        i \in Nat /\ (i = 1 \/ (i - 1 \in DOMAIN t /\ t[i - 1] = q[i]))
  BY <1>1, <1>2, <1>3
<1> QED BY <1>1, <1>4, <1>5, <1>6 DEF t

\* Entries that are queued.
LEMMA Entries ==
  /\ \A op \in {"event", "stale", "tick"} :
       /\ Entry(op) \in Item /\ Entry(op).op = op
  /\ \A at \in Place :
       /\ Received(at) \in Item /\ Received(at).op = "read" /\ Received(at).ok
       /\ ~Received(at).old /\ (Received(at).own <=> at = "front")
  /\ Failed \in Item /\ Failed.op = "read" /\ ~Failed.ok /\ ~Failed.old
BY DEF Entry, Received, Failed, Item, Place

-----------------------------------------------------------------------------
(* The socket                                                              *)

\* What a receive and close() of the udp socket leave alone.
Same(r, s) ==
  /\ r.app = s.app /\ r.state = s.state /\ r.up = s.up /\ r.holding = s.holding
  /\ r.crossed = s.crossed /\ r.misread = s.misread /\ r.late = s.late
  /\ r.gone = s.gone /\ r.thrown = s.thrown

\* What becomes of the queue q when the socket is closed.
Aged(w, q) ==
  /\ Events(w) = {} /\ NewOk(w) = {} /\ Ticks(w) = Ticks(q)
  /\ OldOk(w) = OldOk(q) \cup NewOk(q)
  /\ \A i \in OldOk(w) : w[i].own = q[i].own

LEMMA SocketCloseLemma ==
  ASSUME NEW s \in Endpoint, Shut(s)
  PROVE  LET r == socket_close(s)
         IN  /\ r \in Endpoint /\ Same(r, s) /\ ~r.fd /\ Shut(r)
             /\ r.rd = <<>> /\ r.inbox = 0 /\ ~r.err
             /\ Aged(r.queue, s.queue)
<1> DEFINE r == socket_close(s)
<1>1. CASE ~s.fd
  <2>1. r = s
    BY <1>1 DEF socket_close
  <2>2. Aged(s.queue, s.queue)
    BY <1>1 DEF Shut, Aged
  <2> QED BY <1>1, <2>1, <2>2 DEF Same, Shut
<1>2. CASE s.fd
  <2> DEFINE q == s.queue
             m == [i \in DOMAIN q |->
                     CASE q[i].op = "event" -> Entry("stale")
                       [] q[i].op = "read"  -> [q[i] EXCEPT !.old = TRUE]
                       [] OTHER             -> q[i]]
             a == [i \in DOMAIN s.rd |-> Failed]
             w == m \o a
  <2>1. q \in Seq(Item) /\ s.rd \in Seq(Place)
    BY DEF Endpoint
  <2>2. /\ DOMAIN q = 1..Len(q) /\ Len(q) \in Nat
        /\ DOMAIN s.rd = 1..Len(s.rd) /\ Len(s.rd) \in Nat
        /\ \A i \in DOMAIN q : q[i] \in Item
    BY <2>1, Positions, LenProperties
  <2>3. r = [s EXCEPT !.fd = FALSE, !.err = FALSE, !.inbox = 0, !.rd = <<>>,
                      !.queue = w]
    BY <1>2 DEF socket_close
  <2> HIDE DEF q, r
  <2>4. ASSUME NEW i \in DOMAIN q
        PROVE  /\ m[i] \in Item
               /\ q[i].op = "event" => m[i].op = "stale"
               /\ q[i].op = "read" => /\ m[i].op = "read" /\ m[i].old
                                      /\ m[i].ok = q[i].ok /\ m[i].own = q[i].own
               /\ q[i].op \notin {"event", "read"} => m[i] = q[i]
    <3>1. q[i] \in Item
      BY <2>2
    <3>2. CASE q[i].op = "event"
      BY <3>2, Entries
    <3>3. CASE q[i].op = "read"
      BY <3>1, <3>3 DEF Item
    <3>4. CASE q[i].op \notin {"event", "read"}
      BY <3>1, <3>4
    <3> QED BY <3>2, <3>3, <3>4
  <2>5. m \in [1..Len(q) -> Item] /\ DOMAIN m = DOMAIN q
    BY <2>2, <2>4
  <2>6. a \in [1..Len(s.rd) -> Item] /\ \A k \in DOMAIN a : a[k] = Failed
    BY <2>2, Entries
  <2> HIDE DEF m, a
  <2>7. m \in Seq(Item) /\ a \in Seq(Item)
    BY <2>2, <2>5, <2>6, FunctionIsSeq
  <2>8. /\ w \in Seq(Item) /\ DOMAIN q \subseteq DOMAIN w
        /\ \A i \in DOMAIN q : w[i] = m[i]
        /\ \A i \in DOMAIN w \ DOMAIN q : w[i] = Failed
    BY <2>5, <2>6, <2>7, ConcatLemma
  <2> HIDE DEF w
  <2>9. Aged(w, q)
    <3>1. Events(w) = {} /\ NewOk(w) = {}
      BY <2>2, <2>4, <2>8, Entries DEF Events, NewOk, Item
    <3>2. Ticks(w) = Ticks(q)
      BY <2>2, <2>4, <2>8, Entries DEF Ticks, Item
    <3>3. OldOk(w) = OldOk(q) \cup NewOk(q)
      BY <2>2, <2>4, <2>8, Entries DEF OldOk, NewOk, Item
    <3>4. \A i \in OldOk(w) : w[i].own = q[i].own
      BY <2>4, <2>8, Entries DEF OldOk, Item
    <3> QED BY <3>1, <3>2, <3>3, <3>4 DEF Aged
  <2>10. r \in Endpoint /\ r.queue = w /\ ~r.fd /\ r.rd = <<>> /\ r.inbox = 0 /\ ~r.err
    <3>1. <<>> \in Seq(Place)
      OBVIOUS
    <3> QED BY <2>3, <2>8, <3>1 DEF Endpoint
  <2>11. Same(r, s)
    BY <2>3 DEF Endpoint, Same
  <2>12. Shut(r)
    BY <2>9, <2>10 DEF Shut, Aged
  <2> QED BY <2>9, <2>10, <2>11, <2>12 DEF r, q
<1> QED BY <1>1, <1>2 DEF Endpoint

\* The entries of q are in w, where they may have lost their place in
\* recv_buff_ (own).
Alike(w, q) ==
  /\ DOMAIN q \subseteq DOMAIN w
  /\ \A i \in DOMAIN q : /\ w[i].op = q[i].op /\ w[i].ok = q[i].ok
                         /\ w[i].old = q[i].old

\* A receive that does not wait posts its result behind all others.
LEMMA TakeLemma ==
  ASSUME NEW s \in Endpoint, NEW at \in Place, Ready(s)
  PROVE  LET r == Take(s, at)
             n == Len(s.queue) + 1
         IN  /\ r \in Endpoint /\ Same(r, s) /\ r.fd = s.fd /\ r.rd = s.rd
             /\ Alike(r.queue, s.queue)
             /\ DOMAIN r.queue = DOMAIN s.queue \cup {n} /\ n \notin DOMAIN s.queue
             /\ Len(r.queue) = n
             /\ \A i \in DOMAIN s.queue : i < n
             /\ r.queue[n] = IF s.err THEN Failed ELSE Received(at)
<1> DEFINE r == Take(s, at)
           q == s.queue
           n == Len(q) + 1
<1>1. q \in Seq(Item) /\ s.err \in BOOLEAN /\ s.inbox \in Nat
  BY DEF Endpoint
<1> HIDE DEF q
<1>2. CASE s.err
  <2> DEFINE w == Append(q, Failed)
  <2>1. /\ w \in Seq(Item) /\ Len(w) = n /\ DOMAIN w = DOMAIN q \cup {n}
        /\ n \notin DOMAIN q /\ w[n] = Failed /\ \A i \in DOMAIN q : w[i] = q[i] /\ i < n
    BY <1>1, Entries, AppendLemma
  <2>2. r = [s EXCEPT !.err = FALSE, !.queue = w]
    BY <1>2 DEF Take, Post, q
  <2> HIDE DEF w, r, n
  <2>3. r \in Endpoint /\ r.queue = w
    BY <2>1, <2>2 DEF Endpoint
  <2>4. Same(r, s) /\ r.fd = s.fd /\ r.rd = s.rd
    BY <2>2 DEF Endpoint, Same
  <2>5. Alike(w, q)
    BY <2>1 DEF Alike
  <2> QED BY <1>2, <2>1, <2>3, <2>4, <2>5 DEF r, n, q
<1>3. CASE ~s.err
  <2> DEFINE m == [i \in DOMAIN q |-> IF at = "front" THEN [q[i] EXCEPT !.own = FALSE]
                                      ELSE q[i]]
             e == Received(at)
             k == s.inbox - 1
             w == Append(m, e)
  <2>1. \A i \in DOMAIN q : q[i] \in Item
    BY <1>1, Positions
  <2>2. /\ \A i \in DOMAIN q : m[i] \in Item
        /\ \A i \in DOMAIN q : /\ m[i].op = q[i].op /\ m[i].ok = q[i].ok
                               /\ m[i].old = q[i].old
    BY <2>1 DEF Item
  <2>3. DOMAIN q = 1..Len(q) /\ Len(q) \in Nat
    BY <1>1, Positions
  <2>4. m \in [1..Len(q) -> Item] /\ DOMAIN m = DOMAIN q
    BY <2>2, <2>3
  <2>5. r = [s EXCEPT !.inbox = k, !.queue = w]
    BY <1>1, <1>3 DEF Take, Post, q, Endpoint
  <2>6. e \in Item
    BY Entries
  <2>7. k \in Nat
    BY <1>1, <1>3 DEF Ready
  <2> HIDE DEF m, e, k
  <2>8. m \in Seq(Item) /\ Len(m) = Len(q)
    BY <2>3, <2>4, FunctionIsSeq, LenProperties
  <2>9. /\ w \in Seq(Item) /\ Len(w) = n /\ DOMAIN w = DOMAIN q \cup {n}
        /\ n \notin DOMAIN q /\ w[n] = e /\ \A i \in DOMAIN q : w[i] = m[i] /\ i < n
    BY <2>4, <2>6, <2>8, AppendLemma
  <2> HIDE DEF w, r, n
  <2>10. r \in Endpoint /\ r.queue = w
    BY <2>5, <2>7, <2>9 DEF Endpoint
  <2>11. Same(r, s) /\ r.fd = s.fd /\ r.rd = s.rd
    BY <2>5 DEF Endpoint, Same
  <2>12. Alike(w, q)
    BY <2>2, <2>9 DEF Alike
  <2> QED BY <1>3, <2>9, <2>10, <2>11, <2>12 DEF r, n, q, e
<1> QED BY <1>1, <1>2, <1>3

\* The descriptor's, the timer's and the earlier sockets' entries.
Others(w, q) ==
  Events(w) = Events(q) /\ Ticks(w) = Ticks(q) /\ OldOk(w) = OldOk(q)

\* do_read of an open socket leaves a receive that has not failed, or a new
\* failure; do_read of a closed one posts a failure.
LEMMA ReadLemma ==
  ASSUME NEW s \in Endpoint, Shut(s)
  PROVE  LET r == do_read(s)
         IN  /\ r \in Endpoint /\ Same(r, s) /\ r.fd = s.fd /\ Shut(r)
             /\ Others(r.queue, s.queue)
             /\ Before(OldOk(s.queue), Events(s.queue) \cup NewOk(s.queue)) =>
                  Before(OldOk(r.queue), Events(r.queue) \cup NewOk(r.queue))
             /\ s.fd => r.rd # <<>> \/ \E i \in Reads(r) : ~r.queue[i].old
             /\ ~s.fd => \A i \in OldOk(r.queue) : r.queue[i].own = s.queue[i].own
             /\ s.fd /\ s.rd = <<>> /\ NewOk(s.queue) = {} /\ ~s.holding =>
                  /\ r.rd \in {<<>>, <<"front">>}
                  /\ r.rd # <<>> => NewOk(r.queue) = {} /\ Bad(r.queue) = Bad(s.queue)
                  /\ \A i, j \in NewOk(r.queue) : i = j
                  /\ \A i \in NewOk(r.queue) : r.queue[i].own
                  /\ NewOk(r.queue) # {} => Bad(r.queue) = Bad(s.queue)
<1> DEFINE r == do_read(s)
           at == IF s.holding THEN "behind" ELSE "front"
           q == s.queue
           n == Len(q) + 1
<1>1. q \in Seq(Item) /\ s.rd \in Seq(Place) /\ at \in Place /\ s.fd \in BOOLEAN
  BY DEF Endpoint, Place
<1>2. r = async_receive(s, at)
  BY DEF do_read
<1>3. CASE ~s.fd
  <2> DEFINE w == Append(q, Failed)
  <2>1. /\ w \in Seq(Item) /\ Len(w) = n /\ DOMAIN w = DOMAIN q \cup {n}
        /\ n \notin DOMAIN q /\ w[n] = Failed /\ \A i \in DOMAIN q : w[i] = q[i] /\ i < n
    BY <1>1, Entries, AppendLemma
  <2>2. r = [s EXCEPT !.queue = w]
    BY <1>2, <1>3 DEF async_receive, Post
  <2> HIDE DEF w, r, n, q
  <2>3. r \in Endpoint /\ r.queue = w
    BY <2>1, <2>2 DEF Endpoint
  <2>4. /\ Same(r, s) /\ r.fd = s.fd /\ r.rd = s.rd /\ r.inbox = s.inbox /\ r.err = s.err
    BY <2>2 DEF Endpoint, Same
  <2>5. /\ Others(w, q) /\ NewOk(w) = NewOk(q)
        /\ \A i \in OldOk(w) : w[i].own = q[i].own
    BY <2>1, Entries DEF Others, Events, Ticks, OldOk, NewOk
  <2>6. Shut(r)
    BY <1>3, <2>3, <2>4, <2>5 DEF Shut, Others, q
  <2>7. Before(OldOk(q), Events(q) \cup NewOk(q)) =>
          Before(OldOk(w), Events(w) \cup NewOk(w))
    BY <2>5 DEF Others
  <2> QED BY <1>3, <2>3, <2>4, <2>5, <2>6, <2>7 DEF r, q
<1>4. CASE s.fd /\ s.rd = <<>> /\ Ready(s)
  <2>1. r = Take(s, at)
    BY <1>2, <1>4 DEF async_receive
  <2> DEFINE w == r.queue
  <2>2. /\ r \in Endpoint /\ Same(r, s) /\ r.fd = s.fd /\ r.rd = s.rd
        /\ Alike(w, q) /\ DOMAIN w = DOMAIN q \cup {n} /\ n \notin DOMAIN q
        /\ \A i \in DOMAIN q : i < n
        /\ w[n] = IF s.err THEN Failed ELSE Received(at)
    BY <1>1, <1>4, <2>1, TakeLemma
  <2> HIDE DEF r, w, n, q, at
  <2>3. Shut(r)
    BY <1>4, <2>2 DEF Shut
  <2>4. w[n].op = "read" /\ ~w[n].old /\ (s.err => ~w[n].ok)
    BY <1>1, <2>2, Entries
  <2>5. Others(w, q) /\ NewOk(w) \subseteq NewOk(q) \cup {n}
    BY <2>2, <2>4 DEF Others, Events, Ticks, OldOk, NewOk, Alike
  <2>6. Before(OldOk(q), Events(q) \cup NewOk(q)) =>
          Before(OldOk(w), Events(w) \cup NewOk(w))
    <3>1. \A i \in OldOk(q) : i < n
      BY <2>2 DEF OldOk
    <3> QED BY <2>5, <3>1 DEF Others, Before
  <2>7. \E i \in Reads(r) : ~r.queue[i].old
    <3>1. n \in Reads(r)
      BY <2>2, <2>4 DEF Reads, w
    <3> QED BY <2>4, <3>1 DEF w
  <2>8. NewOk(w) # {} /\ NewOk(q) = {} => ~s.err
    BY <2>4, <2>5 DEF NewOk
  <2>9. ~s.err => Bad(w) = Bad(q)
    <3>1. ~s.err => w[n].ok
      BY <1>1, <2>2, Entries
    <3> QED BY <2>2, <2>4, <3>1 DEF Bad, Alike
  <2>10. ~s.err /\ ~s.holding => w[n].own
    BY <1>1, <2>2, Entries DEF at
  <2>11. ASSUME NewOk(q) = {}, ~s.holding
         PROVE  /\ \A i, j \in NewOk(w) : i = j
                /\ \A i \in NewOk(w) : w[i].own
                /\ NewOk(w) # {} => Bad(w) = Bad(q)
    BY <2>5, <2>8, <2>9, <2>10, <2>11
  <2> QED BY <1>4, <2>2, <2>3, <2>5, <2>6, <2>7, <2>11 DEF r, q, w
<1>5. CASE s.fd /\ ~(s.rd = <<>> /\ Ready(s))
  <2> DEFINE l == Append(s.rd, at)
  <2>1. r = [s EXCEPT !.rd = l]
    BY <1>2, <1>5 DEF async_receive
  <2>2. l \in Seq(Place) /\ l # <<>>
    BY <1>1, AppendProperties
  <2>3. s.rd = <<>> /\ ~s.holding => l = <<"front">>
    OBVIOUS
  <2> HIDE DEF l, r, at
  <2>4. r \in Endpoint /\ r.rd = l
    BY <2>1, <2>2 DEF Endpoint
  <2>5. Same(r, s) /\ r.fd = s.fd /\ r.queue = q
    BY <2>1 DEF Endpoint, Same
  <2>6. Shut(r)
    BY <1>5, <2>5 DEF Shut
  <2> HIDE DEF q
  <2> QED BY <1>5, <2>2, <2>3, <2>4, <2>5, <2>6 DEF r, Others, q
<1> QED BY <1>1, <1>3, <1>4, <1>5

-----------------------------------------------------------------------------
(* udp::socket, connection and udp::connector                              *)

\* r is s after its socket was closed and perhaps another one opened.
Shuts(r, s) ==
  /\ r.app = s.app /\ r.gone = s.gone /\ r.late = s.late /\ r.misread = s.misread
  /\ r.holding = s.holding
  /\ Aged(r.queue, s.queue)
  /\ (s.crossed => r.crossed) /\ (r.crossed => s.crossed \/ s.holding)
  /\ r.rd # <<>> <=> r.state = "CONNECTED"
  /\ r.rd # <<>> => IF s.holding THEN r.crossed ELSE r.rd = <<"front">>

\* ... and no other one was opened.
Stays(r, s) == r.state = "DISCONNECTED" /\ r.crossed = s.crossed

LEMMA AgedTwice ==
  ASSUME NEW q, NEW w, NEW x, Aged(w, q), Aged(x, w)
  PROVE  Aged(x, q)
BY DEF Aged

LEMMA ClosedCore ==
  ASSUME NEW s \in Endpoint, ~s.thrown, s.state = "DISCONNECTED", ~s.up, ~s.fd, Shut(s)
  PROVE  Core(s)
BY DEF Core, Shut, Before

\* connect() after its close().
LEMMA ReopenLemma ==
  ASSUME NEW s \in Endpoint, ~s.fd, ~s.thrown, Shut(s), NEW res \in BOOLEAN
  PROVE  LET r == reopen(s, res)
         IN  Core(r) /\ Shuts(r, s) /\ (res <=> r.state = "CONNECTED")
<1> DEFINE t == [s EXCEPT !.fd = TRUE, !.state = "CONNECTING",
                          !.crossed = @ \/ s.holding]
<1>1. /\ s.rd = <<>> /\ s.inbox = 0 /\ ~s.err /\ Events(s.queue) = {}
      /\ NewOk(s.queue) = {} /\ s.crossed \in BOOLEAN /\ s.holding \in BOOLEAN
  BY DEF Shut, Endpoint
<1>2. Aged(s.queue, s.queue)
  BY <1>1 DEF Aged
<1>3. reopen(s, res) = IF res THEN connected(t) ELSE Fail(t)
  BY DEF reopen
<1> DEFINE c == s.crossed \/ s.holding
<1>4. t = [s EXCEPT !.fd = TRUE, !.state = "CONNECTING", !.crossed = c] /\ c \in BOOLEAN
  BY <1>1
<1> HIDE DEF t, c
<1>5. t \in Endpoint /\ t.fd /\ t.state = "CONNECTING" /\ t.crossed = c
  BY <1>4 DEF Endpoint
<1>6. /\ ~t.thrown /\ t.rd = <<>> /\ t.inbox = 0 /\ ~t.err /\ t.queue = s.queue
      /\ t.app = s.app /\ t.gone = s.gone /\ t.late = s.late /\ t.misread = s.misread
      /\ t.holding = s.holding
  BY <1>1, <1>4 DEF Endpoint
<1>7. CASE res
  <2> DEFINE u == [t EXCEPT !.state = "CONNECTED", !.up = TRUE]
             l == <<IF s.holding THEN "behind" ELSE "front">>
             r == [u EXCEPT !.rd = l]
  <2>1. u \in Endpoint /\ u.state = "CONNECTED" /\ u.up
    BY <1>5 DEF Endpoint
  <2>2. /\ u.fd /\ ~u.thrown /\ u.rd = <<>> /\ u.inbox = 0 /\ ~u.err /\ u.queue = s.queue
        /\ u.app = s.app /\ u.gone = s.gone /\ u.late = s.late /\ u.misread = s.misread
        /\ u.holding = s.holding /\ u.crossed = c
    BY <1>5, <1>6 DEF Endpoint
  <2>3. connected(t) = do_read(u)
    BY <1>5 DEF connected, open
  <2> HIDE DEF u
  <2>4. do_read(u) = [u EXCEPT !.rd = Append(@, IF u.holding THEN "behind" ELSE "front")]
    BY <2>2 DEF do_read, async_receive, Ready
  <2>5. do_read(u) = r
    BY <2>1, <2>2, <2>4 DEF Endpoint
  <2>6. l \in Seq(Place) /\ l # <<>> /\ (~s.holding => l = <<"front">>)
    BY DEF Place
  <2> HIDE DEF l
  <2>7. r \in Endpoint /\ r.rd = l
    BY <2>1, <2>6 DEF Endpoint
  <2>8. /\ r.state = "CONNECTED" /\ r.up /\ r.fd /\ ~r.thrown /\ r.queue = s.queue
        /\ r.app = s.app /\ r.gone = s.gone /\ r.late = s.late /\ r.misread = s.misread
        /\ r.holding = s.holding /\ r.crossed = c
    BY <2>1, <2>2 DEF Endpoint
  <2> HIDE DEF r
  <2>9. Core(r)
    BY <1>1, <2>7, <2>8 DEF Core, Shut, Before
  <2>10. Shuts(r, s)
    BY <1>2, <2>6, <2>7, <2>8 DEF Shuts, c
  <2> QED BY <1>3, <1>7, <2>3, <2>5, <2>8, <2>9, <2>10
<1>8. CASE ~res
  <2> DEFINE u == [t EXCEPT !.state = "DISCONNECTED", !.up = FALSE]
             r == socket_close(u)
  <2>1. u \in Endpoint /\ u.state = "DISCONNECTED" /\ ~u.up
    BY <1>5 DEF Endpoint
  <2>2. /\ u.fd /\ ~u.thrown /\ u.queue = s.queue
        /\ u.app = s.app /\ u.gone = s.gone /\ u.late = s.late /\ u.misread = s.misread
        /\ u.holding = s.holding /\ u.crossed = c
    BY <1>5, <1>6 DEF Endpoint
  <2>3. Fail(t) = r
    BY DEF Fail
  <2> HIDE DEF u
  <2>4. Shut(u)
    BY <2>2 DEF Shut
  <2>5. /\ r \in Endpoint /\ Same(r, u) /\ ~r.fd /\ Shut(r) /\ r.rd = <<>>
        /\ Aged(r.queue, u.queue)
    BY <2>1, <2>4, SocketCloseLemma
  <2> HIDE DEF r
  <2>6. Core(r)
    BY <2>1, <2>2, <2>5, ClosedCore DEF Same
  <2>7. Shuts(r, s) /\ r.state # "CONNECTED"
    BY <2>1, <2>2, <2>5 DEF Shuts, Same, c
  <2> QED BY <1>3, <1>8, <2>3, <2>6, <2>7
<1> QED BY <1>7, <1>8

LEMMA ToldLemma ==
  ASSUME NEW s \in Endpoint, ~s.fd, ~s.thrown, s.state = "DISCONNECTED", Shut(s),
         NEW reconnect \in BOOLEAN
  PROVE  LET r == on_disconnected(s, reconnect)
         IN  Core(r) /\ Shuts(r, s) /\ (~reconnect => Stays(r, s))
<1> DEFINE t == [s EXCEPT !.up = FALSE]
<1>1. t \in Endpoint /\ ~t.up
  BY DEF Endpoint
<1>2. /\ ~t.fd /\ ~t.thrown /\ t.state = "DISCONNECTED" /\ t.queue = s.queue
      /\ t.app = s.app /\ t.gone = s.gone /\ t.late = s.late /\ t.misread = s.misread
      /\ t.holding = s.holding /\ t.crossed = s.crossed /\ t.rd = s.rd
      /\ t.inbox = s.inbox /\ t.err = s.err
  BY DEF Endpoint
<1>3. on_disconnected(s, reconnect) =
        IF reconnect THEN reopen(socket_close(t), TRUE) ELSE t
  BY DEF on_disconnected
<1> HIDE DEF t
<1>4. Shut(t) /\ socket_close(t) = t
  BY <1>2 DEF Shut, socket_close
<1>5. CASE reconnect
  <2> DEFINE r == reopen(t, TRUE)
  <2>1. Core(r) /\ Shuts(r, t)
    BY <1>1, <1>2, <1>4, ReopenLemma
  <2> HIDE DEF r
  <2>2. Shuts(r, s)
    BY <1>2, <2>1 DEF Shuts
  <2> QED BY <1>3, <1>4, <1>5, <2>1, <2>2 DEF r
<1>6. CASE ~reconnect
  <2>1. Core(t)
    BY <1>1, <1>2, <1>4, ClosedCore
  <2>2. Aged(t.queue, s.queue) /\ t.rd = <<>>
    BY <1>2, <1>4 DEF Shut, Aged
  <2>3. Shuts(t, s) /\ Stays(t, s)
    BY <1>2, <2>2 DEF Shuts, Stays
  <2> QED BY <1>3, <1>6, <2>1, <2>3
<1> QED BY <1>5, <1>6

\* close() of a connected endpoint, and of one that is not.
LEMMA CloseLemma ==
  ASSUME NEW s \in Endpoint, ~s.thrown, s.state # "CONNECTING", Shut(s),
         NEW reconnect \in BOOLEAN
  PROVE  LET r == close(s, reconnect)
         IN  /\ s.state = "CONNECTED" =>
                  Core(r) /\ Shuts(r, s) /\ (~reconnect => Stays(r, s))
             /\ s.state # "CONNECTED" =>
                  /\ r \in Endpoint /\ Same(r, s) /\ ~r.fd /\ Shut(r) /\ r.rd = <<>>
                  /\ Aged(r.queue, s.queue)
<1> DEFINE t == socket_close(s)
<1>1. /\ t \in Endpoint /\ Same(t, s) /\ ~t.fd /\ Shut(t) /\ t.rd = <<>>
      /\ Aged(t.queue, s.queue)
  BY SocketCloseLemma
<1>2. close(s, reconnect) = on_close(t, reconnect)
  BY DEF close
<1> HIDE DEF t
<1>3. CASE s.state = "CONNECTED"
  <2> DEFINE u == [t EXCEPT !.state = "DISCONNECTED"]
             r == on_disconnected(u, reconnect)
  <2>1. u \in Endpoint /\ u.state = "DISCONNECTED"
    BY <1>1 DEF Endpoint
  <2>2. /\ ~u.fd /\ ~u.thrown /\ u.queue = t.queue /\ u.app = s.app /\ u.gone = s.gone
        /\ u.late = s.late /\ u.misread = s.misread /\ u.holding = s.holding
        /\ u.crossed = s.crossed /\ u.rd = t.rd /\ u.inbox = t.inbox /\ u.err = t.err
    BY <1>1 DEF Endpoint, Same
  <2>3. on_close(t, reconnect) = r
    BY <1>1, <1>3 DEF on_close, Same
  <2> HIDE DEF u
  <2>4. Shut(u)
    BY <1>1, <2>2 DEF Shut
  <2>5. Core(r) /\ Shuts(r, u) /\ (~reconnect => Stays(r, u))
    BY <2>1, <2>2, <2>4, ToldLemma
  <2> HIDE DEF r
  <2>6. Aged(r.queue, s.queue)
    BY <1>1, <2>2, <2>5, AgedTwice DEF Shuts
  <2>7. Shuts(r, s) /\ (~reconnect => Stays(r, s))
    BY <2>2, <2>5, <2>6 DEF Shuts, Stays
  <2> QED BY <1>2, <1>3, <2>3, <2>5, <2>7
<1>4. CASE s.state # "CONNECTED"
  <2>1. on_close(t, reconnect) = t
    BY <1>1, <1>4 DEF on_close, Same
  <2> QED BY <1>1, <1>2, <1>4, <2>1
<1> QED BY <1>3, <1>4

LEMMA DisconnectLemma ==
  ASSUME NEW s, Core(s), NEW reconnect \in BOOLEAN
  PROVE  LET r == disconnect(s, reconnect)
         IN  Core(r) /\ (r = s \/ (Shuts(r, s) /\ (~reconnect => Stays(r, s))))
<1>1. s \in Endpoint /\ ~s.thrown /\ Shut(s)
  BY DEF Core
<1>2. CASE s.state = "DISCONNECTED"
  BY <1>2 DEF disconnect
<1>3. CASE s.state # "DISCONNECTED"
  <2> DEFINE t == [s EXCEPT !.state = "DISCONNECTED"]
             u == close(t, FALSE)
             r == on_disconnected(u, reconnect)
  <2>1. t \in Endpoint /\ t.state = "DISCONNECTED"
    BY <1>1 DEF Endpoint
  <2>2. /\ t.fd = s.fd /\ ~t.thrown /\ t.queue = s.queue /\ t.app = s.app /\ t.gone = s.gone
        /\ t.late = s.late /\ t.misread = s.misread /\ t.holding = s.holding
        /\ t.crossed = s.crossed /\ t.rd = s.rd /\ t.inbox = s.inbox /\ t.err = s.err
    BY <1>1 DEF Endpoint
  <2>3. disconnect(s, reconnect) = r
    BY <1>3 DEF disconnect
  <2> HIDE DEF t
  <2>4. Shut(t)
    BY <1>1, <2>2 DEF Shut
  <2>5. /\ u \in Endpoint /\ Same(u, t) /\ ~u.fd /\ Shut(u) /\ u.rd = <<>>
        /\ Aged(u.queue, t.queue)
    BY <2>1, <2>2, <2>4, CloseLemma
  <2> HIDE DEF u
  <2>6. Core(r) /\ Shuts(r, u) /\ (~reconnect => Stays(r, u))
    BY <2>1, <2>2, <2>5, ToldLemma DEF Same
  <2> HIDE DEF r
  <2>7. Aged(r.queue, s.queue)
    BY <2>2, <2>5, <2>6, AgedTwice DEF Shuts
  <2>8. Shuts(r, s) /\ (~reconnect => Stays(r, s))
    BY <2>2, <2>5, <2>6, <2>7 DEF Shuts, Stays, Same
  <2> QED BY <2>3, <2>6, <2>8
<1> QED BY <1>2, <1>3

LEMMA ConnectLemma ==
  ASSUME NEW s, Core(s), s.state = "DISCONNECTED",
         NEW res \in BOOLEAN, NEW reconnect \in BOOLEAN
  PROVE  LET r == connect(s, res, reconnect) IN Core(r) /\ Shuts(r, s)
<1>1. s \in Endpoint /\ ~s.thrown /\ Shut(s)
  BY DEF Core
<1> DEFINE t == close(s, reconnect)
           u == reopen(t, res)
<1>2. /\ t \in Endpoint /\ Same(t, s) /\ ~t.fd /\ Shut(t) /\ Aged(t.queue, s.queue)
  BY <1>1, CloseLemma
<1>3. connect(s, res, reconnect) =
        IF u.state = "DISCONNECTED" /\ reconnect THEN reopen(u, TRUE) ELSE u
  BY DEF connect
<1> HIDE DEF t
<1>4. Core(u) /\ Shuts(u, t) /\ (res <=> u.state = "CONNECTED")
  BY <1>1, <1>2, ReopenLemma DEF Same
<1> HIDE DEF u
<1>5. Aged(u.queue, s.queue)
  BY <1>2, <1>4, AgedTwice DEF Shuts
<1>6. Shuts(u, s)
  BY <1>2, <1>4, <1>5 DEF Shuts, Same
<1>7. CASE u.state = "DISCONNECTED" /\ reconnect
  <2> DEFINE r == reopen(u, TRUE)
  <2>1. u \in Endpoint /\ ~u.fd /\ ~u.thrown /\ Shut(u)
    BY <1>4, <1>7 DEF Core
  <2>2. Core(r) /\ Shuts(r, u)
    BY <2>1, ReopenLemma
  <2> HIDE DEF r
  <2>3. Aged(r.queue, s.queue)
    BY <1>5, <2>2, AgedTwice DEF Shuts
  <2>4. Shuts(r, s)
    BY <1>6, <2>2, <2>3 DEF Shuts
  <2> QED BY <1>3, <1>7, <2>2, <2>4 DEF r
<1>8. CASE ~(u.state = "DISCONNECTED" /\ reconnect)
  BY <1>3, <1>4, <1>6, <1>8
<1> QED BY <1>7, <1>8

\* A send that fails closes the socket, and so does its repetition on the next.
LEMMA SendLemma ==
  ASSUME NEW s, Core(s), NEW res \in BOOLEAN, NEW reconnect \in BOOLEAN
  PROVE  LET r == send(s, res, reconnect)
         IN  Core(r) /\ (r = s \/ (Shuts(r, s) /\ (~reconnect => Stays(r, s))))
<1>1. s \in Endpoint /\ ~s.thrown /\ Shut(s) /\ s.state # "CONNECTING"
  BY DEF Core
<1>2. CASE ~s.fd \/ s.err
  <2> DEFINE t == [s EXCEPT !.err = FALSE]
             r == close(t, reconnect)
  <2>1. t \in Endpoint /\ ~t.err
    BY <1>1 DEF Endpoint
  <2>2. /\ Same(t, s) /\ t.fd = s.fd /\ t.queue = s.queue /\ t.rd = s.rd /\ t.inbox = s.inbox
    BY <1>1 DEF Endpoint, Same
  <2>3. send(s, res, reconnect) = IF r.fd /\ ~res THEN close(r, FALSE) ELSE r
    BY <1>1, <1>2 DEF send, Endpoint
  <2> HIDE DEF t
  <2>4. Shut(t)
    BY <1>1, <2>1, <2>2 DEF Shut
  <2>5. /\ t.state = "CONNECTED" =>
             Core(r) /\ Shuts(r, t) /\ (~reconnect => Stays(r, t))
        /\ t.state # "CONNECTED" =>
             /\ r \in Endpoint /\ Same(r, t) /\ ~r.fd /\ Shut(r) /\ r.rd = <<>>
             /\ Aged(r.queue, t.queue)
    BY <1>1, <2>1, <2>2, <2>4, CloseLemma DEF Same
  <2> HIDE DEF r
  <2>6. CASE t.state = "CONNECTED"
    <3>1. Core(r) /\ Shuts(r, s) /\ (~reconnect => Stays(r, s))
      BY <2>2, <2>5, <2>6 DEF Shuts, Stays, Same
    <3>2. CASE r.fd /\ ~res
      <4> DEFINE w == close(r, FALSE)
      <4>1. r \in Endpoint /\ ~r.thrown /\ r.state = "CONNECTED" /\ Shut(r)
        BY <3>1, <3>2 DEF Core
      <4>2. Core(w) /\ Shuts(w, r) /\ Stays(w, r)
        BY <4>1, CloseLemma
      <4> HIDE DEF w
      <4>3. Aged(w.queue, s.queue)
        BY <3>1, <4>2, AgedTwice DEF Shuts
      <4>4. Shuts(w, s) /\ (~reconnect => Stays(w, s))
        BY <3>1, <4>2, <4>3 DEF Shuts, Stays
      <4> QED BY <2>3, <3>2, <4>2, <4>4 DEF w
    <3>3. CASE ~(r.fd /\ ~res)
      BY <2>3, <3>1, <3>3
    <3> QED BY <3>2, <3>3
  <2>7. CASE t.state # "CONNECTED"
    <3>1. r.state = "DISCONNECTED" /\ ~r.up /\ ~r.thrown
      BY <1>1, <2>1, <2>2, <2>5, <2>7 DEF Same, Core, Endpoint
    <3>2. Core(r)
      BY <2>5, <2>7, <3>1, ClosedCore
    <3>3. Shuts(r, s) /\ Stays(r, s)
      BY <2>2, <2>5, <2>7, <3>1 DEF Shuts, Stays, Same
    <3> QED BY <2>3, <2>5, <2>7, <3>2, <3>3
  <2> QED BY <2>6, <2>7
<1>3. CASE ~(~s.fd \/ s.err)
  BY <1>1, <1>3 DEF send, Endpoint
<1> QED BY <1>2, <1>3

LEMMA RecvLemma ==
  ASSUME NEW s, Core(s), NEW call, NEW res \in BOOLEAN, NEW reconnect \in BOOLEAN
  PROVE  LET r == on_recv(s, call, res, reconnect)
         IN  Core(r) /\ (r = s \/ (Shuts(r, s) /\ (~reconnect => Stays(r, s))))
<1>1. CASE call = "send"
  BY <1>1, SendLemma DEF on_recv
<1>2. CASE call = "disconnect"
  <2>1. on_recv(s, call, res, reconnect) = disconnect(s, reconnect)
    BY <1>2 DEF on_recv
  <2> QED BY <2>1, DisconnectLemma
<1>3. CASE call \notin {"send", "disconnect"}
  BY <1>3 DEF on_recv
<1> QED BY <1>1, <1>2, <1>3

-----------------------------------------------------------------------------
(* Handlers                                                                *)

\* The application's choices.
LEMMA ReconnectChoice ==
  ASSUME NEW s \in Endpoint
  PROVE  \A reconnect \in s.app.reconnects :
           reconnect \in BOOLEAN /\ (PollsOnly(s.app) => ~reconnect)
<1>1. s.app \in App
  BY DEF Endpoint
<1>2. s.app.reconnects \subseteq BOOLEAN
  BY <1>1 DEF App
<1> QED BY <1>2 DEF PollsOnly

\* Closing keeps what is said of the receives: those that brought a datagram
\* are now of an earlier socket.
LEMMA ShutsNice ==
  ASSUME NEW s, NEW r, Core(r), Shuts(r, s), ~s.holding
  PROVE  ~r.holding /\ Waits(r) /\ (Nice(s) => Nice(r))
<1>1. ~r.holding /\ Waits(r)
  BY DEF Shuts, Waits
<1>2. ASSUME Nice(s), ~r.crossed, ~r.late PROVE Tidy(r)
  <2>1. Tidy(s)
    BY <1>2 DEF Nice, Shuts
  <2>2. \A i \in OldOk(r.queue) : r.queue[i].own
    BY <2>1 DEF Shuts, Aged, Tidy
  <2>3. NewOk(r.queue) = {} /\ r.rd \in {<<>>, <<"front">>} /\ ~r.misread
    BY <2>1 DEF Shuts, Aged, Tidy
  <2> QED BY <2>2, <2>3 DEF Tidy
<1> QED BY <1>1, <1>2 DEF Nice

\* A handler of a receive finds its endpoint as it was, less that receive.
Handling(s, item) ==
  /\ Core(s) /\ ~s.holding /\ Nice(s) /\ Polled(s)
  /\ ~s.crossed /\ ~s.late =>
       /\ item.ok => item.own
       /\ item.ok /\ ~item.old =>
            s.rd = <<>> /\ NewOk(s.queue) = {} /\ OldOk(s.queue) = {}
  /\ PollsOnly(s.app) =>
       /\ NewOk(s.queue) = {}
       /\ item.ok /\ item.old => s.state = "DISCONNECTED"
       /\ item.ok /\ s.fd => Bad(s.queue) = {}

LEMMA FailedLemma ==
  ASSUME NEW s, NEW item \in Item, Handling(s, item), NEW reconnect \in s.app.reconnects
  PROVE  LET r == close(s, reconnect) IN Sound(r) /\ r.app = s.app /\ r.gone = s.gone
<1> DEFINE r == close(s, reconnect)
<1>1. s \in Endpoint /\ ~s.thrown /\ s.state # "CONNECTING" /\ Shut(s) /\ Core(s)
      /\ Nice(s) /\ ~s.holding
  BY DEF Handling, Core
<1>2. reconnect \in BOOLEAN /\ (PollsOnly(s.app) => ~reconnect)
  BY <1>1, ReconnectChoice
<1>3. CASE s.state = "CONNECTED"
  <2>1. Core(r) /\ Shuts(r, s) /\ (~reconnect => Stays(r, s))
    BY <1>1, <1>2, <1>3, CloseLemma
  <2> HIDE DEF r
  <2>2. ~r.holding /\ Waits(r) /\ Nice(r)
    BY <1>1, <2>1, ShutsNice
  <2>3. ASSUME PollsOnly(s.app) PROVE InOrder(r)
    <3>1. InOrder(s) /\ NewOk(s.queue) = {} /\ Stays(r, s)
      BY <1>2, <2>1, <2>3 DEF Handling, Polled
    <3>2. r.rd = <<>> /\ r.state # "CONNECTED" /\ ~r.crossed /\ ~r.late
      BY <2>1, <3>1 DEF Shuts, Stays, InOrder
    <3>3. /\ NewOk(r.queue) = {} /\ Ticks(r.queue) = Ticks(s.queue)
          /\ OldOk(r.queue) = OldOk(s.queue)
      BY <2>1, <3>1 DEF Shuts, Aged
    <3> QED BY <3>1, <3>2, <3>3 DEF InOrder
  <2> QED BY <2>1, <2>2, <2>3 DEF Sound, Polled, Shuts, r
<1>4. CASE s.state # "CONNECTED"
  <2>1. ~s.fd
    BY <1>1, <1>4 DEF Core
  <2>2. r = s
    BY <1>4, <2>1 DEF close, socket_close, on_close
  <2>3. Waits(s)
    BY <1>4 DEF Waits
  <2> QED BY <1>1, <2>2, <2>3 DEF Sound, Handling
<1> QED BY <1>3, <1>4

\* What do_read finds after on_recv, and leaves.
LEMMA NextReadLemma ==
  ASSUME NEW v, Core(v), ~v.holding,
         ~v.crossed /\ ~v.late =>
           /\ v.fd => v.rd = <<>> /\ NewOk(v.queue) = {} /\ OldOk(v.queue) = {}
           /\ ~v.misread /\ \A i \in OldOk(v.queue) : v.queue[i].own,
         PollsOnly(v.app) =>
           /\ ~v.crossed /\ ~v.late
           /\ v.fd => OldOk(v.queue) = {} /\ Bad(v.queue) = {}
           /\ Before(OldOk(v.queue), Ticks(v.queue))
           /\ \A i, j \in Ticks(v.queue) : i = j
  PROVE  LET r == do_read(v) IN Sound(r) /\ r.app = v.app /\ r.gone = v.gone
<1> DEFINE r == do_read(v)
<1>1. v \in Endpoint /\ Shut(v) /\ (v.fd <=> v.state = "CONNECTED")
  BY DEF Core
<1>2. /\ r \in Endpoint /\ Same(r, v) /\ r.fd = v.fd /\ Shut(r)
      /\ Others(r.queue, v.queue)
      /\ Before(OldOk(v.queue), Events(v.queue) \cup NewOk(v.queue)) =>
           Before(OldOk(r.queue), Events(r.queue) \cup NewOk(r.queue))
      /\ v.fd => r.rd # <<>> \/ \E i \in Reads(r) : ~r.queue[i].old
      /\ ~v.fd => \A i \in OldOk(r.queue) : r.queue[i].own = v.queue[i].own
      /\ v.fd /\ v.rd = <<>> /\ NewOk(v.queue) = {} =>
           /\ r.rd \in {<<>>, <<"front">>}
           /\ r.rd # <<>> => NewOk(r.queue) = {} /\ Bad(r.queue) = Bad(v.queue)
           /\ \A i, j \in NewOk(r.queue) : i = j
           /\ \A i \in NewOk(r.queue) : r.queue[i].own
           /\ NewOk(r.queue) # {} => Bad(r.queue) = Bad(v.queue)
  BY <1>1, ReadLemma
<1> HIDE DEF r
<1>3. Core(r) /\ ~r.holding
  BY <1>1, <1>2 DEF Core, Same
<1>4. Waits(r)
  BY <1>1, <1>2 DEF Waits, Same
<1>5. ASSUME ~r.crossed, ~r.late PROVE Tidy(r)
  <2>1. ~v.crossed /\ ~v.late /\ ~r.misread
    BY <1>2, <1>5 DEF Same
  <2>2. CASE v.fd
    <3>1. OldOk(r.queue) = {}
      BY <1>2, <2>1, <2>2 DEF Others
    <3> QED BY <1>2, <2>1, <2>2, <3>1 DEF Tidy
  <2>3. CASE ~v.fd
    <3>1. r.rd = <<>> /\ NewOk(r.queue) = {}
      BY <1>2, <2>3 DEF Shut
    <3>2. \A i \in OldOk(r.queue) : r.queue[i].own
      BY <1>2, <2>1, <2>3 DEF Others
    <3> QED BY <2>1, <3>1, <3>2 DEF Tidy
  <2> QED BY <2>2, <2>3
<1>6. ASSUME PollsOnly(v.app) PROVE InOrder(r)
  <2>1. /\ ~r.crossed /\ ~r.late /\ Ticks(r.queue) = Ticks(v.queue)
        /\ OldOk(r.queue) = OldOk(v.queue)
    BY <1>2, <1>6 DEF Same, Others
  <2>2. CASE v.fd
    <3>1. OldOk(r.queue) = {}
      BY <1>6, <2>1, <2>2
    <3>2. r.rd # <<>> => Before(Bad(r.queue), Events(r.queue))
      BY <1>2, <1>6, <2>2 DEF Before
    <3>3. NewOk(r.queue) # {} => Bad(r.queue) = {}
      BY <1>2, <1>6, <2>2
    <3> QED BY <1>6, <2>1, <3>1, <3>2, <3>3 DEF InOrder
  <2>3. CASE ~v.fd
    <3>1. r.rd = <<>> /\ NewOk(r.queue) = {}
      BY <1>2, <2>3 DEF Shut
    <3>2. r.state # "CONNECTED"
      BY <1>1, <1>2, <2>3 DEF Same
    <3> QED BY <1>6, <2>1, <3>1, <3>2 DEF InOrder
  <2> QED BY <2>2, <2>3
<1> QED BY <1>2, <1>3, <1>4, <1>5, <1>6 DEF Sound, Nice, Polled, Same, r

LEMMA ReadHandlerLemma ==
  ASSUME NEW s, NEW item \in Item, Handling(s, item), NEW call,
         NEW res \in BOOLEAN, NEW reconnect \in s.app.reconnects
  PROVE  LET r == read_handler(s, item, call, res, reconnect)
         IN  Sound(r) /\ r.app = s.app /\ r.gone = s.gone
<1>1. s \in Endpoint /\ Core(s) /\ ~s.holding /\ Nice(s) /\ Polled(s)
  BY DEF Handling, Core
<1>2. reconnect \in BOOLEAN /\ (PollsOnly(s.app) => ~reconnect)
  BY <1>1, ReconnectChoice
<1>3. CASE ~item.ok
  BY <1>3, FailedLemma DEF read_handler
<1>4. CASE item.ok
  <2> DEFINE a == s.misread \/ ~item.own
             b == s.late \/ (item.old /\ s.state = "CONNECTED")
             t == [s EXCEPT !.holding = TRUE, !.misread = a, !.late = b]
             u == on_recv(t, call, res, reconnect)
             v == [u EXCEPT !.holding = FALSE]
  <2>1. read_handler(s, item, call, res, reconnect) = do_read(v)
    BY <1>1, <1>4 DEF read_handler, Endpoint
  <2>2. a \in BOOLEAN /\ b \in BOOLEAN
    BY <1>1 DEF Endpoint, Item
  <2> HIDE DEF a, b
  <2>3. t \in Endpoint /\ t.holding /\ t.misread = a /\ t.late = b
    BY <1>1, <2>2 DEF Endpoint
  <2>4. /\ t.app = s.app /\ t.gone = s.gone /\ t.state = s.state /\ t.up = s.up
        /\ t.fd = s.fd /\ t.thrown = s.thrown /\ t.queue = s.queue /\ t.rd = s.rd
        /\ t.inbox = s.inbox /\ t.err = s.err /\ t.crossed = s.crossed
    BY <1>1 DEF Endpoint
  <2> HIDE DEF t
  <2>5. Core(t)
    BY <1>1, <2>3, <2>4 DEF Core, Shut
  <2>6. Core(u) /\ (u = t \/ (Shuts(u, t) /\ (~reconnect => Stays(u, t))))
    BY <1>2, <2>5, RecvLemma
  <2> HIDE DEF u
  <2>7. v \in Endpoint /\ ~v.holding
    BY <2>6 DEF Endpoint, Core
  <2>8. /\ v.app = u.app /\ v.gone = u.gone /\ v.state = u.state /\ v.up = u.up
        /\ v.fd = u.fd /\ v.thrown = u.thrown /\ v.queue = u.queue /\ v.rd = u.rd
        /\ v.inbox = u.inbox /\ v.err = u.err /\ v.crossed = u.crossed
        /\ v.misread = u.misread /\ v.late = u.late
    BY <2>6 DEF Endpoint, Core
  <2> HIDE DEF v
  <2>9. Core(v)
    BY <2>6, <2>7, <2>8 DEF Core, Shut
  <2>10. /\ v.app = s.app /\ v.gone = s.gone /\ v.late = b /\ v.misread = a
         /\ s.crossed => v.crossed
    BY <2>3, <2>4, <2>6, <2>8 DEF Shuts
  <2>11. ASSUME ~v.crossed, ~v.late
         PROVE  /\ v.fd => v.rd = <<>> /\ NewOk(v.queue) = {} /\ OldOk(v.queue) = {}
                /\ ~v.misread /\ \A i \in OldOk(v.queue) : v.queue[i].own
    <3>1. ~s.crossed /\ ~s.late /\ ~(item.old /\ s.state = "CONNECTED")
      BY <2>10, <2>11 DEF b
    <3>2. Tidy(s) /\ ~v.misread
      BY <1>1, <1>4, <2>10, <3>1 DEF Nice, Handling, Tidy, a
    <3>3. CASE u = t
      <4>1. v.queue = s.queue /\ v.rd = s.rd /\ v.fd = s.fd
        BY <2>4, <2>8, <3>3
      <4>2. s.fd => ~item.old
        BY <1>1, <3>1 DEF Core
      <4>3. s.fd => s.rd = <<>> /\ NewOk(s.queue) = {} /\ OldOk(s.queue) = {}
        BY <1>4, <3>1, <4>2 DEF Handling
      <4> QED BY <3>2, <4>1, <4>3 DEF Tidy
    <3>4. CASE Shuts(u, t)
      <4>1. u.rd = <<>> /\ u.state # "CONNECTED"
        BY <2>3, <2>8, <2>11, <3>4 DEF Shuts
      <4>2. ~v.fd
        BY <2>6, <2>8, <4>1 DEF Core
      <4>3. \A i \in OldOk(u.queue) : u.queue[i].own
        BY <2>4, <3>2, <3>4 DEF Shuts, Aged, Tidy
      <4> QED BY <2>8, <3>2, <4>2, <4>3
    <3> QED BY <2>6, <3>3, <3>4
  <2>12. ASSUME PollsOnly(v.app)
         PROVE  /\ ~v.crossed /\ ~v.late
                /\ v.fd => OldOk(v.queue) = {} /\ Bad(v.queue) = {}
                /\ Before(OldOk(v.queue), Ticks(v.queue))
                /\ \A i, j \in Ticks(v.queue) : i = j
    <3>1. InOrder(s) /\ NewOk(s.queue) = {} /\ ~reconnect
      BY <1>1, <1>2, <2>10, <2>12 DEF Polled, Handling
    <3>2. ~v.late
      BY <1>4, <2>10, <2>12, <3>1 DEF Handling, InOrder, b
    <3>3. CASE u = t
      <4>1. v.queue = s.queue /\ v.fd = s.fd /\ v.crossed = s.crossed
        BY <2>4, <2>8, <3>3
      <4>2. s.fd => OldOk(s.queue) = {}
        BY <1>1, <3>1 DEF Core, InOrder
      <4>3. s.fd => Bad(s.queue) = {}
        BY <1>4, <2>10, <2>12 DEF Handling
      <4> QED BY <3>1, <3>2, <4>1, <4>2, <4>3 DEF InOrder
    <3>4. CASE Shuts(u, t) /\ Stays(u, t)
      <4>1. v.crossed = s.crossed /\ ~v.fd
        BY <2>4, <2>6, <2>8, <3>4 DEF Stays, Core
      <4>2. /\ OldOk(v.queue) = OldOk(s.queue) /\ Ticks(v.queue) = Ticks(s.queue)
        BY <2>4, <2>8, <3>1, <3>4 DEF Shuts, Aged
      <4> QED BY <3>1, <3>2, <4>1, <4>2 DEF InOrder
    <3> QED BY <2>6, <3>1, <3>3, <3>4
  <2> DEFINE r == do_read(v)
  <2>13. Sound(r) /\ r.app = v.app /\ r.gone = v.gone
    BY <2>7, <2>9, <2>11, <2>12, NextReadLemma
  <2> QED BY <2>1, <2>10, <2>13
<1> QED BY <1>3, <1>4

\* A connection that nobody keeps and that has no receive left is destroyed:
\* it is disconnected.
LEMMA SettleLemma ==
  ASSUME NEW s, Sound(s), ~s.gone
  PROVE  Lives(Settle(s))
<1>1. s \in Endpoint /\ Core(s) /\ Waits(s) /\ Shut(s) /\ Nice(s) /\ ~s.holding
  BY DEF Sound, Core
<1>2. CASE ~s.app.owned /\ s.rd = <<>> /\ Reads(s) = {}
  <2> DEFINE t == socket_close(s)
             r == [t EXCEPT !.gone = TRUE]
  <2>1. t \in Endpoint /\ Same(t, s) /\ t.rd = <<>> /\ Aged(t.queue, s.queue)
    BY <1>1, SocketCloseLemma
  <2>2. Settle(s) = r
    BY <1>2 DEF Settle
  <2> HIDE DEF t
  <2>3. r \in Endpoint /\ r.gone
    BY <2>1 DEF Endpoint
  <2>4. /\ r.app = s.app /\ r.up = s.up /\ r.thrown = s.thrown /\ r.crossed = s.crossed
        /\ r.late = s.late /\ r.misread = s.misread /\ r.rd = <<>> /\ r.queue = t.queue
    BY <2>1 DEF Endpoint, Same
  <2> HIDE DEF r
  <2>5. ~s.up
    BY <1>1, <1>2 DEF Core, Waits
  <2>6. Nice(r)
    <3>1. ASSUME ~s.crossed, ~s.late PROVE Tidy(r)
      <4>1. Tidy(s)
        BY <1>1, <3>1 DEF Nice
      <4>2. NewOk(r.queue) = {} /\ \A i \in OldOk(r.queue) : r.queue[i].own
        BY <2>1, <2>4, <4>1 DEF Aged, Tidy
      <4> QED BY <2>4, <4>1, <4>2 DEF Tidy
    <3> QED BY <2>4, <3>1 DEF Nice
  <2>7. Polled(r)
    BY <1>2, <2>4 DEF Polled, PollsOnly
  <2> QED BY <1>1, <2>2, <2>3, <2>4, <2>5, <2>6, <2>7 DEF Lives, Core
<1>3. CASE ~(~s.app.owned /\ s.rd = <<>> /\ Reads(s) = {})
  BY <1>1, <1>3 DEF Settle, Lives, Core, Sound
<1> QED BY <1>2, <1>3

-----------------------------------------------------------------------------
(* Steps                                                                   *)

\* The positions that are left when the first entry is taken.
LEMMA PopSets ==
  ASSUME NEW q \in Seq(Item), q # <<>>
  PROVE  LET t == Tail(q)
             h == Head(q)
         IN  /\ h \in Item /\ t \in Seq(Item)
             /\ \A i \in OldOk(t) : i \in Nat \ {0} /\ i + 1 \in OldOk(q) /\ q[i + 1] = t[i]
             /\ \A i \in NewOk(t) : i \in Nat \ {0} /\ i + 1 \in NewOk(q) /\ q[i + 1] = t[i]
             /\ \A i \in Bad(t) : i \in Nat \ {0} /\ i + 1 \in Bad(q)
             /\ \A i \in Events(t) : i \in Nat \ {0} /\ i + 1 \in Events(q)
             /\ \A i \in Ticks(t) : i \in Nat \ {0} /\ i + 1 \in Ticks(q)
             /\ h.op = "event" => 1 \in Events(q)
             /\ h.op = "tick" => 1 \in Ticks(q)
             /\ h.op = "read" /\ ~h.ok => 1 \in Bad(q)
             /\ h.op = "read" /\ h.ok /\ h.old => 1 \in OldOk(q) /\ q[1] = h
             /\ h.op = "read" /\ h.ok /\ ~h.old => 1 \in NewOk(q) /\ q[1] = h
<1> DEFINE t == Tail(q)
           h == Head(q)
<1>1. /\ h \in Item /\ t \in Seq(Item) /\ 1 \in DOMAIN q /\ q[1] = h
      /\ \A i \in DOMAIN t : i \in Nat \ {0} /\ i + 1 \in DOMAIN q /\ q[i + 1] = t[i]
  BY PopLemma
<1> HIDE DEF t, h
<1>2. /\ \A i \in OldOk(t) : i \in Nat \ {0} /\ i + 1 \in OldOk(q) /\ q[i + 1] = t[i]
      /\ \A i \in NewOk(t) : i \in Nat \ {0} /\ i + 1 \in NewOk(q) /\ q[i + 1] = t[i]
  BY <1>1 DEF OldOk, NewOk
<1>3. /\ \A i \in Bad(t) : i \in Nat \ {0} /\ i + 1 \in Bad(q)
      /\ \A i \in Events(t) : i \in Nat \ {0} /\ i + 1 \in Events(q)
      /\ \A i \in Ticks(t) : i \in Nat \ {0} /\ i + 1 \in Ticks(q)
  BY <1>1 DEF Bad, Events, Ticks
<1>4. /\ h.op = "event" => 1 \in Events(q)
      /\ h.op = "tick" => 1 \in Ticks(q)
      /\ h.op = "read" /\ ~h.ok => 1 \in Bad(q)
      /\ h.op = "read" /\ h.ok /\ h.old => 1 \in OldOk(q) /\ q[1] = h
      /\ h.op = "read" /\ h.ok /\ ~h.old => 1 \in NewOk(q) /\ q[1] = h
  BY <1>1 DEF Bad, Events, Ticks, OldOk, NewOk
<1> QED BY <1>1, <1>2, <1>3, <1>4 DEF t, h

\* A set of positions comes before another one also when the first entry of
\* the queue is gone.
LEMMA BeforePop ==
  ASSUME NEW I, NEW J, NEW A, NEW B, Before(A, B),
         \A i \in I : i \in Nat /\ i + 1 \in A, \A j \in J : j \in Nat /\ j + 1 \in B
  PROVE  Before(I, J)
<1> SUFFICES ASSUME NEW i \in I, NEW j \in J PROVE i < j
  BY DEF Before
<1>1. i \in Nat /\ j \in Nat /\ i + 1 < j + 1
  BY DEF Before
<1> QED BY <1>1

LEMMA NoneBeforeFirst ==
  ASSUME NEW I, NEW A, NEW B, Before(A, B), 1 \in B,
         \A i \in I : i \in Nat \ {0} /\ i + 1 \in A
  PROVE  I = {}
<1>1. \A i \in I : i \in Nat \ {0} /\ i + 1 < 1
  BY DEF Before
<1> QED BY <1>1

\* An entry leaves the queue.
LEMMA PoppedLemma ==
  ASSUME Lives(ep), Running, ep.queue # <<>>
  PROVE  LET s == Popped
             h == Head(ep.queue)
         IN  /\ s.app = ep.app /\ ~s.gone /\ h \in Item
             /\ h.op # "read" => Sound(s)
             /\ h.op = "read" => Handling(s, h)
             /\ h.op = "event" =>
                  /\ OldOk(s.queue) = {}
                  /\ PollsOnly(s.app) /\ s.rd # <<>> => Bad(s.queue) = {}
             /\ h.op = "tick" /\ PollsOnly(s.app) =>
                  OldOk(s.queue) = {} /\ Ticks(s.queue) = {}
<1> DEFINE q == ep.queue
           t == Tail(q)
           h == Head(q)
           s == Popped
<1>1. ep \in Endpoint /\ Sound(ep) /\ Core(ep) /\ ~ep.gone
  BY DEF Lives, Sound, Running
<1>2. q \in Seq(Item) /\ q # <<>>
  BY <1>1 DEF Endpoint
<1>3. s = [ep EXCEPT !.queue = t]
  BY DEF Popped
<1>4. /\ h \in Item /\ t \in Seq(Item)
      /\ \A i \in OldOk(t) : i \in Nat \ {0} /\ i + 1 \in OldOk(q) /\ q[i + 1] = t[i]
      /\ \A i \in NewOk(t) : i \in Nat \ {0} /\ i + 1 \in NewOk(q) /\ q[i + 1] = t[i]
      /\ \A i \in Bad(t) : i \in Nat \ {0} /\ i + 1 \in Bad(q)
      /\ \A i \in Events(t) : i \in Nat \ {0} /\ i + 1 \in Events(q)
      /\ \A i \in Ticks(t) : i \in Nat \ {0} /\ i + 1 \in Ticks(q)
      /\ h.op = "event" => 1 \in Events(q)
      /\ h.op = "tick" => 1 \in Ticks(q)
      /\ h.op = "read" /\ ~h.ok => 1 \in Bad(q)
      /\ h.op = "read" /\ h.ok /\ h.old => 1 \in OldOk(q) /\ q[1] = h
      /\ h.op = "read" /\ h.ok /\ ~h.old => 1 \in NewOk(q) /\ q[1] = h
  BY <1>2, PopSets
<1>5. h.op # "read" => \A i \in DOMAIN q : q[i].op = "read" =>
                         i - 1 \in DOMAIN t /\ t[i - 1] = q[i]
  BY <1>2, PopLemma
<1> HIDE DEF q, t, h, s
<1>6. s \in Endpoint /\ s.queue = t
  BY <1>1, <1>3, <1>4 DEF Endpoint
<1>7. Same(s, ep) /\ s.fd = ep.fd /\ s.rd = ep.rd /\ s.inbox = ep.inbox /\ s.err = ep.err
  BY <1>1, <1>3 DEF Endpoint, Same
<1>8. /\ (OldOk(q) = {} => OldOk(t) = {}) /\ (NewOk(q) = {} => NewOk(t) = {})
      /\ (Bad(q) = {} => Bad(t) = {}) /\ (Events(q) = {} => Events(t) = {})
  BY <1>4
<1>9. Before(OldOk(q), Events(q) \cup NewOk(q))
  BY <1>1 DEF Core, q
<1>10. Before(OldOk(t), Events(t) \cup NewOk(t))
  <2>1. \A j \in Events(t) \cup NewOk(t) : j \in Nat /\ j + 1 \in Events(q) \cup NewOk(q)
    BY <1>4
  <2> QED BY <1>4, <1>9, <2>1, BeforePop
<1>11. Shut(s)
  BY <1>1, <1>6, <1>7, <1>8 DEF Core, Shut, q
<1>12. Core(s) /\ ~s.holding
  BY <1>1, <1>6, <1>7, <1>10, <1>11 DEF Core, Same, Sound
<1>13. ASSUME Tidy(ep) PROVE Tidy(s)
  <2>1. \A i, j \in NewOk(t) : i = j
    <3>1. \A i, j \in NewOk(t) : i \in Nat /\ j \in Nat /\ i + 1 = j + 1
      BY <1>4, <1>13 DEF Tidy, q
    <3> QED BY <3>1
  <2>2. \A i \in OldOk(t) \cup NewOk(t) : t[i].own
    BY <1>4, <1>13 DEF Tidy, q
  <2>3. ~s.misread /\ s.rd \in {<<>>, <<"front">>} /\ (s.rd # <<>> => NewOk(t) = {})
    BY <1>7, <1>8, <1>13 DEF Tidy, Same, q
  <2> QED BY <1>6, <2>1, <2>2, <2>3 DEF Tidy
<1>14. Nice(s)
  BY <1>1, <1>7, <1>13 DEF Nice, Sound, Same
<1>15. ASSUME InOrder(ep) PROVE InOrder(s)
  <2>1. Before(OldOk(q), Ticks(q)) /\ (ep.rd # <<>> => Before(Bad(q), Events(q)))
    BY <1>15 DEF InOrder, q
  <2>2. Before(OldOk(t), Ticks(t))
    BY <1>4, <2>1, BeforePop
  <2>3. s.rd # <<>> => Before(Bad(t), Events(t))
    BY <1>4, <1>7, <2>1, BeforePop
  <2>4. \A i, j \in Ticks(t) : i = j
    <3>1. \A i, j \in Ticks(t) : i \in Nat /\ j \in Nat /\ i + 1 = j + 1
      BY <1>4, <1>15 DEF InOrder, q
    <3> QED BY <3>1
  <2>5. /\ ~s.crossed /\ ~s.late /\ (s.state = "CONNECTED" => OldOk(t) = {})
        /\ (NewOk(t) # {} => Bad(t) = {})
    BY <1>7, <1>8, <1>15 DEF InOrder, Same, q
  <2> QED BY <1>6, <2>2, <2>3, <2>4, <2>5 DEF InOrder
<1>16. Polled(s)
  BY <1>1, <1>7, <1>15 DEF Polled, Sound, Same
<1>17. ASSUME h.op # "read" PROVE Waits(s)
  <2>1. SUFFICES ASSUME s.state = "CONNECTED", s.rd = <<>>
                 PROVE  \E i \in Reads(s) : ~s.queue[i].old
    BY DEF Waits
  <2>2. PICK i \in DOMAIN q : q[i].op = "read" /\ ~q[i].old
    BY <1>1, <1>7, <2>1 DEF Sound, Waits, Same, Reads, q
  <2>3. i - 1 \in DOMAIN t /\ t[i - 1] = q[i]
    BY <1>5, <1>17, <2>2
  <2> QED BY <1>6, <2>2, <2>3 DEF Reads
<1>18. ASSUME h.op = "read" PROVE Handling(s, h)
  <2>1. ASSUME ~s.crossed, ~s.late
        PROVE  /\ h.ok => h.own
               /\ h.ok /\ ~h.old => s.rd = <<>> /\ NewOk(t) = {} /\ OldOk(t) = {}
    <3>1. Tidy(ep)
      BY <1>1, <1>7, <2>1 DEF Sound, Nice, Same
    <3>2. h.ok => h.own
      BY <1>4, <1>18, <3>1 DEF Tidy, q
    <3>3. ASSUME h.ok, ~h.old PROVE s.rd = <<>> /\ NewOk(t) = {} /\ OldOk(t) = {}
      <4>1. 1 \in NewOk(q)
        BY <1>4, <1>18, <3>3
      <4>2. NewOk(t) = {}
        <5>1. \A i \in NewOk(t) : i \in Nat \ {0} /\ i + 1 = 1
          BY <1>4, <3>1, <4>1 DEF Tidy, q
        <5> QED BY <5>1
      <4>3. OldOk(t) = {}
        <5>1. 1 \in Events(q) \cup NewOk(q)
          BY <4>1
        <5> QED BY <1>4, <1>9, <5>1, NoneBeforeFirst
      <4>4. s.rd = <<>>
        BY <1>7, <3>1, <4>1 DEF Tidy, q
      <4> QED BY <4>2, <4>3, <4>4
    <3> QED BY <3>2, <3>3
  <2>2. ASSUME PollsOnly(s.app)
        PROVE  /\ NewOk(t) = {}
               /\ h.ok /\ h.old => s.state = "DISCONNECTED"
               /\ h.ok /\ s.fd => Bad(t) = {}
    <3>1. InOrder(ep) /\ InOrder(s)
      BY <1>1, <1>7, <1>15, <2>2 DEF Sound, Polled, Same
    <3>2. h.ok /\ h.old => s.state # "CONNECTED"
      BY <1>4, <1>7, <1>18, <3>1 DEF InOrder, Same, q
    <3>3. h.ok /\ h.old => s.state = "DISCONNECTED" /\ ~s.fd
      BY <1>6, <1>12, <3>2 DEF Core, Endpoint
    <3>4. ~h.ok => NewOk(q) = {}
      BY <1>4, <1>18, <3>1 DEF InOrder, q
    <3>5. h.ok /\ ~h.old => NewOk(t) = {} /\ Bad(q) = {}
      BY <1>4, <1>18, <2>1, <3>1 DEF InOrder, q
    <3>6. ~s.fd => NewOk(t) = {}
      BY <1>6, <1>11 DEF Shut
    <3>7. h.ok \in BOOLEAN /\ h.old \in BOOLEAN
      BY <1>4 DEF Item
    <3> QED BY <1>8, <3>3, <3>4, <3>5, <3>6, <3>7
  <2> QED BY <1>6, <1>12, <1>14, <1>16, <2>1, <2>2 DEF Handling
<1>19. ASSUME h.op = "event"
       PROVE  OldOk(t) = {} /\ (PollsOnly(s.app) /\ s.rd # <<>> => Bad(t) = {})
  <2>1. 1 \in Events(q) /\ 1 \in Events(q) \cup NewOk(q)
    BY <1>4, <1>19
  <2>2. OldOk(t) = {}
    BY <1>4, <1>9, <2>1, NoneBeforeFirst
  <2>3. ASSUME PollsOnly(s.app), s.rd # <<>> PROVE Bad(t) = {}
    <3>1. Before(Bad(q), Events(q))
      BY <1>1, <1>7, <2>3 DEF Sound, Polled, InOrder, Same, q
    <3> QED BY <1>4, <2>1, <3>1, NoneBeforeFirst
  <2> QED BY <2>2, <2>3
<1>20. ASSUME h.op = "tick", PollsOnly(s.app) PROVE OldOk(t) = {} /\ Ticks(t) = {}
  <2>1. InOrder(ep) /\ 1 \in Ticks(q)
    BY <1>1, <1>4, <1>7, <1>20 DEF Sound, Polled, Same
  <2>2. Before(OldOk(q), Ticks(q))
    BY <2>1 DEF InOrder, q
  <2>3. OldOk(t) = {}
    BY <1>4, <2>1, <2>2, NoneBeforeFirst
  <2>4. \A i \in Ticks(t) : i \in Nat \ {0} /\ i + 1 = 1
    BY <1>4, <2>1 DEF InOrder, q
  <2> QED BY <2>3, <2>4
<1>21. s.app = ep.app /\ ~s.gone
  BY <1>1, <1>7 DEF Same
<1>22. h.op # "read" => Sound(s)
  BY <1>12, <1>14, <1>16, <1>17 DEF Sound
<1> QED BY <1>4, <1>6, <1>18, <1>19, <1>20, <1>21, <1>22 DEF q, h, s

\* RemoveAt keeps the other entries; those in front of it keep their place.
LEMMA RemoveLemma ==
  ASSUME NEW w \in Seq(Item), NEW n \in 1..Len(w)
  PROVE  LET r == RemoveAt(w, n)
         IN  /\ r \in Seq(Item)
             /\ \A i \in DOMAIN r : \E k \in DOMAIN w : r[i] = w[k]
             /\ n = Len(w) => DOMAIN r = 1..n - 1 /\ \A i \in 1..n - 1 : r[i] = w[i]
<1> DEFINE a == SubSeq(w, 1, n - 1)
           b == SubSeq(w, n + 1, Len(w))
           r == RemoveAt(w, n)
<1>1. Len(w) \in Nat /\ DOMAIN w = 1..Len(w) /\ n \in Nat /\ \A i \in 1..Len(w) : w[i] \in Item
  BY Positions
<1>2. /\ a \in Seq(Item) /\ Len(a) = n - 1 /\ \A i \in 1..n - 1 : a[i] = w[i]
  <2>1. \A i \in 1..n - 1 : w[i] \in Item
    BY <1>1
  <2>2. /\ a \in Seq(Item) /\ Len(a) = IF 1 <= n - 1 THEN n - 1 - 1 + 1 ELSE 0
        /\ \A i \in 1..n - 1 - 1 + 1 : a[i] = w[1 + i - 1]
    BY <1>1, <2>1, SubSeqProperties
  <2> QED BY <1>1, <2>2
<1>3. /\ b \in Seq(Item) /\ Len(b) = Len(w) - n
      /\ \A i \in 1..Len(w) - n : b[i] = w[i + n]
  <2>1. \A i \in n + 1..Len(w) : w[i] \in Item
    BY <1>1
  <2>2. /\ b \in Seq(Item)
        /\ Len(b) = IF n + 1 <= Len(w) THEN Len(w) - (n + 1) + 1 ELSE 0
        /\ \A i \in 1..Len(w) - (n + 1) + 1 : b[i] = w[n + 1 + i - 1]
    BY <1>1, <2>1, SubSeqProperties
  <2> HIDE DEF b
  <2>3. Len(b) = Len(w) - n
    <3> DEFINE m == Len(w)
               l == Len(b)
    <3>1. m \in Nat /\ n \in 1..m /\ l = IF n + 1 <= m THEN m - (n + 1) + 1 ELSE 0
      BY <1>1, <2>2
    <3> HIDE DEF m, l
    <3>2. l = m - n
      BY <3>1
    <3> QED BY <3>2 DEF m, l
  <2>4. ASSUME NEW i \in 1..Len(w) - n PROVE b[i] = w[i + n]
    <3>1. i \in 1..Len(w) - (n + 1) + 1 /\ n + 1 + i - 1 = i + n
      BY <1>1
    <3> QED BY <2>2, <3>1
  <2> QED BY <2>2, <2>3, <2>4
<1>4. r = a \o b
  BY DEF RemoveAt
<1> HIDE DEF a, b, r
<1>5. /\ r \in Seq(Item) /\ DOMAIN a \subseteq DOMAIN r
      /\ \A i \in DOMAIN a : r[i] = a[i]
      /\ \A i \in DOMAIN r \ DOMAIN a : \E k \in DOMAIN b : r[i] = b[k]
  <2> DEFINE c == a \o b
  <2>1. /\ c \in Seq(Item) /\ DOMAIN a \subseteq DOMAIN c
        /\ \A i \in DOMAIN a : c[i] = a[i]
        /\ \A i \in DOMAIN c \ DOMAIN a : \E k \in DOMAIN b : c[i] = b[k]
    BY <1>2, <1>3, ConcatLemma
  <2>2. r = c
    BY <1>4
  <2> HIDE DEF c
  <2> QED BY <2>1, <2>2
<1>6. DOMAIN a = 1..n - 1 /\ DOMAIN b = 1..Len(w) - n
  BY <1>2, <1>3, LenProperties
<1>7. ASSUME NEW i \in DOMAIN r PROVE \E k \in DOMAIN w : r[i] = w[k]
  <2>1. CASE i \in DOMAIN a
    <3>1. i \in DOMAIN w /\ r[i] = w[i]
      BY <1>1, <1>2, <1>5, <1>6, <2>1
    <3> QED BY <3>1
  <2>2. CASE i \notin DOMAIN a
    <3>1. PICK k \in DOMAIN b : r[i] = b[k]
      BY <1>5, <1>7, <2>2
    <3>2. k + n \in DOMAIN w /\ r[i] = w[k + n]
      BY <1>1, <1>3, <1>6, <3>1
    <3> QED BY <3>2
  <2> QED BY <2>1, <2>2
<1>8. ASSUME n = Len(w) PROVE DOMAIN r = 1..n - 1 /\ \A i \in 1..n - 1 : r[i] = w[i]
  <2>1. b = <<>>
    BY <1>1, <1>3, <1>8, EmptySeq
  <2>2. r = a
    BY <1>2, <1>4, <2>1, ConcatEmptySeq
  <2> QED BY <1>2, <1>6, <2>2
<1> QED BY <1>5, <1>7, <1>8 DEF r

\* A waiting receive completes.
LEMMA FirstLemma ==
  ASSUME NEW s \in Endpoint, s.rd # <<>>, Ready(s)
  PROVE  LET r == Take([s EXCEPT !.rd = Tail(@)], Head(s.rd))
             n == Len(s.queue) + 1
         IN  /\ r \in Endpoint /\ Same(r, s) /\ r.fd = s.fd /\ r.rd = Tail(s.rd)
             /\ Alike(r.queue, s.queue)
             /\ DOMAIN r.queue = DOMAIN s.queue \cup {n} /\ Len(r.queue) = n
             /\ r.queue[n] \in {Failed, Received(Head(s.rd))}
             /\ Head(s.rd) \in Place
<1> DEFINE a == [s EXCEPT !.rd = Tail(@)]
           p == Head(s.rd)
           r == Take(a, p)
<1>1. s.rd \in Seq(Place)
  BY DEF Endpoint
<1>2. p \in Place /\ Tail(s.rd) \in Seq(Place)
  BY <1>1, HeadTailProperties
<1>3. a \in Endpoint /\ a.rd = Tail(s.rd)
  <2> DEFINE l == Tail(s.rd)
  <2>1. a = [s EXCEPT !.rd = l] /\ l \in Seq(Place)
    BY <1>2
  <2> HIDE DEF l, a
  <2>2. a \in Endpoint /\ a.rd = l
    BY <2>1 DEF Endpoint
  <2> QED BY <2>2 DEF l
<1>4. Same(a, s) /\ a.fd = s.fd /\ a.queue = s.queue /\ a.err = s.err /\ a.inbox = s.inbox
  BY DEF Endpoint, Same
<1> HIDE DEF a, p
<1>5. Ready(a)
  BY <1>4 DEF Ready
<1> DEFINE n == Len(a.queue) + 1
<1>6. /\ r \in Endpoint /\ Same(r, a) /\ r.fd = a.fd /\ r.rd = a.rd
      /\ Alike(r.queue, a.queue)
      /\ DOMAIN r.queue = DOMAIN a.queue \cup {n} /\ Len(r.queue) = n
      /\ r.queue[n] = IF a.err THEN Failed ELSE Received(p)
  BY <1>2, <1>3, <1>5, TakeLemma
<1> HIDE DEF r
<1>7. Same(r, s) /\ r.fd = s.fd
  BY <1>4, <1>6 DEF Same
<1> QED BY <1>2, <1>3, <1>4, <1>6, <1>7 DEF r, a, p

LEMMA PerformLemma ==
  ASSUME Lives(ep), PerformIO PROVE Lives(ep')
<1> DEFINE s == Popped
           n == Len(s.queue) + 1
           t == Completed(s)
           x == [t EXCEPT !.queue = RemoveAt(@, n)]
           e == t.queue[n]
<1>1. Running /\ ep.queue # <<>> /\ Head(ep.queue).op = "event"
  BY DEF PerformIO, NextIs
<1>2. PICK call \in ep.app.recv, res \in BOOLEAN, reconnect \in ep.app.reconnects :
        ep' = IF s.rd = <<>> \/ ~Ready(s) THEN s
              ELSE Settle(read_handler(x, e, call, res, reconnect))
  BY DEF PerformIO
<1>3. /\ Sound(s) /\ ~s.gone /\ s.app = ep.app /\ OldOk(s.queue) = {}
      /\ PollsOnly(s.app) /\ s.rd # <<>> => Bad(s.queue) = {}
  BY <1>1, PoppedLemma
<1>4. s \in Endpoint /\ Core(s) /\ ~s.thrown /\ s.queue \in Seq(Item) /\ Shut(s)
  BY <1>3 DEF Sound, Core, Endpoint
<1>5. Len(s.queue) \in Nat /\ DOMAIN s.queue = 1..Len(s.queue) /\ n \in Nat
  BY <1>4, Positions
<1> HIDE DEF s
<1>6. CASE s.rd = <<>> \/ ~Ready(s)
  BY <1>2, <1>3, <1>4, <1>6 DEF Lives, Sound
<1>7. CASE s.rd # <<>> /\ Ready(s)
  <2> DEFINE a == Take([s EXCEPT !.rd = Tail(@)], Head(s.rd))
             b == Take([a EXCEPT !.rd = Tail(@)], Head(a.rd))
  <2>1. t = IF a.rd # <<>> /\ Ready(a) THEN b ELSE a
    BY DEF Completed
  <2>2. /\ a \in Endpoint /\ Same(a, s) /\ a.fd = s.fd /\ a.rd = Tail(s.rd)
        /\ Alike(a.queue, s.queue)
        /\ DOMAIN a.queue = DOMAIN s.queue \cup {n} /\ Len(a.queue) = n
        /\ a.queue[n] \in {Failed, Received(Head(s.rd))}
        /\ Head(s.rd) \in Place
    BY <1>4, <1>7, FirstLemma
  <2> HIDE DEF a, n
  <2>3. OldOk(a.queue) = {}
    <3>1. ~a.queue[n].old
      BY <2>2, Entries
    <3> QED BY <1>3, <2>2, <3>1 DEF OldOk, Alike
  <2>4. /\ t \in Endpoint /\ Same(t, s) /\ t.fd = s.fd /\ OldOk(t.queue) = {}
        /\ n \in DOMAIN t.queue /\ (a.rd = <<>> => t = a)
    <3>1. CASE a.rd # <<>> /\ Ready(a)
      <4> DEFINE k == Len(a.queue) + 1
      <4>1. /\ b \in Endpoint /\ Same(b, a) /\ b.fd = a.fd /\ Alike(b.queue, a.queue)
            /\ DOMAIN b.queue = DOMAIN a.queue \cup {k}
            /\ b.queue[k] \in {Failed, Received(Head(a.rd))} /\ Head(a.rd) \in Place
        BY <2>2, <3>1, FirstLemma
      <4> HIDE DEF b, k
      <4>2. ~b.queue[k].old
        BY <4>1, Entries
      <4>3. OldOk(b.queue) = {} /\ n \in DOMAIN b.queue
        BY <2>2, <2>3, <4>1, <4>2 DEF OldOk, Alike
      <4>4. Same(b, s) /\ b.fd = s.fd
        BY <2>2, <4>1 DEF Same
      <4> QED BY <2>1, <3>1, <4>1, <4>3, <4>4
    <3>2. CASE ~(a.rd # <<>> /\ Ready(a))
      BY <2>1, <2>2, <2>3, <3>2
    <3> QED BY <3>1, <3>2
  <2> HIDE DEF t, b
  <2> DEFINE w == t.queue
             y == RemoveAt(w, n)
  <2>5. w \in Seq(Item) /\ n \in 1..Len(w) /\ Len(w) \in Nat /\ DOMAIN w = 1..Len(w)
        /\ e \in Item
    <3>1. w \in Seq(Item)
      BY <2>4 DEF Endpoint
    <3> QED BY <2>4, <3>1, Positions
  <2>6. x = [t EXCEPT !.queue = y]
    OBVIOUS
  <2> HIDE DEF w, x
  <2>7. /\ y \in Seq(Item)
        /\ \A i \in DOMAIN y : \E k \in DOMAIN w : y[i] = w[k]
        /\ n = Len(w) => DOMAIN y = 1..n - 1 /\ \A i \in 1..n - 1 : y[i] = w[i]
    BY <2>5, RemoveLemma
  <2> HIDE DEF y
  <2>8. x \in Endpoint /\ x.queue = y
    BY <2>4, <2>6, <2>7 DEF Endpoint
  <2>9. Same(x, t) /\ x.fd = t.fd /\ x.rd = t.rd
    BY <2>4, <2>6 DEF Endpoint, Same
  <2>10. Same(x, s) /\ x.fd /\ s.fd
    BY <1>4, <1>7, <2>4, <2>9 DEF Same, Shut
  <2>11. OldOk(y) = {}
    BY <2>4, <2>7 DEF OldOk, w
  <2>12. Core(x) /\ ~x.holding
    BY <1>3, <1>4, <2>8, <2>10, <2>11 DEF Core, Same, Shut, Before, Sound
  \* With one receive that waits at the front nothing but its entry is new.
  <2>13. ASSUME ~s.crossed, ~s.late
         PROVE  /\ Tidy(s) /\ x.rd = <<>> /\ NewOk(y) = {} /\ (e.ok => e.own) /\ ~e.old
                /\ Bad(y) = Bad(s.queue) /\ Ticks(y) = Ticks(s.queue)
    <3>1. Tidy(s)
      BY <1>3, <2>13 DEF Sound, Nice
    <3>2. s.rd = <<"front">> /\ NewOk(s.queue) = {}
      BY <1>7, <3>1 DEF Tidy
    <3>3. Head(s.rd) = "front" /\ Tail(s.rd) = <<>>
      BY <3>2
    <3>4. t = a /\ x.rd = <<>>
      BY <2>2, <2>4, <2>9, <3>3
    <3>5. e = Failed \/ e = Received("front")
      BY <2>2, <3>3, <3>4
    <3>6. (e.ok => e.own) /\ ~e.old
      BY <3>5, Entries DEF Place
    <3>7. DOMAIN y = DOMAIN s.queue /\ \A i \in DOMAIN s.queue : y[i] = w[i]
      BY <1>5, <2>2, <2>7, <3>4 DEF w, n
    <3>8. /\ NewOk(y) = NewOk(s.queue) /\ Bad(y) = Bad(s.queue)
          /\ Ticks(y) = Ticks(s.queue)
      BY <2>2, <3>4, <3>7 DEF NewOk, Bad, Ticks, Alike, w
    <3> QED BY <3>1, <3>2, <3>4, <3>6, <3>8
  <2>14. Nice(x)
    BY <2>8, <2>10, <2>11, <2>13 DEF Nice, Tidy, Same
  <2>15. ASSUME PollsOnly(x.app)
         PROVE  /\ InOrder(x) /\ NewOk(y) = {} /\ ~e.old /\ Bad(y) = {}
    <3>1. InOrder(s) /\ Bad(s.queue) = {}
      BY <1>3, <1>7, <2>10, <2>15 DEF Sound, Polled, Same
    <3>2. ~s.crossed /\ ~s.late
      BY <3>1 DEF InOrder
    <3>3. /\ x.rd = <<>> /\ NewOk(y) = {} /\ ~e.old /\ Bad(y) = {}
          /\ Ticks(y) = Ticks(s.queue)
      BY <2>13, <3>1, <3>2
    <3>4. InOrder(x)
      BY <2>8, <2>10, <2>11, <3>1, <3>2, <3>3 DEF InOrder, Before, Same
    <3> QED BY <3>3, <3>4
  <2>16. Handling(x, e)
    BY <2>8, <2>10, <2>11, <2>12, <2>13, <2>14, <2>15 DEF Handling, Polled, Same
  <2> DEFINE r == read_handler(x, e, call, res, reconnect)
  <2>17. Sound(r) /\ r.gone = x.gone
    <3>1. reconnect \in x.app.reconnects
      BY <1>3, <2>10 DEF Same
    <3> HIDE DEF e
    <3> QED BY <2>5, <2>16, <3>1, ReadHandlerLemma
  <2>18. ep' = Settle(r)
    BY <1>2, <1>7
  <2>19. ~r.gone
    BY <1>3, <2>10, <2>17 DEF Same
  <2> HIDE DEF r
  <2> QED BY <2>17, <2>18, <2>19, SettleLemma
<1> QED BY <1>6, <1>7

\* A socket closed, and perhaps opened again, by a tick leaves the queue of
\* the application that polls in order.
LEMMA ShutsInOrder ==
  ASSUME NEW s, NEW r, Core(r), Shuts(r, s), ~s.holding, ~s.crossed, ~s.late,
         Ticks(s.queue) = {},
         r.state = "CONNECTED" => OldOk(s.queue) = {} /\ NewOk(s.queue) = {}
  PROVE  InOrder(r)
<1>1. ~r.crossed /\ ~r.late
  BY DEF Shuts, Core, Endpoint
<1>2. /\ Ticks(r.queue) = {} /\ Events(r.queue) = {} /\ NewOk(r.queue) = {}
      /\ r.state = "CONNECTED" => OldOk(r.queue) = {}
  BY DEF Shuts, Aged
<1> QED BY <1>1, <1>2 DEF InOrder, Before

\* What the timer of the application does.
LEMMA TickLemma ==
  ASSUME Lives(ep), RunTick PROVE Lives(ep')
<1> DEFINE s == Popped
           x(then, res, reconnect) ==
             CASE then = "poll"       -> poll(s, res, reconnect)
               [] then = "disconnect" -> disconnect(s, reconnect)
               [] OTHER               -> s
<1>1. Running /\ ep.queue # <<>> /\ Head(ep.queue).op = "tick"
  BY DEF RunTick, NextIs
<1>2. PICK then \in ep.app.tick, res \in BOOLEAN, reconnect \in ep.app.reconnects :
        ep' = Settle(x(then, res, reconnect))
  BY DEF RunTick
<1>3. /\ Sound(s) /\ ~s.gone /\ s.app = ep.app
      /\ PollsOnly(s.app) => OldOk(s.queue) = {} /\ Ticks(s.queue) = {}
  BY <1>1, PoppedLemma
<1> DEFINE r == x(then, res, reconnect)
<1> HIDE DEF s
<1>4. Core(s) /\ s \in Endpoint /\ ~s.holding /\ Nice(s) /\ Shut(s)
  BY <1>3 DEF Sound, Core
<1>5. reconnect \in BOOLEAN /\ (PollsOnly(s.app) => ~reconnect)
  BY <1>3, <1>4, ReconnectChoice
<1>6. ASSUME PollsOnly(s.app) PROVE ~s.crossed /\ ~s.late /\ then = "poll"
  BY <1>2, <1>3, <1>6 DEF Sound, Polled, InOrder, PollsOnly
<1>7. CASE then = "poll" /\ s.state = "DISCONNECTED"
  <2>1. r = connect(s, res, reconnect)
    BY <1>7 DEF poll
  <2>2. Core(r) /\ Shuts(r, s)
    BY <1>4, <1>5, <1>7, <2>1, ConnectLemma
  <2>3. NewOk(s.queue) = {}
    BY <1>4, <1>7 DEF Core, Shut
  <2> HIDE DEF r
  <2>4. r.app = s.app /\ ~r.gone
    BY <1>3, <2>2 DEF Shuts
  <2>5. Polled(r)
    BY <1>3, <1>4, <1>6, <2>2, <2>3, <2>4, ShutsInOrder DEF Polled
  <2>6. Sound(r)
    BY <1>4, <2>2, <2>5, ShutsNice DEF Sound
  <2> QED BY <1>2, <2>4, <2>6, SettleLemma DEF r
<1>8. CASE then = "poll" /\ s.state = "CONNECTED"
  <2>1. r = send(s, res, reconnect)
    BY <1>8 DEF poll
  <2>2. Core(r) /\ (r = s \/ (Shuts(r, s) /\ (~reconnect => Stays(r, s))))
    BY <1>4, <1>5, <2>1, SendLemma
  <2> HIDE DEF r
  <2>3. CASE r = s
    BY <1>2, <1>3, <2>3, SettleLemma DEF r
  <2>4. CASE Shuts(r, s) /\ (~reconnect => Stays(r, s))
    <3>1. r.app = s.app /\ ~r.gone
      BY <1>3, <2>4 DEF Shuts
    <3>2. PollsOnly(r.app) => r.state = "DISCONNECTED"
      BY <1>5, <2>4, <3>1 DEF Stays
    <3>3. Polled(r)
      BY <1>3, <1>4, <1>6, <2>2, <2>4, <3>1, <3>2, ShutsInOrder DEF Polled
    <3>4. Sound(r)
      BY <1>4, <2>2, <2>4, <3>3, ShutsNice DEF Sound
    <3> QED BY <1>2, <3>1, <3>4, SettleLemma DEF r
  <2> QED BY <2>2, <2>3, <2>4
<1>9. CASE then = "disconnect"
  <2>1. r = disconnect(s, reconnect)
    BY <1>9
  <2>2. Core(r) /\ (r = s \/ Shuts(r, s))
    BY <1>4, <1>5, <2>1, DisconnectLemma
  <2> HIDE DEF r
  <2>3. CASE r = s
    BY <1>2, <1>3, <2>3, SettleLemma DEF r
  <2>4. CASE Shuts(r, s)
    <3>1. r.app = s.app /\ ~r.gone
      BY <1>3, <2>4 DEF Shuts
    <3>2. Polled(r)
      BY <1>6, <1>9, <3>1 DEF Polled
    <3>3. Sound(r)
      BY <1>4, <2>2, <2>4, <3>2, ShutsNice DEF Sound
    <3> QED BY <1>2, <3>1, <3>3, SettleLemma DEF r
  <2> QED BY <2>2, <2>3, <2>4
<1>10. CASE then \notin {"poll", "disconnect"}
  <2>1. r = s
    BY <1>10
  <2> HIDE DEF r
  <2> QED BY <1>2, <1>3, <2>1, SettleLemma DEF r
<1>11. s.state \in {"DISCONNECTED", "CONNECTED"}
  BY <1>4 DEF Core, Endpoint
<1> QED BY <1>7, <1>8, <1>9, <1>10, <1>11

\* The kernel, the clock and the network.
LEMMA OutsideLemma ==
  ASSUME Lives(ep), EpollWait \/ TimerExpires \/ DatagramArrives \/ PeerUnreachable
  PROVE  Lives(ep')
<1>1. ep \in Endpoint /\ Running /\ ~ep.gone /\ ~ep.thrown /\ Sound(ep) /\ Core(ep)
  BY DEF Lives, Sound, Running, EpollWait, TimerExpires, DatagramArrives, PeerUnreachable
<1>2. ASSUME NEW op \in {"event", "tick"}, ep' = Post(ep, Entry(op)),
             op = "event" => ep.fd, op = "tick" => Ticks(ep.queue) = {}
      PROVE  Lives(ep')
  <2> DEFINE e == Entry(op)
             q == ep.queue
             w == Append(q, e)
             n == Len(q) + 1
  <2>1. q \in Seq(Item) /\ e \in Item /\ e.op = op
    BY <1>1, Entries DEF Endpoint
  <2>2. ep' = [ep EXCEPT !.queue = w]
    BY <1>2 DEF Post
  <2> HIDE DEF e, q
  <2>3. /\ w \in Seq(Item) /\ DOMAIN w = DOMAIN q \cup {n} /\ n \notin DOMAIN q
        /\ w[n] = e /\ \A i \in DOMAIN q : w[i] = q[i] /\ i < n
    BY <2>1, AppendLemma
  <2> HIDE DEF w, n
  <2>4. ep' \in Endpoint /\ ep'.queue = w
    BY <1>1, <2>2, <2>3 DEF Endpoint
  <2>5. /\ Same(ep', ep) /\ ep'.fd = ep.fd /\ ep'.err = ep.err /\ ep'.inbox = ep.inbox
        /\ ep'.rd = ep.rd
    BY <1>1, <2>2 DEF Endpoint, Same
  <2>6. /\ OldOk(w) = OldOk(q) /\ NewOk(w) = NewOk(q) /\ Bad(w) = Bad(q)
    BY <2>1, <2>3 DEF OldOk, NewOk, Bad
  <2>7. /\ Events(w) = IF op = "event" THEN Events(q) \cup {n} ELSE Events(q)
        /\ Ticks(w) = IF op = "tick" THEN Ticks(q) \cup {n} ELSE Ticks(q)
    BY <2>1, <2>3 DEF Events, Ticks
  <2>8. Shut(ep')
    BY <1>1, <1>2, <2>4, <2>5, <2>6, <2>7 DEF Core, Shut, q
  <2>9. Before(OldOk(w), Events(w) \cup NewOk(w))
    <3>1. Before(OldOk(q), Events(q) \cup NewOk(q)) /\ OldOk(q) \subseteq DOMAIN q
      BY <1>1 DEF Core, q, OldOk
    <3> QED BY <2>3, <2>6, <2>7, <3>1 DEF Before
  <2>10. Core(ep')
    BY <1>1, <2>4, <2>5, <2>8, <2>9 DEF Core, Same
  <2>11. Waits(ep')
    <3>1. \A i \in Reads(ep) : i \in Reads(ep') /\ ep'.queue[i] = ep.queue[i]
      BY <2>3, <2>4 DEF Reads, q
    <3>2. Waits(ep)
      BY <1>1 DEF Sound
    <3> QED BY <2>5, <3>1, <3>2 DEF Waits, Same
  <2>12. Nice(ep')
    <3>1. \A i \in OldOk(w) \cup NewOk(w) : w[i] = q[i]
      BY <2>3, <2>6 DEF OldOk, NewOk
    <3> QED BY <1>1, <2>4, <2>5, <2>6, <3>1 DEF Sound, Nice, Tidy, Same, q
  <2>13. Polled(ep')
    <3>1. SUFFICES ASSUME PollsOnly(ep'.app) PROVE InOrder(ep')
      BY DEF Polled
    <3>2. InOrder(ep)
      BY <1>1, <2>5, <3>1 DEF Sound, Polled, Same
    <3>3. OldOk(q) \subseteq DOMAIN q /\ Bad(q) \subseteq DOMAIN q
      BY DEF OldOk, Bad
    <3>4. Before(OldOk(w), Ticks(w))
      BY <2>3, <2>6, <2>7, <3>2, <3>3 DEF InOrder, Before, q
    <3>5. \A i, j \in Ticks(w) : i = j
      BY <1>2, <2>7, <3>2 DEF InOrder, q
    <3>6. ep.rd # <<>> => Before(Bad(w), Events(w))
      BY <2>3, <2>6, <2>7, <3>2, <3>3 DEF InOrder, Before, q
    <3> QED BY <2>4, <2>5, <2>6, <3>2, <3>4, <3>5, <3>6 DEF InOrder, Same, q
  <2> QED BY <1>1, <2>4, <2>5, <2>10, <2>11, <2>12, <2>13 DEF Lives, Sound, Same
<1>3. ASSUME ep' \in Endpoint, Same(ep', ep), ep.fd, ep'.fd = ep.fd, ep'.rd = ep.rd,
             ep'.queue = ep.queue
      PROVE  Lives(ep')
  <2>1. Core(ep')
    BY <1>1, <1>3 DEF Core, Shut, Same
  <2>2. Waits(ep') /\ Nice(ep') /\ Polled(ep') /\ ~ep'.holding
    BY <1>1, <1>3 DEF Sound, Waits, Reads, Nice, Tidy, Polled, InOrder, Same
  <2> QED BY <1>1, <1>3, <2>1, <2>2 DEF Lives, Sound, Same
<1>4. CASE EpollWait
  BY <1>2, <1>4 DEF EpollWait
<1>5. CASE TimerExpires
  <2>1. Ticks(ep.queue) = {} /\ ep' = Post(ep, Entry("tick"))
    BY <1>5 DEF TimerExpires, Ticks
  <2> QED BY <1>2, <2>1
<1>6. CASE DatagramArrives
  <2> DEFINE n == ep.inbox + 1
  <2>1. n \in Nat /\ ep.fd
    BY <1>1, <1>6 DEF Endpoint, DatagramArrives
  <2>2. ep' = [ep EXCEPT !.inbox = n]
    BY <1>6 DEF DatagramArrives
  <2> HIDE DEF n
  <2>3. ep' \in Endpoint
    BY <1>1, <2>1, <2>2 DEF Endpoint
  <2>4. Same(ep', ep) /\ ep'.fd = ep.fd /\ ep'.rd = ep.rd /\ ep'.queue = ep.queue
    BY <1>1, <2>2 DEF Endpoint, Same
  <2> QED BY <1>3, <2>1, <2>3, <2>4
<1>7. CASE PeerUnreachable
  <2>1. ep.fd /\ ep' = [ep EXCEPT !.err = TRUE]
    BY <1>7 DEF PeerUnreachable
  <2>2. ep' \in Endpoint
    BY <1>1, <2>1 DEF Endpoint
  <2>3. Same(ep', ep) /\ ep'.fd = ep.fd /\ ep'.rd = ep.rd /\ ep'.queue = ep.queue
    BY <1>1, <2>1 DEF Endpoint, Same
  <2> QED BY <1>3, <2>1, <2>2, <2>3
<1> QED BY <1>4, <1>5, <1>6, <1>7

LEMMA NextInductive == Inductive /\ [Next]_vars => Inductive'
<1> SUFFICES ASSUME Lives(ep), [Next]_vars PROVE Lives(ep')
  BY DEF Inductive
<1>1. CASE PerformIO
  BY <1>1, PerformLemma
<1>2. CASE RunRead
  <2> DEFINE s == Popped
             h == Head(ep.queue)
  <2>1. Running /\ ep.queue # <<>> /\ h.op = "read"
    BY <1>2 DEF RunRead, NextIs
  <2>2. PICK call \in ep.app.recv, res \in BOOLEAN, reconnect \in ep.app.reconnects :
          ep' = Settle(read_handler(s, h, call, res, reconnect))
    BY <1>2 DEF RunRead
  <2>3. Handling(s, h) /\ s.app = ep.app /\ ~s.gone /\ h \in Item
    BY <2>1, PoppedLemma
  <2> HIDE DEF s, h
  <2> DEFINE r == read_handler(s, h, call, res, reconnect)
  <2>4. Sound(r) /\ r.gone = s.gone
    BY <2>3, ReadHandlerLemma
  <2> HIDE DEF r
  <2> QED BY <2>2, <2>3, <2>4, SettleLemma DEF r
<1>3. CASE RunStale
  <2>1. /\ Running /\ ep.queue # <<>> /\ Head(ep.queue).op = "stale"
        /\ ep' = Popped
    BY <1>3 DEF RunStale, NextIs
  <2>2. Sound(Popped) /\ ~Popped.gone
    BY <2>1, PoppedLemma
  <2> QED BY <2>1, <2>2 DEF Lives, Sound, Core
<1>4. CASE RunTick
  BY <1>4, TickLemma
<1>5. CASE UNCHANGED vars
  BY <1>5 DEF vars
<1> QED BY <1>1, <1>2, <1>3, <1>4, <1>5, OutsideLemma DEF Next, Run

LEMMA InitInductive == Init => Inductive
<1> SUFFICES ASSUME Init PROVE Lives(ep)
  BY DEF Inductive
<1>1. PICK app \in Apps : ep = connect(Fresh(app), TRUE, FALSE)
  BY DEF Init
<1>2. app \in App /\ <<>> \in Seq(Item) /\ <<>> \in Seq(Place)
  BY UdpConstants
<1> DEFINE f == Fresh(app)
<1>3. f \in Endpoint
  BY <1>2 DEF Fresh, Endpoint
<1>4. /\ f.state = "DISCONNECTED" /\ ~f.up /\ ~f.fd /\ ~f.err /\ f.inbox = 0
      /\ f.rd = <<>> /\ f.queue = <<>> /\ ~f.holding /\ ~f.thrown /\ ~f.gone
      /\ ~f.crossed /\ ~f.misread /\ ~f.late
  BY DEF Fresh
<1> HIDE DEF f
<1>5. /\ OldOk(f.queue) = {} /\ NewOk(f.queue) = {} /\ Events(f.queue) = {}
      /\ Ticks(f.queue) = {}
  BY <1>4 DEF OldOk, NewOk, Events, Ticks
<1>6. Shut(f)
  BY <1>4, <1>5 DEF Shut
<1>7. Core(f) /\ Nice(f)
  BY <1>3, <1>4, <1>5, <1>6, ClosedCore DEF Nice, Tidy
<1> DEFINE r == connect(f, TRUE, FALSE)
<1>8. Core(r) /\ Shuts(r, f)
  BY <1>4, <1>7, ConnectLemma
<1> HIDE DEF r
<1>9. InOrder(r)
  BY <1>4, <1>5, <1>8, ShutsInOrder
<1>10. Sound(r)
  BY <1>4, <1>7, <1>8, <1>9, ShutsNice DEF Sound, Polled
<1>11. r \in Endpoint /\ ~r.gone /\ ~r.thrown
  BY <1>4, <1>8 DEF Core, Shuts
<1> QED BY <1>1, <1>10, <1>11 DEF Lives, Sound, r, f

-----------------------------------------------------------------------------

\* The inductive invariant holds of every behaviour.
THEOREM InductiveHolds == Spec => []Inductive
BY InitInductive, NextInductive, PTL DEF Spec

\* Whatever the application does in its callbacks and its timer: CONNECTED is
\* what it was told, on an open socket and with a receive, connect() never
\* opens an open socket and nothing is destroyed before on_disconnected.
THEOREM AttachedHolds == Spec => []Attached
<1>1. Inductive => Attached
  <2> SUFFICES ASSUME Inductive PROVE Attached
    OBVIOUS
  <2>1. ~ep.thrown /\ (ep.gone => ~ep.up)
    BY DEF Inductive, Lives
  <2>2. ASSUME Running PROVE Core(ep) /\ Waits(ep)
    BY <2>2 DEF Inductive, Lives, Running, Sound
  <2> QED BY <2>1, <2>2 DEF Attached, Core, Waits
<1> QED BY <1>1, InductiveHolds, PTL

\* on_read is given the datagram that was received and one receive waits at a
\* time, unless connect() was called within on_read or a receive of an earlier
\* socket was handled on a later one; the polling client meets neither.
THEOREM RightPlaceHolds == Spec => []RightPlace
<1>1. Inductive => RightPlace
  <2> SUFFICES ASSUME Inductive PROVE RightPlace
    OBVIOUS
  <2>1. Nice(ep) /\ Polled(ep) /\ ep \in Endpoint
    BY DEF Inductive, Lives
  <2>2. ASSUME ~ep.crossed, ~ep.late PROVE ~ep.misread /\ ~(Len(ep.rd) > 1)
    <3>1. Tidy(ep)
      BY <2>1, <2>2 DEF Nice
    <3>2. CASE ep.rd = <<>>
      BY <3>1, <3>2 DEF Tidy
    <3>3. CASE ep.rd = <<"front">>
      <4>1. Len(ep.rd) = 1
        BY <3>3
      <4> QED BY <3>1, <4>1 DEF Tidy
    <3> QED BY <3>1, <3>2, <3>3 DEF Tidy
  <2>3. ASSUME Polls PROVE ~ep.late
    BY <2>1, <2>3 DEF Polls, Polled, PollsOnly, InOrder
  <2> QED BY <2>2, <2>3 DEF RightPlace
<1> QED BY <1>1, InductiveHolds, PTL
=============================================================================
