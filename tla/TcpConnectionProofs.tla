------------------------ MODULE TcpConnectionProofs ------------------------
(***************************************************************************)
(* Proofs about TcpConnection, for every application, bound and number of  *)
(* faults.  The invariants are restated as predicates of an endpoint       *)
(* record, so that each member function has a lemma of its own that says   *)
(* what it preserves, and a step of Next follows from the lemmas of the    *)
(* functions it calls.  Sound is inductive; a handler starts from a state  *)
(* in which the conjunct about its own completion may be broken, because   *)
(* that completion has just left the queue, and has to restore it.         *)
(* Held, in the second half, is inductive too: it is about the order of    *)
(* the handlers in the queue.                                              *)
(***************************************************************************)
EXTENDS TcpConnection, SequenceTheorems, TLAPS

\* The queue holds an entry for one of ops.
Has(q, ops) == \E i \in DOMAIN q : q[i].op \in ops

Told(s) == s.up <=> s.state = "CONNECTED"
Attempt(s) == s.state = "CONNECTING" => s.cn > 0 \/ Has(s.queue, {"connect"})
Wakes(s) ==
  /\ s.out > 0 => s.sending
  /\ s.sending => s.wr > 0 \/ Has(s.queue, {"write"}) \/ s.blocked = "send"

Sound(s) == s \in Endpoint /\ Told(s) /\ Attempt(s) /\ Wakes(s)

Inductive == Sound(ep) /\ faults \in 0..MaxFaults

-----------------------------------------------------------------------------
(* The handler queue                                                       *)

\* A function on 1..n is a sequence.
LEMMA FunctionIsSeq ==
  ASSUME NEW S, NEW n \in Nat, NEW f \in [1..n -> S]
  PROVE  f \in Seq(S) /\ Len(f) = n /\ DOMAIN f = 1..n
<1>1. f \in Seq(S)
  BY SeqDef
<1>2. DOMAIN f = 1..n
  OBVIOUS
<1>3. DOMAIN f = 1..Len(f) /\ Len(f) \in Nat
  BY <1>1, LenProperties
<1> QED BY <1>1, <1>2, <1>3

\* What a concatenation holds.
LEMMA HasConcat ==
  ASSUME NEW q \in Seq(Item), NEW r \in Seq(Item), NEW ops
  PROVE  q \o r \in Seq(Item) /\ (Has(q \o r, ops) <=> Has(q, ops) \/ Has(r, ops))
<1> DEFINE u == q \o r
<1>1. /\ u \in Seq(Item) /\ Len(u) = Len(q) + Len(r)
      /\ \A i \in 1..Len(q) + Len(r) :
           u[i] = IF i <= Len(q) THEN q[i] ELSE r[i - Len(q)]
  BY ConcatProperties
<1>2. /\ DOMAIN q = 1..Len(q) /\ DOMAIN r = 1..Len(r) /\ DOMAIN u = 1..Len(u)
      /\ Len(q) \in Nat /\ Len(r) \in Nat
  BY <1>1, LenProperties
<1> HIDE DEF u
<1>3. ASSUME Has(u, ops) PROVE Has(q, ops) \/ Has(r, ops)
  <2>1. PICK i \in DOMAIN u : u[i].op \in ops
    BY <1>3 DEF Has
  <2>2. CASE i <= Len(q)
    BY <1>1, <1>2, <2>1, <2>2 DEF Has
  <2>3. CASE ~(i <= Len(q))
    <3>1. i - Len(q) \in DOMAIN r /\ u[i] = r[i - Len(q)]
      BY <1>1, <1>2, <2>3
    <3> QED BY <2>1, <3>1 DEF Has
  <2> QED BY <2>2, <2>3
<1>4. ASSUME Has(q, ops) PROVE Has(u, ops)
  <2>1. PICK i \in DOMAIN q : q[i].op \in ops
    BY <1>4 DEF Has
  <2>2. i \in DOMAIN u /\ u[i] = q[i]
    BY <1>1, <1>2
  <2> QED BY <2>1, <2>2 DEF Has
<1>5. ASSUME Has(r, ops) PROVE Has(u, ops)
  <2>1. PICK i \in DOMAIN r : r[i].op \in ops
    BY <1>5 DEF Has
  <2>2. i + Len(q) \in DOMAIN u /\ u[i + Len(q)] = r[i]
    <3>1. /\ i + Len(q) \in 1..Len(q) + Len(r) /\ ~(i + Len(q) <= Len(q))
          /\ (i + Len(q)) - Len(q) = i
      BY <1>2
    <3> QED BY <1>1, <1>2, <3>1
  <2> QED BY <2>1, <2>2 DEF Has
<1> QED BY <1>1, <1>3, <1>4, <1>5 DEF u

\* Posting one entry.
LEMMA HasAppend ==
  ASSUME NEW q \in Seq(Item), NEW item \in Item, NEW ops
  PROVE  /\ Append(q, item) \in Seq(Item)
         /\ Has(Append(q, item), ops) <=> Has(q, ops) \/ item.op \in ops
<1>1. <<item>> \in Seq(Item) /\ DOMAIN <<item>> = {1} /\ <<item>>[1] = item
  OBVIOUS
<1>2. Append(q, item) = q \o <<item>>
  BY AppendIsConcat
<1>3. Has(<<item>>, ops) <=> item.op \in ops
  BY <1>1 DEF Has
<1> QED BY <1>1, <1>2, <1>3, HasConcat

\* What is left when the first entry is taken.
LEMMA HasPop ==
  ASSUME NEW q \in Seq(Item), q # <<>>, NEW ops
  PROVE  /\ Head(q) \in Item /\ Tail(q) \in Seq(Item)
         /\ Has(q, ops) <=> Head(q).op \in ops \/ Has(Tail(q), ops)
<1>1. /\ Head(q) \in Item /\ Tail(q) \in Seq(Item)
      /\ Len(Tail(q)) = Len(q) - 1
      /\ \A i \in 1..Len(Tail(q)) : Tail(q)[i] = q[i + 1]
  BY HeadTailProperties
<1>2. Len(q) \in Nat \ {0} /\ DOMAIN q = 1..Len(q)
  BY EmptySeq, LenProperties
<1>3. DOMAIN Tail(q) = 1..Len(q) - 1
  BY <1>1, LenProperties
<1>4. Head(q) = q[1]
  OBVIOUS
<1>5. ASSUME Has(q, ops) PROVE Head(q).op \in ops \/ Has(Tail(q), ops)
  <2>1. PICK i \in DOMAIN q : q[i].op \in ops
    BY <1>5 DEF Has
  <2>2. CASE i = 1
    BY <1>4, <2>1, <2>2
  <2>3. CASE i # 1
    <3>1. i - 1 \in DOMAIN Tail(q) /\ Tail(q)[i - 1] = q[i]
      BY <1>1, <1>2, <1>3, <2>3
    <3> QED BY <2>1, <3>1 DEF Has
  <2> QED BY <2>2, <2>3
<1>6. ASSUME Head(q).op \in ops PROVE Has(q, ops)
  BY <1>2, <1>4, <1>6 DEF Has
<1>7. ASSUME Has(Tail(q), ops) PROVE Has(q, ops)
  <2>1. PICK i \in DOMAIN Tail(q) : Tail(q)[i].op \in ops
    BY <1>7 DEF Has
  <2>2. i + 1 \in DOMAIN q /\ q[i + 1] = Tail(q)[i]
    BY <1>1, <1>2, <1>3
  <2> QED BY <2>1, <2>2 DEF Has
<1> QED BY <1>1, <1>5, <1>6, <1>7

\* Copies of one entry.
LEMMA HasRepeat ==
  ASSUME NEW n \in Nat, NEW item \in Item, NEW ops
  PROVE  /\ Repeat(n, item) \in Seq(Item) /\ Len(Repeat(n, item)) = n
         /\ Has(Repeat(n, item), ops) <=> n > 0 /\ item.op \in ops
<1> DEFINE f == Repeat(n, item)
<1>1. f \in [1..n -> Item] /\ \A i \in 1..n : f[i] = item
  BY DEF Repeat
<1> HIDE DEF f
<1>2. f \in Seq(Item) /\ Len(f) = n /\ DOMAIN f = 1..n
  BY <1>1, FunctionIsSeq
<1>3. Has(f, ops) <=> n > 0 /\ item.op \in ops
  <2>1. ASSUME Has(f, ops) PROVE n > 0 /\ item.op \in ops
    BY <1>1, <1>2, <2>1 DEF Has
  <2>2. ASSUME n > 0, item.op \in ops PROVE Has(f, ops)
    <3>1. 1 \in DOMAIN f /\ f[1] = item
      BY <1>1, <1>2, <2>2
    <3> QED BY <2>2, <3>1 DEF Has
  <2> QED BY <2>1, <2>2
<1> QED BY <1>2, <1>3 DEF f

\* Replacing every entry by one that is in ops exactly if the old one was.
LEMMA HasMapped ==
  ASSUME NEW q \in Seq(Item), NEW u, u = [i \in DOMAIN q |-> u[i]], NEW ops,
         \A i \in DOMAIN q : u[i] \in Item /\ (u[i].op \in ops <=> q[i].op \in ops)
  PROVE  u \in Seq(Item) /\ (Has(u, ops) <=> Has(q, ops))
<1>1. DOMAIN q = 1..Len(q) /\ Len(q) \in Nat
  BY LenProperties
<1>2. u \in [1..Len(q) -> Item]
  BY <1>1
<1>3. u \in Seq(Item) /\ DOMAIN u = DOMAIN q
  BY <1>1, <1>2, FunctionIsSeq
<1>4. Has(u, ops) <=> Has(q, ops)
  BY <1>3 DEF Has
<1> QED BY <1>3, <1>4

-----------------------------------------------------------------------------
(* The socket                                                              *)

\* Entries that are queued.
LEMMA Entries ==
  /\ \A op \in Ops, ok \in BOOLEAN : Entry(op, ok) \in Item
  /\ \A op \in Ops : Entry(op, FALSE).op = op /\ Entry(op, TRUE).op = op
  /\ Entry("stale", TRUE) \in Item /\ Entry("tick", TRUE) \in Item
  /\ Entry("stale", TRUE).op = "stale" /\ Entry("tick", TRUE).op = "tick"
  /\ \A ev \in Events : Entry(ev, TRUE) \in Item /\ Entry(ev, TRUE).op = ev
BY DEF Entry, Item

\* close(): the descriptor is gone and every waiting operation is queued.
LEMMA CloseLemma ==
  ASSUME NEW s \in Endpoint
  PROVE  LET r == socket_close(s)
         IN  /\ r \in Endpoint /\ ~r.fd
             /\ r.state = s.state /\ r.up = s.up /\ r.out = s.out
             /\ r.sending = s.sending /\ r.blocked = s.blocked
             /\ s.cn > 0 \/ Has(s.queue, {"connect"}) =>
                  r.cn > 0 \/ Has(r.queue, {"connect"})
<1> DEFINE r == socket_close(s)
<1>1. CASE ~s.fd
  BY <1>1 DEF socket_close
<1>2. CASE s.fd
  <2> DEFINE m == [i \in DOMAIN s.queue |->
                     IF s.queue[i].op \in Events THEN Entry("stale", TRUE)
                     ELSE s.queue[i]]
  <2> DEFINE a == Repeat(s.rd, Entry("read", FALSE))
  <2> DEFINE b == Repeat(s.cn, Entry("connect", FALSE))
  <2> DEFINE c == Repeat(s.wr, Entry("write", FALSE))
  <2> DEFINE k == {"connect"}
  <2>1. s.queue \in Seq(Item) /\ s.rd \in Nat /\ s.cn \in Nat /\ s.wr \in Nat
    BY DEF Endpoint
  <2>2. m \in Seq(Item) /\ (Has(m, k) <=> Has(s.queue, k))
    <3>1. \A i \in DOMAIN s.queue : s.queue[i] \in Item
      BY <2>1, LenProperties, ElementOfSeq
    <3>2. \A i \in DOMAIN s.queue :
            m[i] \in Item /\ (m[i].op \in k <=> s.queue[i].op \in k)
      BY <3>1, Entries DEF Events
    <3>3. m = [i \in DOMAIN s.queue |-> m[i]]
      OBVIOUS
    <3> HIDE DEF m, k
    <3> QED BY <2>1, <3>2, <3>3, HasMapped
  <2>3. a \in Seq(Item) /\ c \in Seq(Item) /\ b \in Seq(Item)
        /\ (Has(b, k) <=> s.cn > 0)
    BY <2>1, Entries, HasRepeat DEF Ops
  <2>4. r = [s EXCEPT !.fd = FALSE, !.nb = FALSE, !.net = "none", !.rd = 0,
                      !.wr = 0, !.cn = 0, !.queue = m \o a \o b \o c]
    BY <1>2 DEF socket_close
  <2> HIDE DEF m, a, b, c, k
  <2>5. /\ m \o a \o b \o c \in Seq(Item)
        /\ Has(m \o a \o b \o c, k) <=>
             Has(m, k) \/ Has(a, k) \/ Has(b, k) \/ Has(c, k)
    <3>1. m \o a \in Seq(Item) /\ (Has(m \o a, k) <=> Has(m, k) \/ Has(a, k))
      BY <2>2, <2>3, HasConcat
    <3>2. m \o a \o b \in Seq(Item)
          /\ (Has(m \o a \o b, k) <=> Has(m \o a, k) \/ Has(b, k))
      BY <2>3, <3>1, HasConcat
    <3>3. m \o a \o b \o c \in Seq(Item)
          /\ (Has(m \o a \o b \o c, k) <=> Has(m \o a \o b, k) \/ Has(c, k))
      BY <2>3, <3>2, HasConcat
    <3> QED BY <3>1, <3>2, <3>3
  <2> DEFINE w == m \o a \o b \o c
  <2> HIDE DEF w
  <2>6. r = [s EXCEPT !.fd = FALSE, !.nb = FALSE, !.net = "none", !.rd = 0,
                      !.wr = 0, !.cn = 0, !.queue = w]
    BY <2>4 DEF w
  <2>7. w \in Seq(Item)
    BY <2>5 DEF w
  <2> HIDE DEF r
  <2>8. r \in Endpoint /\ r.queue = w
    BY <2>6, <2>7 DEF Endpoint, Nets
  <2>9. /\ ~r.fd /\ r.state = s.state /\ r.up = s.up /\ r.out = s.out
        /\ r.sending = s.sending /\ r.blocked = s.blocked
    BY <2>6 DEF Endpoint
  <2>10. s.cn > 0 \/ Has(s.queue, k) => Has(r.queue, k)
    BY <2>2, <2>3, <2>5, <2>8 DEF w
  <2> QED BY <2>8, <2>9, <2>10 DEF r, k
<1> QED BY <1>1, <1>2

\* reset leaves nothing to send and keeps the attempt's completion to come.
LEMMA ResetLemma ==
  ASSUME NEW s \in Endpoint
  PROVE  LET r == reset(s)
         IN  /\ r \in Endpoint /\ ~r.fd /\ r.out = 0 /\ ~r.sending
             /\ r.state = s.state /\ r.up = s.up /\ r.blocked = s.blocked
             /\ Attempt(s) => Attempt(r)
             /\ Wakes(r)
<1> DEFINE t == [s EXCEPT !.sending = FALSE, !.out = 0]
<1>1. /\ t \in Endpoint /\ t.out = 0 /\ ~t.sending /\ t.state = s.state
      /\ t.up = s.up /\ t.blocked = s.blocked /\ t.cn = s.cn /\ t.queue = s.queue
  <2>1. 0 \in 0..MaxOut
    BY TcpConstants
  <2> QED BY <2>1 DEF Endpoint
<1>2. reset(s) = socket_close(t)
  BY DEF reset
<1> HIDE DEF t
<1> QED BY <1>1, <1>2, CloseLemma DEF Attempt, Wakes

\* async_connect: what connect(2) said is posted, or its answer is waited for.
LEMMA AnswerLemma ==
  ASSUME NEW t \in Endpoint, NEW answer \in Answers
  PROVE  LET r == async_connect(t, answer)
         IN  /\ r \in Endpoint /\ r.fd /\ r.net = answer
             /\ r.state = t.state /\ r.up = t.up /\ r.out = t.out
             /\ r.sending = t.sending /\ r.blocked = t.blocked /\ r.wr = t.wr
             /\ r.rd = t.rd /\ r.nb = t.nb /\ r.thrown = t.thrown
             /\ \/ \E e \in Item :
                     /\ e.op = "connect" /\ r.queue = Append(t.queue, e) /\ r.cn = t.cn
                     /\ e.ok => /\ answer = "up" /\ t.net \notin {"none", "refused"}
                                /\ r.early
                     /\ ~e.ok => r.early = t.early
                \/ /\ r.queue = t.queue /\ r.cn = t.cn + 1 /\ r.early = t.early
                   /\ t.net \in {"none", "refused"}
<1> DEFINE u == [t EXCEPT !.fd = TRUE, !.net = answer]
           r == async_connect(t, answer)
<1>1. answer \in Nets /\ t.queue \in Seq(Item) /\ t.cn \in Nat /\ t.early \in BOOLEAN
  BY DEF Answers, Nets, Endpoint
<1>2. /\ u \in Endpoint /\ u.fd /\ u.net = answer /\ u.state = t.state /\ u.up = t.up
      /\ u.out = t.out /\ u.sending = t.sending /\ u.blocked = t.blocked
  BY <1>1 DEF Endpoint
<1>3. /\ u.wr = t.wr /\ u.rd = t.rd /\ u.nb = t.nb /\ u.thrown = t.thrown
      /\ u.queue = t.queue /\ u.cn = t.cn /\ u.early = t.early
  BY DEF Endpoint
<1>4. \A ok \in BOOLEAN : Entry("connect", ok) \in Item
                          /\ Entry("connect", ok).op = "connect"
                          /\ Entry("connect", ok).ok = ok
  BY DEF Entry, Item, Ops
<1>5. /\ answer = "refused" => r = Post(u, Entry("connect", FALSE))
      /\ answer # "refused" /\ t.net \notin {"none", "refused"} =>
           r = Post([u EXCEPT !.early = t.early \/ answer = "up"],
                    Entry("connect", answer = "up"))
      /\ answer # "refused" /\ t.net \in {"none", "refused"} =>
           r = [u EXCEPT !.cn = t.cn + 1]
  <2>1. u.early = t.early /\ u.cn = t.cn
    BY <1>3
  <2> QED BY <1>2, <2>1 DEF async_connect
<1> HIDE DEF u, r
<1>6. CASE answer = "refused"
  <2> DEFINE e == Entry("connect", FALSE)
             q == Append(t.queue, e)
  <2>1. e \in Item /\ e.op = "connect" /\ ~e.ok
    BY <1>4
  <2>2. r = [u EXCEPT !.queue = q]
    BY <1>3, <1>5, <1>6 DEF Post
  <2> HIDE DEF e
  <2>3. q \in Seq(Item)
    BY <1>1, <2>1, HasAppend
  <2> HIDE DEF q
  <2>4. /\ r \in Endpoint /\ r.queue = q /\ r.fd /\ r.net = answer /\ r.state = u.state
        /\ r.up = u.up /\ r.out = u.out /\ r.sending = u.sending
    BY <1>2, <2>2, <2>3 DEF Endpoint
  <2>5. /\ r.blocked = u.blocked /\ r.wr = u.wr /\ r.rd = u.rd /\ r.nb = u.nb
        /\ r.thrown = u.thrown /\ r.cn = u.cn /\ r.early = u.early
    BY <1>2, <2>2 DEF Endpoint
  <2> QED BY <1>2, <1>3, <2>1, <2>4, <2>5 DEF r, q
<1>7. CASE answer # "refused" /\ t.net \notin {"none", "refused"}
  <2> DEFINE e == Entry("connect", answer = "up")
             y == t.early \/ answer = "up"
             q == Append(t.queue, e)
  <2>1. /\ e \in Item /\ e.op = "connect" /\ y \in BOOLEAN
        /\ e.ok => answer = "up" /\ y
        /\ ~e.ok => y = t.early
    BY <1>1, <1>4, <1>7
  <2>2. r = [u EXCEPT !.early = y, !.queue = q]
    BY <1>2, <1>3, <1>5, <1>7 DEF Post, Endpoint
  <2> HIDE DEF e
  <2>3. q \in Seq(Item)
    BY <1>1, <2>1, HasAppend
  <2> HIDE DEF q, y
  <2>4. /\ r \in Endpoint /\ r.queue = q /\ r.early = y /\ r.fd /\ r.net = answer
        /\ r.state = u.state /\ r.up = u.up /\ r.out = u.out /\ r.sending = u.sending
    BY <1>2, <2>1, <2>2, <2>3 DEF Endpoint
  <2>5. /\ r.blocked = u.blocked /\ r.wr = u.wr /\ r.rd = u.rd /\ r.nb = u.nb
        /\ r.thrown = u.thrown /\ r.cn = u.cn
    BY <1>2, <2>2 DEF Endpoint
  <2> QED BY <1>2, <1>3, <1>7, <2>1, <2>4, <2>5 DEF r, q
<1>8. CASE answer # "refused" /\ t.net \in {"none", "refused"}
  <2> DEFINE n == t.cn + 1
  <2>1. n \in Nat
    BY <1>1
  <2>2. r = [u EXCEPT !.cn = n]
    BY <1>5, <1>8
  <2> HIDE DEF n
  <2>3. /\ r \in Endpoint /\ r.queue = u.queue /\ r.early = u.early /\ r.fd
        /\ r.net = answer /\ r.state = u.state /\ r.up = u.up /\ r.out = u.out
        /\ r.sending = u.sending
    BY <1>2, <2>1, <2>2 DEF Endpoint
  <2>4. /\ r.blocked = u.blocked /\ r.wr = u.wr /\ r.rd = u.rd /\ r.nb = u.nb
        /\ r.thrown = u.thrown /\ r.cn = n
    BY <1>2, <2>1, <2>2 DEF Endpoint
  <2> QED BY <1>2, <1>3, <1>8, <2>3, <2>4 DEF r, n
<1> QED BY <1>6, <1>7, <1>8 DEF r

\* connect() after its close: an attempt with its completion to come.
LEMMA ConnectLemma ==
  ASSUME NEW s \in Endpoint, NEW answer \in Answers
  PROVE  LET r == async_connect(connecting(s), answer)
         IN  /\ r \in Endpoint /\ r.state = "CONNECTING" /\ r.up = s.up
             /\ r.blocked = s.blocked
             /\ Attempt(r)
             /\ Wakes(s) => Wakes(r)
<1> DEFINE t == connecting(s)
<1>1. /\ t \in Endpoint /\ t.state = "CONNECTING" /\ t.up = s.up
      /\ t.out = s.out /\ t.sending = s.sending /\ t.blocked = s.blocked
      /\ t.cn = s.cn /\ t.wr = s.wr /\ t.queue = s.queue
  BY DEF connecting, Endpoint, States
<1>2. t.queue \in Seq(Item) /\ t.cn \in Nat
  BY <1>1 DEF Endpoint
<1> HIDE DEF t
<1> DEFINE r == async_connect(t, answer)
<1>3. /\ r \in Endpoint /\ r.state = t.state /\ r.up = t.up /\ r.out = t.out
      /\ r.sending = t.sending /\ r.blocked = t.blocked /\ r.wr = t.wr
      /\ \/ \E e \in Item : e.op = "connect" /\ r.queue = Append(t.queue, e)
         \/ r.queue = t.queue /\ r.cn = t.cn + 1
  BY <1>1, AnswerLemma
<1> HIDE DEF r
<1>4. /\ Has(r.queue, {"connect"}) \/ r.cn > 0
      /\ Has(t.queue, {"write"}) => Has(r.queue, {"write"})
  <2>1. CASE \E e \in Item : e.op = "connect" /\ r.queue = Append(t.queue, e)
    BY <1>2, <2>1, HasAppend
  <2>2. CASE r.queue = t.queue /\ r.cn = t.cn + 1
    BY <1>2, <2>2
  <2> QED BY <1>3, <2>1, <2>2
<1> QED BY <1>1, <1>3, <1>4 DEF Attempt, Wakes, r, t

\* The fields a wait does not touch.
Same(r, s) ==
  /\ r.state = s.state /\ r.up = s.up /\ r.out = s.out
  /\ r.sending = s.sending /\ r.blocked = s.blocked

\* A completion is posted: nothing but the queue changes.
LEMMA PostLemma ==
  ASSUME NEW s \in Endpoint, NEW item \in Item
  PROVE  LET r == Post(s, item)
         IN  /\ r \in Endpoint /\ Same(r, s) /\ r.cn = s.cn /\ r.wr = s.wr
             /\ \A ops : Has(r.queue, ops) <=> Has(s.queue, ops) \/ item.op \in ops
<1> DEFINE q == Append(s.queue, item)
<1>1. s.queue \in Seq(Item)
  BY DEF Endpoint
<1>2. q \in Seq(Item)
      /\ \A ops : Has(q, ops) <=> Has(s.queue, ops) \/ item.op \in ops
  BY <1>1, HasAppend
<1> DEFINE r == Post(s, item)
<1>3. r = [s EXCEPT !.queue = q]
  BY DEF Post
<1> HIDE DEF q, r
<1>4. r \in Endpoint /\ r.queue = q /\ Same(r, s) /\ r.cn = s.cn /\ r.wr = s.wr
  BY <1>2, <1>3 DEF Endpoint, Same
<1> QED BY <1>2, <1>4 DEF r

\* async_wait for reading disturbs no attempt and no wakeup.
LEMMA ReadLemma ==
  ASSUME NEW s \in Endpoint
  PROVE  LET r == do_read(s)
         IN  /\ r \in Endpoint /\ Same(r, s)
             /\ Attempt(s) => Attempt(r)
             /\ Wakes(s) => Wakes(r)
<1> DEFINE r == do_read(s)
<1>1. CASE s.fd
  <2> DEFINE n == s.rd + 1
  <2>1. n \in Nat
    BY DEF Endpoint
  <2>2. r = [s EXCEPT !.rd = n]
    BY <1>1 DEF do_read, async_wait_read
  <2> HIDE DEF n, r
  <2>3. r \in Endpoint /\ Same(r, s) /\ r.cn = s.cn /\ r.wr = s.wr
        /\ r.queue = s.queue
    BY <2>1, <2>2 DEF Endpoint, Same
  <2> QED BY <2>3 DEF Attempt, Wakes, Same, r
<1>2. CASE ~s.fd
  <2>1. r = Post(s, Entry("read", FALSE))
    BY <1>2 DEF do_read, async_wait_read
  <2>2. Entry("read", FALSE) \in Item
    BY Entries DEF Ops
  <2> HIDE DEF r
  <2>3. /\ r \in Endpoint /\ Same(r, s) /\ r.cn = s.cn /\ r.wr = s.wr
        /\ \A ops : Has(s.queue, ops) => Has(r.queue, ops)
    BY <2>1, <2>2, PostLemma
  <2> QED BY <2>3 DEF Attempt, Wakes, Same, r
<1> QED BY <1>1, <1>2

\* SENDING promises a wait_write handler.
Half(s) == s.sending => s.wr > 0 \/ Has(s.queue, {"write"}) \/ s.blocked = "send"

\* do_write completes that promise: bytes waiting means SENDING.
LEMMA WriteLemma ==
  ASSUME NEW s \in Endpoint, Half(s)
  PROVE  LET r == do_write(s)
         IN  /\ r \in Endpoint /\ Wakes(r)
             /\ r.state = s.state /\ r.up = s.up /\ r.blocked = s.blocked
             /\ Attempt(s) => Attempt(r)
<1> DEFINE r == do_write(s)
<1>0. s.out \in Nat
  BY TcpConstants DEF Endpoint
<1>1. CASE ~(~s.sending /\ s.out > 0)
  BY <1>0, <1>1 DEF do_write, Half, Wakes
<1>2. CASE ~s.sending /\ s.out > 0
  <2> DEFINE t == [s EXCEPT !.sending = TRUE]
  <2>1. /\ t \in Endpoint /\ t.state = s.state /\ t.up = s.up
        /\ t.blocked = s.blocked /\ t.sending /\ t.cn = s.cn /\ t.fd = s.fd
        /\ t.queue = s.queue
    BY DEF Endpoint
  <2>2. r = async_wait_write(t)
    BY <1>2 DEF do_write
  <2> HIDE DEF t, r
  <2>3. CASE t.fd
    <3> DEFINE n == t.wr + 1
    <3>1. n \in Nat /\ n > 0
      BY <2>1 DEF Endpoint
    <3>2. r = [t EXCEPT !.wr = n]
      BY <2>2, <2>3 DEF async_wait_write
    <3> HIDE DEF n
    <3>3. r \in Endpoint /\ Same(r, t) /\ r.cn = t.cn /\ r.wr = n /\ r.queue = t.queue
      BY <2>1, <3>1, <3>2 DEF Endpoint, Same
    <3>4. Wakes(r)
      BY <2>1, <3>1, <3>3 DEF Wakes, Same
    <3> QED BY <2>1, <3>3, <3>4 DEF Attempt, Same, r
  <2>4. CASE ~t.fd
    <3>1. r = Post(t, Entry("write", FALSE))
      BY <2>2, <2>4 DEF async_wait_write
    <3>2. Entry("write", FALSE) \in Item /\ Entry("write", FALSE).op = "write"
      BY Entries DEF Ops
    <3>3. /\ r \in Endpoint /\ Same(r, t) /\ r.cn = t.cn
          /\ Has(r.queue, {"write"})
          /\ Has(t.queue, {"connect"}) => Has(r.queue, {"connect"})
      BY <2>1, <3>1, <3>2, PostLemma
    <3> QED BY <2>1, <3>3 DEF Attempt, Wakes, Same, r
  <2> QED BY <2>3, <2>4
<1> QED BY <1>1, <1>2

LEMMA SendLemma ==
  ASSUME NEW s \in Endpoint, Wakes(s)
  PROVE  LET r == send(s)
         IN  /\ r \in Endpoint /\ Wakes(r)
             /\ r.state = s.state /\ r.up = s.up /\ r.blocked = s.blocked
             /\ Attempt(s) => Attempt(r)
<1>1. CASE s.out < MaxOut
  <2> DEFINE n == s.out + 1
  <2> DEFINE t == [s EXCEPT !.out = n]
  <2>1. n \in 0..MaxOut
    BY <1>1, TcpConstants DEF Endpoint
  <2>2. send(s) = do_write(t)
    BY <1>1 DEF send
  <2> HIDE DEF n
  <2>3. /\ t \in Endpoint /\ t.state = s.state /\ t.up = s.up
        /\ t.blocked = s.blocked /\ t.sending = s.sending
        /\ t.cn = s.cn /\ t.wr = s.wr /\ t.queue = s.queue
    BY <2>1 DEF Endpoint
  <2> HIDE DEF t
  <2>4. Half(t) /\ (Attempt(s) => Attempt(t))
    BY <2>3 DEF Half, Wakes, Attempt
  <2> QED BY <2>2, <2>3, <2>4, WriteLemma
<1>2. CASE ~(s.out < MaxOut)
  BY <1>2 DEF send
<1> QED BY <1>1, <1>2

-----------------------------------------------------------------------------
(* Connecting and disconnecting                                            *)

\* The application is told, and may connect again at once.
LEMMA ToldLemma ==
  ASSUME NEW s \in Endpoint, NEW reconnect \in Replies,
         s.state = "DISCONNECTED", Wakes(s)
  PROVE  LET r == on_disconnected(s, reconnect)
         IN  Sound(r) /\ r.state # "CONNECTED" /\ r.blocked = s.blocked
<1> DEFINE t == [s EXCEPT !.up = FALSE]
<1>1. /\ t \in Endpoint /\ t.state = "DISCONNECTED" /\ ~t.up /\ t.blocked = s.blocked
      /\ t.out = s.out /\ t.sending = s.sending /\ t.wr = s.wr /\ t.queue = s.queue
  BY DEF Endpoint
<1>2. on_disconnected(s, reconnect) =
        IF reconnect = "no" THEN t ELSE async_connect(connecting(reset(t)), reconnect)
  BY DEF on_disconnected
<1> HIDE DEF t
<1>3. CASE reconnect # "no"
  <2>1. /\ reset(t) \in Endpoint /\ ~reset(t).up /\ Wakes(reset(t))
        /\ reset(t).blocked = s.blocked
    BY <1>1, ResetLemma
  <2> DEFINE r == async_connect(connecting(reset(t)), reconnect)
  <2>0. reconnect \in Answers
    BY <1>3 DEF Replies, Answers
  <2>2. /\ r \in Endpoint /\ r.state = "CONNECTING" /\ ~r.up /\ Attempt(r)
        /\ Wakes(r) /\ r.blocked = s.blocked
    BY <2>0, <2>1, ConnectLemma
  <2> HIDE DEF r
  <2>3. Sound(r) /\ r.state # "CONNECTED" /\ r.blocked = s.blocked
    BY <2>2 DEF Sound, Told
  <2> QED BY <1>2, <1>3, <2>3 DEF r
<1>4. CASE reconnect = "no"
  <2>1. Told(t) /\ Attempt(t) /\ Wakes(t)
    BY <1>1 DEF Told, Attempt, Wakes
  <2> QED BY <1>1, <1>2, <1>4, <2>1 DEF Sound
<1> QED BY <1>3, <1>4

\* close() from whichever state: told if it was connected, and an attempt
\* that was under way keeps its completion.
LEMMA SocketCloseLemma ==
  ASSUME NEW s \in Endpoint, NEW reconnect \in Replies, Told(s)
  PROVE  LET r == close(s, reconnect)
         IN  /\ r \in Endpoint /\ Told(r) /\ Wakes(r)
             /\ Attempt(s) => Attempt(r)
             /\ r.state # "CONNECTED" /\ r.blocked = s.blocked
<1> DEFINE t == reset(s)
<1>1. /\ t \in Endpoint /\ t.state = s.state /\ t.up = s.up
      /\ t.blocked = s.blocked /\ (Attempt(s) => Attempt(t)) /\ Wakes(t)
  BY ResetLemma
<1>2. close(s, reconnect) = on_close(t, reconnect)
  BY DEF close
<1> HIDE DEF t
<1>3. CASE t.state = "CONNECTED"
  <2> DEFINE d == [t EXCEPT !.state = "DISCONNECTED"]
  <2>1. /\ d \in Endpoint /\ d.state = "DISCONNECTED" /\ d.blocked = t.blocked
        /\ d.out = t.out /\ d.sending = t.sending /\ d.wr = t.wr /\ d.queue = t.queue
    BY <1>1 DEF Endpoint, States
  <2>2. on_close(t, reconnect) = on_disconnected(d, reconnect)
    BY <1>3 DEF on_close
  <2> HIDE DEF d
  <2>3. Wakes(d)
    BY <1>1, <2>1 DEF Wakes
  <2> QED BY <1>1, <1>2, <2>1, <2>2, <2>3, ToldLemma DEF Sound
<1>4. CASE t.state # "CONNECTED"
  <2>1. on_close(t, reconnect) = t
    BY <1>4 DEF on_close
  <2>2. Told(t)
    BY <1>1 DEF Told
  <2> QED BY <1>1, <1>2, <1>4, <2>1, <2>2
<1> QED BY <1>3, <1>4

LEMMA DisconnectLemma ==
  ASSUME NEW s \in Endpoint, NEW reconnect \in Replies, Told(s), Wakes(s)
  PROVE  LET r == disconnect(s, reconnect)
         IN  Sound(r) /\ r.blocked = s.blocked
<1>1. CASE s.state = "DISCONNECTED"
  BY <1>1 DEF disconnect, Sound, Attempt
<1>2. CASE s.state # "DISCONNECTED"
  <2> DEFINE d == [s EXCEPT !.state = "DISCONNECTED"]
  <2>1. d \in Endpoint /\ d.state = "DISCONNECTED" /\ d.blocked = s.blocked
    BY DEF Endpoint, States
  <2>2. disconnect(s, reconnect) = on_disconnected(reset(d), reconnect)
    BY <1>2 DEF disconnect
  <2> HIDE DEF d
  <2>3. /\ reset(d) \in Endpoint /\ reset(d).state = "DISCONNECTED"
        /\ Wakes(reset(d)) /\ reset(d).blocked = s.blocked
    BY <2>1, ResetLemma
  <2> QED BY <2>2, <2>3, ToldLemma
<1> QED BY <1>1, <1>2

LEMMA ReconnectLemma ==
  ASSUME NEW s \in Endpoint, NEW reconnect \in Replies, NEW answer \in Answers, Told(s)
  PROVE  Sound(connect(s, reconnect, answer))
<1> DEFINE t == close(s, reconnect)
<1>1. t \in Endpoint /\ Told(t) /\ Wakes(t) /\ t.state # "CONNECTED"
  BY SocketCloseLemma
<1>2. connect(s, reconnect, answer) = async_connect(connecting(t), answer)
  BY DEF connect
<1> HIDE DEF t
<1> DEFINE r == async_connect(connecting(t), answer)
<1>3. r \in Endpoint /\ r.state = "CONNECTING" /\ r.up = t.up /\ Attempt(r) /\ Wakes(r)
  BY <1>1, ConnectLemma
<1> HIDE DEF r
<1>4. Sound(r)
  BY <1>1, <1>3 DEF Sound, Told
<1> QED BY <1>2, <1>4 DEF r

LEMMA OpenLemma ==
  ASSUME NEW s \in Endpoint, Wakes(s)
  PROVE  LET r == open(s)
         IN  r \in Endpoint /\ Wakes(r) /\ r.state = s.state /\ r.up = s.up
<1>1. CASE s.fd
  <2> DEFINE t == [s EXCEPT !.nb = TRUE]
  <2>1. t \in Endpoint /\ Same(t, s) /\ t.wr = s.wr /\ t.queue = s.queue
    BY DEF Endpoint, Same
  <2>2. open(s) = do_write(do_read(t))
    BY <1>1 DEF open
  <2> HIDE DEF t
  <2>3. Wakes(t)
    BY <2>1 DEF Wakes, Same
  <2> DEFINE u == do_read(t)
  <2>4. u \in Endpoint /\ Same(u, t) /\ Wakes(u)
    BY <2>1, <2>3, ReadLemma
  <2> HIDE DEF u
  <2>5. Half(u)
    BY <2>4 DEF Half, Wakes
  <2>6. do_write(u) \in Endpoint /\ Wakes(do_write(u))
        /\ do_write(u).state = u.state /\ do_write(u).up = u.up
    BY <2>4, <2>5, WriteLemma
  <2> QED BY <2>1, <2>2, <2>4, <2>6 DEF u, Same
<1>2. CASE ~s.fd
  <2> DEFINE t == [s EXCEPT !.thrown = TRUE]
  <2>1. t \in Endpoint /\ Same(t, s) /\ t.wr = s.wr /\ t.queue = s.queue
    BY DEF Endpoint, Same
  <2>2. open(s) = t
    BY <1>2 DEF open
  <2> HIDE DEF t
  <2> QED BY <2>1, <2>2 DEF Wakes, Same
<1> QED BY <1>1, <1>2

LEMMA ConnectedLemma ==
  ASSUME NEW s \in Endpoint, NEW call, Told(s), Wakes(s)
  PROVE  Sound(connected(s, call))
<1>1. CASE s.state = "CONNECTED"
  BY <1>1 DEF connected, Sound, Attempt
<1>2. CASE s.state # "CONNECTED"
  <2> DEFINE t == [[s EXCEPT !.state = "CONNECTED"] EXCEPT !.up = TRUE]
  <2>1. /\ t \in Endpoint /\ t.state = "CONNECTED" /\ t.up /\ t.blocked = s.blocked
        /\ t.out = s.out /\ t.sending = s.sending /\ t.wr = s.wr /\ t.queue = s.queue
    BY DEF Endpoint, States
  <2> DEFINE u == IF call = "send" THEN send(t) ELSE t
  <2>2. connected(s, call) = open(u)
    BY <1>2 DEF connected, on_connected
  <2> HIDE DEF t
  <2>3. Wakes(t)
    BY <2>1 DEF Wakes
  <2>4. u \in Endpoint /\ Wakes(u) /\ u.state = "CONNECTED" /\ u.up
    BY <2>1, <2>3, SendLemma
  <2> HIDE DEF u
  <2> DEFINE r == open(u)
  <2>5. r \in Endpoint /\ Wakes(r) /\ r.state = "CONNECTED" /\ r.up
    BY <2>4, OpenLemma
  <2> HIDE DEF r
  <2>6. Sound(r)
    BY <2>5 DEF Sound, Told, Attempt
  <2> QED BY <2>2, <2>6 DEF r
<1> QED BY <1>1, <1>2

-----------------------------------------------------------------------------
(* Handlers                                                                *)

LEMMA RecvLemma ==
  ASSUME NEW s, Sound(s), NEW call, NEW reconnect \in Replies
  PROVE  LET r == on_recv(s, call, reconnect)
         IN  Sound(r) /\ r.blocked = s.blocked
<1>0. s \in Endpoint /\ Told(s) /\ Attempt(s) /\ Wakes(s)
  BY DEF Sound
<1>1. CASE call = "send"
  <2>1. on_recv(s, call, reconnect) = send(s)
    BY <1>1 DEF on_recv
  <2> DEFINE r == send(s)
  <2>2. /\ r \in Endpoint /\ Wakes(r) /\ Attempt(r)
        /\ r.state = s.state /\ r.up = s.up /\ r.blocked = s.blocked
    BY <1>0, SendLemma
  <2> HIDE DEF r
  <2>3. Sound(r) /\ r.blocked = s.blocked
    BY <1>0, <2>2 DEF Sound, Told
  <2> QED BY <2>1, <2>3 DEF r
<1>2. CASE call = "disconnect"
  BY <1>0, <1>2, DisconnectLemma DEF on_recv
<1>3. CASE call # "send" /\ call # "disconnect"
  BY <1>3 DEF on_recv
<1> QED BY <1>1, <1>2, <1>3

LEMMA ReadHandlerLemma ==
  ASSUME NEW s, Sound(s), s.blocked = "no", NEW ok \in BOOLEAN,
         NEW data \in BOOLEAN, NEW call, NEW reconnect \in Replies
  PROVE  Sound(read_handler(s, ok, data, call, reconnect))
<1> DEFINE t == IF ok /\ data /\ s.net \in {"up", "gone"}
                THEN on_recv(s, call, reconnect) ELSE s
<1> DEFINE r == read_handler(s, ok, data, call, reconnect)
<1>1. Sound(t) /\ t.blocked = "no"
  BY RecvLemma
<1>2. r = CASE ~ok \/ t.net \notin {"syn", "up"} -> close(t, reconnect)
            [] ok /\ t.net \in {"syn", "up"} /\ t.nb -> do_read(t)
            [] OTHER -> [t EXCEPT !.blocked = "receive"]
  BY DEF read_handler
<1> HIDE DEF t, r
<1>3. t \in Endpoint /\ Told(t) /\ Attempt(t) /\ Wakes(t)
  BY <1>1 DEF Sound
<1>4. CASE ~ok \/ t.net \notin {"syn", "up"}
  <2>1. r = close(t, reconnect)
    BY <1>2, <1>4
  <2>2. Sound(r)
    BY <1>3, <2>1, SocketCloseLemma DEF Sound
  <2> QED BY <2>2 DEF r
<1>5. CASE ok /\ t.net \in {"syn", "up"} /\ t.nb
  <2>1. r = do_read(t)
    BY <1>2, <1>5
  <2>2. r \in Endpoint /\ Same(r, t) /\ Attempt(r) /\ Wakes(r)
    BY <1>3, <2>1, ReadLemma
  <2>3. Sound(r)
    BY <1>3, <2>2 DEF Sound, Told, Same
  <2> QED BY <2>3 DEF r
<1>6. CASE ok /\ t.net \in {"syn", "up"} /\ ~t.nb
  <2>1. r = [t EXCEPT !.blocked = "receive"]
    BY <1>2, <1>6
  <2>2. /\ r \in Endpoint /\ r.state = t.state /\ r.up = t.up /\ r.out = t.out
        /\ r.sending = t.sending /\ r.wr = t.wr /\ r.cn = t.cn /\ r.queue = t.queue
    BY <1>3, <2>1 DEF Endpoint
  <2>3. Sound(r)
    BY <1>1, <1>3, <2>2 DEF Sound, Told, Attempt, Wakes
  <2> QED BY <2>3 DEF r
<1> QED BY <1>4, <1>5, <1>6

\* The handler of a wait_write: it may be the last one SENDING relied on.
LEMMA WriteHandlerLemma ==
  ASSUME NEW s \in Endpoint, Told(s), Attempt(s), s.out > 0 => s.sending,
         NEW ok \in BOOLEAN, NEW n \in 0..s.out, NEW err \in BOOLEAN,
         NEW reconnect \in Replies
  PROVE  Sound(write_handler(s, ok, n, err, reconnect))
<1> DEFINE r == write_handler(s, ok, n, err, reconnect)
<1>1. CASE ~ok \/ ~s.fd \/ err
  <2>1. r = close(s, reconnect)
    BY <1>1 DEF write_handler
  <2> QED BY <2>1, SocketCloseLemma DEF Sound
<1>2. CASE ok /\ s.fd /\ ~err /\ s.out > 0 /\ s.net = "syn" /\ ~s.nb
  <2>1. r = [s EXCEPT !.blocked = "send"]
    BY <1>2 DEF write_handler
  <2> HIDE DEF r
  <2>2. /\ r \in Endpoint /\ r.state = s.state /\ r.up = s.up /\ r.out = s.out
        /\ r.sending = s.sending /\ r.cn = s.cn /\ r.queue = s.queue
        /\ r.blocked = "send"
    BY <2>1 DEF Endpoint
  <2> QED BY <2>2 DEF Sound, Told, Attempt, Wakes, r
<1>3. CASE ~(~ok \/ ~s.fd \/ err) /\ ~(ok /\ s.fd /\ ~err /\ s.out > 0 /\ s.net = "syn" /\ ~s.nb)
  <2> DEFINE m == s.out - n
  <2> DEFINE t == [s EXCEPT !.out = m, !.sending = FALSE]
  <2>1. m \in 0..MaxOut
    BY TcpConstants DEF Endpoint
  <2>2. r = do_write(t)
    BY <1>3 DEF write_handler
  <2> HIDE DEF m
  <2>3. /\ t \in Endpoint /\ t.state = s.state /\ t.up = s.up /\ ~t.sending
        /\ t.cn = s.cn /\ t.queue = s.queue
    BY <2>1 DEF Endpoint
  <2> HIDE DEF t, r
  <2>4. Half(t) /\ Attempt(t)
    BY <2>3 DEF Half, Attempt
  <2>5. r \in Endpoint /\ Wakes(r) /\ r.state = s.state /\ r.up = s.up /\ Attempt(r)
    BY <2>2, <2>3, <2>4, WriteLemma
  <2> QED BY <2>5 DEF Sound, Told, r
<1> QED BY <1>1, <1>2, <1>3

\* The handler of an async_connect: it may be the one the attempt relied on.
LEMMA ConnectHandlerLemma ==
  ASSUME NEW s \in Endpoint, Told(s), Wakes(s), NEW ok \in BOOLEAN, NEW call,
         NEW reconnect \in Replies
  PROVE  Sound(connect_handler(s, ok, call, reconnect))
BY ConnectedLemma, DisconnectLemma DEF connect_handler

LEMMA PollLemma ==
  ASSUME NEW s, Sound(s), NEW reconnect \in Replies, NEW answer \in Answers
  PROVE  Sound(poll(s, reconnect, answer)) /\ Sound(send(s))
<1>0. s \in Endpoint /\ Told(s) /\ Attempt(s) /\ Wakes(s)
  BY DEF Sound
<1>1. Sound(send(s))
  <2> DEFINE r == send(s)
  <2>1. r \in Endpoint /\ Wakes(r) /\ Attempt(r) /\ r.state = s.state /\ r.up = s.up
    BY <1>0, SendLemma
  <2> HIDE DEF r
  <2>2. Sound(r)
    BY <1>0, <2>1 DEF Sound, Told
  <2> QED BY <2>2 DEF r
<1>2. Sound(connect(s, reconnect, answer))
  BY <1>0, ReconnectLemma
<1> QED BY <1>1, <1>2 DEF poll

-----------------------------------------------------------------------------
(* Steps                                                                   *)

\* What is left of the invariant when an entry for op leaves the queue.
Without(s, op) ==
  /\ s \in Endpoint /\ Told(s) /\ s.blocked = "no"
  /\ s.out > 0 => s.sending
  /\ op # "connect" => Attempt(s)
  /\ op # "write" => Wakes(s)

LEMMA PoppedLemma ==
  ASSUME Sound(ep), ep.blocked = "no", ep.queue # <<>>
  PROVE  /\ Head(ep.queue) \in Item
         /\ Without(Popped, Head(ep.queue).op)
         /\ Popped.queue = Tail(ep.queue)
         /\ Same(Popped, ep) /\ Popped.cn = ep.cn /\ Popped.wr = ep.wr
         /\ \A ops : Has(ep.queue, ops) <=>
              Head(ep.queue).op \in ops \/ Has(Tail(ep.queue), ops)
<1> DEFINE h == Head(ep.queue)
<1>1. ep \in Endpoint /\ ep.queue \in Seq(Item)
  BY DEF Sound, Endpoint
<1>2. /\ h \in Item /\ Tail(ep.queue) \in Seq(Item)
      /\ \A ops : Has(ep.queue, ops) <=> h.op \in ops \/ Has(Tail(ep.queue), ops)
  BY <1>1, HasPop
<1> DEFINE q == Tail(ep.queue)
<1>3. Popped = [ep EXCEPT !.queue = q]
  BY DEF Popped
<1> HIDE DEF q, h
<1>4. /\ Popped \in Endpoint /\ Popped.queue = q /\ Same(Popped, ep)
      /\ Popped.cn = ep.cn /\ Popped.wr = ep.wr
  BY <1>1, <1>2, <1>3 DEF Endpoint, Same, q
<1>5. Without(Popped, h.op)
  BY <1>2, <1>4 DEF Without, Sound, Told, Attempt, Wakes, Same, q
<1> QED BY <1>2, <1>4, <1>5 DEF q, h

\* Running the handler of a completed operation.
LEMMA CompleteLemma ==
  ASSUME NEW s, NEW item \in Item, Without(s, item.op), Complete(s, item),
         faults \in 0..MaxFaults
  PROVE  Inductive'
<1>0. /\ s \in Endpoint /\ Told(s) /\ s.blocked = "no"
      /\ s.out > 0 => s.sending
      /\ item.op # "connect" => Attempt(s)
      /\ item.op # "write" => Wakes(s)
  BY DEF Without
<1>1. item.ok \in BOOLEAN
  BY DEF Item
<1>2. PICK reconnect \in Reconnects :
        \/ /\ item.op = "connect"
           /\ \E call \in ConnCalls :
                ep' = connect_handler(s, item.ok, call, reconnect)
           /\ Spend("nothing", {reconnect})
        \/ /\ item.op = "read"
           /\ \E data \in BOOLEAN, call \in RecvCalls :
                /\ ep' = read_handler(s, item.ok, data, call, reconnect)
                /\ Spend(call, {reconnect})
        \/ /\ item.op = "write"
           /\ \E n \in Sendable(s), err \in SendErrs(s) :
                ep' = write_handler(s, item.ok, n, err, reconnect)
           /\ Spend("nothing", {reconnect})
  BY DEF Complete
<1>3. reconnect \in Replies
  BY TcpConstants
<1>4. faults' \in 0..MaxFaults
  <2>1. ASSUME NEW call, Spend(call, {reconnect}) PROVE faults' \in 0..MaxFaults
    BY <2>1, TcpConstants DEF Spend
  <2> QED BY <1>2, <2>1
<1>5. CASE item.op = "connect"
  <2>1. PICK call \in ConnCalls : ep' = connect_handler(s, item.ok, call, reconnect)
    BY <1>2, <1>5
  <2>2. Sound(connect_handler(s, item.ok, call, reconnect))
    BY <1>0, <1>1, <1>3, <1>5, ConnectHandlerLemma
  <2> QED BY <1>4, <2>1, <2>2 DEF Inductive
<1>6. CASE item.op = "read"
  <2>1. PICK data \in BOOLEAN, call \in RecvCalls :
          ep' = read_handler(s, item.ok, data, call, reconnect)
    BY <1>2, <1>6
  <2>2. Sound(s)
    BY <1>0, <1>6 DEF Sound
  <2>3. Sound(read_handler(s, item.ok, data, call, reconnect))
    BY <1>0, <1>1, <1>3, <2>2, ReadHandlerLemma
  <2> QED BY <1>4, <2>1, <2>3 DEF Inductive
<1>7. CASE item.op = "write"
  <2>1. PICK n \in Sendable(s), err \in SendErrs(s) :
          ep' = write_handler(s, item.ok, n, err, reconnect)
    BY <1>2, <1>7
  <2>2. n \in 0..s.out
    <3>1. s.out \in Nat
      BY <1>0, TcpConstants DEF Endpoint
    <3> QED BY <2>1, <3>1 DEF Sendable
  <2>3. err \in BOOLEAN
    BY <2>1 DEF SendErrs
  <2>4. Sound(write_handler(s, item.ok, n, err, reconnect))
    BY <1>0, <1>1, <1>3, <1>7, <2>2, <2>3, WriteHandlerLemma
  <2> QED BY <1>4, <2>1, <2>4 DEF Inductive
<1> QED BY <1>2, <1>5, <1>6, <1>7

\* The operations perform_io completes.
LEMMA DoneLemma ==
  ASSUME ep \in Endpoint, NEW ev \in Events, NEW cok \in BOOLEAN
  PROVE  /\ Done(ev, cok) \in Seq(Item)
         /\ Has(Done(ev, cok), {"connect"}) <=> ev # "in" /\ ep.cn > 0
         /\ Has(Done(ev, cok), {"write"}) <=> ev # "in" /\ ep.wr > 0
<1> DEFINE c == Repeat(ep.cn, Entry("connect", cok))
<1> DEFINE w == Repeat(ep.wr, Entry("write", TRUE))
<1> DEFINE a == IF ev = "in" THEN <<>> ELSE c \o w
<1> DEFINE b == IF ev = "out" THEN <<>> ELSE Repeat(ep.rd, Entry("read", TRUE))
<1>1. ep.cn \in Nat /\ ep.wr \in Nat /\ ep.rd \in Nat
  BY DEF Endpoint
<1>2. <<>> \in Seq(Item) /\ \A ops : ~Has(<<>>, ops)
  BY DEF Has
<1>3. /\ Entry("connect", cok) \in Item /\ Entry("connect", cok).op = "connect"
      /\ Entry("write", TRUE) \in Item /\ Entry("write", TRUE).op = "write"
      /\ Entry("read", TRUE) \in Item /\ Entry("read", TRUE).op = "read"
  BY DEF Entry, Item, Ops
<1>4. /\ c \in Seq(Item) /\ w \in Seq(Item)
      /\ Has(c, {"connect"}) <=> ep.cn > 0
      /\ ~Has(c, {"write"})
      /\ Has(w, {"write"}) <=> ep.wr > 0
      /\ ~Has(w, {"connect"})
  BY <1>1, <1>3, HasRepeat
<1>5. b \in Seq(Item) /\ ~Has(b, {"connect"}) /\ ~Has(b, {"write"})
  BY <1>1, <1>2, <1>3, HasRepeat
<1>6. Done(ev, cok) = a \o b
  BY DEF Done
<1> HIDE DEF c, w, b
<1>7. /\ c \o w \in Seq(Item)
      /\ Has(c \o w, {"connect"}) <=> ep.cn > 0
      /\ Has(c \o w, {"write"}) <=> ep.wr > 0
  BY <1>4, HasConcat
<1>8. /\ a \in Seq(Item)
      /\ Has(a, {"connect"}) <=> ev # "in" /\ ep.cn > 0
      /\ Has(a, {"write"}) <=> ev # "in" /\ ep.wr > 0
  BY <1>2, <1>7
<1> HIDE DEF a
<1> QED BY <1>5, <1>6, <1>8, HasConcat

LEMMA PerformLemma ==
  ASSUME Inductive, PerformIO PROVE Inductive'
<1>1. /\ Sound(ep) /\ ep \in Endpoint /\ faults \in 0..MaxFaults /\ ep.blocked = "no"
      /\ ep.queue # <<>> /\ Head(ep.queue).op \in Events
  BY DEF Inductive, Sound, PerformIO, NextIs, Running
<1> DEFINE ev == Head(ep.queue).op
<1> DEFINE s == [Popped EXCEPT
                   !.cn = IF ev = "in" THEN @ ELSE 0,
                   !.wr = IF ev = "in" THEN @ ELSE 0,
                   !.rd = IF ev = "out" THEN @ ELSE 0]
<1>2. PICK cok \in ConnectResults :
        IF Done(ev, cok) = <<>> THEN ep' = s /\ UNCHANGED faults
        ELSE Complete([s EXCEPT !.queue = @ \o Tail(Done(ev, cok))],
                      Head(Done(ev, cok)))
  BY DEF PerformIO
<1>3. cok \in BOOLEAN
  BY DEF ConnectResults
<1> DEFINE d == Done(ev, cok)
<1>4. /\ d \in Seq(Item)
      /\ Has(d, {"connect"}) <=> ev # "in" /\ ep.cn > 0
      /\ Has(d, {"write"}) <=> ev # "in" /\ ep.wr > 0
  BY <1>1, <1>3, DoneLemma
<1> HIDE DEF d
<1>5. /\ Popped \in Endpoint /\ Told(Popped) /\ Popped.queue = Tail(ep.queue)
      /\ Same(Popped, ep) /\ Popped.cn = ep.cn /\ Popped.wr = ep.wr
      /\ \A ops : Has(ep.queue, ops) <=> ev \in ops \/ Has(Tail(ep.queue), ops)
  BY <1>1, PoppedLemma DEF Without
<1> DEFINE q == Tail(ep.queue)
<1>6. q \in Seq(Item)
  BY <1>5 DEF Endpoint
<1>7. /\ s \in Endpoint /\ Same(s, ep) /\ s.queue = q
      /\ s.cn = IF ev = "in" THEN ep.cn ELSE 0
      /\ s.wr = IF ev = "in" THEN ep.wr ELSE 0
  <2> DEFINE x == IF ev = "in" THEN Popped.cn ELSE 0
  <2> DEFINE y == IF ev = "in" THEN Popped.wr ELSE 0
  <2> DEFINE z == IF ev = "out" THEN Popped.rd ELSE 0
  <2>1. x \in Nat /\ y \in Nat /\ z \in Nat
    BY <1>5 DEF Endpoint
  <2>2. s = [Popped EXCEPT !.cn = x, !.wr = y, !.rd = z]
    OBVIOUS
  <2>3. x = (IF ev = "in" THEN ep.cn ELSE 0) /\ y = (IF ev = "in" THEN ep.wr ELSE 0)
    BY <1>5
  <2> HIDE DEF x, y, z, s
  <2>4. s \in Endpoint /\ Same(s, Popped) /\ s.queue = Popped.queue /\ s.cn = x /\ s.wr = y
    BY <1>5, <2>1, <2>2 DEF Endpoint, Same
  <2> QED BY <1>5, <2>3, <2>4 DEF Same
<1>8. \A ops \in {{"connect"}, {"write"}} : Has(q, ops) <=> Has(ep.queue, ops)
  BY <1>1, <1>5 DEF Events
<1> HIDE DEF s, q
<1>9. CASE d = <<>>
  <2>1. ep' = s /\ faults' = faults
    BY <1>2, <1>9 DEF d
  <2>2. ~Has(d, {"connect"}) /\ ~Has(d, {"write"})
    BY <1>9 DEF Has
  <2>3. s.cn > 0 <=> ep.cn > 0
    BY <1>1, <1>4, <1>7, <2>2 DEF Endpoint
  <2>4. s.wr > 0 <=> ep.wr > 0
    BY <1>1, <1>4, <1>7, <2>2 DEF Endpoint
  <2>5. Sound(s)
    BY <1>1, <1>7, <1>8, <2>3, <2>4 DEF Sound, Told, Attempt, Wakes, Same
  <2> QED BY <1>1, <2>1, <2>5 DEF Inductive
<1>10. CASE d # <<>>
  <2> DEFINE t == [s EXCEPT !.queue = s.queue \o Tail(d)]
  <2>1. Complete(t, Head(d))
    BY <1>2, <1>10 DEF d
  <2>2. /\ Head(d) \in Item /\ Tail(d) \in Seq(Item)
        /\ \A ops : Has(d, ops) <=> Head(d).op \in ops \/ Has(Tail(d), ops)
    BY <1>4, <1>10, HasPop
  <2> DEFINE v == q \o Tail(d)
  <2>3. v \in Seq(Item) /\ \A ops : Has(v, ops) <=> Has(q, ops) \/ Has(Tail(d), ops)
    BY <1>6, <2>2, HasConcat
  <2>4. t = [s EXCEPT !.queue = v]
    BY <1>7
  <2> HIDE DEF t, v
  <2>5. /\ t \in Endpoint /\ Same(t, s) /\ t.queue = v /\ t.cn = s.cn /\ t.wr = s.wr
    BY <1>7, <2>3, <2>4 DEF Endpoint, Same
  <2>6. Told(t) /\ t.blocked = "no" /\ (t.out > 0 => t.sending)
    BY <1>1, <1>7, <2>5 DEF Sound, Told, Wakes, Same
  <2>7. Head(d).op # "connect" => Attempt(t)
    <3>1. Head(d).op # "connect" /\ (ep.cn > 0 \/ Has(ep.queue, {"connect"})) =>
            t.cn > 0 \/ Has(t.queue, {"connect"})
      BY <1>4, <1>7, <1>8, <2>2, <2>3, <2>5
    <3> QED BY <1>1, <1>7, <2>5, <3>1 DEF Sound, Attempt, Same
  <2>8. Head(d).op # "write" => Wakes(t)
    <3>1. Head(d).op # "write" /\ (ep.wr > 0 \/ Has(ep.queue, {"write"})) =>
            t.wr > 0 \/ Has(t.queue, {"write"})
      BY <1>4, <1>7, <1>8, <2>2, <2>3, <2>5
    <3> QED BY <1>1, <1>7, <2>5, <3>1 DEF Sound, Wakes, Same
  <2> QED BY <1>1, <2>1, <2>2, <2>5, <2>6, <2>7, <2>8, CompleteLemma DEF Without
<1> QED BY <1>9, <1>10

LEMMA UnblockLemma ==
  ASSUME Inductive, Unblock PROVE Inductive'
<1> DEFINE s == [ep EXCEPT !.blocked = "no"]
<1>1. Sound(ep) /\ ep \in Endpoint /\ faults \in 0..MaxFaults
  BY DEF Inductive, Sound
<1>2. PICK reconnect \in Reconnects :
        \/ /\ ep.blocked = "receive"
           /\ \E data \in BOOLEAN, call \in RecvCalls :
                /\ ep' = read_handler(s, TRUE, data, call, reconnect)
                /\ Spend(call, {reconnect})
        \/ /\ ep.blocked = "send"
           /\ \E n \in Sendable(s), err \in SendErrs(s) :
                ep' = write_handler(s, TRUE, n, err, reconnect)
           /\ Spend("nothing", {reconnect})
  BY DEF Unblock
<1>3. reconnect \in Replies
  BY TcpConstants
<1>4. faults' \in 0..MaxFaults
  <2>1. ASSUME NEW call, Spend(call, {reconnect}) PROVE faults' \in 0..MaxFaults
    BY <1>1, <2>1, TcpConstants DEF Spend
  <2> QED BY <1>1, <1>2, <2>1
<1>5. /\ s \in Endpoint /\ s.blocked = "no" /\ s.state = ep.state /\ s.up = ep.up
      /\ s.out = ep.out /\ s.sending = ep.sending /\ s.wr = ep.wr /\ s.cn = ep.cn
      /\ s.queue = ep.queue
  BY <1>1 DEF Endpoint
<1> HIDE DEF s
<1>6. Told(s) /\ Attempt(s) /\ (s.out > 0 => s.sending)
  BY <1>1, <1>5 DEF Sound, Told, Attempt, Wakes
<1>7. CASE ep.blocked = "receive"
  <2>1. PICK data \in BOOLEAN, call \in RecvCalls :
          ep' = read_handler(s, TRUE, data, call, reconnect)
    BY <1>2, <1>7
  <2>2. Sound(s)
    BY <1>1, <1>5, <1>6, <1>7 DEF Sound, Wakes
  <2>3. Sound(read_handler(s, TRUE, data, call, reconnect))
    BY <1>3, <1>5, <2>2, ReadHandlerLemma
  <2> QED BY <1>4, <2>1, <2>3 DEF Inductive
<1>8. CASE ep.blocked = "send"
  <2>1. PICK n \in Sendable(s), err \in SendErrs(s) :
          ep' = write_handler(s, TRUE, n, err, reconnect)
    BY <1>2, <1>8
  <2>2. n \in 0..s.out
    <3>1. s.out \in Nat
      BY <1>5, TcpConstants DEF Endpoint
    <3> QED BY <2>1, <3>1 DEF Sendable
  <2>3. err \in BOOLEAN
    BY <2>1 DEF SendErrs
  <2>4. Sound(write_handler(s, TRUE, n, err, reconnect))
    BY <1>3, <1>5, <1>6, <2>2, <2>3, WriteHandlerLemma
  <2> QED BY <1>4, <2>1, <2>4 DEF Inductive
<1> QED BY <1>2, <1>7, <1>8

\* epoll_wait changes no entry for a completed operation.
LEMMA EpollLemma ==
  ASSUME Inductive, NEW ev \in Events, EpollWait(ev) PROVE Inductive'
<1>1. Sound(ep) /\ ep \in Endpoint /\ faults' \in 0..MaxFaults
  BY DEF Inductive, Sound, EpollWait
<1>2. ASSUME NEW q \in Seq(Item), ep' = [ep EXCEPT !.queue = q],
             \A ops \in {{"connect"}, {"write"}} : Has(q, ops) <=> Has(ep.queue, ops)
      PROVE  Inductive'
  <2>1. /\ ep' \in Endpoint /\ Same(ep', ep) /\ ep'.cn = ep.cn /\ ep'.wr = ep.wr
        /\ ep'.queue = q
    BY <1>1, <1>2 DEF Endpoint, Same
  <2>2. Sound(ep')
    BY <1>1, <1>2, <2>1 DEF Sound, Told, Attempt, Wakes, Same
  <2> QED BY <1>1, <2>2 DEF Inductive
<1>3. ep.queue \in Seq(Item)
  BY <1>1 DEF Endpoint
<1>4. CASE Queued(ep, Events)
  <2> DEFINE m == [i \in DOMAIN ep.queue |->
                     IF ep.queue[i].op \in Events
                     THEN Entry(Merge(ep.queue[i].op, ev), TRUE) ELSE ep.queue[i]]
  <2>1. \A i \in DOMAIN ep.queue : ep.queue[i] \in Item
    BY <1>3, LenProperties, ElementOfSeq
  <2>2. \A old \in Events : /\ Entry(Merge(old, ev), TRUE) \in Item
                            /\ Entry(Merge(old, ev), TRUE).op \in Events
    BY DEF Merge, Entry, Item, Events
  <2>3. m = [i \in DOMAIN ep.queue |-> m[i]]
    OBVIOUS
  <2>4. \A ops \in {{"connect"}, {"write"}} : \A i \in DOMAIN ep.queue :
          m[i] \in Item /\ (m[i].op \in ops <=> ep.queue[i].op \in ops)
    BY <2>1, <2>2 DEF Events
  <2>5. ep' = [ep EXCEPT !.queue = m]
    BY <1>4 DEF EpollWait
  <2> HIDE DEF m
  <2>6. \A ops \in {{"connect"}, {"write"}} :
          m \in Seq(Item) /\ (Has(m, ops) <=> Has(ep.queue, ops))
    BY <1>3, <2>3, <2>4, HasMapped
  <2> QED BY <1>2, <2>5, <2>6
<1>5. CASE ~Queued(ep, Events)
  <2> DEFINE e == Entry(ev, TRUE)
  <2> DEFINE q == Append(ep.queue, e)
  <2>1. e \in Item /\ e.op = ev
    BY Entries
  <2> HIDE DEF e
  <2>2. q \in Seq(Item) /\ \A ops : Has(q, ops) <=> Has(ep.queue, ops) \/ ev \in ops
    BY <1>3, <2>1, HasAppend
  <2>3. ep' = [ep EXCEPT !.queue = q]
    BY <1>5 DEF EpollWait, Post, e
  <2> HIDE DEF q
  <2>4. \A ops \in {{"connect"}, {"write"}} : Has(q, ops) <=> Has(ep.queue, ops)
    BY <2>2 DEF Events
  <2> QED BY <1>2, <2>2, <2>3, <2>4
<1> QED BY <1>4, <1>5

LEMMA TickLemma ==
  ASSUME Inductive, RunTick PROVE Inductive'
<1>1. /\ Sound(ep) /\ faults \in 0..MaxFaults /\ ep.blocked = "no"
      /\ ep.queue # <<>> /\ Head(ep.queue).op = "tick"
  BY DEF Inductive, RunTick, NextIs, Running
<1>2. Sound(Popped)
  BY <1>1, PoppedLemma DEF Without, Sound
<1>3. PICK call \in TickCalls, reconnect \in Reconnects, answer \in Answers :
        /\ \/ call = "nothing" /\ ep' = Popped
           \/ call = "poll" /\ ep' = poll(Popped, reconnect, answer)
           \/ call = "send" /\ ep' = send(Popped)
           \/ call = "connect" /\ ep' = connect(Popped, reconnect, answer)
           \/ call = "disconnect" /\ ep' = disconnect(Popped, reconnect)
        /\ Spend(call, {reconnect, answer})
  BY DEF RunTick
<1>4. reconnect \in Replies
  BY TcpConstants
<1>5. faults' \in 0..MaxFaults
  BY <1>1, <1>3, TcpConstants DEF Spend
<1> DEFINE s == Popped
<1> HIDE DEF s
<1>6. s \in Endpoint /\ Told(s) /\ Wakes(s) /\ Sound(s)
  BY <1>2 DEF Sound, s
<1>7. /\ Sound(poll(s, reconnect, answer)) /\ Sound(send(s))
      /\ Sound(connect(s, reconnect, answer)) /\ Sound(disconnect(s, reconnect))
  BY <1>4, <1>6, PollLemma, ReconnectLemma, DisconnectLemma
<1>8. Sound(ep')
  BY <1>2, <1>3, <1>7 DEF s
<1> QED BY <1>5, <1>8 DEF Inductive

\* The peer's actions touch net only.
LEMMA PeerLemma ==
  ASSUME Inductive, PeerAccepts \/ PeerRefuses \/ PeerGoes PROVE Inductive'
<1>1. PICK net \in Nets : ep' = [ep EXCEPT !.net = net]
  BY DEF PeerAccepts, PeerRefuses, PeerGoes, Nets
<1>2. faults' \in 0..MaxFaults
  BY TcpConstants DEF Inductive, PeerAccepts, PeerRefuses, PeerGoes
<1>3. ep \in Endpoint
  BY DEF Inductive, Sound
<1>4. /\ ep' \in Endpoint /\ Same(ep', ep) /\ ep'.cn = ep.cn /\ ep'.wr = ep.wr
      /\ ep'.queue = ep.queue
  BY <1>1, <1>3 DEF Endpoint, Same
<1> QED BY <1>2, <1>4 DEF Inductive, Sound, Told, Attempt, Wakes, Same

LEMMA NextInductive == Inductive /\ [Next]_vars => Inductive'
<1> SUFFICES ASSUME Inductive, [Next]_vars PROVE Inductive'
  OBVIOUS
<1>1. ASSUME NEW ev \in Events, EpollWait(ev) PROVE Inductive'
  BY <1>1, EpollLemma
<1>2. CASE PerformIO
  BY <1>2, PerformLemma
<1>3. CASE RunPosted
  <2>1. /\ Sound(ep) /\ faults \in 0..MaxFaults /\ ep.blocked = "no"
        /\ ep.queue # <<>>
    BY <1>3 DEF Inductive, RunPosted, NextIs, Running
  <2>2. Head(ep.queue) \in Item /\ Without(Popped, Head(ep.queue).op)
    BY <2>1, PoppedLemma
  <2>3. Complete(Popped, Head(ep.queue))
    BY <1>3 DEF RunPosted
  <2> DEFINE s == Popped
  <2> DEFINE h == Head(ep.queue)
  <2> HIDE DEF s, h
  <2>4. h \in Item /\ Without(s, h.op) /\ Complete(s, h)
    BY <2>2, <2>3 DEF s, h
  <2> QED BY <2>1, <2>4, CompleteLemma
<1>4. CASE Unblock
  BY <1>4, UnblockLemma
<1>5. CASE RunStale
  <2>1. /\ Sound(ep) /\ faults \in 0..MaxFaults /\ ep.blocked = "no"
        /\ ep.queue # <<>> /\ Head(ep.queue).op = "stale"
        /\ ep' = Popped /\ faults' = faults
    BY <1>5 DEF Inductive, RunStale, NextIs, Running
  <2>2. Sound(Popped)
    BY <2>1, PoppedLemma DEF Without, Sound
  <2> QED BY <2>1, <2>2 DEF Inductive
<1>6. CASE TimerExpires
  <2>1. Sound(ep) /\ ep \in Endpoint /\ ep' = Post(ep, Entry("tick", TRUE))
        /\ faults' = faults
    BY <1>6 DEF Inductive, Sound, TimerExpires
  <2>2. Entry("tick", TRUE) \in Item
    BY Entries
  <2>3. /\ ep' \in Endpoint /\ Same(ep', ep) /\ ep'.cn = ep.cn /\ ep'.wr = ep.wr
        /\ \A ops : Has(ep.queue, ops) => Has(ep'.queue, ops)
    BY <2>1, <2>2, PostLemma
  <2> QED BY <2>1, <2>3 DEF Inductive, Sound, Told, Attempt, Wakes, Same
<1>7. CASE RunTick
  BY <1>7, TickLemma
<1>8. CASE PeerAccepts \/ PeerRefuses \/ PeerGoes
  BY <1>8, PeerLemma
<1>9. CASE UNCHANGED vars
  BY <1>9 DEF vars, Inductive
<1> QED BY <1>1, <1>2, <1>3, <1>4, <1>5, <1>6, <1>7, <1>8, <1>9 DEF Next, Ended

LEMMA InitInductive == Init => Inductive
<1> SUFFICES ASSUME Init PROVE Inductive
  OBVIOUS
<1>1. faults \in 0..MaxFaults
  BY TcpConstants DEF Init
<1>2. 0 \in 0..MaxOut /\ 0 \in Nat
  BY TcpConstants
<1>3. <<>> \in Seq(Item)
  OBVIOUS
<1>4. ASSUME NEW answer \in Answers, ep = connect(Fresh, "no", answer) PROVE Inductive
  <2>1. Fresh \in Endpoint /\ Told(Fresh)
    BY <1>2, <1>3 DEF Fresh, Endpoint, States, Nets, Told
  <2>2. "no" \in Replies
    BY DEF Replies
  <2> QED BY <1>1, <1>4, <2>1, <2>2, ReconnectLemma DEF Inductive
<1>5. ASSUME NEW call \in ConnCalls,
             ep = connected([Fresh EXCEPT !.fd = TRUE, !.nb = TRUE, !.net = "up"], call)
      PROVE  Inductive
  <2> DEFINE a == [Fresh EXCEPT !.fd = TRUE, !.nb = TRUE, !.net = "up"]
  <2>1. a \in Endpoint
    BY <1>2, <1>3 DEF Fresh, Endpoint, States, Nets
  <2>2. Told(a) /\ Wakes(a)
    BY DEF Fresh, Told, Wakes
  <2> HIDE DEF a
  <2>3. Sound(connected(a, call))
    BY <2>1, <2>2, ConnectedLemma
  <2> QED BY <1>1, <1>5, <2>3 DEF Inductive, a
<1> QED BY <1>4, <1>5 DEF Init

-----------------------------------------------------------------------------

\* The inductive invariant holds of every behaviour.
THEOREM InductiveHolds == Spec => []Inductive
BY InitInductive, NextInductive, PTL DEF Spec

\* The endpoint keeps its type: whatever the handlers do in whatever order,
\* write_handler never removes more from send_buff_ than it holds.
THEOREM TypeOKHolds == Spec => []TypeOK
<1>1. Inductive => TypeOK
  BY DEF Inductive, Sound, TypeOK
<1> QED BY <1>1, InductiveHolds, PTL

\* on_connected and on_disconnected come in pairs, for every application,
\* also one that disconnects and reconnects from within the callbacks.
THEOREM PairedHolds == Spec => []Paired
<1>1. Inductive => Paired
  BY DEF Inductive, Sound, Told, Paired
<1> QED BY <1>1, InductiveHolds, PTL

\* No sequence of closes and reconnects leaves state_ CONNECTING without an
\* async_connect completion to come.
THEOREM NeverStuckConnectingHolds == Spec => []NeverStuckConnecting
<1>1. Inductive => NeverStuckConnecting
  BY DEF Inductive, Sound, Attempt, Has, NeverStuckConnecting, Queued
<1> QED BY <1>1, InductiveHolds, PTL

\* do_write's SENDING flag loses no wakeup: bytes in send_buff_ always have a
\* wait_write handler on its way.
THEOREM NoLostWakeupHolds == Spec => []NoLostWakeup
<1>1. Inductive => NoLostWakeup
  BY DEF Inductive, Sound, Wakes, Has, NoLostWakeup, Queued
<1> QED BY <1>1, InductiveHolds, PTL

-----------------------------------------------------------------------------
(* The order of the handlers                                               *)

(***************************************************************************)
(* A second invariant, about what stands where in the queue: while a       *)
(* socket connects, the completions that earlier sockets left behind stand *)
(* before the descriptor's entry, so that they have all run when           *)
(* perform_io finds it connected.  The exception is a success that         *)
(* connect(2) gave at once: it is queued, with the read of the socket      *)
(* before it still to run.  Caught, further down, says what follows.       *)
(***************************************************************************)

\* The positions in a queue of completions, of the descriptor's entries, of
\* failed completions and of those of reads.
Finished(q) == {i \in DOMAIN q : q[i].op \in Ops}
Reported(q) == {i \in DOMAIN q : q[i].op \in Events}
Aborted(q)  == {i \in DOMAIN q : Failed(q[i])}
ReadsAt(q)  == {i \in DOMAIN q : q[i].op = "read"}

\* No attempt that succeeded is queued: perform_io runs its handler.  One
\* expiry of the timer is queued at most.
Answered(q) ==
  /\ \A i \in DOMAIN q : q[i].op = "connect" => ~q[i].ok
  /\ \A i, j \in DOMAIN q : q[i].op = "tick" /\ q[j].op = "tick" => i = j

Calm(s) == ~s.early /\ Answered(s.queue)

\* A closed socket has nothing in the reactor.
Shut(s) ==
  ~s.fd => /\ s.rd = 0 /\ s.wr = 0 /\ s.cn = 0 /\ s.net = "none" /\ ~s.nb
           /\ Reported(s.queue) = {}

\* The socket of an attempt.  One that failed at once has no async_connect in
\* the reactor.
Opening(s) ==
  /\ s.fd /\ ~s.nb /\ s.rd = 0 /\ s.cn \in {0, 1} /\ s.net # "none"
  /\ \A i \in Finished(s.queue), j \in Reported(s.queue) : i < j

\* The socket of an established connection, and its one wait_read.
Live(s) ==
  s.fd /\ s.nb /\ s.cn = 0 /\ s.net \in {"up", "gone"} /\ Aborted(s.queue) = {}
Single(s) ==
  /\ s.rd \in {0, 1} /\ (s.rd = 1 <=> ReadsAt(s.queue) = {})
  /\ \A i, j \in ReadsAt(s.queue) : i = j

Placed(s) ==
  /\ s \in Endpoint /\ ~s.thrown /\ Shut(s) /\ Calm(s)
  /\ s.state = "DISCONNECTED" => ~s.fd
  /\ s.state = "CONNECTING" /\ s.fd => Opening(s)
  /\ s.blocked # "no" => s.state = "CONNECTING" /\ s.fd

Ordered(s) == Placed(s) /\ (s.state = "CONNECTED" => Live(s) /\ Single(s))

\* The read whose handler runs has left the queue.
Served(s) ==
  /\ Placed(s) /\ s.blocked = "no"
  /\ s.state = "CONNECTED" => Live(s) /\ s.rd = 0 /\ ReadsAt(s.queue) = {}

\* What the nested calls need of a state: the handler has not blocked.
Usable(s) == s \in Endpoint /\ ~s.thrown /\ s.blocked = "no" /\ Shut(s)

\* What they do to the queue: entries keep their places, the descriptor's
\* become stale, and failed completions are added behind them.
Grows(q, w) ==
  /\ w \in Seq(Item) /\ DOMAIN q \subseteq DOMAIN w
  /\ \A i \in DOMAIN q :
       w[i] = q[i] \/ (q[i].op \in Events /\ w[i] = Entry("stale", TRUE))
  /\ \A i \in DOMAIN w \ DOMAIN q : Failed(w[i])
From(r, s) == r.early = s.early /\ Grows(s.queue, r.queue)

\* What close(), disconnect() and connect() leave: a closed socket or an
\* attempt that epoll has not reported on.
Restarted(s) ==
  /\ Usable(s) /\ s.state # "CONNECTED"
  /\ s.fd => s.state = "CONNECTING" /\ Opening(s) /\ Reported(s.queue) = {}

\* A socket whose connect(2) failed has no async_connect in the reactor.
Idle(s) == s.net \in {"none", "refused"} => s.cn = 0

LEMMA RestartedOrdered ==
  ASSUME NEW s, Restarted(s), Calm(s) PROVE Ordered(s)
BY DEF Restarted, Usable, Ordered, Placed

\* Entries have positions.
LEMMA Positions ==
  ASSUME NEW q \in Seq(Item)
  PROVE  /\ Len(q) \in Nat /\ DOMAIN q = 1..Len(q)
         /\ \A i \in DOMAIN q : q[i] \in Item
BY LenProperties, ElementOfSeq

\* A queue grows by nothing, in steps, and by failed completions behind it.
LEMMA GrowsSame ==
  ASSUME NEW q \in Seq(Item) PROVE Grows(q, q)
BY DEF Grows

LEMMA GrowsTrans ==
  ASSUME NEW q, NEW w, NEW v, Grows(q, w), Grows(w, v)
  PROVE  Grows(q, v)
<1>1. v \in Seq(Item) /\ DOMAIN q \subseteq DOMAIN w /\ DOMAIN w \subseteq DOMAIN v
  BY DEF Grows
<1>2. Entry("stale", TRUE).op \notin Events
  BY DEF Entry, Events
<1>3. ASSUME NEW i \in DOMAIN q
      PROVE  v[i] = q[i] \/ (q[i].op \in Events /\ v[i] = Entry("stale", TRUE))
  BY <1>1, <1>2 DEF Grows
<1>4. ASSUME NEW i \in DOMAIN v \ DOMAIN q PROVE Failed(v[i])
  <2>1. CASE i \in DOMAIN w
    <3>1. Failed(w[i])
      BY <1>4, <2>1 DEF Grows
    <3>2. w[i].op \notin Events
      BY <3>1 DEF Failed, Ops, Events
    <3> QED BY <2>1, <3>1, <3>2 DEF Grows
  <2>2. CASE i \notin DOMAIN w
    BY <1>4, <2>2 DEF Grows
  <2> QED BY <2>1, <2>2
<1> QED BY <1>1, <1>3, <1>4 DEF Grows

LEMMA FromSame ==
  ASSUME NEW s \in Endpoint PROVE From(s, s)
BY GrowsSame DEF From, Endpoint

LEMMA FromTrans ==
  ASSUME NEW s, NEW r, NEW u, From(r, s), From(u, r) PROVE From(u, s)
BY GrowsTrans DEF From

LEMMA FromCalm ==
  ASSUME NEW s, NEW r, From(r, s), Calm(s) PROVE Calm(r)
<1> DEFINE q == s.queue
           w == r.queue
<1>1. Grows(q, w) /\ Answered(q) /\ ~r.early
  BY DEF From, Calm
<1> HIDE DEF q, w
<1>2. /\ Entry("stale", TRUE).op = "stale" /\ "stale" \notin {"connect", "tick"}
      /\ \A e : Failed(e) => e.op # "tick" /\ ~e.ok
  BY DEF Entry, Failed, Ops
<1>3. \A i \in DOMAIN w : w[i].op = "connect" => ~w[i].ok
  BY <1>1, <1>2 DEF Grows, Answered
<1>4. \A i \in DOMAIN w : w[i].op = "tick" => i \in DOMAIN q /\ q[i].op = "tick"
  BY <1>1, <1>2 DEF Grows
<1> QED BY <1>1, <1>3, <1>4 DEF Answered, Calm, w

\* Posting one entry.
LEMMA AppendAt ==
  ASSUME NEW q \in Seq(Item), NEW item \in Item
  PROVE  LET r == Append(q, item)
             n == Len(q) + 1
         IN  /\ r \in Seq(Item) /\ Len(r) = n
             /\ DOMAIN r = DOMAIN q \cup {n} /\ n \notin DOMAIN q /\ r[n] = item
             /\ \A i \in DOMAIN q : r[i] = q[i] /\ i < n
<1> DEFINE r == Append(q, item)
           n == Len(q) + 1
<1>1. /\ r \in Seq(Item) /\ Len(r) = n /\ r[n] = item
      /\ \A i \in 1..Len(q) : r[i] = q[i]
  BY AppendProperties
<1>2. DOMAIN q = 1..Len(q) /\ DOMAIN r = 1..n /\ Len(q) \in Nat
  BY <1>1, LenProperties
<1> HIDE DEF r
<1>3. DOMAIN r = DOMAIN q \cup {n} /\ n \notin DOMAIN q
  BY <1>2
<1>4. \A i \in DOMAIN q : r[i] = q[i] /\ i < n
  BY <1>1, <1>2
<1> QED BY <1>1, <1>3, <1>4 DEF r

LEMMA GrowsAppend ==
  ASSUME NEW q \in Seq(Item), NEW item \in Item, Failed(item)
  PROVE  Grows(q, Append(q, item))
<1> DEFINE r == Append(q, item)
<1>1. /\ r \in Seq(Item) /\ DOMAIN r = DOMAIN q \cup {Len(q) + 1}
      /\ r[Len(q) + 1] = item /\ \A i \in DOMAIN q : r[i] = q[i]
  BY AppendAt
<1> HIDE DEF r
<1>2. Grows(q, r)
  BY <1>1 DEF Grows
<1> QED BY <1>2 DEF r

\* Concatenation under a name of its own, which the provers do not unfold.
Join(q, w) == q \o w

\* Behind w come copies of a failed completion.
LEMMA GrowsRepeat ==
  ASSUME NEW q, NEW w, Grows(q, w), NEW e, Failed(e), NEW f \in Seq(Item),
         \A i \in DOMAIN f : f[i] = e, NEW x, x = Join(w, f)
  PROVE  /\ Grows(q, x)
         /\ \A i \in DOMAIN w : i \in DOMAIN x /\ x[i] = w[i]
         /\ \A i \in DOMAIN x \ DOMAIN w : x[i] = e
         /\ f # <<>> => \E i \in DOMAIN x : x[i] = e
         /\ f = <<>> => DOMAIN x = DOMAIN w
<1> DEFINE m == Len(w)
           n == Len(f)
<1>1. w \in Seq(Item)
  BY DEF Grows
<1>2. x = w \o f
  BY DEF Join
<1>3. /\ x \in Seq(Item) /\ Len(x) = Len(w) + Len(f)
      /\ \A i \in 1..Len(w) + Len(f) :
           x[i] = IF i <= Len(w) THEN w[i] ELSE f[i - Len(w)]
  BY <1>1, <1>2, ConcatProperties
<1>4. /\ DOMAIN w = 1..m /\ DOMAIN x = 1..m + n /\ DOMAIN f = 1..n
      /\ m \in Nat /\ n \in Nat /\ (f # <<>> => n # 0) /\ (f = <<>> => n = 0)
  BY <1>1, <1>3, Positions, EmptySeq
<1> HIDE DEF m, n
<1>5. \A i \in 1..m + n : x[i] = IF i <= m THEN w[i] ELSE f[i - m]
  BY <1>3 DEF m, n
<1>7. DOMAIN w \subseteq DOMAIN x /\ \A i \in DOMAIN w : x[i] = w[i]
  BY <1>4, <1>5
<1>8. ASSUME NEW i \in DOMAIN x \ DOMAIN w PROVE x[i] = e
  <2>1. i \in 1..m + n /\ ~(i <= m) /\ i - m \in DOMAIN f
    BY <1>4
  <2> QED BY <1>5, <2>1
<1>9. Grows(w, x)
  BY <1>3, <1>7, <1>8 DEF Grows
<1>10. Grows(q, x)
  BY <1>9, GrowsTrans
<1>11. f = <<>> => DOMAIN x = DOMAIN w
  BY <1>4
<1>12. f # <<>> => \E i \in DOMAIN x : x[i] = e
  <2> SUFFICES ASSUME f # <<>> PROVE \E i \in DOMAIN x : x[i] = e
    OBVIOUS
  <2>1. m + n \in DOMAIN x \ DOMAIN w
    BY <1>4
  <2> QED BY <1>8, <2>1
<1> QED BY <1>7, <1>8, <1>10, <1>11, <1>12

\* close() of the asio socket.
LEMMA ShutLemma ==
  ASSUME NEW s, Usable(s)
  PROVE  LET r == socket_close(s)
         IN  /\ Usable(r) /\ ~r.fd /\ r.state = s.state /\ From(r, s)
             /\ s.fd /\ s.rd > 0 => ReadsAt(r.queue) # {}
             /\ s.cn = 0 =>
                  \A i \in DOMAIN r.queue \ DOMAIN s.queue :
                    r.queue[i].op \in {"read", "write"}
<1> DEFINE r == socket_close(s)
<1>0. s \in Endpoint /\ s.fd \in BOOLEAN
  BY DEF Usable, Endpoint
<1>1. CASE ~s.fd
  <2>1. r = s
    BY <1>1 DEF socket_close
  <2> HIDE DEF r
  <2> QED BY <1>0, <1>1, <2>1, FromSame DEF r
<1>2. CASE s.fd
  <2> DEFINE q == s.queue
             m == [i \in DOMAIN q |->
                     IF q[i].op \in Events THEN Entry("stale", TRUE) ELSE q[i]]
             x == Join(m, Repeat(s.rd, Entry("read", FALSE)))
             y == Join(x, Repeat(s.cn, Entry("connect", FALSE)))
             w == Join(y, Repeat(s.wr, Entry("write", FALSE)))
  <2>1. q \in Seq(Item) /\ s.rd \in Nat /\ s.cn \in Nat /\ s.wr \in Nat
    BY <1>0 DEF Endpoint
  <2>2. DOMAIN q = 1..Len(q) /\ Len(q) \in Nat /\ \A i \in DOMAIN q : q[i] \in Item
    BY <2>1, Positions
  <2>3. r = [s EXCEPT !.fd = FALSE, !.nb = FALSE, !.net = "none", !.rd = 0,
                      !.wr = 0, !.cn = 0, !.queue = w]
    BY <1>2 DEF socket_close, Join
  <2> HIDE DEF q, r
  <2>4. Entry("stale", TRUE) \in Item /\ Entry("stale", TRUE).op \notin Events
    BY DEF Entry, Item, Events
  <2>5. /\ m \in [1..Len(q) -> Item] /\ DOMAIN m = DOMAIN q
        /\ \A i \in DOMAIN q : m[i].op \notin Events
        /\ \A i \in DOMAIN q :
             m[i] = q[i] \/ (q[i].op \in Events /\ m[i] = Entry("stale", TRUE))
    BY <2>2, <2>4
  <2> HIDE DEF m
  <2>6. m \in Seq(Item)
    BY <2>2, <2>5, FunctionIsSeq
  <2>7. Grows(q, m)
    BY <2>5, <2>6 DEF Grows
  <2> DEFINE er == Entry("read", FALSE)
             ec == Entry("connect", FALSE)
             ew == Entry("write", FALSE)
  <2>8. /\ er \in Item /\ ec \in Item /\ ew \in Item
        /\ Failed(er) /\ Failed(ec) /\ Failed(ew)
        /\ er.op = "read" /\ ec.op = "connect" /\ ew.op = "write"
    BY DEF Entry, Item, Ops, Failed
  <2> DEFINE fr == Repeat(s.rd, er)
             fc == Repeat(s.cn, ec)
             fw == Repeat(s.wr, ew)
  <2>a. x = Join(m, fr) /\ y = Join(x, fc) /\ w = Join(y, fw)
    OBVIOUS
  <2> HIDE DEF x, y, w, er, ec, ew
  <2>b. /\ fr \in Seq(Item) /\ Len(fr) = s.rd
        /\ fc \in Seq(Item) /\ Len(fc) = s.cn /\ fw \in Seq(Item)
    BY <2>1, <2>8, HasRepeat
  <2>c. /\ \A i \in DOMAIN fr : fr[i] = er
        /\ \A i \in DOMAIN fc : fc[i] = ec
        /\ \A i \in DOMAIN fw : fw[i] = ew
    BY DEF Repeat
  <2> HIDE DEF fr, fc, fw
  <2>d. (s.rd > 0 => fr # <<>>) /\ (s.cn = 0 => fc = <<>>)
    BY <2>1, <2>b, EmptySeq
  <2>9. /\ Grows(q, x) /\ \A i \in DOMAIN m : i \in DOMAIN x /\ x[i] = m[i]
        /\ \A i \in DOMAIN x \ DOMAIN m : x[i] = er
        /\ fr # <<>> => \E i \in DOMAIN x : x[i] = er
    BY <2>7, <2>8, <2>a, <2>b, <2>c, GrowsRepeat
  <2>10. /\ Grows(q, y) /\ \A i \in DOMAIN x : i \in DOMAIN y /\ y[i] = x[i]
         /\ \A i \in DOMAIN y \ DOMAIN x : y[i] = ec
         /\ fc = <<>> => DOMAIN y = DOMAIN x
    BY <2>8, <2>9, <2>a, <2>b, <2>c, GrowsRepeat
  <2>11. /\ Grows(q, w) /\ \A i \in DOMAIN y : i \in DOMAIN w /\ w[i] = y[i]
         /\ \A i \in DOMAIN w \ DOMAIN y : w[i] = ew
    BY <2>8, <2>10, <2>a, <2>b, <2>c, GrowsRepeat
  <2>12. w \in Seq(Item) /\ Reported(w) = {}
    <3>1. \A i \in DOMAIN w : w[i].op \notin Events
      BY <2>5, <2>8, <2>9, <2>10, <2>11 DEF Events
    <3> QED BY <2>11, <3>1 DEF Grows, Reported
  <2>13. r \in Endpoint /\ r.queue = w /\ ~r.fd /\ ~r.nb /\ r.net = "none"
    BY <1>0, <2>3, <2>12 DEF Endpoint, Nets
  <2>14. r.rd = 0 /\ r.wr = 0 /\ r.cn = 0
    BY <1>0, <2>3 DEF Endpoint
  <2>15. /\ r.state = s.state /\ r.blocked = s.blocked /\ r.thrown = s.thrown
         /\ r.early = s.early
    BY <1>0, <2>3 DEF Endpoint
  <2>16. Usable(r) /\ From(r, s)
    BY <2>11, <2>12, <2>13, <2>14, <2>15 DEF Usable, Shut, From, q
  <2>17. s.rd > 0 => ReadsAt(w) # {}
    <3> SUFFICES ASSUME s.rd > 0 PROVE ReadsAt(w) # {}
      OBVIOUS
    <3>1. PICK i \in DOMAIN x : x[i] = er
      BY <2>9, <2>d
    <3>2. i \in DOMAIN w /\ w[i].op = "read"
      BY <2>8, <2>10, <2>11, <3>1
    <3> QED BY <3>2 DEF ReadsAt
  <2>18. s.cn = 0 => \A i \in DOMAIN w \ DOMAIN q : w[i].op \in {"read", "write"}
    BY <2>5, <2>8, <2>9, <2>10, <2>11, <2>d
  <2> QED BY <2>13, <2>15, <2>16, <2>17, <2>18 DEF r, q
<1> QED BY <1>0, <1>1, <1>2

\* tcp::socket::close.
LEMMA ResetShut ==
  ASSUME NEW s, Usable(s)
  PROVE  LET r == reset(s)
         IN  /\ Usable(r) /\ ~r.fd /\ r.state = s.state /\ From(r, s)
             /\ s.fd /\ s.rd > 0 => ReadsAt(r.queue) # {}
             /\ s.cn = 0 =>
                  \A i \in DOMAIN r.queue \ DOMAIN s.queue :
                    r.queue[i].op \in {"read", "write"}
<1> DEFINE t == [s EXCEPT !.sending = FALSE, !.out = 0]
<1>1. s \in Endpoint /\ 0 \in 0..MaxOut
  BY TcpConstants DEF Usable
<1>2. /\ t \in Endpoint /\ t.state = s.state /\ t.blocked = s.blocked
      /\ t.thrown = s.thrown /\ t.queue = s.queue /\ t.early = s.early
  BY <1>1 DEF Endpoint
<1>3. /\ t.fd = s.fd /\ t.rd = s.rd /\ t.wr = s.wr /\ t.cn = s.cn /\ t.net = s.net
      /\ t.nb = s.nb
  BY <1>1 DEF Endpoint
<1>4. reset(s) = socket_close(t)
  BY DEF reset
<1> HIDE DEF t
<1>5. Usable(t)
  BY <1>2, <1>3 DEF Usable, Shut
<1> QED BY <1>2, <1>3, <1>4, <1>5, ShutLemma DEF From

\* connect() sets the state and changes nothing else.
LEMMA ConnectingLemma ==
  ASSUME NEW s, Usable(s)
  PROVE  LET t == connecting(s)
         IN  /\ Usable(t) /\ t.state = "CONNECTING" /\ t.queue = s.queue
             /\ t.early = s.early /\ t.fd = s.fd /\ t.rd = s.rd /\ t.cn = s.cn
             /\ t.net = s.net /\ t.nb = s.nb
<1> DEFINE t == connecting(s)
<1>1. s \in Endpoint
  BY DEF Usable
<1>2. /\ t \in Endpoint /\ t.state = "CONNECTING" /\ t.blocked = s.blocked
      /\ t.thrown = s.thrown /\ t.queue = s.queue /\ t.early = s.early
  BY <1>1 DEF connecting, Endpoint, States
<1>3. /\ t.fd = s.fd /\ t.rd = s.rd /\ t.wr = s.wr /\ t.cn = s.cn /\ t.net = s.net
      /\ t.nb = s.nb
  BY <1>1 DEF connecting, Endpoint
<1> HIDE DEF t
<1> QED BY <1>2, <1>3 DEF Usable, Shut, t

\* async_connect, on a closed socket or on the one an on_disconnected opened.
\* Only the latter can be told at once that it is connected.
LEMMA AttemptLemma ==
  ASSUME NEW s, Usable(s), ~s.fd \/ Restarted(s), Idle(s), NEW answer \in Answers
  PROVE  LET r == async_connect(connecting(s), answer)
         IN  /\ Restarted(r) /\ r.net = answer /\ (~s.fd => Idle(r))
             /\ ~s.fd /\ answer # "refused" => r.queue = s.queue
             /\ \/ From(r, s)
                \/ /\ s.fd /\ s.net \notin {"none", "refused"} /\ r.early
                   /\ r.queue = Append(s.queue, Entry("connect", TRUE))
<1> DEFINE t == connecting(s)
           r == async_connect(t, answer)
<1>1. /\ Usable(t) /\ t.state = "CONNECTING" /\ t.queue = s.queue
      /\ t.early = s.early /\ t.fd = s.fd /\ t.rd = s.rd /\ t.cn = s.cn
      /\ t.net = s.net /\ t.nb = s.nb
  BY ConnectingLemma
<1> HIDE DEF t
<1>2. t \in Endpoint /\ ~t.thrown /\ t.blocked = "no"
  BY <1>1 DEF Usable
<1>3. /\ r \in Endpoint /\ r.fd /\ r.net = answer
      /\ r.state = t.state /\ r.blocked = t.blocked
      /\ r.rd = t.rd /\ r.nb = t.nb /\ r.thrown = t.thrown
      /\ \/ \E e \in Item :
              /\ e.op = "connect" /\ r.queue = Append(t.queue, e) /\ r.cn = t.cn
              /\ e.ok => /\ answer = "up" /\ t.net \notin {"none", "refused"}
                         /\ r.early
              /\ ~e.ok => r.early = t.early
         \/ /\ r.queue = t.queue /\ r.cn = t.cn + 1 /\ r.early = t.early
            /\ t.net \in {"none", "refused"}
  BY <1>2, AnswerLemma
<1>3a. ~t.fd /\ answer # "refused" => r.queue = t.queue /\ r.cn = t.cn + 1
  <2>1. ~t.fd => t.net = "none"
    BY <1>1 DEF Usable, Shut
  <2> SUFFICES ASSUME ~t.fd, answer # "refused" PROVE r.queue = t.queue /\ r.cn = t.cn + 1
    OBVIOUS
  <2>2. r = [[t EXCEPT !.fd = TRUE, !.net = answer] EXCEPT !.cn = @ + 1]
    BY <2>1 DEF async_connect
  <2> HIDE DEF r
  <2> QED BY <1>2, <2>2 DEF Endpoint
<1> HIDE DEF r
<1>4. /\ t.rd = 0 /\ ~t.nb /\ t.cn \in {0, 1} /\ Reported(t.queue) = {}
      /\ t.net \in {"none", "refused"} => t.cn = 0
      /\ ~s.fd => t.cn = 0 /\ t.net = "none"
  <2>1. CASE ~s.fd
    BY <1>1, <2>1 DEF Usable, Shut, Idle
  <2>2. CASE s.fd
    <3>1. Opening(s) /\ Reported(s.queue) = {}
      BY <2>2 DEF Restarted
    <3> QED BY <1>1, <2>2, <3>1 DEF Opening, Idle
  <2> QED BY <2>1, <2>2 DEF Usable, Endpoint
<1>5. answer # "none" /\ s.fd \in BOOLEAN /\ s.early \in BOOLEAN
  BY DEF Answers, Usable, Endpoint
<1>6. t.queue \in Seq(Item)
  BY <1>2 DEF Endpoint
<1>7. CASE /\ r.queue = t.queue /\ r.cn = t.cn + 1 /\ r.early = t.early
           /\ t.net \in {"none", "refused"}
  <2>1. r.cn = 1 /\ Reported(r.queue) = {}
    BY <1>4, <1>7
  <2>2. Opening(r)
    BY <1>3, <1>4, <1>5, <2>1 DEF Opening
  <2>3. Restarted(r)
    BY <1>1, <1>2, <1>3, <2>1, <2>2 DEF Restarted, Usable, Shut
  <2>4. From(r, s)
    BY <1>1, <1>6, <1>7, GrowsSame DEF From
  <2>5. ~s.fd => Idle(r)
    <3>1. ~s.fd /\ r.net = "refused" => FALSE
      <4> SUFFICES ASSUME ~s.fd, answer = "refused" PROVE FALSE
        BY <1>3
      <4>1. t.net = "none"
        BY <1>4
      <4>2. async_connect(t, answer).cn = t.cn
        <5> DEFINE u == [t EXCEPT !.fd = TRUE, !.net = answer]
                   q == Append(u.queue, Entry("connect", FALSE))
        <5>1. async_connect(t, answer) = [u EXCEPT !.queue = q]
          BY DEF async_connect, Post
        <5> HIDE DEF q
        <5> QED BY <1>2, <5>1 DEF Endpoint
      <4>3. r.cn = t.cn
        BY <4>2 DEF r
      <4> QED BY <1>4, <1>7, <4>3
    <3> QED BY <1>3, <1>5, <3>1 DEF Idle
  <2> QED BY <1>1, <1>3, <1>7, <2>3, <2>4, <2>5 DEF r, t
<1>8. CASE \E e \in Item :
             /\ e.op = "connect" /\ r.queue = Append(t.queue, e) /\ r.cn = t.cn
             /\ e.ok => /\ answer = "up" /\ t.net \notin {"none", "refused"}
                        /\ r.early
             /\ ~e.ok => r.early = t.early
  <2>1. PICK e \in Item :
             /\ e.op = "connect" /\ r.queue = Append(t.queue, e) /\ r.cn = t.cn
             /\ e.ok => /\ answer = "up" /\ t.net \notin {"none", "refused"}
                        /\ r.early
             /\ ~e.ok => r.early = t.early
    BY <1>8
  <2>2. /\ r.queue \in Seq(Item) /\ DOMAIN r.queue = DOMAIN t.queue \cup {Len(t.queue) + 1}
        /\ r.queue[Len(t.queue) + 1] = e
        /\ \A i \in DOMAIN t.queue : r.queue[i] = t.queue[i]
    BY <1>6, <2>1, AppendAt
  <2>3. Reported(r.queue) = {}
    BY <1>4, <2>1, <2>2 DEF Reported, Events
  <2>4. Opening(r)
    BY <1>3, <1>4, <1>5, <2>1, <2>3 DEF Opening
  <2>5. Restarted(r)
    BY <1>1, <1>2, <1>3, <2>3, <2>4 DEF Restarted, Usable, Shut
  <2>6. CASE ~e.ok
    <3>1. Failed(e)
      BY <2>1, <2>6 DEF Failed, Ops
    <3>2. From(r, s)
      BY <1>1, <1>6, <2>1, <2>6, <3>1, GrowsAppend DEF From
    <3>3. ~s.fd => Idle(r)
      BY <1>4, <2>1 DEF Idle
    <3>4. ~s.fd /\ answer # "refused" => r.queue = s.queue
      BY <1>1, <1>3a
    <3> QED BY <1>3, <2>5, <3>2, <3>3, <3>4 DEF r, t
  <2>7. CASE e.ok
    <3>1. s.fd /\ s.net \notin {"none", "refused"} /\ r.early
      BY <1>1, <1>4, <1>5, <2>1, <2>7
    <3>2. e = Entry("connect", TRUE)
      BY <2>1, <2>7 DEF Entry, Item
    <3> QED BY <1>1, <1>3, <2>1, <2>5, <3>1, <3>2 DEF r, t
  <2> QED BY <2>6, <2>7 DEF Item
<1> QED BY <1>3, <1>7, <1>8

\* The application is told and may connect again at once.
LEMMA ToldShut ==
  ASSUME NEW s, Usable(s), ~s.fd, s.state = "DISCONNECTED", NEW reconnect \in Replies
  PROVE  LET r == on_disconnected(s, reconnect)
         IN  /\ Restarted(r) /\ From(r, s) /\ Idle(r)
             /\ r.fd => r.net = reconnect
             /\ r.net = "syn" => r.queue = s.queue
<1> DEFINE t == [s EXCEPT !.up = FALSE]
           u == reset(t)
           r == on_disconnected(s, reconnect)
<1>1. s \in Endpoint
  BY DEF Usable
<1>2. /\ t \in Endpoint /\ t.state = s.state /\ t.blocked = s.blocked
      /\ t.thrown = s.thrown /\ t.queue = s.queue /\ t.early = s.early
  BY <1>1 DEF Endpoint
<1>3. /\ t.fd = s.fd /\ t.rd = s.rd /\ t.wr = s.wr /\ t.cn = s.cn /\ t.net = s.net
      /\ t.nb = s.nb
  BY <1>1 DEF Endpoint
<1>4. r = IF reconnect = "no" THEN t ELSE async_connect(connecting(u), reconnect)
  BY DEF on_disconnected
<1> HIDE DEF t, r
<1>5. Usable(t) /\ From(t, s)
  BY <1>2, <1>3, FromSame DEF Usable, Shut, From
<1>6. Usable(u) /\ ~u.fd /\ From(u, t) /\ u.queue = t.queue
  <2>1. Usable(u) /\ ~u.fd /\ From(u, t)
    BY <1>5, ResetShut
  <2>2. u.queue = t.queue
    <3> DEFINE v == [t EXCEPT !.sending = FALSE, !.out = 0]
    <3>1. v.fd = t.fd /\ v.queue = t.queue
      BY <1>2 DEF Endpoint
    <3>2. u = socket_close(v)
      BY DEF reset
    <3> HIDE DEF v
    <3> QED BY <1>3, <3>1, <3>2 DEF socket_close
  <2> QED BY <2>1, <2>2
<1> HIDE DEF u
<1>7. CASE reconnect = "no"
  <2>1. Restarted(t) /\ Idle(t) /\ ~t.fd /\ t.net = "none"
    BY <1>2, <1>3, <1>5 DEF Restarted, Usable, Shut, Idle
  <2> QED BY <1>2, <1>4, <1>5, <1>7, <2>1 DEF r
<1>8. CASE reconnect # "no"
  <2>1. reconnect \in Answers /\ reconnect \in {"syn", "refused"}
    BY <1>8 DEF Replies, Answers
  <2>2. Idle(u) /\ u.net = "none"
    BY <1>6 DEF Usable, Shut, Idle
  <2> DEFINE a == async_connect(connecting(u), reconnect)
  <2>3. /\ Restarted(a) /\ Idle(a) /\ a.net = reconnect /\ From(a, u)
        /\ reconnect # "refused" => a.queue = u.queue
    BY <1>6, <2>1, <2>2, AttemptLemma
  <2> HIDE DEF a
  <2>4. r = a
    BY <1>4, <1>8 DEF a
  <2>5. From(a, s)
    BY <1>5, <1>6, <2>3, FromTrans
  <2> QED BY <1>2, <1>6, <2>1, <2>3, <2>4, <2>5 DEF r
<1> QED BY <1>7, <1>8

\* close() of tcp::socket, whatever the state.  Only one that was connected
\* can leave an open socket.
LEMMA CloseShut ==
  ASSUME NEW s, Usable(s), NEW reconnect \in Replies
  PROVE  LET r == close(s, reconnect)
         IN  /\ Restarted(r) /\ From(r, s) /\ Idle(r)
             /\ s.state # "CONNECTED" => ~r.fd /\ r.state = s.state
             /\ r.fd /\ r.net # "refused" => r.net = "syn" /\ r.queue = reset(s).queue
<1> DEFINE t == reset(s)
           r == close(s, reconnect)
<1>1. Usable(t) /\ ~t.fd /\ From(t, s) /\ t.state = s.state
  BY ResetShut
<1>2. r = on_close(t, reconnect)
  BY DEF close
<1> HIDE DEF t, r
<1>3. CASE t.state = "CONNECTED"
  <2> DEFINE u == [t EXCEPT !.state = "DISCONNECTED"]
  <2>1. t \in Endpoint
    BY <1>1 DEF Usable
  <2>2. /\ u \in Endpoint /\ u.state = "DISCONNECTED" /\ u.blocked = t.blocked
        /\ u.thrown = t.thrown /\ u.queue = t.queue /\ u.early = t.early
    BY <2>1 DEF Endpoint, States
  <2>3. /\ u.fd = t.fd /\ u.rd = t.rd /\ u.wr = t.wr /\ u.cn = t.cn /\ u.net = t.net
        /\ u.nb = t.nb
    BY <2>1 DEF Endpoint
  <2>4. on_close(t, reconnect) = on_disconnected(u, reconnect)
    BY <1>3 DEF on_close
  <2> HIDE DEF u
  <2>5. Usable(u) /\ From(u, s)
    BY <1>1, <2>2, <2>3 DEF Usable, Shut, From
  <2>6. /\ Restarted(r) /\ From(r, u) /\ Idle(r) /\ (r.fd => r.net = reconnect)
        /\ r.net = "syn" => r.queue = u.queue
    BY <1>1, <1>2, <2>2, <2>3, <2>4, <2>5, ToldShut
  <2>7. From(r, s)
    BY <2>5, <2>6, FromTrans
  <2>8. r.fd /\ r.net # "refused" => r.net = "syn"
    BY <2>6 DEF Replies, Restarted, Opening, Usable, Endpoint, Nets
  <2> QED BY <1>1, <1>3, <2>2, <2>6, <2>7, <2>8 DEF r, t
<1>4. CASE t.state # "CONNECTED"
  <2>1. r = t
    BY <1>2, <1>4 DEF on_close
  <2>2. Idle(t)
    BY <1>1 DEF Usable, Shut, Idle
  <2> QED BY <1>1, <1>4, <2>1, <2>2 DEF Restarted, r
<1> QED BY <1>3, <1>4

LEMMA DisconnectShut ==
  ASSUME NEW s, Usable(s), s.state = "DISCONNECTED" => ~s.fd, NEW reconnect \in Replies
  PROVE  LET r == disconnect(s, reconnect) IN Restarted(r) /\ From(r, s)
<1>1. CASE s.state = "DISCONNECTED"
  BY <1>1, FromSame DEF disconnect, Restarted, Usable
<1>2. CASE s.state # "DISCONNECTED"
  <2> DEFINE t == [s EXCEPT !.state = "DISCONNECTED"]
             u == reset(t)
             r == disconnect(s, reconnect)
  <2>1. s \in Endpoint
    BY DEF Usable
  <2>2. /\ t \in Endpoint /\ t.state = "DISCONNECTED" /\ t.blocked = s.blocked
        /\ t.thrown = s.thrown /\ t.queue = s.queue /\ t.early = s.early
    BY <2>1 DEF Endpoint, States
  <2>3. /\ t.fd = s.fd /\ t.rd = s.rd /\ t.wr = s.wr /\ t.cn = s.cn /\ t.net = s.net
        /\ t.nb = s.nb
    BY <2>1 DEF Endpoint
  <2>4. r = on_disconnected(u, reconnect)
    BY <1>2 DEF disconnect
  <2> HIDE DEF t, r
  <2>5. Usable(t)
    BY <2>2, <2>3 DEF Usable, Shut
  <2>6. Usable(u) /\ ~u.fd /\ u.state = "DISCONNECTED" /\ From(u, t)
    BY <2>2, <2>5, ResetShut
  <2> HIDE DEF u
  <2>7. From(u, s)
    BY <2>2, <2>6 DEF From
  <2>8. Restarted(r) /\ From(r, u)
    BY <2>4, <2>6, ToldShut
  <2> QED BY <2>7, <2>8, FromTrans DEF r
<1> QED BY <1>1, <1>2

\* connect(): unless connect(2) answered at once.
LEMMA ConnectShut ==
  ASSUME NEW s, Usable(s), Calm(s), NEW reconnect \in Replies, NEW answer \in Answers
  PROVE  LET r == connect(s, reconnect, answer)
         IN  /\ Restarted(r)
             /\ Calm(r) \/ (/\ r.early /\ s.state = "CONNECTED"
                            /\ r.queue = Append(reset(s).queue, Entry("connect", TRUE)))
<1> DEFINE c == close(s, reconnect)
           r == connect(s, reconnect, answer)
<1>1. /\ Restarted(c) /\ From(c, s) /\ Idle(c)
      /\ s.state # "CONNECTED" => ~c.fd
      /\ c.fd /\ c.net # "refused" => c.net = "syn" /\ c.queue = reset(s).queue
  BY CloseShut
<1>2. r = async_connect(connecting(c), answer)
  BY DEF connect
<1> HIDE DEF c, r
<1>3. /\ Restarted(r)
      /\ \/ From(r, c)
         \/ /\ c.fd /\ c.net \notin {"none", "refused"} /\ r.early
            /\ r.queue = Append(c.queue, Entry("connect", TRUE))
  <2>1. Usable(c)
    BY <1>1 DEF Restarted
  <2> QED BY <1>1, <1>2, <2>1, AttemptLemma
<1>4. CASE From(r, c)
  BY <1>1, <1>3, <1>4, FromCalm DEF r
<1>5. CASE ~From(r, c)
  BY <1>1, <1>3, <1>5 DEF r
<1> QED BY <1>4, <1>5

\* What a wait for writing leaves alone; on a closed socket it posts a failure.
Like(r, s) ==
  /\ r.state = s.state /\ r.blocked = s.blocked /\ r.thrown = s.thrown
  /\ r.fd = s.fd /\ r.nb = s.nb /\ r.net = s.net /\ r.rd = s.rd /\ r.cn = s.cn
  /\ s.fd => r.queue = s.queue
  /\ ~s.fd => r.wr = s.wr /\ Reported(r.queue) = Reported(s.queue)
  /\ From(r, s)

LEMMA LikeLemma ==
  ASSUME NEW s, NEW r \in Endpoint, Like(r, s)
  PROVE  /\ Placed(s) => Placed(r)
         /\ Ordered(s) => Ordered(r)
         /\ Served(s) => Served(r)
<1>1. ASSUME Placed(s) PROVE Placed(r)
  <2>1. s \in Endpoint
    BY <1>1 DEF Placed
  <2>2. CASE s.fd
    <3>1. Calm(r)
      BY <1>1, FromCalm DEF Placed, Like
    <3> QED BY <1>1, <2>2, <3>1 DEF Placed, Like, Shut, Opening
  <2>3. CASE ~s.fd
    <3>1. Calm(r)
      BY <1>1, FromCalm DEF Placed, Like
    <3>2. Shut(r) /\ ~r.fd
      BY <1>1, <2>3 DEF Placed, Like, Shut
    <3> QED BY <1>1, <2>3, <3>1, <3>2 DEF Placed, Like
  <2> QED BY <2>1, <2>2, <2>3 DEF Endpoint
<1>2. Live(s) => Live(r) /\ r.queue = s.queue /\ r.rd = s.rd
  BY DEF Live, Like
<1>3. Live(s) /\ Single(s) => Single(r)
  BY <1>2 DEF Single
<1> QED BY <1>1, <1>2, <1>3 DEF Ordered, Served, Like

LEMMA WriteLike ==
  ASSUME NEW s \in Endpoint
  PROVE  LET r == do_write(s) IN r \in Endpoint /\ Like(r, s)
<1> DEFINE r == do_write(s)
<1>1. CASE ~(~s.sending /\ s.out > 0)
  BY <1>1, FromSame DEF do_write, Like
<1>2. CASE ~s.sending /\ s.out > 0
  <2> DEFINE t == [s EXCEPT !.sending = TRUE]
  <2>1. /\ t \in Endpoint /\ t.state = s.state /\ t.blocked = s.blocked
        /\ t.thrown = s.thrown /\ t.queue = s.queue /\ t.early = s.early
    BY DEF Endpoint
  <2>2. /\ t.fd = s.fd /\ t.rd = s.rd /\ t.wr = s.wr /\ t.cn = s.cn /\ t.net = s.net
        /\ t.nb = s.nb
    BY DEF Endpoint
  <2>3. r = async_wait_write(t)
    BY <1>2 DEF do_write
  <2> HIDE DEF t, r
  <2>4. CASE t.fd
    <3> DEFINE n == t.wr + 1
    <3>1. n \in Nat
      BY <2>1 DEF Endpoint
    <3>2. r = [t EXCEPT !.wr = n]
      BY <2>3, <2>4 DEF async_wait_write
    <3> HIDE DEF n
    <3>3. /\ r \in Endpoint /\ r.state = t.state /\ r.blocked = t.blocked
          /\ r.thrown = t.thrown /\ r.queue = t.queue /\ r.early = t.early
      BY <2>1, <3>1, <3>2 DEF Endpoint
    <3>4. r.fd = t.fd /\ r.nb = t.nb /\ r.net = t.net /\ r.rd = t.rd /\ r.cn = t.cn
      BY <2>1, <3>2 DEF Endpoint
    <3>5. From(r, s)
      BY <2>1, <3>3, FromSame DEF From
    <3> QED BY <2>1, <2>2, <2>4, <3>3, <3>4, <3>5 DEF Like, r
  <2>5. CASE ~t.fd
    <3> DEFINE e == Entry("write", FALSE)
               w == Append(t.queue, e)
    <3>1. e \in Item /\ e.op = "write" /\ Failed(e) /\ t.queue \in Seq(Item)
      BY <2>1 DEF Entry, Item, Ops, Endpoint, Failed
    <3>2. r = [t EXCEPT !.queue = w]
      BY <2>3, <2>5 DEF async_wait_write, Post
    <3> HIDE DEF e
    <3>3. /\ w \in Seq(Item) /\ DOMAIN w = DOMAIN t.queue \cup {Len(t.queue) + 1}
          /\ w[Len(t.queue) + 1] = e /\ \A i \in DOMAIN t.queue : w[i] = t.queue[i]
      BY <3>1, AppendAt
    <3>a. Grows(t.queue, w)
      BY <3>1, GrowsAppend
    <3> HIDE DEF w
    <3>4. Reported(w) = Reported(t.queue)
      BY <3>1, <3>3 DEF Reported, Events
    <3>5. /\ r \in Endpoint /\ r.state = t.state /\ r.blocked = t.blocked
          /\ r.thrown = t.thrown /\ r.queue = w /\ r.early = t.early
      BY <2>1, <3>2, <3>3 DEF Endpoint
    <3>6. /\ r.fd = t.fd /\ r.nb = t.nb /\ r.net = t.net /\ r.rd = t.rd
          /\ r.cn = t.cn /\ r.wr = t.wr
      BY <2>1, <3>2 DEF Endpoint
    <3>7. From(r, s)
      BY <2>1, <3>5, <3>a DEF From
    <3> QED BY <2>1, <2>2, <2>5, <3>4, <3>5, <3>6, <3>7 DEF Like, r
  <2> QED BY <2>4, <2>5
<1> QED BY <1>1, <1>2

\* A change of send_buff_ and its flag matters to nothing else.
LEMMA BufferLike ==
  ASSUME NEW s \in Endpoint, NEW n \in 0..MaxOut, NEW b \in BOOLEAN
  PROVE  LET t == [s EXCEPT !.out = n, !.sending = b]
         IN  /\ do_write(t) \in Endpoint /\ Like(do_write(t), s)
<1> DEFINE t == [s EXCEPT !.out = n, !.sending = b]
<1>1. /\ t \in Endpoint /\ t.state = s.state /\ t.blocked = s.blocked
      /\ t.thrown = s.thrown /\ t.queue = s.queue /\ t.early = s.early
  BY DEF Endpoint
<1>2. /\ t.fd = s.fd /\ t.rd = s.rd /\ t.wr = s.wr /\ t.cn = s.cn /\ t.net = s.net
      /\ t.nb = s.nb
  BY DEF Endpoint
<1> HIDE DEF t
<1>3. do_write(t) \in Endpoint /\ Like(do_write(t), t)
  BY <1>1, WriteLike
<1> QED BY <1>1, <1>2, <1>3 DEF Like, From, t

LEMMA SendLike ==
  ASSUME NEW s \in Endpoint
  PROVE  LET r == send(s) IN r \in Endpoint /\ Like(r, s)
<1>1. CASE s.out < MaxOut
  <2> DEFINE n == s.out + 1
             b == s.sending
  <2>1. n \in 0..MaxOut /\ b \in BOOLEAN
    BY <1>1, TcpConstants DEF Endpoint
  <2>2. send(s) = do_write([s EXCEPT !.out = n])
    BY <1>1 DEF send
  <2>3. [s EXCEPT !.out = n] = [s EXCEPT !.out = n, !.sending = b]
    BY DEF Endpoint
  <2> HIDE DEF n, b
  <2> QED BY <2>1, <2>2, <2>3, BufferLike
<1>2. CASE ~(s.out < MaxOut)
  BY <1>2, FromSame DEF send, Like
<1> QED BY <1>1, <1>2

-----------------------------------------------------------------------------
(* The handlers and the order                                              *)

\* connected(), once no completion of an earlier socket is left.
LEMMA EstablishedLemma ==
  ASSUME NEW s \in Endpoint, ~s.thrown, s.blocked = "no", s.state # "CONNECTED",
         s.fd, s.cn = 0, s.rd = 0, s.net \in {"up", "gone"},
         Aborted(s.queue) = {}, ReadsAt(s.queue) = {}, Calm(s), NEW call
  PROVE  Ordered(connected(s, call))
<1> DEFINE a == [s EXCEPT !.state = "CONNECTED", !.up = TRUE]
           b == IF call = "send" THEN send(a) ELSE a
           c == [b EXCEPT !.nb = TRUE]
           d == do_read(c)
           r == do_write(d)
<1>1. on_connected([s EXCEPT !.state = "CONNECTED"], call) = b
  BY DEF on_connected
<1>2. /\ a \in Endpoint /\ a.state = "CONNECTED" /\ a.blocked = s.blocked
      /\ a.thrown = s.thrown /\ a.queue = s.queue /\ a.early = s.early
  BY DEF Endpoint, States
<1>3. a.fd = s.fd /\ a.rd = s.rd /\ a.cn = s.cn /\ a.net = s.net
  BY DEF Endpoint
<1> HIDE DEF a
<1>4. b \in Endpoint /\ Like(b, a)
  <2>1. Like(a, a)
    BY <1>2, FromSame DEF Like
  <2> QED BY <1>2, <2>1, SendLike
<1>5. connected(s, call) = open(b)
  BY <1>1 DEF connected
<1> HIDE DEF b
<1>6. /\ b.state = "CONNECTED" /\ b.blocked = "no" /\ ~b.thrown /\ b.fd /\ b.cn = 0
      /\ b.rd = 0 /\ b.net \in {"up", "gone"} /\ b.queue = s.queue /\ b.early = s.early
  BY <1>2, <1>3, <1>4 DEF Like, From
<1>7. open(b) = r
  BY <1>6 DEF open
<1>8. c \in Endpoint /\ c.nb /\ c.state = b.state /\ c.blocked = b.blocked
      /\ c.thrown = b.thrown /\ c.queue = b.queue /\ c.early = b.early
  BY <1>4 DEF Endpoint
<1>9. c.fd = b.fd /\ c.rd = b.rd /\ c.cn = b.cn /\ c.net = b.net
  BY <1>4 DEF Endpoint
<1> HIDE DEF c
<1>10. d \in Endpoint /\ Ordered(d)
  <2> DEFINE n == c.rd + 1
  <2>1. n = 1 /\ n \in Nat
    BY <1>6, <1>9
  <2>2. d = [c EXCEPT !.rd = n]
    BY <1>6, <1>9 DEF do_read, async_wait_read
  <2> HIDE DEF n, d
  <2>3. d \in Endpoint /\ d.rd = n /\ d.queue = c.queue /\ d.state = c.state
        /\ d.blocked = c.blocked /\ d.thrown = c.thrown /\ d.early = c.early
    BY <1>8, <2>1, <2>2 DEF Endpoint
  <2>4. d.fd = c.fd /\ d.cn = c.cn /\ d.net = c.net /\ d.nb = c.nb
    BY <1>8, <2>2 DEF Endpoint
  <2>5. Live(d) /\ Single(d)
    BY <1>6, <1>8, <1>9, <2>1, <2>3, <2>4 DEF Live, Single
  <2> QED BY <1>6, <1>8, <1>9, <2>3, <2>4, <2>5 DEF Ordered, Placed, Shut, Calm, d
<1> HIDE DEF d
<1>11. r \in Endpoint /\ Like(r, d)
  BY <1>10, WriteLike
<1> HIDE DEF r
<1> QED BY <1>5, <1>7, <1>10, <1>11, LikeLemma

LEMMA RecvServed ==
  ASSUME NEW s, Served(s), NEW call, NEW reconnect \in Replies
  PROVE  LET t == on_recv(s, call, reconnect)
         IN  Served(t)
<1>1. s \in Endpoint /\ Usable(s) /\ (s.state = "DISCONNECTED" => ~s.fd) /\ Calm(s)
  BY DEF Served, Placed, Usable
<1>2. CASE call = "send"
  <2>1. send(s) \in Endpoint /\ Like(send(s), s)
    BY <1>1, SendLike
  <2> QED BY <1>2, <2>1, LikeLemma DEF on_recv
<1>3. CASE call = "disconnect"
  <2> DEFINE t == disconnect(s, reconnect)
  <2>1. Restarted(t) /\ From(t, s)
    BY <1>1, DisconnectShut
  <2> HIDE DEF t
  <2>a. Calm(t)
    BY <1>1, <2>1, FromCalm
  <2>2. Placed(t) /\ t.blocked = "no" /\ t.state # "CONNECTED"
    BY <2>1, <2>a, RestartedOrdered DEF Ordered, Restarted, Usable
  <2>3. on_recv(s, call, reconnect) = t
    BY <1>3 DEF on_recv, t
  <2> QED BY <2>2, <2>3 DEF Served
<1>4. CASE call \notin {"send", "disconnect"}
  BY <1>4 DEF on_recv
<1> QED BY <1>2, <1>3, <1>4

\* The wait_read handler waits again on the established connection, closes
\* the socket, or blocks on one that connects.
LEMMA ReadOrdered ==
  ASSUME NEW s, Served(s), NEW ok \in BOOLEAN, NEW data \in BOOLEAN, NEW call,
         NEW reconnect \in Replies
  PROVE  Ordered(read_handler(s, ok, data, call, reconnect))
<1> DEFINE t == IF ok /\ data /\ s.net \in {"up", "gone"}
                THEN on_recv(s, call, reconnect) ELSE s
           r == read_handler(s, ok, data, call, reconnect)
<1>1. Served(t)
  BY RecvServed
<1>2. r = CASE ~ok \/ t.net \notin {"syn", "up"} -> close(t, reconnect)
            [] ok /\ t.net \in {"syn", "up"} /\ t.nb -> do_read(t)
            [] OTHER -> [t EXCEPT !.blocked = "receive"]
  BY DEF read_handler
<1> HIDE DEF t, r
<1>3. t \in Endpoint /\ Usable(t) /\ Placed(t) /\ Calm(t)
  BY <1>1 DEF Served, Placed, Usable
<1>4. CASE ~ok \/ t.net \notin {"syn", "up"}
  <2>1. r = close(t, reconnect)
    BY <1>2, <1>4
  <2>2. Restarted(r) /\ From(r, t)
    BY <1>3, <2>1, CloseShut
  <2>3. Calm(r)
    BY <1>3, <2>2, FromCalm
  <2> QED BY <2>2, <2>3, RestartedOrdered DEF r
<1>5. CASE ok /\ t.net \in {"syn", "up"} /\ t.nb
  <2>1. r = do_read(t)
    BY <1>2, <1>5
  <2>2. t.fd /\ t.state = "CONNECTED"
    BY <1>3, <1>5 DEF Placed, Shut, Opening, Endpoint, States
  <2>3. Live(t) /\ t.rd = 0 /\ ReadsAt(t.queue) = {}
    BY <1>1, <2>2 DEF Served
  <2> DEFINE n == t.rd + 1
  <2>4. n = 1 /\ n \in Nat
    BY <2>3
  <2>5. r = [t EXCEPT !.rd = n]
    BY <2>1, <2>2 DEF do_read, async_wait_read
  <2> HIDE DEF n
  <2>6. r \in Endpoint /\ r.rd = n /\ r.queue = t.queue /\ r.state = t.state
        /\ r.blocked = t.blocked /\ r.thrown = t.thrown /\ r.early = t.early
    BY <1>3, <2>4, <2>5 DEF Endpoint
  <2>7. r.fd = t.fd /\ r.cn = t.cn /\ r.net = t.net /\ r.nb = t.nb
    BY <1>3, <2>5 DEF Endpoint
  <2>8. Live(r) /\ Single(r)
    BY <2>3, <2>4, <2>6, <2>7 DEF Live, Single
  <2>9. Placed(r)
    BY <1>3, <2>2, <2>6, <2>7 DEF Placed, Shut, Calm
  <2> QED BY <2>8, <2>9 DEF Ordered, r
<1>6. CASE ok /\ t.net \in {"syn", "up"} /\ ~t.nb
  <2>1. r = [t EXCEPT !.blocked = "receive"]
    BY <1>2, <1>6
  <2>2. t.fd /\ t.state = "CONNECTING"
    BY <1>1, <1>3, <1>6 DEF Served, Placed, Live, Shut, Endpoint, States
  <2>3. /\ r \in Endpoint /\ r.queue = t.queue /\ r.state = t.state
        /\ r.thrown = t.thrown /\ r.early = t.early
    BY <1>3, <2>1 DEF Endpoint
  <2>4. r.fd = t.fd /\ r.cn = t.cn /\ r.net = t.net /\ r.nb = t.nb /\ r.rd = t.rd
    BY <1>3, <2>1 DEF Endpoint
  <2> QED BY <1>3, <2>2, <2>3, <2>4 DEF Ordered, Placed, Shut, Opening, Calm, r
<1> QED BY <1>3, <1>4, <1>5, <1>6 DEF Endpoint

LEMMA WriteOrdered ==
  ASSUME NEW s, Ordered(s), s.blocked = "no", NEW ok \in BOOLEAN, NEW n \in 0..s.out,
         NEW err \in BOOLEAN, NEW reconnect \in Replies
  PROVE  Ordered(write_handler(s, ok, n, err, reconnect))
<1> DEFINE r == write_handler(s, ok, n, err, reconnect)
<1>1. s \in Endpoint /\ Usable(s) /\ Placed(s) /\ Calm(s)
  BY DEF Ordered, Placed, Usable
<1>2. CASE ~ok \/ ~s.fd \/ err
  <2>1. r = close(s, reconnect)
    BY <1>2 DEF write_handler
  <2> HIDE DEF r
  <2>2. Restarted(r) /\ From(r, s)
    BY <1>1, <2>1, CloseShut
  <2>3. Calm(r)
    BY <1>1, <2>2, FromCalm
  <2> QED BY <2>2, <2>3, RestartedOrdered DEF r
<1>3. CASE ok /\ s.fd /\ ~err /\ s.out > 0 /\ s.net = "syn" /\ ~s.nb
  <2>1. r = [s EXCEPT !.blocked = "send"]
    BY <1>3 DEF write_handler
  <2>2. s.state = "CONNECTING"
    BY <1>1, <1>3 DEF Ordered, Placed, Live, Endpoint, States
  <2> HIDE DEF r
  <2>3. /\ r \in Endpoint /\ r.queue = s.queue /\ r.state = s.state
        /\ r.thrown = s.thrown /\ r.early = s.early
    BY <1>1, <2>1 DEF Endpoint
  <2>4. r.fd = s.fd /\ r.cn = s.cn /\ r.net = s.net /\ r.nb = s.nb /\ r.rd = s.rd
    BY <1>1, <2>1 DEF Endpoint
  <2> QED BY <1>1, <1>3, <2>2, <2>3, <2>4 DEF Ordered, Placed, Shut, Opening, Calm, r
<1>4. CASE ok /\ s.fd /\ ~err /\ ~(s.out > 0 /\ s.net = "syn" /\ ~s.nb)
  <2> DEFINE k == s.out - n
  <2>1. r = do_write([s EXCEPT !.out = k, !.sending = FALSE])
    BY <1>4 DEF write_handler
  <2>2. k \in 0..MaxOut
    BY <1>1, TcpConstants DEF Endpoint
  <2> HIDE DEF k, r
  <2>3. r \in Endpoint /\ Like(r, s)
    BY <1>1, <2>1, <2>2, BufferLike
  <2> QED BY <2>3, LikeLemma DEF r
<1> QED BY <1>1, <1>2, <1>3, <1>4 DEF Endpoint

\* Taking the first entry from the queue.
LEMMA PopOrdered ==
  ASSUME Ordered(ep), Running, ep.queue # <<>>
  PROVE  LET s == Popped
             h == Head(ep.queue)
         IN  /\ h \in Item /\ Placed(s) /\ s.blocked = "no" /\ s.queue = Tail(ep.queue)
             /\ s.state = ep.state /\ s.rd = ep.rd /\ s.wr = ep.wr /\ s.cn = ep.cn
             /\ s.fd = ep.fd /\ s.net = ep.net
             /\ h.op # "read" => Ordered(s)
             /\ h.op = "read" => Served(s)
             /\ h.op = "connect" => ~h.ok
             /\ h.op = "tick" => \A i \in DOMAIN s.queue : s.queue[i].op # "tick"
             /\ h.op \in Events =>
                  /\ ep.fd /\ ep.state # "DISCONNECTED"
                  /\ ep.state = "CONNECTING" => Finished(s.queue) = {}
<1> DEFINE q == ep.queue
           h == Head(q)
           t == Tail(q)
           s == Popped
<1>1. ep \in Endpoint /\ q \in Seq(Item) /\ Placed(ep) /\ ep.blocked = "no"
  BY DEF Ordered, Placed, Endpoint, Running
<1>2. h \in Item /\ t \in Seq(Item) /\ Len(t) = Len(q) - 1
      /\ \A i \in 1..Len(t) : t[i] = q[i + 1]
  BY <1>1, HeadTailProperties
<1>3. Len(q) \in Nat /\ DOMAIN q = 1..Len(q) /\ DOMAIN t = 1..Len(t) /\ q # <<>>
  BY <1>1, <1>2, Positions
<1>4. Len(q) # 0 /\ h = q[1]
  BY <1>1, <1>3, EmptySeq
<1>5. s = [ep EXCEPT !.queue = t]
  BY DEF Popped
<1> HIDE DEF q, h, t, s
<1>6. /\ 1 \in DOMAIN q
      /\ \A i \in DOMAIN t : i \in Nat \ {0} /\ i + 1 \in DOMAIN q /\ t[i] = q[i + 1]
  BY <1>2, <1>3, <1>4
<1>7. \A j \in DOMAIN q : j # 1 => j - 1 \in DOMAIN t /\ t[j - 1] = q[j]
  BY <1>2, <1>3
<1>8. /\ s \in Endpoint /\ s.queue = t /\ s.state = ep.state /\ s.blocked = ep.blocked
      /\ s.thrown = ep.thrown /\ s.early = ep.early
  BY <1>1, <1>2, <1>5 DEF Endpoint
<1>9. /\ s.fd = ep.fd /\ s.rd = ep.rd /\ s.wr = ep.wr /\ s.cn = ep.cn
      /\ s.net = ep.net /\ s.nb = ep.nb
  BY <1>1, <1>5 DEF Endpoint
<1>10. /\ \A i \in Finished(t) : i \in Nat \ {0} /\ i + 1 \in Finished(q)
       /\ \A i \in Reported(t) : i \in Nat \ {0} /\ i + 1 \in Reported(q)
       /\ \A i \in Aborted(t) : i \in Nat \ {0} /\ i + 1 \in Aborted(q)
       /\ \A i \in ReadsAt(t) : i \in Nat \ {0} /\ i + 1 \in ReadsAt(q)
  BY <1>6 DEF Finished, Reported, Aborted, ReadsAt
<1>11. /\ Calm(s) /\ (h.op = "connect" => ~h.ok)
       /\ h.op = "tick" => \A i \in DOMAIN t : t[i].op # "tick"
  <2>1. Answered(q) /\ ~s.early
    BY <1>1, <1>8 DEF Placed, Calm, q
  <2>2. \A i \in DOMAIN t : t[i].op = "connect" => ~t[i].ok
    BY <1>6, <2>1 DEF Answered
  <2>3. ASSUME NEW i \in DOMAIN t, NEW j \in DOMAIN t,
               t[i].op = "tick", t[j].op = "tick"
        PROVE  i = j
    <3>1. i + 1 = j + 1 /\ i \in Nat /\ j \in Nat
      BY <1>6, <2>1, <2>3 DEF Answered
    <3> QED BY <3>1
  <2>4. ASSUME h.op = "tick", NEW i \in DOMAIN t, t[i].op = "tick" PROVE FALSE
    <3>1. i + 1 = 1 /\ i \in Nat \ {0}
      BY <1>4, <1>6, <2>1, <2>4 DEF Answered
    <3> QED BY <3>1
  <2>5. h.op = "connect" => ~h.ok
    BY <1>4, <1>6, <2>1 DEF Answered
  <2> QED BY <1>8, <2>1, <2>2, <2>3, <2>4, <2>5 DEF Answered, Calm
<1>12. Shut(s)
  BY <1>1, <1>8, <1>9, <1>10 DEF Placed, Shut, q
<1>13. ep.state = "CONNECTING" /\ ep.fd => Opening(s)
  <2> SUFFICES ASSUME ep.state = "CONNECTING" /\ ep.fd PROVE Opening(s)
    OBVIOUS
  <2>1. Opening(ep)
    BY <1>1 DEF Placed
  <2>2. \A i \in Finished(t), j \in Reported(t) : i < j
    <3>1. \A i \in Finished(q), j \in Reported(q) : i < j
      BY <2>1 DEF Opening, q
    <3>2. ASSUME NEW i \in Finished(t), NEW j \in Reported(t) PROVE i < j
      <4>1. i + 1 < j + 1 /\ i \in Nat /\ j \in Nat
        BY <1>10, <3>1
      <4> QED BY <4>1
    <3> QED BY <3>2
  <2> QED BY <1>8, <1>9, <2>1, <2>2 DEF Opening
<1>14. Placed(s)
  BY <1>1, <1>8, <1>9, <1>11, <1>12, <1>13 DEF Placed
<1>15. Live(ep) => Live(s)
  BY <1>8, <1>9, <1>10 DEF Live, q
<1>16. ASSUME Single(ep), h.op # "read" PROVE Single(s)
  <2>1. \A i, j \in ReadsAt(t) : i = j
    BY <1>10, <1>16 DEF Single, q
  <2>2. ReadsAt(q) # {} => ReadsAt(t) # {}
    <3> SUFFICES ASSUME NEW j \in ReadsAt(q) PROVE ReadsAt(t) # {}
      OBVIOUS
    <3>1. j # 1 /\ j \in DOMAIN q
      BY <1>4, <1>16 DEF ReadsAt
    <3>2. j - 1 \in ReadsAt(t)
      BY <1>7, <3>1 DEF ReadsAt
    <3> QED BY <3>2
  <2>3. ReadsAt(q) = {} => ReadsAt(t) = {}
    BY <1>10
  <2> QED BY <1>8, <1>9, <1>16, <2>1, <2>2, <2>3 DEF Single, q
<1>17. ASSUME Single(ep), h.op = "read" PROVE s.rd = 0 /\ ReadsAt(t) = {}
  <2>1. 1 \in ReadsAt(q)
    BY <1>4, <1>6, <1>17 DEF ReadsAt
  <2>2. \A i \in ReadsAt(t) : i \in Nat \ {0} /\ i + 1 = 1
    BY <1>10, <1>17, <2>1 DEF Single, q
  <2> QED BY <1>9, <1>17, <2>1, <2>2 DEF Single, q
<1>18. h.op # "read" => Ordered(s)
  BY <1>8, <1>14, <1>15, <1>16 DEF Ordered
<1>19. h.op = "read" => Served(s)
  BY <1>1, <1>8, <1>14, <1>15, <1>17 DEF Ordered, Served
<1>20. ASSUME h.op \in Events
       PROVE  /\ ep.fd /\ ep.state # "DISCONNECTED"
              /\ ep.state = "CONNECTING" => Finished(t) = {}
  <2>1. 1 \in Reported(q)
    BY <1>4, <1>6, <1>20 DEF Reported
  <2>2. ep.fd /\ ep.state # "DISCONNECTED"
    BY <1>1, <2>1 DEF Placed, Shut, q
  <2>3. ASSUME ep.state = "CONNECTING", NEW i \in Finished(t) PROVE FALSE
    <3>1. i + 1 < 1 /\ i \in Nat
      BY <1>1, <1>10, <2>1, <2>2, <2>3 DEF Placed, Opening, q
    <3> QED BY <3>1
  <2> QED BY <2>2, <2>3
<1> QED BY <1>1, <1>2, <1>8, <1>9, <1>11, <1>14, <1>18, <1>19, <1>20 DEF s, h, t, q

\* Running the handler of a completed operation.
LEMMA CompleteOrdered ==
  ASSUME NEW s, NEW item \in Item, Complete(s, item), s.blocked = "no",
         item.op = "read" => Served(s),
         item.op = "write" => Ordered(s),
         item.op = "connect" =>
           /\ Usable(s) /\ Calm(s) /\ (s.state = "DISCONNECTED" => ~s.fd)
           /\ item.ok => \A call : Ordered(connected(s, call))
  PROVE  Ordered(ep')
<1>1. PICK reconnect \in Reconnects :
        \/ /\ item.op = "connect"
           /\ \E call \in ConnCalls :
                ep' = connect_handler(s, item.ok, call, reconnect)
        \/ /\ item.op = "read"
           /\ \E data \in BOOLEAN, call \in RecvCalls :
                ep' = read_handler(s, item.ok, data, call, reconnect)
        \/ /\ item.op = "write"
           /\ \E n \in Sendable(s), err \in SendErrs(s) :
                ep' = write_handler(s, item.ok, n, err, reconnect)
  BY DEF Complete
<1>2. reconnect \in Replies /\ item.ok \in BOOLEAN
  BY TcpConstants DEF Item
<1>3. CASE item.op = "connect"
  <2>1. PICK call \in ConnCalls : ep' = connect_handler(s, item.ok, call, reconnect)
    BY <1>1, <1>3
  <2>2. CASE item.ok
    BY <1>3, <2>1, <2>2 DEF connect_handler
  <2>3. CASE ~item.ok
    <3> DEFINE r == disconnect(s, reconnect)
    <3>1. Restarted(r) /\ From(r, s)
      BY <1>2, <1>3, DisconnectShut
    <3>2. ep' = r
      BY <2>1, <2>3 DEF connect_handler
    <3> HIDE DEF r
    <3>3. Calm(r)
      BY <1>3, <3>1, FromCalm
    <3> QED BY <3>1, <3>2, <3>3, RestartedOrdered
  <2> QED BY <1>2, <2>2, <2>3
<1>4. CASE item.op = "read"
  <2>1. PICK data \in BOOLEAN, call \in RecvCalls :
          ep' = read_handler(s, item.ok, data, call, reconnect)
    BY <1>1, <1>4
  <2> QED BY <1>2, <1>4, <2>1, ReadOrdered
<1>5. CASE item.op = "write"
  <2>1. PICK n \in Sendable(s), err \in SendErrs(s) :
          ep' = write_handler(s, item.ok, n, err, reconnect)
    BY <1>1, <1>5
  <2>2. s.out \in Nat
    BY <1>5, TcpConstants DEF Ordered, Placed, Endpoint
  <2>3. n \in 0..s.out
    BY <2>1, <2>2 DEF Sendable
  <2>4. err \in BOOLEAN
    BY <2>1 DEF SendErrs
  <2> QED BY <1>2, <1>5, <2>1, <2>3, <2>4, WriteOrdered
<1> QED BY <1>1, <1>3, <1>4, <1>5

\* The operations perform_io completes, one by one.
LEMMA DoneAt ==
  ASSUME ep \in Endpoint, NEW ev \in Events, NEW cok \in BOOLEAN
  PROVE  LET D == Done(ev, cok)
             c == IF ev = "in" THEN 0 ELSE ep.cn
             w == IF ev = "in" THEN 0 ELSE ep.wr
             r == IF ev = "out" THEN 0 ELSE ep.rd
         IN  /\ D \in Seq(Item) /\ c \in Nat /\ w \in Nat /\ r \in Nat
             /\ Len(D) = c + w + r
             /\ \A i \in 1..Len(D) :
                  D[i] = IF i <= c THEN Entry("connect", cok)
                         ELSE IF i <= c + w THEN Entry("write", TRUE)
                         ELSE Entry("read", TRUE)
<1> DEFINE c == IF ev = "in" THEN 0 ELSE ep.cn
           w == IF ev = "in" THEN 0 ELSE ep.wr
           r == IF ev = "out" THEN 0 ELSE ep.rd
           C == Repeat(c, Entry("connect", cok))
           W == Repeat(w, Entry("write", TRUE))
           R == Repeat(r, Entry("read", TRUE))
           A == C \o W
           D == A \o R
<1>1. c \in Nat /\ w \in Nat /\ r \in Nat
  BY DEF Endpoint
<1> HIDE DEF c, w, r
<1>2. /\ Entry("connect", cok) \in Item /\ Entry("write", TRUE) \in Item
      /\ Entry("read", TRUE) \in Item
  BY DEF Entry, Item, Ops
<1>3. /\ C \in Seq(Item) /\ Len(C) = c /\ W \in Seq(Item) /\ Len(W) = w
      /\ R \in Seq(Item) /\ Len(R) = r
  BY <1>1, <1>2, HasRepeat
<1>4. /\ \A i \in 1..c : C[i] = Entry("connect", cok)
      /\ \A i \in 1..w : W[i] = Entry("write", TRUE)
      /\ \A i \in 1..r : R[i] = Entry("read", TRUE)
  BY DEF Repeat
<1>5. Done(ev, cok) = D
  <2>1. \A e : Repeat(0, e) = <<>>
    BY DEF Repeat
  <2>2. <<>> \o <<>> = <<>>
    OBVIOUS
  <2>3. CASE ev = "in"
    BY <2>1, <2>2, <2>3 DEF Done, c, w, r
  <2>4. CASE ev = "out"
    BY <2>1, <2>4 DEF Done, c, w, r
  <2>5. CASE ev = "inout"
    BY <2>5 DEF Done, c, w, r
  <2> QED BY <2>3, <2>4, <2>5 DEF Events
<1> HIDE DEF C, W, R
<1>6. /\ A \in Seq(Item) /\ Len(A) = c + w
      /\ \A i \in 1..c + w : A[i] = IF i <= c THEN C[i] ELSE W[i - c]
  BY <1>3, ConcatProperties
<1> HIDE DEF A
<1>7. /\ D \in Seq(Item) /\ Len(D) = c + w + r
      /\ \A i \in 1..c + w + r : D[i] = IF i <= c + w THEN A[i] ELSE R[i - (c + w)]
  BY <1>3, <1>6, ConcatProperties
<1> HIDE DEF D
<1>8. ASSUME NEW i \in 1..c + w + r
      PROVE  D[i] = IF i <= c THEN Entry("connect", cok)
                    ELSE IF i <= c + w THEN Entry("write", TRUE)
                    ELSE Entry("read", TRUE)
  <2>1. CASE i <= c
    <3>1. i \in 1..c /\ i \in 1..c + w /\ i <= c + w
      BY <1>1, <2>1
    <3> QED BY <1>4, <1>6, <1>7, <2>1, <3>1
  <2>2. CASE ~(i <= c) /\ i <= c + w
    <3>1. i - c \in 1..w /\ i \in 1..c + w
      BY <1>1, <2>2
    <3> QED BY <1>4, <1>6, <1>7, <2>2, <3>1
  <2>3. CASE ~(i <= c) /\ ~(i <= c + w)
    <3>1. i - (c + w) \in 1..r
      BY <1>1, <2>3
    <3> QED BY <1>4, <1>7, <2>3, <3>1
  <2>4. c + w \in Nat
    BY <1>1
  <2> QED BY <1>1, <2>1, <2>2, <2>3
<1> QED BY <1>1, <1>5, <1>7, <1>8 DEF c, w, r

\* Posting all but the first of D behind q.
LEMMA RestPosted ==
  ASSUME NEW q \in Seq(Item), NEW D \in Seq(Item), D # <<>>
  PROVE  LET y == q \o Tail(D)
         IN  /\ y \in Seq(Item) /\ Head(D) = D[1] /\ 1 \in 1..Len(D) /\ Len(q) \in Nat
             /\ \A i \in DOMAIN q : i \in DOMAIN y /\ y[i] = q[i]
             /\ \A i \in DOMAIN y \ DOMAIN q :
                  /\ i \in Nat /\ (i - Len(q)) + 1 \in 2..Len(D)
                  /\ y[i] = D[(i - Len(q)) + 1]
             /\ \A k \in 2..Len(D) : Len(q) + (k - 1) \in DOMAIN y \ DOMAIN q
<1> DEFINE t == Tail(D)
           y == q \o t
           m == Len(q)
           n == Len(D)
<1>1. t \in Seq(Item) /\ Len(t) = n - 1 /\ \A i \in 1..Len(t) : t[i] = D[i + 1]
  BY HeadTailProperties
<1>2. m \in Nat /\ n \in Nat /\ n # 0 /\ DOMAIN q = 1..m /\ Head(D) = D[1]
  BY Positions, EmptySeq
<1> HIDE DEF t
<1>3. /\ y \in Seq(Item) /\ Len(y) = m + Len(t)
      /\ \A i \in 1..m + Len(t) : y[i] = IF i <= m THEN q[i] ELSE t[i - m]
  BY <1>1, ConcatProperties
<1>4. DOMAIN y = 1..Len(y)
  BY <1>3, Positions
<1> HIDE DEF y, m, n
<1>5. DOMAIN y = 1..m + (n - 1) /\ \A i \in 1..m + (n - 1) : y[i] = IF i <= m THEN q[i] ELSE t[i - m]
  BY <1>1, <1>2, <1>3, <1>4
<1>6. ASSUME NEW i \in DOMAIN q PROVE i \in DOMAIN y /\ y[i] = q[i]
  BY <1>2, <1>5
<1>7. ASSUME NEW i \in DOMAIN y \ DOMAIN q
      PROVE  i \in Nat /\ (i - m) + 1 \in 2..n /\ y[i] = D[(i - m) + 1]
  <2>1. i \in 1..m + (n - 1) /\ ~(i <= m) /\ i - m \in 1..n - 1
    BY <1>2, <1>5
  <2>2. y[i] = t[i - m] /\ t[i - m] = D[(i - m) + 1]
    BY <1>1, <1>5, <2>1
  <2> QED BY <1>2, <2>1, <2>2
<1>8. ASSUME NEW k \in 2..n PROVE m + (k - 1) \in DOMAIN y \ DOMAIN q
  BY <1>2, <1>5
<1> QED BY <1>2, <1>3, <1>6, <1>7, <1>8 DEF y, t, m, n

LEMMA PerformOrdered ==
  ASSUME Ordered(ep), Attempt(ep), PerformIO PROVE Ordered(ep')
<1> DEFINE ev == Head(ep.queue).op
           p == Popped
           q == Tail(ep.queue)
           s == [p EXCEPT !.cn = IF ev = "in" THEN @ ELSE 0,
                          !.wr = IF ev = "in" THEN @ ELSE 0,
                          !.rd = IF ev = "out" THEN @ ELSE 0]
<1>1. Running /\ ep.queue # <<>> /\ ev \in Events /\ ep.blocked = "no"
  BY DEF PerformIO, NextIs, Running
<1>2. PICK cok \in ConnectResults :
        IF Done(ev, cok) = <<>> THEN ep' = s
        ELSE Complete([s EXCEPT !.queue = @ \o Tail(Done(ev, cok))],
                      Head(Done(ev, cok)))
  BY DEF PerformIO
<1>3. cok \in BOOLEAN /\ (cok => ep.net \in {"up", "gone"})
  BY DEF ConnectResults
<1>4. /\ Placed(p) /\ Ordered(p) /\ p.blocked = "no" /\ p.queue = q
      /\ p.state = ep.state /\ p.rd = ep.rd /\ p.wr = ep.wr /\ p.cn = ep.cn
      /\ p.fd = ep.fd /\ p.net = ep.net /\ Calm(p)
      /\ ep.fd /\ ep.state # "DISCONNECTED"
      /\ ep.state = "CONNECTING" => Finished(q) = {}
  <2>1. ev # "read"
    BY <1>1 DEF Events
  <2> QED BY <1>1, <2>1, PopOrdered DEF Placed
<1>5. ep \in Endpoint /\ p \in Endpoint /\ q \in Seq(Item)
  BY <1>4 DEF Ordered, Placed, Endpoint
<1> DEFINE D == Done(ev, cok)
           c == IF ev = "in" THEN 0 ELSE ep.cn
           w == IF ev = "in" THEN 0 ELSE ep.wr
           r == IF ev = "out" THEN 0 ELSE ep.rd
<1>6. /\ D \in Seq(Item) /\ c \in Nat /\ w \in Nat /\ r \in Nat
      /\ Len(D) = c + w + r
      /\ \A i \in 1..Len(D) :
           D[i] = IF i <= c THEN Entry("connect", cok)
                  ELSE IF i <= c + w THEN Entry("write", TRUE)
                  ELSE Entry("read", TRUE)
  BY <1>1, <1>3, <1>5, DoneAt
<1>7. s \in Endpoint /\ s.cn = ep.cn - c /\ s.rd = ep.rd - r
  <2> DEFINE x == IF ev = "in" THEN p.cn ELSE 0
             y == IF ev = "in" THEN p.wr ELSE 0
             z == IF ev = "out" THEN p.rd ELSE 0
  <2>1. x \in Nat /\ y \in Nat /\ z \in Nat
    BY <1>5 DEF Endpoint
  <2>2. s = [p EXCEPT !.cn = x, !.wr = y, !.rd = z]
    OBVIOUS
  <2>3. ep.cn \in Nat /\ ep.rd \in Nat
    BY <1>5 DEF Endpoint
  <2>4. x = ep.cn - c /\ z = ep.rd - r
    BY <1>4, <2>3
  <2> HIDE DEF x, y, z, s, p
  <2>5. s \in Endpoint /\ s.cn = x /\ s.rd = z
    BY <1>5, <2>1, <2>2 DEF Endpoint
  <2> QED BY <2>4, <2>5
<1>8. /\ s.state = ep.state /\ s.blocked = "no" /\ ~s.thrown /\ s.queue = q /\ s.fd
      /\ s.net = ep.net /\ s.nb = p.nb /\ ~s.early
  <2>1. /\ s.state = p.state /\ s.blocked = p.blocked /\ s.thrown = p.thrown
        /\ s.queue = p.queue /\ s.fd = p.fd /\ s.net = p.net /\ s.nb = p.nb
        /\ s.early = p.early
    BY <1>5 DEF Endpoint
  <2> HIDE DEF s, p
  <2> QED BY <1>4, <2>1 DEF Placed, Calm
<1>9. Answered(q)
  BY <1>4 DEF Calm
<1> DEFINE y == q \o Tail(D)
           t == [s EXCEPT !.queue = y]
           e == Head(D)
<1>10. IF D = <<>> THEN ep' = s ELSE Complete(t, e)
  BY <1>2, <1>8
<1> HIDE DEF s, p, q, D, c, w, r
<1>11. ASSUME D # <<>>
       PROVE  /\ y \in Seq(Item) /\ e = D[1] /\ e \in Item /\ 1 \in 1..Len(D) /\ Len(q) \in Nat
              /\ \A i \in DOMAIN q : i \in DOMAIN y /\ y[i] = q[i]
              /\ \A i \in DOMAIN y \ DOMAIN q :
                  /\ i \in Nat /\ (i - Len(q)) + 1 \in 2..Len(D)
                  /\ y[i] = D[(i - Len(q)) + 1]
              /\ \A k \in 2..Len(D) : Len(q) + (k - 1) \in DOMAIN y \ DOMAIN q
  BY <1>5, <1>6, <1>11, RestPosted, HeadTailProperties
<1> HIDE DEF y, e
<1>12. ASSUME D # <<>>
       PROVE  /\ t \in Endpoint /\ t.queue = y /\ t.cn = s.cn /\ t.rd = s.rd
              /\ t.state = ep.state /\ t.blocked = "no" /\ ~t.thrown /\ t.fd
              /\ t.net = ep.net /\ t.nb = p.nb /\ ~t.early
  <2>1. t \in Endpoint /\ t.queue = y /\ t.cn = s.cn /\ t.rd = s.rd
    BY <1>7, <1>11, <1>12 DEF Endpoint
  <2>2. /\ t.state = s.state /\ t.blocked = s.blocked /\ t.thrown = s.thrown
        /\ t.fd = s.fd /\ t.net = s.net /\ t.nb = s.nb /\ t.early = s.early
    BY <1>7 DEF Endpoint
  <2> HIDE DEF t
  <2> QED BY <1>8, <2>1, <2>2
<1> HIDE DEF t
<1>13. /\ Entry("connect", cok).op = "connect" /\ Entry("connect", cok).ok = cok
       /\ Entry("write", TRUE).op = "write" /\ Entry("write", TRUE).ok
       /\ Entry("read", TRUE).op = "read" /\ Entry("read", TRUE).ok
  BY DEF Entry
<1>14. CASE ep.state = "CONNECTED"
  <2>1. Live(ep) /\ Single(ep) /\ Live(p) /\ Single(p)
    BY <1>4, <1>14 DEF Ordered
  <2>2. c = 0 /\ s.cn = 0 /\ ep.rd \in {0, 1} /\ Len(D) = w + r
    BY <1>6, <1>7, <2>1 DEF Live, Single, c
  <2>3. CASE D = <<>>
    <3>1. r = 0
      BY <1>6, <2>2, <2>3, EmptySeq
    <3>2. s.rd = p.rd
      BY <1>4, <1>7, <2>2, <3>1
    <3>3. Live(s) /\ Single(s)
      BY <1>4, <1>8, <2>1, <2>2, <3>2 DEF Live, Single
    <3>4. Placed(s)
      BY <1>7, <1>8, <1>9, <1>14 DEF Placed, Shut, Calm
    <3> QED BY <1>10, <2>3, <3>3, <3>4 DEF Ordered
  <2>4. CASE D # <<>>
    <3>1. ASSUME NEW k \in 1..Len(D)
          PROVE  /\ k <= w => D[k] = Entry("write", TRUE)
                 /\ ~(k <= w) => D[k] = Entry("read", TRUE)
      <4>1. k \in Nat /\ ~(k <= c) /\ (k <= c + w <=> k <= w)
        BY <1>6, <2>2
      <4>2. D[k] = IF k <= c THEN Entry("connect", cok)
                   ELSE IF k <= c + w THEN Entry("write", TRUE)
                   ELSE Entry("read", TRUE)
        BY <1>6
      <4> QED BY <4>1, <4>2
    <3>2. ASSUME NEW i \in DOMAIN y \ DOMAIN q
          PROVE  y[i].op \in {"write", "read"} /\ y[i].ok
      <4> DEFINE k == (i - Len(q)) + 1
      <4>1. k \in 2..Len(D) /\ y[i] = D[k]
        BY <1>11, <2>4
      <4>2. k \in 1..Len(D)
        BY <4>1
      <4> HIDE DEF k
      <4>3. y[i] = Entry("write", TRUE) \/ y[i] = Entry("read", TRUE)
        BY <3>1, <4>1, <4>2
      <4> QED BY <1>13, <4>3
    <3>3. Aborted(y) = {} /\ Answered(y)
      <4>1. Aborted(q) = {}
        BY <1>4, <2>1 DEF Live
      <4>2. Aborted(y) = {}
        BY <1>11, <2>4, <3>2, <4>1 DEF Aborted, Failed
      <4>3. \A i \in DOMAIN y : y[i].op = "connect" \/ y[i].op = "tick" =>
              i \in DOMAIN q /\ q[i] = y[i]
        BY <1>11, <2>4, <3>2
      <4> QED BY <1>9, <4>2, <4>3 DEF Answered
    <3>4. Live(t)
      BY <1>4, <1>12, <2>1, <2>2, <2>4, <3>3 DEF Live
    <3>5. Placed(t)
      BY <1>12, <1>14, <2>4, <3>3 DEF Placed, Shut, Calm
    <3>6. CASE w = 0
      <4>1. r = 1 /\ Len(D) = 1 /\ ep.rd = 1 /\ e = Entry("read", TRUE)
        <5>1. r # 0
          BY <1>6, <2>2, <2>4, <3>6, EmptySeq
        <5>2. r = 1 /\ ep.rd = 1
          BY <2>2, <5>1 DEF r
        <5>3. Len(D) = 1
          BY <2>2, <3>6, <5>2
        <5>4. 1 \in 1..Len(D) /\ ~(1 <= w)
          BY <3>6, <5>3
        <5>5. D[1] = Entry("read", TRUE)
          BY <3>1, <5>4
        <5> QED BY <1>11, <2>4, <5>2, <5>3, <5>5
      <4>2. t.rd = 0
        BY <1>7, <1>12, <2>4, <4>1
      <4>3. ReadsAt(q) = {}
        BY <1>4, <2>1, <4>1 DEF Single
      <4>4. DOMAIN y \subseteq DOMAIN q
        BY <1>11, <2>4, <4>1
      <4>5. ReadsAt(y) = {}
        BY <1>11, <2>4, <4>3, <4>4 DEF ReadsAt
      <4>6. Served(t)
        BY <1>12, <2>4, <3>4, <3>5, <4>2, <4>5 DEF Served
      <4> QED BY <1>10, <1>11, <1>12, <1>13, <2>4, <4>1, <4>6, CompleteOrdered
    <3>7. CASE w > 0
      <4>1. e = Entry("write", TRUE)
        <5>1. 1 \in 1..Len(D) /\ 1 <= w
          BY <1>6, <2>2, <3>7
        <5>2. D[1] = Entry("write", TRUE)
          BY <3>1, <5>1
        <5> QED BY <1>11, <2>4, <5>2
      <4>2. CASE r = 0
        <5>1. t.rd = p.rd
          BY <1>4, <1>7, <1>12, <2>2, <2>4, <4>2
        <5>2. ASSUME NEW i \in DOMAIN y \ DOMAIN q PROVE y[i].op = "write"
          <6> DEFINE k == (i - Len(q)) + 1
          <6>1. k \in 2..Len(D) /\ y[i] = D[k]
            BY <1>11, <2>4
          <6> HIDE DEF k
          <6>2. k \in 1..Len(D) /\ k <= w
            BY <1>6, <2>2, <4>2, <6>1
          <6>3. D[k] = Entry("write", TRUE)
            BY <3>1, <6>2
          <6> QED BY <1>13, <6>1, <6>3
        <5>3. ReadsAt(y) = ReadsAt(q)
          BY <1>11, <2>4, <5>2 DEF ReadsAt
        <5>4. Single(t)
          BY <1>4, <1>12, <2>1, <2>4, <5>1, <5>3 DEF Single
        <5>5. Ordered(t)
          BY <3>4, <3>5, <5>4 DEF Ordered
        <5> QED BY <1>10, <1>11, <1>12, <1>13, <2>4, <4>1, <5>5, CompleteOrdered
      <4>3. CASE r # 0
        <5>1. r = 1 /\ ep.rd = 1 /\ t.rd = 0
          BY <1>6, <1>7, <1>12, <2>2, <2>4, <4>3 DEF r
        <5>2. ReadsAt(q) = {}
          BY <1>4, <2>1, <5>1 DEF Single
        <5> DEFINE k == Len(q) + ((w + 1) - 1)
        <5>3. w + 1 \in 2..Len(D) /\ D[w + 1] = Entry("read", TRUE)
          <6>1. w + 1 \in 2..Len(D) /\ w + 1 \in 1..Len(D) /\ ~(w + 1 <= w)
            BY <1>6, <2>2, <3>7, <5>1
          <6> QED BY <3>1, <6>1
        <5>4. k \in DOMAIN y \ DOMAIN q /\ (k - Len(q)) + 1 = w + 1
          <6>1. k \in DOMAIN y \ DOMAIN q
            BY <1>11, <2>4, <5>3
          <6>2. Len(q) \in Nat /\ w \in Nat
            BY <1>6, <1>11, <2>4
          <6>3. (k - Len(q)) + 1 = w + 1
            BY <6>2
          <6> QED BY <6>1, <6>3
        <5>5. y[k].op = "read"
          BY <1>11, <1>13, <2>4, <5>3, <5>4
        <5>6. ASSUME NEW i \in DOMAIN y \ DOMAIN q, y[i].op = "read" PROVE i = k
          <6> DEFINE j == (i - Len(q)) + 1
          <6>1. i \in Nat /\ j \in 2..Len(D) /\ y[i] = D[j] /\ Len(q) \in Nat
            BY <1>11, <2>4
          <6>2. ~(j <= w)
            <7> HIDE DEF j
            <7>1. j \in 1..Len(D)
              BY <6>1
            <7>2. j <= w => y[i] = Entry("write", TRUE)
              BY <3>1, <6>1, <7>1
            <7> QED BY <1>13, <5>6, <7>2
          <6>3. j = w + 1
            <7> HIDE DEF j
            <7>1. j \in 2..w + 1 /\ w \in Nat
              BY <1>6, <2>2, <5>1, <6>1
            <7> QED BY <6>2, <7>1
          <6> QED BY <1>6, <6>1, <6>3
        <5>7. ReadsAt(y) = {k}
          <6> HIDE DEF k
          <6>1. \A i \in ReadsAt(y) : i \in DOMAIN y \ DOMAIN q /\ y[i].op = "read"
            BY <1>11, <2>4, <5>2 DEF ReadsAt
          <6>2. k \in ReadsAt(y)
            BY <5>4, <5>5 DEF ReadsAt
          <6> QED BY <5>6, <6>1, <6>2
        <5> HIDE DEF k
        <5>8. Single(t)
          <6>1. t.queue = y /\ k \in ReadsAt(y)
            BY <1>12, <2>4, <5>7
          <6>2. ReadsAt(t.queue) # {} /\ \A i, j \in ReadsAt(t.queue) : i = j
            BY <5>7, <6>1
          <6> QED BY <5>1, <6>2 DEF Single
        <5>9. Ordered(t)
          BY <3>4, <3>5, <5>8 DEF Ordered
        <5> QED BY <1>10, <1>11, <1>12, <1>13, <2>4, <4>1, <5>9, CompleteOrdered
      <4> QED BY <4>2, <4>3
    <3> QED BY <1>6, <3>6, <3>7
  <2> QED BY <2>3, <2>4
<1>15. CASE ep.state = "CONNECTING"
  <2>1. Opening(ep) /\ Opening(p) /\ Finished(q) = {}
    BY <1>4, <1>15 DEF Ordered, Placed
  <2>2. r = 0 /\ ep.cn = 1 /\ s.rd = 0
    <3>1. r = 0 /\ ep.cn \in {0, 1} /\ s.rd = 0
      BY <1>7, <2>1 DEF Opening, r
    <3>2. ~Has(ep.queue, {"connect"})
      <4>1. ev # "connect"
        BY <1>1 DEF Events
      <4>2. ~Has(q, {"connect"})
        BY <2>1 DEF Has, Finished, Ops
      <4>3. ep.queue \in Seq(Item)
        BY <1>5 DEF Endpoint
      <4> QED BY <1>1, <4>1, <4>2, <4>3, HasPop DEF q
    <3> QED BY <1>15, <3>1, <3>2 DEF Attempt
  <2>3. CASE ev = "in"
    <3>1. c = 0 /\ w = 0 /\ s.cn = 1
      BY <1>7, <2>2, <2>3 DEF c, w
    <3>2. D = <<>>
      BY <1>6, <2>2, <3>1, EmptySeq
    <3>3. Opening(s)
      BY <1>4, <1>8, <2>1, <2>2, <3>1 DEF Opening
    <3>4. Placed(s)
      BY <1>7, <1>8, <1>9, <1>15, <3>3 DEF Placed, Shut, Calm
    <3> QED BY <1>8, <1>10, <1>15, <3>2, <3>4 DEF Ordered
  <2>4. CASE ev # "in"
    <3>1. c = 1 /\ s.cn = 0 /\ Len(D) = 1 + w
      BY <1>6, <1>7, <2>2, <2>4 DEF c
    <3>2. D # <<>>
      BY <1>6, <3>1, EmptySeq
    <3>3. e = Entry("connect", cok)
      <4>1. 1 \in 1..Len(D) /\ 1 <= c
        BY <1>6, <3>1
      <4>2. D[1] = Entry("connect", cok)
        BY <1>6, <4>1
      <4> QED BY <1>11, <3>2, <4>2
    <3>4. \A i \in DOMAIN y \ DOMAIN q : y[i].op = "write" /\ y[i].ok
      <4>1. ASSUME NEW k \in 2..Len(D) PROVE D[k] = Entry("write", TRUE)
        <5>1. k \in 1..Len(D) /\ ~(k <= c) /\ k <= c + w
          BY <1>6, <3>1
        <5> QED BY <1>6, <5>1
      <4> QED BY <1>11, <1>13, <3>2, <4>1
    <3>5. Aborted(y) = {} /\ ReadsAt(y) = {} /\ Answered(y)
      <4>1. Aborted(y) = {} /\ ReadsAt(y) = {}
        BY <1>11, <2>1, <3>2, <3>4 DEF Aborted, ReadsAt, Failed, Finished, Ops
      <4>2. \A i \in DOMAIN y : y[i].op = "connect" \/ y[i].op = "tick" =>
              i \in DOMAIN q /\ q[i] = y[i]
        BY <1>11, <3>2, <3>4
      <4> QED BY <1>9, <4>1, <4>2 DEF Answered
    <3>6. Usable(t) /\ Calm(t)
      BY <1>12, <3>2, <3>5 DEF Usable, Shut, Calm
    <3>7. ASSUME cok, NEW call PROVE Ordered(connected(t, call))
      BY <1>3, <1>12, <1>15, <2>2, <3>1, <3>2, <3>5, <3>6, <3>7, EstablishedLemma
    <3> QED BY <1>10, <1>11, <1>12, <1>13, <1>15, <3>2, <3>3, <3>6, <3>7, CompleteOrdered
  <2> QED BY <2>3, <2>4
<1>16. ep.state \in {"CONNECTED", "CONNECTING"}
  BY <1>4, <1>5 DEF Endpoint, States
<1> QED BY <1>14, <1>15, <1>16

\* A thread caught in a blocking call goes on.
LEMMA UnblockOrdered ==
  ASSUME Ordered(ep), Unblock PROVE Ordered(ep')
<1> DEFINE s == [ep EXCEPT !.blocked = "no"]
<1>1. ep \in Endpoint /\ Placed(ep) /\ ep.state = "CONNECTING" /\ ep.fd
  BY DEF Ordered, Placed, Unblock
<1>2. PICK reconnect \in Reconnects :
        \/ /\ ep.blocked = "receive"
           /\ \E data \in BOOLEAN, call \in RecvCalls :
                ep' = read_handler(s, TRUE, data, call, reconnect)
        \/ /\ ep.blocked = "send"
           /\ \E n \in Sendable(s), err \in SendErrs(s) :
                ep' = write_handler(s, TRUE, n, err, reconnect)
  BY DEF Unblock
<1>3. reconnect \in Replies
  BY TcpConstants
<1>4. /\ s \in Endpoint /\ s.blocked = "no" /\ s.state = ep.state /\ s.thrown = ep.thrown
      /\ s.queue = ep.queue /\ s.early = ep.early
  BY <1>1 DEF Endpoint
<1>5. /\ s.fd = ep.fd /\ s.nb = ep.nb /\ s.rd = ep.rd /\ s.wr = ep.wr /\ s.cn = ep.cn
      /\ s.net = ep.net
  BY <1>1 DEF Endpoint
<1> HIDE DEF s
<1>6. Placed(s) /\ Served(s) /\ Ordered(s)
  BY <1>1, <1>4, <1>5 DEF Placed, Shut, Opening, Calm, Served, Ordered
<1>7. CASE \E data \in BOOLEAN, call \in RecvCalls :
             ep' = read_handler(s, TRUE, data, call, reconnect)
  BY <1>3, <1>6, <1>7, ReadOrdered
<1>8. CASE \E n \in Sendable(s), err \in SendErrs(s) :
             ep' = write_handler(s, TRUE, n, err, reconnect)
  <2>1. PICK n \in Sendable(s), err \in SendErrs(s) :
          ep' = write_handler(s, TRUE, n, err, reconnect)
    BY <1>8
  <2>2. s.out \in Nat
    BY <1>4, TcpConstants DEF Endpoint
  <2>3. n \in 0..s.out
    BY <2>1, <2>2 DEF Sendable
  <2>4. err \in BOOLEAN
    BY <2>1 DEF SendErrs
  <2> QED BY <1>3, <1>4, <1>6, <2>1, <2>3, <2>4, WriteOrdered
<1> QED BY <1>2, <1>7, <1>8

\* An entry for the descriptor, behind all others or merged with the one that
\* is queued, and a timer's entry.
LEMMA QueueOrdered ==
  ASSUME Ordered(ep), Running, NEW w \in Seq(Item), ep' = [ep EXCEPT !.queue = w],
         \A i, j \in DOMAIN w : w[i].op = "tick" /\ w[j].op = "tick" => i = j,
         DOMAIN ep.queue \subseteq DOMAIN w,
         \A i \in DOMAIN ep.queue :
           w[i] = ep.queue[i] \/ (ep.queue[i].op \in Events /\ w[i].op \in Events),
         \A i \in DOMAIN w \ DOMAIN ep.queue :
           /\ w[i].op \in Events \cup {"tick"} /\ (w[i].op \in Events => ep.fd)
           /\ \A j \in DOMAIN ep.queue : j < i
  PROVE  Ordered(ep')
<1> DEFINE q == ep.queue
<1>1. ep \in Endpoint /\ Placed(ep) /\ ep.blocked = "no" /\ q \in Seq(Item)
  BY DEF Ordered, Placed, Endpoint, Running
<1>2. /\ ep' \in Endpoint /\ ep'.queue = w /\ ep'.state = ep.state
      /\ ep'.blocked = ep.blocked /\ ep'.thrown = ep.thrown /\ ep'.early = ep.early
  BY <1>1 DEF Endpoint
<1>3. /\ ep'.fd = ep.fd /\ ep'.nb = ep.nb /\ ep'.rd = ep.rd /\ ep'.wr = ep.wr
      /\ ep'.cn = ep.cn /\ ep'.net = ep.net
  BY <1>1 DEF Endpoint
<1>4. /\ Finished(w) = Finished(q) /\ ReadsAt(w) = ReadsAt(q) /\ Aborted(w) = Aborted(q)
      /\ (Answered(q) => Answered(w))
  <2>1. ASSUME NEW i \in DOMAIN w
        PROVE  IF i \in DOMAIN q /\ w[i] = q[i] THEN TRUE
               ELSE /\ w[i].op \notin Ops
                    /\ i \in DOMAIN q => q[i].op \notin Ops
    BY DEF Events, Ops
  <2>2. Finished(w) = Finished(q)
    BY <2>1 DEF Finished
  <2>3. ReadsAt(w) = ReadsAt(q)
    BY <2>1 DEF ReadsAt, Ops
  <2>4. Aborted(w) = Aborted(q)
    BY <2>1 DEF Aborted, Failed
  <2>5. Answered(q) => Answered(w)
    BY <2>1 DEF Answered, Ops
  <2> QED BY <2>2, <2>3, <2>4, <2>5
<1>5. \A j \in Reported(w) : j \in Reported(q) \/ (j \in DOMAIN w \ DOMAIN q /\ ep.fd)
  BY DEF Reported, Events
<1> HIDE DEF q
<1>6. Shut(ep')
  BY <1>1, <1>2, <1>3, <1>5 DEF Placed, Shut, q
<1>7. ASSUME ep.state = "CONNECTING", ep.fd PROVE Opening(ep')
  <2>1. Opening(ep)
    BY <1>1, <1>7 DEF Placed
  <2>2. \A i \in Finished(w), j \in Reported(w) : i < j
    <3>1. \A i \in Finished(q), j \in Reported(q) : i < j
      BY <2>1 DEF Opening, q
    <3>2. Finished(q) \subseteq DOMAIN q
      BY DEF Finished
    <3> QED BY <1>4, <1>5, <3>1, <3>2 DEF q
  <2> QED BY <1>2, <1>3, <2>1, <2>2 DEF Opening
<1>8. Placed(ep')
  BY <1>1, <1>2, <1>3, <1>4, <1>6, <1>7 DEF Placed, Calm, q
<1>9. Live(ep) /\ Single(ep) => Live(ep') /\ Single(ep')
  BY <1>2, <1>3, <1>4 DEF Live, Single, q
<1> QED BY <1>2, <1>8, <1>9 DEF Ordered

LEMMA PostedOrdered ==
  ASSUME Ordered(ep), Running, NEW item \in Item, item.op \in Events \cup {"tick"},
         item.op \in Events => ep.fd, ep' = Post(ep, item),
         item.op = "tick" => ~Queued(ep, {"tick"})
  PROVE  Ordered(ep')
<1> DEFINE w == Append(ep.queue, item)
<1>1. ep.queue \in Seq(Item)
  BY DEF Ordered, Placed, Endpoint
<1>2. /\ w \in Seq(Item) /\ DOMAIN w = DOMAIN ep.queue \cup {Len(ep.queue) + 1}
      /\ w[Len(ep.queue) + 1] = item
      /\ \A i \in DOMAIN ep.queue : w[i] = ep.queue[i] /\ i < Len(ep.queue) + 1
  BY <1>1, AppendAt
<1>3. ep' = [ep EXCEPT !.queue = w]
  BY DEF Post
<1> HIDE DEF w
<1>4. \A i, j \in DOMAIN w : w[i].op = "tick" /\ w[j].op = "tick" => i = j
  <2>1. Answered(ep.queue)
    BY DEF Ordered, Placed, Calm
  <2> QED BY <1>2, <2>1 DEF Answered, Queued
<1> QED BY <1>2, <1>3, <1>4, QueueOrdered

LEMMA EpollOrdered ==
  ASSUME Ordered(ep), NEW ev \in Events, EpollWait(ev) PROVE Ordered(ep')
<1>1. Running /\ ep.fd /\ ep.queue \in Seq(Item)
  BY DEF EpollWait, Ordered, Placed, Endpoint
<1>2. CASE Queued(ep, Events)
  <2> DEFINE q == ep.queue
             m == [i \in DOMAIN q |->
                     IF q[i].op \in Events THEN Entry(Merge(q[i].op, ev), TRUE) ELSE q[i]]
  <2>1. \A i \in DOMAIN q : q[i] \in Item
    BY <1>1, Positions
  <2>2. \A old \in Events : /\ Entry(Merge(old, ev), TRUE) \in Item
                            /\ Entry(Merge(old, ev), TRUE).op \in Events
    BY DEF Merge, Entry, Item, Events
  <2>3. ep' = [ep EXCEPT !.queue = m]
    BY <1>2 DEF EpollWait
  <2>4. /\ \A i \in DOMAIN q : m[i] \in Item
        /\ \A i \in DOMAIN q :
             m[i] = q[i] \/ (q[i].op \in Events /\ m[i].op \in Events)
    BY <2>1, <2>2
  <2>5. Len(q) \in Nat /\ DOMAIN q = 1..Len(q) /\ m \in [1..Len(q) -> Item] /\ DOMAIN m = DOMAIN q
    BY <1>1, <2>4, Positions
  <2> HIDE DEF m
  <2>6. m \in Seq(Item)
    BY <2>5, FunctionIsSeq
  <2>7. \A i, j \in DOMAIN m : m[i].op = "tick" /\ m[j].op = "tick" => i = j
    <3>1. Answered(q)
      BY DEF Ordered, Placed, Calm
    <3> QED BY <2>4, <2>5, <3>1 DEF Answered, Events
  <2> QED BY <1>1, <2>3, <2>4, <2>5, <2>6, <2>7, QueueOrdered
<1>3. CASE ~Queued(ep, Events)
  <2>1. ep' = Post(ep, Entry(ev, TRUE))
    BY <1>3 DEF EpollWait
  <2>2. Entry(ev, TRUE) \in Item /\ Entry(ev, TRUE).op = ev /\ ev # "tick"
    BY Entries DEF Events
  <2> QED BY <1>1, <2>1, <2>2, PostedOrdered
<1> QED BY <1>2, <1>3

LEMMA PeerOrdered ==
  ASSUME Ordered(ep), PeerAccepts \/ PeerRefuses \/ PeerGoes PROVE Ordered(ep')
<1>1. PICK net \in Nets \ {"none", "syn"} :
        /\ ep' = [ep EXCEPT !.net = net]
        /\ ep.net \in {"syn", "up"} /\ (ep.net = "up" => net = "gone")
  BY DEF PeerAccepts, PeerRefuses, PeerGoes, Nets
<1>2. ep \in Endpoint /\ Placed(ep) /\ ep.fd
  BY <1>1 DEF Ordered, Placed, Shut
<1>3. /\ ep' \in Endpoint /\ ep'.queue = ep.queue /\ ep'.state = ep.state
      /\ ep'.blocked = ep.blocked /\ ep'.thrown = ep.thrown /\ ep'.net = net
      /\ ep'.early = ep.early
  BY <1>1, <1>2 DEF Endpoint
<1>4. /\ ep'.fd = ep.fd /\ ep'.nb = ep.nb /\ ep'.rd = ep.rd /\ ep'.cn = ep.cn
  BY <1>1, <1>2 DEF Endpoint
<1>5. Placed(ep')
  BY <1>1, <1>2, <1>3, <1>4 DEF Placed, Shut, Opening, Calm
<1>6. Live(ep) /\ Single(ep) => Live(ep') /\ Single(ep')
  BY <1>1, <1>3, <1>4 DEF Live, Single
<1> QED BY <1>3, <1>5, <1>6 DEF Ordered

-----------------------------------------------------------------------------
(* An early success                                                        *)

(***************************************************************************)
(* connect(2), asked again on the socket that on_disconnected has opened,  *)
(* may say that it is connected, and the success is queued.  Before it     *)
(* stand only completions of the first socket, its read among them; that   *)
(* read's handler closes the second socket, or waits in a receive on it    *)
(* until it does, so that open() finds none and throws.                    *)
(***************************************************************************)

\* The first success in the queue, and what stands before it.
First(q, k) ==
  /\ q[k] = Entry("connect", TRUE)
  /\ \A i \in 1..(k - 1) : q[i].op \in {"read", "write", "stale"}
Early(q)  == \E k \in DOMAIN q : First(q, k)
Behind(q) ==
  \E k \in DOMAIN q : First(q, k) /\ \E i \in 1..(k - 1) : q[i].op = "read"

\* An endpoint with an early success to come, and the same before its next
\* handler: the socket is closed, or a read will close it.
Trapped(s) ==
  /\ Usable(s) /\ s.early /\ s.state # "CONNECTED" /\ ~s.nb /\ Early(s.queue)
  /\ s.fd => s.state = "CONNECTING"
Caught(s) ==
  /\ s \in Endpoint /\ ~s.thrown /\ s.early /\ s.state # "CONNECTED" /\ ~s.nb
  /\ Shut(s) /\ Early(s.queue)
  /\ s.fd \/ s.blocked # "no" => s.fd /\ s.state = "CONNECTING"
  /\ ~s.fd \/ s.blocked = "receive" \/ Behind(s.queue)

\* The exception has left io_service::run().
Over(s) == s.thrown /\ s.early /\ s.blocked = "no"

Held(s) == Ordered(s) \/ Caught(s) \/ Over(s)

\* What stands before the success stays there.
LEMMA EarlyKept ==
  ASSUME NEW q \in Seq(Item), NEW w,
         \A i \in DOMAIN q : i \in DOMAIN w /\ (w[i] = q[i] \/ q[i].op \in Events)
  PROVE  (Early(q) => Early(w)) /\ (Behind(q) => Behind(w))
<1>1. Len(q) \in Nat /\ DOMAIN q = 1..Len(q)
  BY Positions
<1>2. ASSUME NEW k \in DOMAIN q, First(q, k)
      PROVE  k \in DOMAIN w /\ First(w, k) /\ \A i \in 1..(k - 1) : w[i] = q[i]
  <2>1. \A i \in 1..(k - 1) : i \in DOMAIN q
    BY <1>1
  <2>2. Entry("connect", TRUE).op = "connect" /\ "connect" \notin Events
    BY DEF Entry, Events
  <2>3. k \in DOMAIN w /\ w[k] = q[k]
    BY <1>2, <2>2 DEF First
  <2>4. \A i \in 1..(k - 1) : w[i] = q[i]
    BY <1>2, <2>1 DEF First, Events
  <2> QED BY <1>2, <2>3, <2>4 DEF First
<1>3. ASSUME Early(q) PROVE Early(w)
  BY <1>2, <1>3 DEF Early
<1>4. ASSUME Behind(q) PROVE Behind(w)
  <2>1. PICK k \in DOMAIN q : First(q, k) /\ \E i \in 1..(k - 1) : q[i].op = "read"
    BY <1>4 DEF Behind
  <2>2. k \in DOMAIN w /\ First(w, k) /\ \A i \in 1..(k - 1) : w[i] = q[i]
    BY <1>2, <2>1
  <2> QED BY <2>1, <2>2 DEF Behind
<1> QED BY <1>3, <1>4

LEMMA EarlyGrows ==
  ASSUME NEW s \in Endpoint, NEW r, From(r, s)
  PROVE  /\ Early(s.queue) => Early(r.queue)
         /\ Behind(s.queue) => Behind(r.queue)
<1>1. s.queue \in Seq(Item)
  BY DEF Endpoint
<1>2. \A i \in DOMAIN s.queue :
        /\ i \in DOMAIN r.queue
        /\ r.queue[i] = s.queue[i] \/ s.queue[i].op \in Events
  BY DEF From, Grows
<1> QED BY <1>1, <1>2, EarlyKept

\* Taking the first entry: the success itself, or one that stands before it.
LEMMA EarlyPopped ==
  ASSUME NEW q \in Seq(Item), q # <<>>, Early(q)
  PROVE  \/ Head(q) = Entry("connect", TRUE) /\ ~Behind(q)
         \/ /\ Head(q).op \in {"read", "write", "stale"} /\ Early(Tail(q))
            /\ Head(q).op # "read" /\ Behind(q) => Behind(Tail(q))
<1> DEFINE h == Head(q)
           t == Tail(q)
<1>1. t \in Seq(Item) /\ Len(t) = Len(q) - 1 /\ \A i \in 1..Len(t) : t[i] = q[i + 1]
  BY HeadTailProperties
<1>2. Len(q) \in Nat /\ DOMAIN q = 1..Len(q) /\ DOMAIN t = 1..Len(t)
  BY <1>1, Positions
<1>3. Len(q) # 0 /\ h = q[1]
  BY EmptySeq
<1> HIDE DEF h, t
<1>4. \A j \in DOMAIN q : j # 1 => j - 1 \in DOMAIN t /\ t[j - 1] = q[j]
  BY <1>1, <1>2
<1>5. PICK k \in DOMAIN q : First(q, k)
  BY DEF Early
<1>6. CASE k = 1
  <2>1. h = Entry("connect", TRUE) /\ h.op = "connect"
    BY <1>3, <1>5, <1>6 DEF First, Entry
  <2>2. ASSUME NEW j \in DOMAIN q, First(q, j), NEW i \in 1..(j - 1) PROVE FALSE
    <3>1. 1 \in 1..(j - 1)
      BY <1>2, <2>2
    <3> QED BY <1>3, <2>1, <2>2, <3>1 DEF First
  <2> QED BY <2>1, <2>2 DEF Behind, h
<1>7. CASE k # 1
  <2>1. ASSUME NEW j \in DOMAIN q, First(q, j), j # 1
        PROVE  j - 1 \in DOMAIN t /\ First(t, j - 1)
    <3>1. j - 1 \in DOMAIN t /\ t[j - 1] = q[j]
      BY <1>4, <2>1
    <3>2. ASSUME NEW i \in 1..((j - 1) - 1) PROVE t[i].op \in {"read", "write", "stale"}
      <4>1. i \in 1..Len(t) /\ i + 1 \in 1..(j - 1)
        BY <1>1, <1>2
      <4> QED BY <1>1, <2>1, <4>1 DEF First
    <3> QED BY <2>1, <3>1, <3>2 DEF First
  <2>2. Early(t)
    BY <1>5, <1>7, <2>1 DEF Early
  <2>3. h.op \in {"read", "write", "stale"}
    <3>1. 1 \in 1..(k - 1)
      BY <1>2, <1>7
    <3> QED BY <1>3, <1>5, <3>1 DEF First
  <2>4. ASSUME h.op # "read", Behind(q) PROVE Behind(t)
    <3>0. PICK j \in DOMAIN q : First(q, j) /\ \E i \in 1..(j - 1) : q[i].op = "read"
      BY <2>4 DEF Behind
    <3>1. PICK i \in 1..(j - 1) : First(q, j) /\ q[i].op = "read"
      BY <3>0
    <3>2. i # 1 /\ j # 1 /\ i \in DOMAIN q /\ i \in Nat /\ j \in Nat
      BY <1>2, <1>3, <2>4, <3>1
    <3>3. t[i - 1].op = "read" /\ i - 1 \in 1..((j - 1) - 1)
      <4>1. i - 1 \in DOMAIN t /\ t[i - 1] = q[i]
        BY <1>4, <3>2
      <4>2. i - 1 \in 1..((j - 1) - 1)
        BY <3>1, <3>2
      <4> QED BY <3>1, <4>1, <4>2
    <3>4. j - 1 \in DOMAIN t /\ First(t, j - 1)
      BY <2>1, <3>1, <3>2
    <3> QED BY <3>3, <3>4 DEF Behind
  <2> QED BY <2>2, <2>3, <2>4 DEF h, t
<1> QED BY <1>6, <1>7

\* close() of a trapped endpoint.
LEMMA CloseCaught ==
  ASSUME NEW s, Trapped(s), NEW reconnect \in Replies
  PROVE  Caught(close(s, reconnect))
<1> DEFINE r == close(s, reconnect)
<1>1. Usable(s) /\ s \in Endpoint /\ s.state # "CONNECTED"
  BY DEF Trapped, Usable
<1>2. Restarted(r) /\ From(r, s) /\ ~r.fd
  BY <1>1, CloseShut
<1> HIDE DEF r
<1>3. Early(r.queue) /\ r.early
  BY <1>1, <1>2, EarlyGrows DEF Trapped, From
<1> QED BY <1>2, <1>3 DEF Caught, Restarted, Usable, Shut, r

LEMMA RecvTrapped ==
  ASSUME NEW s, Trapped(s), NEW call, NEW reconnect \in Replies
  PROVE  Trapped(on_recv(s, call, reconnect))
<1>1. Usable(s) /\ s \in Endpoint /\ (s.state = "DISCONNECTED" => ~s.fd)
  BY DEF Trapped, Usable
<1>2. CASE call = "send"
  <2> DEFINE r == send(s)
  <2>1. r \in Endpoint /\ Like(r, s)
    BY <1>1, SendLike
  <2>2. on_recv(s, call, reconnect) = r
    BY <1>2 DEF on_recv
  <2> HIDE DEF r
  <2>3. Early(r.queue) /\ r.early
    BY <1>1, <2>1, EarlyGrows DEF Trapped, Like, From
  <2>4. Shut(r)
    <3>1. CASE s.fd
      BY <2>1, <3>1 DEF Like, Shut
    <3>2. CASE ~s.fd
      BY <1>1, <2>1, <3>2 DEF Usable, Like, Shut
    <3> QED BY <1>1, <3>1, <3>2 DEF Endpoint
  <2>5. Usable(r)
    BY <1>1, <2>1, <2>4 DEF Usable, Like
  <2> QED BY <2>1, <2>2, <2>3, <2>5 DEF Trapped, Like
<1>3. CASE call = "disconnect"
  <2> DEFINE r == disconnect(s, reconnect)
  <2>1. Restarted(r) /\ From(r, s)
    BY <1>1, DisconnectShut
  <2>2. on_recv(s, call, reconnect) = r
    BY <1>3 DEF on_recv
  <2> HIDE DEF r
  <2>3. Early(r.queue) /\ r.early
    BY <1>1, <2>1, EarlyGrows DEF Trapped, From
  <2>4. ~r.nb
    BY <2>1 DEF Restarted, Opening, Usable, Shut, Endpoint
  <2> QED BY <2>1, <2>2, <2>3, <2>4 DEF Trapped, Restarted
<1>4. CASE call \notin {"send", "disconnect"}
  BY <1>4 DEF on_recv
<1> QED BY <1>2, <1>3, <1>4

\* The read closes the socket or waits for what lets it do so.
LEMMA ReadCaught ==
  ASSUME NEW s, Trapped(s), NEW ok \in BOOLEAN, NEW data \in BOOLEAN, NEW call,
         NEW reconnect \in Replies
  PROVE  Caught(read_handler(s, ok, data, call, reconnect))
<1> DEFINE t == IF ok /\ data /\ s.net \in {"up", "gone"}
                THEN on_recv(s, call, reconnect) ELSE s
           r == read_handler(s, ok, data, call, reconnect)
<1>1. Trapped(t)
  BY RecvTrapped
<1>2. r = CASE ~ok \/ t.net \notin {"syn", "up"} -> close(t, reconnect)
            [] ok /\ t.net \in {"syn", "up"} /\ t.nb -> do_read(t)
            [] OTHER -> [t EXCEPT !.blocked = "receive"]
  BY DEF read_handler
<1> HIDE DEF t, r
<1>3. CASE ~ok \/ t.net \notin {"syn", "up"}
  BY <1>1, <1>2, <1>3, CloseCaught DEF r
<1>4. CASE ok /\ t.net \in {"syn", "up"}
  <2>1. t \in Endpoint /\ t.fd /\ ~t.nb
    BY <1>1, <1>4 DEF Trapped, Usable, Shut, Endpoint
  <2>2. r = [t EXCEPT !.blocked = "receive"]
    BY <1>2, <1>4, <2>1
  <2>3. /\ r \in Endpoint /\ r.queue = t.queue /\ r.state = t.state
        /\ r.thrown = t.thrown /\ r.early = t.early /\ r.blocked = "receive"
    BY <2>1, <2>2 DEF Endpoint
  <2>4. r.fd = t.fd /\ r.nb = t.nb
    BY <2>1, <2>2 DEF Endpoint
  <2> QED BY <1>1, <2>1, <2>3, <2>4 DEF Trapped, Usable, Caught, Shut, r
<1> QED BY <1>3, <1>4

LEMMA WriteCaught ==
  ASSUME NEW s, Trapped(s), ~s.fd \/ Behind(s.queue), NEW ok \in BOOLEAN,
         NEW n \in 0..s.out, NEW err \in BOOLEAN, NEW reconnect \in Replies
  PROVE  Caught(write_handler(s, ok, n, err, reconnect))
<1> DEFINE r == write_handler(s, ok, n, err, reconnect)
<1>1. s \in Endpoint /\ ~s.nb /\ s.fd \in BOOLEAN
  BY DEF Trapped, Usable, Endpoint
<1>2. CASE ~ok \/ ~s.fd \/ err
  <2>1. r = close(s, reconnect)
    BY <1>2 DEF write_handler
  <2> HIDE DEF r
  <2> QED BY <2>1, CloseCaught DEF r
<1>3. CASE ok /\ s.fd /\ ~err /\ s.out > 0 /\ s.net = "syn"
  <2>1. r = [s EXCEPT !.blocked = "send"]
    BY <1>1, <1>3 DEF write_handler
  <2> HIDE DEF r
  <2>2. /\ r \in Endpoint /\ r.queue = s.queue /\ r.state = s.state
        /\ r.thrown = s.thrown /\ r.early = s.early
    BY <1>1, <2>1 DEF Endpoint
  <2>3. r.fd = s.fd /\ r.nb = s.nb
    BY <1>1, <2>1 DEF Endpoint
  <2> QED BY <1>3, <2>2, <2>3 DEF Trapped, Usable, Caught, Shut, r
<1>4. CASE ok /\ s.fd /\ ~err /\ ~(s.out > 0 /\ s.net = "syn")
  <2> DEFINE k == s.out - n
  <2>1. r = do_write([s EXCEPT !.out = k, !.sending = FALSE])
    BY <1>4 DEF write_handler
  <2>2. k \in 0..MaxOut
    BY <1>1, TcpConstants DEF Endpoint
  <2> HIDE DEF k, r
  <2>3. r \in Endpoint /\ Like(r, s)
    BY <1>1, <2>1, <2>2, BufferLike
  <2>4. r.early
    BY <2>3 DEF Trapped, Like, From
  <2> QED BY <1>4, <2>3, <2>4 DEF Trapped, Usable, Caught, Like, Shut, r
<1> QED BY <1>1, <1>2, <1>3, <1>4

\* open() finds no socket.
LEMMA OpenThrows ==
  ASSUME NEW s \in Endpoint, s.state # "CONNECTED", s.blocked = "no", s.early, ~s.fd,
         NEW call
  PROVE  Over(connected(s, call))
<1> DEFINE a == [s EXCEPT !.state = "CONNECTED", !.up = TRUE]
           b == IF call = "send" THEN send(a) ELSE a
<1>2. on_connected([s EXCEPT !.state = "CONNECTED"], call) = b
  BY DEF on_connected
<1>3. a \in Endpoint /\ a.blocked = s.blocked /\ a.early = s.early /\ a.fd = s.fd
  BY DEF Endpoint, States
<1> HIDE DEF a
<1>4. b \in Endpoint /\ Like(b, a)
  <2>1. Like(a, a)
    BY <1>3, FromSame DEF Like
  <2> QED BY <1>3, <2>1, SendLike
<1>5. connected(s, call) = open(b)
  BY <1>2 DEF connected
<1> HIDE DEF b
<1>6. b.blocked = "no" /\ b.early /\ ~b.fd
  BY <1>3, <1>4 DEF Like, From
<1> DEFINE r == [b EXCEPT !.thrown = TRUE]
<1>7. open(b) = r
  BY <1>6 DEF open
<1>8. r.thrown /\ r.early = b.early /\ r.blocked = b.blocked
  BY <1>4 DEF Endpoint
<1> HIDE DEF r
<1> QED BY <1>5, <1>6, <1>7, <1>8 DEF Over

\* connect() of an established connection from a timer, whatever
\* on_disconnected does.
LEMMA EarlyLemma ==
  ASSUME NEW s, Ordered(s), s.blocked = "no", NEW reconnect \in Replies,
         NEW answer \in Answers, \A i \in DOMAIN s.queue : s.queue[i].op # "tick"
  PROVE  LET r == connect(s, reconnect, answer) IN Ordered(r) \/ Caught(r)
<1> DEFINE r == connect(s, reconnect, answer)
           w == reset(s).queue
           q == s.queue
           n == Len(w) + 1
<1>1. s \in Endpoint /\ Usable(s) /\ Calm(s)
  BY DEF Ordered, Placed, Usable
<1>2. /\ Restarted(r)
      /\ Calm(r) \/ (/\ r.early /\ s.state = "CONNECTED"
                     /\ r.queue = Append(w, Entry("connect", TRUE)))
  BY <1>1, ConnectShut
<1> HIDE DEF r
<1>3. CASE Calm(r)
  BY <1>2, <1>3, RestartedOrdered DEF r
<1>4. CASE /\ r.early /\ s.state = "CONNECTED"
           /\ r.queue = Append(w, Entry("connect", TRUE))
  <2>1. Live(s) /\ Single(s)
    BY <1>4 DEF Ordered
  <2>2. /\ Grows(q, w) /\ (s.rd > 0 => ReadsAt(w) # {})
        /\ \A i \in DOMAIN w \ DOMAIN q : w[i].op \in {"read", "write"}
    BY <1>1, <2>1, ResetShut DEF From, Live
  <2> HIDE DEF w, q
  <2>3. w \in Seq(Item) /\ q \in Seq(Item)
    BY <1>1, <2>2 DEF Grows, Endpoint, q
  <2>4. ASSUME NEW i \in DOMAIN w PROVE w[i].op \in {"read", "write", "stale"}
    <3>1. CASE i \notin DOMAIN q
      BY <2>2, <3>1
    <3>2. CASE i \in DOMAIN q /\ w[i] # q[i]
      BY <2>2, <3>2 DEF Grows, Entry
    <3>3. CASE i \in DOMAIN q /\ w[i] = q[i]
      <4>1. q[i] \in Item /\ q[i].op # "tick"
        BY <2>3, <3>3, Positions DEF q
      <4>2. q[i].op # "connect"
        <5>1. ~Failed(q[i]) /\ (q[i].op = "connect" => ~q[i].ok)
          BY <1>1, <2>1, <3>3 DEF Live, Aborted, Calm, Answered, q
        <5> QED BY <5>1 DEF Failed, Ops
      <4>3. q[i].op \notin Events
        <5>1. w \in Seq(Item) /\ Reported(w) = {}
          <6> DEFINE v == reset(s)
          <6>1. Usable(v) /\ ~v.fd
            BY <1>1, ResetShut
          <6>2. w = v.queue
            BY DEF w
          <6> HIDE DEF v
          <6> QED BY <2>3, <6>1, <6>2 DEF Usable, Shut
        <5> QED BY <3>3, <5>1 DEF Reported
      <4> QED BY <3>3, <4>1, <4>2, <4>3 DEF Item, Ops
    <3> QED BY <3>1, <3>2, <3>3
  <2>5. PICK j \in DOMAIN w : w[j].op = "read"
    <3>1. CASE s.rd > 0
      BY <2>2, <3>1 DEF ReadsAt
    <3>2. CASE ~(s.rd > 0)
      <4>1. s.rd = 0
        BY <2>1, <3>2 DEF Single
      <4>2. PICK j \in DOMAIN q : q[j].op = "read"
        BY <2>1, <4>1 DEF Single, ReadsAt, q
      <4>3. j \in DOMAIN w /\ w[j] = q[j]
        BY <2>2, <4>2 DEF Grows, Events
      <4> QED BY <4>2, <4>3
    <3> QED BY <3>1, <3>2
  <2> DEFINE e == Entry("connect", TRUE)
             v == Append(w, e)
  <2>6. e \in Item /\ r.queue = v
    BY <1>4 DEF Entry, Item, Ops
  <2> HIDE DEF e
  <2>a. /\ v \in Seq(Item) /\ DOMAIN v = DOMAIN w \cup {n} /\ v[n] = e
        /\ \A i \in DOMAIN w : v[i] = w[i] /\ i < n
    BY <2>3, <2>6, AppendAt
  <2> HIDE DEF v
  <2>7. /\ r.queue \in Seq(Item) /\ DOMAIN r.queue = DOMAIN w \cup {n}
        /\ r.queue[n] = Entry("connect", TRUE)
        /\ \A i \in DOMAIN w : r.queue[i] = w[i] /\ i < n
    BY <2>6, <2>a DEF e
  <2>8. DOMAIN w = 1..(n - 1) /\ n \in DOMAIN r.queue
    BY <2>3, <2>7, Positions
  <2> HIDE DEF n
  <2>9. First(r.queue, n) /\ \E i \in 1..(n - 1) : r.queue[i].op = "read"
    BY <2>4, <2>5, <2>7, <2>8 DEF First
  <2>10. Early(r.queue) /\ Behind(r.queue)
    BY <2>8, <2>9 DEF Early, Behind
  <2>11. ~r.nb
    BY <1>2 DEF Restarted, Opening, Usable, Shut, Endpoint
  <2>12. Caught(r)
    BY <1>2, <1>4, <2>10, <2>11 DEF Caught, Restarted, Usable
  <2> QED BY <2>12 DEF r
<1> QED BY <1>2, <1>3, <1>4

LEMMA TickHeld ==
  ASSUME Ordered(ep), RunTick PROVE Ordered(ep') \/ Caught(ep')
<1> DEFINE s == Popped
<1>1. Running /\ ep.queue # <<>> /\ Head(ep.queue).op = "tick"
  BY DEF RunTick, NextIs
<1>2. /\ Ordered(s) /\ s.blocked = "no"
      /\ \A i \in DOMAIN s.queue : s.queue[i].op # "tick"
  BY <1>1, PopOrdered
<1>3. PICK call \in TickCalls, reconnect \in Reconnects, answer \in Answers :
        \/ call = "nothing" /\ ep' = s
        \/ call = "poll" /\ ep' = poll(s, reconnect, answer)
        \/ call = "send" /\ ep' = send(s)
        \/ call = "connect" /\ ep' = connect(s, reconnect, answer)
        \/ call = "disconnect" /\ ep' = disconnect(s, reconnect)
  BY DEF RunTick
<1>4. reconnect \in Replies
  BY TcpConstants
<1> HIDE DEF s
<1>5. s \in Endpoint /\ Usable(s) /\ (s.state = "DISCONNECTED" => ~s.fd) /\ Calm(s)
  BY <1>2 DEF Ordered, Placed, Usable
<1>6. Ordered(send(s))
  BY <1>2, <1>5, SendLike, LikeLemma
<1>7. LET r == connect(s, reconnect, answer) IN Ordered(r) \/ Caught(r)
  BY <1>2, <1>4, EarlyLemma
<1>8. Ordered(disconnect(s, reconnect))
  <2> DEFINE r == disconnect(s, reconnect)
  <2>1. Restarted(r) /\ From(r, s)
    BY <1>4, <1>5, DisconnectShut
  <2> HIDE DEF r
  <2>2. Calm(r)
    BY <1>5, <2>1, FromCalm
  <2> QED BY <2>1, <2>2, RestartedOrdered DEF r
<1>9. LET r == poll(s, reconnect, answer) IN Ordered(r) \/ Caught(r)
  <2>1. CASE s.state = "DISCONNECTED"
    BY <1>7, <2>1 DEF poll
  <2>2. CASE s.state = "CONNECTED"
    BY <1>6, <2>2 DEF poll
  <2>3. CASE s.state \notin {"DISCONNECTED", "CONNECTED"}
    BY <1>2, <2>3 DEF poll
  <2> QED BY <2>1, <2>2, <2>3
<1> QED BY <1>2, <1>3, <1>6, <1>7, <1>8, <1>9

\* The handler at the head of the queue of a caught endpoint.
LEMMA PopCaught ==
  ASSUME Caught(ep), Running, ep.queue # <<>>
  PROVE  LET s == Popped
             h == Head(ep.queue)
         IN  /\ h \in Item /\ s \in Endpoint /\ s.blocked = "no"
             /\ \/ h = Entry("connect", TRUE) /\ ~ep.fd
                \/ /\ h.op \in {"read", "write", "stale"} /\ Trapped(s)
                   /\ h.op # "read" => ~s.fd \/ Behind(s.queue)
<1> DEFINE q == ep.queue
           h == Head(q)
           t == Tail(q)
           s == Popped
<1>1. ep \in Endpoint /\ q \in Seq(Item) /\ ep.blocked = "no" /\ ~ep.thrown
  BY DEF Caught, Endpoint, Running
<1>2. h \in Item /\ t \in Seq(Item) /\ Len(t) = Len(q) - 1
      /\ \A i \in 1..Len(t) : t[i] = q[i + 1]
  BY <1>1, HeadTailProperties
<1>3. s = [ep EXCEPT !.queue = t]
  BY DEF Popped
<1>4. \/ h = Entry("connect", TRUE) /\ ~Behind(q)
      \/ /\ h.op \in {"read", "write", "stale"} /\ Early(t)
         /\ h.op # "read" /\ Behind(q) => Behind(t)
  <2>1. Early(q)
    BY DEF Caught
  <2> QED BY <1>1, <2>1, EarlyPopped
<1>5. Len(q) \in Nat /\ DOMAIN q = 1..Len(q) /\ DOMAIN t = 1..Len(t)
  BY <1>1, <1>2, Positions
<1> HIDE DEF q, h, t, s
<1>6. \A i \in DOMAIN t : i + 1 \in DOMAIN q /\ t[i] = q[i + 1]
  BY <1>2, <1>5
<1>7. /\ s \in Endpoint /\ s.queue = t /\ s.state = ep.state /\ s.blocked = ep.blocked
      /\ s.thrown = ep.thrown /\ s.early = ep.early
  BY <1>1, <1>2, <1>3 DEF Endpoint
<1>8. /\ s.fd = ep.fd /\ s.rd = ep.rd /\ s.wr = ep.wr /\ s.cn = ep.cn
      /\ s.net = ep.net /\ s.nb = ep.nb
  BY <1>1, <1>3 DEF Endpoint
<1>9. Reported(q) = {} => Reported(t) = {}
  BY <1>6 DEF Reported
<1>10. Usable(s)
  BY <1>1, <1>7, <1>8, <1>9 DEF Usable, Caught, Shut, q
<1>11. ~ep.fd \/ Behind(q)
  BY <1>1 DEF Caught, q
<1>12. Early(t) => Trapped(s)
  BY <1>7, <1>8, <1>10 DEF Caught, Trapped
<1> QED BY <1>1, <1>2, <1>4, <1>7, <1>8, <1>11, <1>12 DEF s, h, q

LEMMA PostedCaught ==
  ASSUME Caught(ep), RunPosted PROVE Caught(ep') \/ Over(ep')
<1> DEFINE s == Popped
           item == Head(ep.queue)
<1>1. Running /\ ep.queue # <<>> /\ item.op \in Ops /\ Complete(s, item)
  BY DEF RunPosted, NextIs
<1>2. /\ item \in Item /\ s \in Endpoint /\ s.blocked = "no"
      /\ \/ item = Entry("connect", TRUE) /\ ~ep.fd
         \/ /\ item.op \in {"read", "write", "stale"} /\ Trapped(s)
            /\ item.op # "read" => ~s.fd \/ Behind(s.queue)
  BY <1>1, PopCaught
<1>3. PICK reconnect \in Reconnects :
        \/ /\ item.op = "connect"
           /\ \E call \in ConnCalls :
                ep' = connect_handler(s, item.ok, call, reconnect)
        \/ /\ item.op = "read"
           /\ \E data \in BOOLEAN, call \in RecvCalls :
                ep' = read_handler(s, item.ok, data, call, reconnect)
        \/ /\ item.op = "write"
           /\ \E n \in Sendable(s), err \in SendErrs(s) :
                ep' = write_handler(s, item.ok, n, err, reconnect)
  BY <1>1 DEF Complete
<1>4. reconnect \in Replies /\ item.ok \in BOOLEAN
  BY <1>2, TcpConstants DEF Item
<1>5. /\ s.fd = ep.fd /\ s.nb = ep.nb /\ s.state = ep.state /\ s.early = ep.early
  BY DEF Caught, Popped, Endpoint
<1> HIDE DEF s, item
<1>6. CASE item.op = "connect"
  <2>1. PICK call \in ConnCalls : ep' = connect_handler(s, item.ok, call, reconnect)
    BY <1>3, <1>6
  <2>2. item.ok /\ ~ep.fd
    BY <1>2, <1>6 DEF Entry
  <2>3. ep' = connected(s, call)
    BY <2>1, <2>2 DEF connect_handler
  <2>4. Over(connected(s, call))
    BY <1>2, <1>5, <2>2, OpenThrows DEF Caught
  <2> QED BY <2>3, <2>4
<1>7. CASE item.op = "read"
  <2>1. PICK data \in BOOLEAN, call \in RecvCalls :
          ep' = read_handler(s, item.ok, data, call, reconnect)
    BY <1>3, <1>7
  <2>2. Trapped(s)
    BY <1>2, <1>7 DEF Entry
  <2> QED BY <1>4, <2>1, <2>2, ReadCaught
<1>8. CASE item.op = "write"
  <2>1. PICK n \in Sendable(s), err \in SendErrs(s) :
          ep' = write_handler(s, item.ok, n, err, reconnect)
    BY <1>3, <1>8
  <2>2. Trapped(s) /\ (~s.fd \/ Behind(s.queue))
    BY <1>2, <1>8 DEF Entry
  <2>3. s.out \in Nat
    BY <1>2, TcpConstants DEF Endpoint
  <2>4. n \in 0..s.out
    BY <2>1, <2>3 DEF Sendable
  <2>5. err \in BOOLEAN
    BY <2>1 DEF SendErrs
  <2> QED BY <1>4, <2>1, <2>2, <2>4, <2>5, WriteCaught
<1> QED BY <1>3, <1>6, <1>7, <1>8

LEMMA UnblockCaught ==
  ASSUME Caught(ep), Unblock PROVE Caught(ep')
<1> DEFINE s == [ep EXCEPT !.blocked = "no"]
<1>1. ep \in Endpoint /\ ep.blocked # "no"
  BY DEF Caught, Unblock
<1>2. PICK reconnect \in Reconnects :
        \/ /\ ep.blocked = "receive"
           /\ \E data \in BOOLEAN, call \in RecvCalls :
                ep' = read_handler(s, TRUE, data, call, reconnect)
        \/ /\ ep.blocked = "send"
           /\ \E n \in Sendable(s), err \in SendErrs(s) :
                ep' = write_handler(s, TRUE, n, err, reconnect)
  BY DEF Unblock
<1>3. reconnect \in Replies
  BY TcpConstants
<1>4. /\ s \in Endpoint /\ s.blocked = "no" /\ s.state = ep.state /\ s.thrown = ep.thrown
      /\ s.queue = ep.queue /\ s.early = ep.early
  BY <1>1 DEF Endpoint
<1>5. /\ s.fd = ep.fd /\ s.nb = ep.nb /\ s.rd = ep.rd /\ s.wr = ep.wr /\ s.cn = ep.cn
      /\ s.net = ep.net
  BY <1>1 DEF Endpoint
<1> HIDE DEF s
<1>6. Trapped(s)
  BY <1>4, <1>5 DEF Caught, Trapped, Usable, Shut
<1>7. CASE \E data \in BOOLEAN, call \in RecvCalls :
             ep' = read_handler(s, TRUE, data, call, reconnect)
  BY <1>3, <1>6, <1>7, ReadCaught
<1>8. CASE /\ ep.blocked = "send"
           /\ \E n \in Sendable(s), err \in SendErrs(s) :
                ep' = write_handler(s, TRUE, n, err, reconnect)
  <2>1. PICK n \in Sendable(s), err \in SendErrs(s) :
          ep' = write_handler(s, TRUE, n, err, reconnect)
    BY <1>8
  <2>2. s.out \in Nat
    BY <1>4, TcpConstants DEF Endpoint
  <2>3. n \in 0..s.out
    BY <2>1, <2>2 DEF Sendable
  <2>4. err \in BOOLEAN
    BY <2>1 DEF SendErrs
  <2>5. ~s.fd \/ Behind(s.queue)
    BY <1>4, <1>5, <1>8 DEF Caught
  <2> QED BY <1>3, <1>6, <2>1, <2>3, <2>4, <2>5, WriteCaught
<1> QED BY <1>2, <1>7, <1>8

\* An entry is added behind the others, or the descriptor's is changed.
LEMMA QueueCaught ==
  ASSUME Caught(ep), NEW w \in Seq(Item), ep' = [ep EXCEPT !.queue = w],
         \A i \in DOMAIN ep.queue :
           i \in DOMAIN w /\ (w[i] = ep.queue[i] \/ ep.queue[i].op \in Events),
         ~ep.fd => \A i \in DOMAIN w :
           w[i].op \in Events => i \in DOMAIN ep.queue /\ ep.queue[i].op \in Events
  PROVE  Caught(ep')
<1>1. ep \in Endpoint /\ ep.queue \in Seq(Item)
  BY DEF Caught, Endpoint
<1>2. /\ ep' \in Endpoint /\ ep'.queue = w /\ ep'.state = ep.state
      /\ ep'.blocked = ep.blocked /\ ep'.thrown = ep.thrown /\ ep'.early = ep.early
  BY <1>1 DEF Endpoint
<1>3. /\ ep'.fd = ep.fd /\ ep'.nb = ep.nb /\ ep'.rd = ep.rd /\ ep'.wr = ep.wr
      /\ ep'.cn = ep.cn /\ ep'.net = ep.net
  BY <1>1 DEF Endpoint
<1>4. (Early(ep.queue) => Early(w)) /\ (Behind(ep.queue) => Behind(w))
  BY <1>1, EarlyKept
<1>5. Shut(ep')
  BY <1>2, <1>3 DEF Caught, Shut, Reported
<1> QED BY <1>2, <1>3, <1>4, <1>5 DEF Caught

LEMMA ArrivalCaught ==
  ASSUME Caught(ep), TimerExpires \/ \E ev \in Events : EpollWait(ev)
  PROVE  Caught(ep')
<1> DEFINE q == ep.queue
<1>1. q \in Seq(Item)
  BY DEF Caught, Endpoint
<1>2. ASSUME NEW e \in Item, ep' = Post(ep, e), e.op \in Events => ep.fd PROVE Caught(ep')
  <2> DEFINE w == Append(q, e)
  <2>1. /\ w \in Seq(Item) /\ DOMAIN w = DOMAIN q \cup {Len(q) + 1}
        /\ w[Len(q) + 1] = e /\ \A i \in DOMAIN q : w[i] = q[i]
    BY <1>1, AppendAt
  <2>2. ep' = [ep EXCEPT !.queue = w]
    BY <1>2 DEF Post
  <2> HIDE DEF w
  <2> QED BY <1>2, <2>1, <2>2, QueueCaught
<1>3. CASE TimerExpires
  <2>1. ep' = Post(ep, Entry("tick", TRUE))
    BY <1>3 DEF TimerExpires
  <2>2. Entry("tick", TRUE) \in Item /\ Entry("tick", TRUE).op \notin Events
    BY DEF Entry, Item, Events
  <2> QED BY <1>2, <2>1, <2>2
<1>4. CASE \E ev \in Events : EpollWait(ev)
  <2>1. PICK ev \in Events : EpollWait(ev)
    BY <1>4
  <2>2. ep.fd
    BY <2>1 DEF EpollWait
  <2>3. CASE Queued(ep, Events)
    <3> DEFINE m == [i \in DOMAIN q |->
                       IF q[i].op \in Events THEN Entry(Merge(q[i].op, ev), TRUE) ELSE q[i]]
    <3>1. \A i \in DOMAIN q : q[i] \in Item
      BY <1>1, Positions
    <3>2. \A old \in Events : Entry(Merge(old, ev), TRUE) \in Item
      BY DEF Merge, Entry, Item, Events
    <3>3. ep' = [ep EXCEPT !.queue = m]
      BY <2>1, <2>3 DEF EpollWait
    <3>4. /\ \A i \in DOMAIN q : m[i] \in Item
          /\ \A i \in DOMAIN q : m[i] = q[i] \/ q[i].op \in Events
      BY <3>1, <3>2
    <3>5. Len(q) \in Nat /\ DOMAIN q = 1..Len(q) /\ m \in [1..Len(q) -> Item] /\ DOMAIN m = DOMAIN q
      BY <1>1, <3>4, Positions
    <3> HIDE DEF m
    <3>6. m \in Seq(Item)
      BY <3>5, FunctionIsSeq
    <3> QED BY <2>2, <3>3, <3>4, <3>5, <3>6, QueueCaught
  <2>4. CASE ~Queued(ep, Events)
    <3>1. ep' = Post(ep, Entry(ev, TRUE))
      BY <2>1, <2>4 DEF EpollWait
    <3>2. Entry(ev, TRUE) \in Item
      BY Entries
    <3> QED BY <1>2, <2>2, <3>1, <3>2
  <2> QED BY <2>3, <2>4
<1> QED BY <1>3, <1>4

LEMMA PeerCaught ==
  ASSUME Caught(ep), PeerAccepts \/ PeerRefuses \/ PeerGoes PROVE Caught(ep')
<1>1. PICK net \in Nets \ {"none"} : ep' = [ep EXCEPT !.net = net] /\ ep.net # "none"
  BY DEF PeerAccepts, PeerRefuses, PeerGoes, Nets
<1>2. ep \in Endpoint /\ ep.fd
  BY <1>1 DEF Caught, Shut
<1>3. /\ ep' \in Endpoint /\ ep'.queue = ep.queue /\ ep'.state = ep.state
      /\ ep'.blocked = ep.blocked /\ ep'.thrown = ep.thrown /\ ep'.early = ep.early
  BY <1>1, <1>2 DEF Endpoint
<1>4. ep'.fd = ep.fd /\ ep'.nb = ep.nb
  BY <1>1, <1>2 DEF Endpoint
<1> QED BY <1>2, <1>3, <1>4 DEF Caught, Shut

LEMMA NextCaught ==
  ASSUME Caught(ep), Next PROVE Caught(ep') \/ Over(ep')
<1>1. CASE \E ev \in Events : EpollWait(ev)
  BY <1>1, ArrivalCaught
<1>2. CASE PerformIO \/ RunTick
  <2>1. Running /\ ep.queue # <<>> /\ Head(ep.queue).op \in Events \cup {"tick"}
    BY <1>2 DEF PerformIO, RunTick, NextIs
  <2>2. Head(ep.queue).op \in {"connect", "read", "write", "stale"}
    <3>1. Entry("connect", TRUE).op = "connect"
      BY DEF Entry
    <3> QED BY <2>1, <3>1, PopCaught
  <2> QED BY <2>1, <2>2 DEF Events
<1>3. CASE RunPosted
  BY <1>3, PostedCaught
<1>4. CASE RunStale
  <2> DEFINE s == Popped
  <2>1. Running /\ ep.queue # <<>> /\ Head(ep.queue).op = "stale" /\ ep' = s
    BY <1>4 DEF RunStale, NextIs
  <2>2. s.blocked = "no" /\ Trapped(s) /\ (~s.fd \/ Behind(s.queue))
    BY <2>1, PopCaught DEF Entry
  <2> HIDE DEF s
  <2> QED BY <2>1, <2>2 DEF Caught, Trapped, Usable
<1>5. CASE Unblock
  BY <1>5, UnblockCaught
<1>6. CASE TimerExpires
  BY <1>6, ArrivalCaught
<1>7. CASE PeerAccepts \/ PeerRefuses \/ PeerGoes
  BY <1>7, PeerCaught
<1>8. CASE Ended
  BY <1>8 DEF Ended, Caught
<1> QED BY <1>1, <1>2, <1>3, <1>4, <1>5, <1>6, <1>7, <1>8 DEF Next

-----------------------------------------------------------------------------

LEMMA NextOrdered ==
  ASSUME Ordered(ep), Attempt(ep), Next PROVE Ordered(ep') \/ Caught(ep')
<1>1. CASE \E ev \in Events : EpollWait(ev)
  BY <1>1, EpollOrdered
<1>2. CASE PerformIO
  BY <1>2, PerformOrdered
<1>3. CASE RunPosted
  <2> DEFINE s == Popped
             h == Head(ep.queue)
  <2>1. Running /\ ep.queue # <<>> /\ h.op \in Ops /\ Complete(s, h)
    BY <1>3 DEF RunPosted, NextIs
  <2>2. /\ h \in Item /\ Placed(s) /\ s.blocked = "no"
        /\ h.op # "read" => Ordered(s)
        /\ h.op = "read" => Served(s)
        /\ h.op = "connect" => ~h.ok
    BY <2>1, PopOrdered
  <2> HIDE DEF s, h
  <2>3. Usable(s) /\ Calm(s) /\ (s.state = "DISCONNECTED" => ~s.fd)
    BY <2>2 DEF Placed, Usable
  <2> QED BY <2>1, <2>2, <2>3, CompleteOrdered
<1>4. CASE Unblock
  BY <1>4, UnblockOrdered
<1>5. CASE RunStale
  <2>1. Running /\ ep.queue # <<>> /\ Head(ep.queue).op = "stale" /\ ep' = Popped
    BY <1>5 DEF RunStale, NextIs
  <2> QED BY <2>1, PopOrdered
<1>6. CASE TimerExpires
  <2>1. Running /\ ep' = Post(ep, Entry("tick", TRUE)) /\ ~Queued(ep, {"tick"})
    BY <1>6 DEF TimerExpires
  <2>2. Entry("tick", TRUE) \in Item /\ Entry("tick", TRUE).op = "tick"
    BY Entries
  <2> QED BY <2>1, <2>2, PostedOrdered DEF Events
<1>7. CASE RunTick
  BY <1>7, TickHeld
<1>8. CASE PeerAccepts \/ PeerRefuses \/ PeerGoes
  BY <1>8, PeerOrdered
<1>9. CASE Ended
  BY <1>9 DEF Ended, Ordered, Placed
<1> QED BY <1>1, <1>2, <1>3, <1>4, <1>5, <1>6, <1>7, <1>8, <1>9 DEF Next

LEMMA NextHeld == Held(ep) /\ Inductive /\ [Next]_vars => Held(ep')
<1> SUFFICES ASSUME Held(ep), Inductive, [Next]_vars PROVE Held(ep')
  OBVIOUS
<1>1. CASE UNCHANGED vars
  BY <1>1 DEF vars
<1>2. CASE Next /\ Ordered(ep)
  <2>1. Attempt(ep)
    BY DEF Inductive, Sound
  <2> QED BY <1>2, <2>1, NextOrdered DEF Held
<1>3. CASE Next /\ Caught(ep)
  BY <1>3, NextCaught DEF Held
<1>4. CASE Next /\ Over(ep)
  <2>1. ep.thrown
    BY <1>4 DEF Over
  <2>2. Ended
    BY <1>4, <2>1 DEF Next, EpollWait, PerformIO, RunPosted, RunStale, RunTick, NextIs,
                      Running, Unblock, TimerExpires, PeerAccepts, PeerRefuses, PeerGoes
  <2> QED BY <2>2 DEF Ended, vars
<1> QED BY <1>1, <1>2, <1>3, <1>4 DEF Held

LEMMA InitOrdered == Init => Ordered(ep)
<1> SUFFICES ASSUME Init PROVE Ordered(ep)
  OBVIOUS
<1>1. 0 \in 0..MaxOut /\ 0 \in Nat /\ <<>> \in Seq(Item)
  BY TcpConstants
<1>2. DOMAIN <<>> = {}
  OBVIOUS
<1>3. ASSUME NEW answer \in Answers, ep = connect(Fresh, "no", answer) PROVE Ordered(ep)
  <2>1. Fresh \in Endpoint
    BY <1>1 DEF Fresh, Endpoint, States, Nets
  <2>2. /\ ~Fresh.thrown /\ Fresh.blocked = "no" /\ ~Fresh.fd /\ ~Fresh.nb /\ Fresh.rd = 0
        /\ Fresh.wr = 0 /\ Fresh.cn = 0 /\ Fresh.net = "none" /\ Fresh.queue = <<>>
        /\ ~Fresh.early /\ Fresh.state # "CONNECTED"
    BY DEF Fresh
  <2>3. Usable(Fresh) /\ Calm(Fresh)
    BY <1>2, <2>1, <2>2 DEF Usable, Shut, Reported, Answered, Calm
  <2>4. "no" \in Replies
    BY DEF Replies
  <2> DEFINE r == connect(Fresh, "no", answer)
  <2>5. Restarted(r) /\ Calm(r)
    BY <2>2, <2>3, <2>4, ConnectShut
  <2> HIDE DEF r
  <2> QED BY <1>3, <2>5, RestartedOrdered DEF r
<1>4. ASSUME NEW call \in ConnCalls,
             ep = connected([Fresh EXCEPT !.fd = TRUE, !.nb = TRUE, !.net = "up"], call)
      PROVE  Ordered(ep)
  <2> DEFINE a == [Fresh EXCEPT !.fd = TRUE, !.nb = TRUE, !.net = "up"]
  <2>1. a \in Endpoint
    BY <1>1 DEF Fresh, Endpoint, States, Nets
  <2>2. /\ ~a.thrown /\ a.blocked = "no" /\ a.state = "DISCONNECTED" /\ a.fd /\ a.rd = 0
        /\ a.cn = 0 /\ a.net = "up" /\ a.queue = <<>> /\ ~a.early
    BY DEF Fresh
  <2> HIDE DEF a
  <2>3. Aborted(a.queue) = {} /\ ReadsAt(a.queue) = {} /\ Calm(a)
    BY <1>2, <2>2 DEF Aborted, ReadsAt, Answered, Calm
  <2>4. Ordered(connected(a, call))
    BY <2>1, <2>2, <2>3, EstablishedLemma
  <2> QED BY <1>4, <2>4 DEF a
<1> QED BY <1>3, <1>4 DEF Init

\* The second invariant holds of every behaviour: the queue is in order, an
\* early success is caught behind the read of the socket before it, or open()
\* has thrown.
THEOREM HeldHolds == Spec => []Held(ep)
<1>1. Init => Held(ep)
  BY InitOrdered DEF Held
<1>2. Held(ep) /\ Inductive /\ [Next]_vars => Held(ep)'
  BY NextHeld
<1> QED BY <1>1, <1>2, InductiveHolds, PTL DEF Spec

\* No completion that an earlier socket left behind closes an established
\* connection, CONNECTED means an open socket, and open() throws only for a
\* success that connect(2) gave at once to the second of two connects.
THEOREM NoStaleKillHolds == Spec => []NoStaleKill
<1>1. Held(ep) => NoStaleKill
  BY DEF Held, Caught, Over, Ordered, Placed, Live, Aborted, NoStaleKill
<1> QED BY <1>1, HeldHolds, PTL

\* An established connection has exactly one wait_read, in the reactor or in
\* the queue, whatever is sent, closed and connected again from callbacks.
THEOREM OneReaderHolds == Spec => []OneReader
<1>1. Held(ep) => OneReader
  <2> SUFFICES ASSUME Held(ep), ep.state = "CONNECTED", ~ep.thrown
               PROVE  \/ ep.rd = 1 /\ QueuedReads = {}
                      \/ ep.rd = 0 /\ \E i \in DOMAIN ep.queue : QueuedReads = {i}
    BY DEF OneReader
  <2>1. Single(ep) /\ ReadsAt(ep.queue) = QueuedReads
    BY DEF Held, Caught, Over, Ordered, ReadsAt, QueuedReads
  <2>2. CASE ep.rd = 1
    BY <2>1, <2>2 DEF Single
  <2>3. CASE ep.rd = 0
    <3>1. PICK i \in QueuedReads : TRUE
      BY <2>1, <2>3 DEF Single
    <3>2. QueuedReads = {i} /\ i \in DOMAIN ep.queue
      BY <2>1, <3>1 DEF Single, QueuedReads
    <3> QED BY <2>3, <3>2
  <2> QED BY <2>1, <2>2, <2>3 DEF Single
<1> QED BY <1>1, HeldHolds, PTL

\* The thread of the io_service is caught in a blocking call only while a
\* connect is in progress, on the socket open() has not seen.
THEOREM BlocksOnlyConnectingHolds == Spec => []BlocksOnlyConnecting
<1>1. Held(ep) => BlocksOnlyConnecting
  BY DEF Held, Caught, Over, Ordered, Placed, Opening, BlocksOnlyConnecting
<1> QED BY <1>1, HeldHolds, PTL
=============================================================================
