----------------------- MODULE DatagramAcceptorProofs -----------------------
(***************************************************************************)
(* Proofs about DatagramAcceptor for any set of remotes, any width of the  *)
(* conversation counter and any number of datagrams.  OneSession and       *)
(* ConvUnique are inductive together with the types of the members and     *)
(* with Sender: a completed receive has left a sender in remote_endpoint_, *)
(* though not always its own.                                              *)
(***************************************************************************)
EXTENDS DatagramAcceptor, FiniteSetTheorems, SequenceTheorems,
        WellFoundedInduction, TLAPS

Ops == {"event", "accept", "failed"}

\* The types of the members, without the bounds on the receives.
Shape ==
  [rcv : Nat, inbox : Seq(Remotes), remote : Remotes \cup {None},
   queue : Seq(Ops), ended : Nat,
   endpoints : [Remotes -> Nat], conv : 0..MaxConv,
   convs : [1..MaxConv -> Remotes \cup {None}], sessions : SUBSET Session]

Sender(a) == (\E i \in DOMAIN a.queue : a.queue[i] = "accept") => a.remote \in Remotes

\* OneSession and ConvUnique of an acceptor in the middle of a handler.
Once(a) ==
  /\ \A s, t \in a.sessions : s.remote = t.remote => s = t
  /\ \A r \in Remotes :
       a.endpoints[r] = IF \E s \in a.sessions : s.remote = r THEN 1 ELSE 0

Numbered(a) ==
  /\ \A s \in a.sessions :
       s.conv \in 1..MaxConv /\ a.convs[s.conv] = s.remote
  /\ \A c \in 1..MaxConv : a.convs[c] # None =>
       \E s \in a.sessions : s.conv = c /\ s.remote = a.convs[c]

Book(a) == Once(a) /\ (Kcp => Numbered(a))
Good(a) == a \in Shape /\ Sender(a) /\ Book(a)

Inductive == Good(ac)

\* A free number has a nearest one: get_conv returns a number not in use.
LEMMA GetConvFree ==
  ASSUME NEW a \in Shape, Free(a) # {}
  PROVE  get_conv(a) \in 1..MaxConv /\ a.convs[get_conv(a)] = None
<1> USE AcceptorConstants
<1> DEFINE R == OpToRel(<, Nat)
           T == {Distance(a, c) : c \in Free(a)}
<1>1. \A c \in Free(a) : Distance(a, c) \in Nat
  BY DEF Free, Distance, Shape
<1>2. T \subseteq Nat /\ T # {}
  BY <1>1
<1>3. \E x \in T : \A y \in T : ~(<<y, x>> \in R)
  <2> HIDE DEF T, R
  <2>1. IsWellFoundedOn(R, Nat)
    BY NatLessThanWellFounded DEF R
  <2> QED BY <2>1, <1>2, WFMin
<1>4. PICK x \in T : \A y \in T : ~(<<y, x>> \in R)
  BY <1>3
<1>5. \A y \in T : x <= y
  <2>1. \A m, n \in Nat : m < n => <<m, n>> \in R
    BY DEF OpToRel
  <2> HIDE DEF R, T
  <2> TAKE y \in T
  <2>2. x \in Nat /\ y \in Nat
    BY <1>2
  <2>3. ~(<<y, x>> \in R)
    BY <1>4
  <2>4. ~(y < x)
    BY <2>1, <2>2, <2>3
  <2> QED BY <2>2, <2>4
<1>6. PICK c \in Free(a) : x = Distance(a, c)
  BY <1>4
<1>7. \A d \in Free(a) : Distance(a, c) <= Distance(a, d)
  BY <1>5, <1>6
<1>8. get_conv(a) \in Free(a)
  <2> HIDE DEF T, R
  <2> QED BY <1>7 DEF get_conv
<1> QED BY <1>8 DEF Free

\* A session for a remote that is not accepted keeps the books.
LEMMA AcceptGood ==
  ASSUME NEW a, Good(a), a.remote \in Remotes, ~is_accepted(a, a.remote),
         Kcp => Free(a) # {}
  PROVE  Good(accept(a)) /\ accept(a).remote = a.remote
<1> USE AcceptorConstants
<1> DEFINE c == IF Kcp THEN get_conv(a) ELSE 0
           r == a.remote
           new == [remote |-> r, conv |-> c, open |-> TRUE]
           b == accept(a)
<1>1. a \in Shape /\ Sender(a) /\ Once(a) /\ (Kcp => Numbered(a))
  BY DEF Good, Book
<1>2. Kcp => c \in 1..MaxConv /\ a.convs[c] = None
  BY <1>1, GetConvFree
<1>3. c \in 0..MaxConv
  BY <1>2
<1> HIDE DEF c
<1>4. new \in Session
  BY <1>3 DEF Session
<1>5. /\ b = [a EXCEPT !.endpoints = [a.endpoints EXCEPT ![r] = @ + 1],
                      !.sessions = a.sessions \cup {new},
                      !.conv = IF Kcp THEN c ELSE a.conv,
                      !.convs = IF Kcp THEN [a.convs EXCEPT ![c] = r] ELSE a.convs]
  BY <1>1 DEF accept, c, Shape
<1>6. /\ b.rcv = a.rcv /\ b.inbox = a.inbox /\ b.remote = r
      /\ b.queue = a.queue /\ b.ended = a.ended
      /\ b.endpoints = [a.endpoints EXCEPT ![r] = @ + 1]
      /\ b.sessions = a.sessions \cup {new}
      /\ b.conv = (IF Kcp THEN c ELSE a.conv)
      /\ b.convs = IF Kcp THEN [a.convs EXCEPT ![c] = r] ELSE a.convs
  BY <1>1, <1>5 DEF Shape
<1>7. b \in Shape
  <2>1. b = [a EXCEPT !.endpoints = b.endpoints, !.sessions = b.sessions,
                      !.conv = b.conv, !.convs = b.convs]
    BY <1>5, <1>6
  <2>2. b.endpoints \in [Remotes -> Nat]
    BY <1>1, <1>6 DEF Shape
  <2>3. b.sessions \in SUBSET Session
    BY <1>1, <1>4, <1>6 DEF Shape
  <2>4. b.conv \in 0..MaxConv
    BY <1>1, <1>3, <1>6 DEF Shape
  <2>5. b.convs \in [1..MaxConv -> Remotes \cup {None}]
    <3>1. a.convs \in [1..MaxConv -> Remotes \cup {None}]
      BY <1>1 DEF Shape
    <3>2. CASE Kcp
      BY <1>6, <3>1, <3>2
    <3>3. CASE ~Kcp
      BY <1>6, <3>1, <3>3
    <3> QED BY <3>2, <3>3
  <2> HIDE DEF b
  <2> QED BY <1>1, <2>1, <2>2, <2>3, <2>4, <2>5 DEF Shape
<1>new. new.remote = r /\ new.conv = c
  OBVIOUS
<1> HIDE DEF b, new
<1>8. Sender(b)
  BY <1>1, <1>6 DEF Sender
<1>9. a.endpoints[r] = 0 /\ \A s \in a.sessions : s.remote # r
  BY <1>1 DEF is_accepted, Once, Shape
<1>10. Once(b)
  <2>1. \A s, t \in b.sessions : s.remote = t.remote => s = t
    BY <1>1, <1>6, <1>9, <1>new DEF Once
  <2>2. ASSUME NEW q \in Remotes
        PROVE  b.endpoints[q] = IF \E s \in b.sessions : s.remote = q THEN 1 ELSE 0
    <3>1. CASE q = r
      <4>1. b.endpoints[q] = 1
        BY <1>1, <1>6, <1>9, <3>1 DEF Shape
      <4>2. new \in b.sessions
        BY <1>6
      <4> QED BY <1>new, <3>1, <4>1, <4>2
    <3>2. CASE q # r
      <4>1. b.endpoints[q] = a.endpoints[q]
        BY <1>1, <1>6, <3>2 DEF Shape
      <4>2. (\E s \in b.sessions : s.remote = q) <=> (\E s \in a.sessions : s.remote = q)
        BY <1>6, <1>new, <3>2
      <4> QED BY <1>1, <4>1, <4>2 DEF Once
    <3> QED BY <3>1, <3>2
  <2> QED BY <2>1, <2>2 DEF Once
<1>11. ASSUME Kcp PROVE Numbered(b)
  <2>1. \A d \in 1..MaxConv : b.convs[d] = IF d = c THEN r ELSE a.convs[d]
    BY <1>1, <1>2, <1>6, <1>11 DEF Shape
  <2>2. ASSUME NEW s \in b.sessions
        PROVE  s.conv \in 1..MaxConv /\ b.convs[s.conv] = s.remote
    <3>1. CASE s = new
      BY <1>2, <1>11, <1>new, <2>1, <3>1
    <3>2. CASE s \in a.sessions
      <4>1. s.conv \in 1..MaxConv /\ a.convs[s.conv] = s.remote /\ s.remote \in Remotes
        BY <1>1, <1>11, <3>2 DEF Numbered, Shape, Session
      <4> QED BY <1>2, <1>11, <2>1, <4>1
    <3> QED BY <1>6, <3>1, <3>2
  <2>3. ASSUME NEW d \in 1..MaxConv, b.convs[d] # None
        PROVE  \E s \in b.sessions : s.conv = d /\ s.remote = b.convs[d]
    <3>1. CASE d = c
      BY <1>6, <1>new, <2>1, <3>1
    <3>2. CASE d # c
      BY <1>1, <1>6, <1>11, <2>1, <2>3, <3>2 DEF Numbered
    <3> QED BY <3>1, <3>2
  <2> QED BY <2>2, <2>3 DEF Numbered
<1> QED BY <1>6, <1>7, <1>8, <1>10, <1>11 DEF Good, Book, b

\* Starting a receive touches neither the sessions nor the books.
LEMMA DoAcceptGood ==
  ASSUME NEW a, Good(a)
  PROVE  Good(do_accept(a))
<1> DEFINE b == do_accept(a)
<1>1. a \in Shape /\ Sender(a) /\ Book(a)
  BY DEF Good
<1>2. CASE a.rcv = 0 /\ a.inbox # <<>>
  <2>1. b = [a EXCEPT !.remote = Head(a.inbox), !.inbox = Tail(a.inbox),
                      !.queue = Append(a.queue, "accept")]
    BY <1>1, <1>2 DEF do_accept, async_receive_from, Shape
  <2>2. a.inbox \in Seq(Remotes) /\ a.queue \in Seq(Ops)
    BY <1>1 DEF Shape
  <2>3. /\ Head(a.inbox) \in Remotes /\ Tail(a.inbox) \in Seq(Remotes)
        /\ Append(a.queue, "accept") \in Seq(Ops)
    BY <1>2, <2>2 DEF Ops
  <2>4. b \in Shape
    BY <1>1, <2>1, <2>3 DEF Shape
  <2>5. /\ b.remote \in Remotes /\ b.endpoints = a.endpoints
        /\ b.convs = a.convs /\ b.sessions = a.sessions
    BY <1>1, <2>1, <2>3 DEF Shape
  <2> QED BY <1>1, <2>4, <2>5 DEF Good, Book, Once, Numbered, Sender
<1>3. CASE ~(a.rcv = 0 /\ a.inbox # <<>>)
  <2>1. b = [a EXCEPT !.rcv = a.rcv + 1]
    BY <1>1, <1>3 DEF do_accept, async_receive_from, Shape
  <2>2. b \in Shape
    <3>1. a.rcv + 1 \in Nat
      BY <1>1 DEF Shape
    <3> QED BY <1>1, <2>1, <3>1 DEF Shape
  <2>3. /\ b.remote = a.remote /\ b.endpoints = a.endpoints
        /\ b.convs = a.convs /\ b.sessions = a.sessions /\ b.queue = a.queue
    BY <1>1, <2>1 DEF Shape
  <2> QED BY <1>1, <2>2, <2>3 DEF Good, Book, Once, Numbered, Sender
<1> QED BY <1>2, <1>3

LEMMA HandledGood ==
  ASSUME NEW a, Good(a), a.remote \in Remotes, NEW refused \in BOOLEAN,
         Handled(a, refused)
  PROVE  Good(ac')
<1>1. ac' = accept_handler(a, refused)
  BY DEF Handled
<1>2. CASE is_accepted(a, a.remote) \/ refused
  BY <1>1, <1>2, DoAcceptGood DEF accept_handler
<1>3. CASE ~is_accepted(a, a.remote) /\ ~refused
  <2>1. Good(accept(a))
    BY <1>3, AcceptGood DEF Handled
  <2> QED BY <1>1, <1>3, <2>1, DoAcceptGood DEF accept_handler
<1> QED BY <1>2, <1>3

\* Destroying a session keeps the books.
LEMMA CloseGood ==
  ASSUME NEW a, Good(a), NEW s \in a.sessions
  PROVE  Good(close(a, s))
<1> USE AcceptorConstants
<1> DEFINE b == close(a, s)
           r == s.remote
<1>1. a \in Shape /\ Sender(a) /\ Once(a) /\ (Kcp => Numbered(a))
  BY DEF Good, Book
<1>2. s \in Session /\ r \in Remotes
  BY <1>1 DEF Shape, Session
<1>3. a.endpoints[r] = 1 /\ \A t \in a.sessions : t.remote = r => t = s
  BY <1>1, <1>2 DEF Once
<1>4. b = [a EXCEPT !.sessions = a.sessions \ {s},
                    !.endpoints = [a.endpoints EXCEPT ![r] = IF @ > 0 THEN @ - 1 ELSE @],
                    !.convs = IF Kcp THEN [a.convs EXCEPT ![s.conv] = None] ELSE a.convs]
  BY <1>1 DEF close, Shape
<1>5. /\ b.remote = a.remote /\ b.queue = a.queue
      /\ b.sessions = a.sessions \ {s}
      /\ b.endpoints = [a.endpoints EXCEPT ![r] = IF @ > 0 THEN @ - 1 ELSE @]
      /\ b.convs = IF Kcp THEN [a.convs EXCEPT ![s.conv] = None] ELSE a.convs
  BY <1>1, <1>4 DEF Shape
<1>6. b.endpoints \in [Remotes -> Nat] /\ b.endpoints = [a.endpoints EXCEPT ![r] = 0]
  BY <1>1, <1>2, <1>3, <1>5 DEF Shape
<1>7. b.convs \in [1..MaxConv -> Remotes \cup {None}]
  <2>1. a.convs \in [1..MaxConv -> Remotes \cup {None}]
    BY <1>1 DEF Shape
  <2>2. CASE Kcp
    BY <1>5, <2>1, <2>2
  <2>3. CASE ~Kcp
    BY <1>5, <2>1, <2>3
  <2> QED BY <2>2, <2>3
<1>8. b \in Shape
  <2>1. b = [a EXCEPT !.sessions = b.sessions, !.endpoints = b.endpoints,
                      !.convs = b.convs]
    BY <1>4, <1>5
  <2>2. b.sessions \in SUBSET Session
    BY <1>1, <1>5 DEF Shape
  <2> HIDE DEF b
  <2> QED BY <1>1, <1>6, <1>7, <2>1, <2>2 DEF Shape
<1> HIDE DEF b
<1>9. Sender(b)
  BY <1>1, <1>5 DEF Sender
<1>10. Once(b)
  <2>1. ASSUME NEW q \in Remotes
        PROVE  b.endpoints[q] = IF \E t \in b.sessions : t.remote = q THEN 1 ELSE 0
    <3>1. CASE q = r
      <4>1. b.endpoints[q] = 0
        BY <1>1, <1>6, <3>1 DEF Shape
      <4>2. \A t \in b.sessions : t.remote # q
        BY <1>3, <1>5, <3>1
      <4> QED BY <4>1, <4>2
    <3>2. CASE q # r
      <4>1. b.endpoints[q] = a.endpoints[q]
        BY <1>1, <1>6, <3>2 DEF Shape
      <4>2. (\E t \in b.sessions : t.remote = q) <=> (\E t \in a.sessions : t.remote = q)
        BY <1>5, <3>2
      <4> QED BY <1>1, <4>1, <4>2 DEF Once
    <3> QED BY <3>1, <3>2
  <2> QED BY <1>1, <1>5, <2>1 DEF Once
<1>11. ASSUME Kcp PROVE Numbered(b)
  <2>1. s.conv \in 1..MaxConv /\ a.convs[s.conv] = r
    BY <1>1, <1>11 DEF Numbered
  <2>2. \A d \in 1..MaxConv : b.convs[d] = IF d = s.conv THEN None ELSE a.convs[d]
    BY <1>1, <1>5, <1>11, <2>1 DEF Shape
  <2>3. ASSUME NEW t \in b.sessions
        PROVE  t.conv \in 1..MaxConv /\ b.convs[t.conv] = t.remote
    <3>1. t \in a.sessions /\ t # s
      BY <1>5
    <3>2. t.conv \in 1..MaxConv /\ a.convs[t.conv] = t.remote
      BY <1>1, <1>11, <3>1 DEF Numbered
    <3>3. t.conv # s.conv
      BY <1>3, <2>1, <3>1, <3>2
    <3> QED BY <2>2, <3>2, <3>3
  <2>4. ASSUME NEW d \in 1..MaxConv, b.convs[d] # None
        PROVE  \E t \in b.sessions : t.conv = d /\ t.remote = b.convs[d]
    <3>1. d # s.conv /\ b.convs[d] = a.convs[d]
      BY <2>2, <2>4
    <3>2. PICK t \in a.sessions : t.conv = d /\ t.remote = a.convs[d]
      BY <1>1, <1>11, <2>4, <3>1 DEF Numbered
    <3> QED BY <1>5, <3>1, <3>2
  <2> QED BY <2>3, <2>4 DEF Numbered
<1> QED BY <1>8, <1>9, <1>10, <1>11 DEF Good, Book, b

\* Closing sockets changes no remote and no number.
LEMMA ClosedGood ==
  ASSUME NEW ss, Good(ac)
  PROVE  Good(Closed(ss))
<1> DEFINE b == Closed(ss)
           shut(s) == [s EXCEPT !.open = @ /\ s \notin ss]
<1>1. ac \in Shape /\ Sender(ac) /\ Once(ac) /\ (Kcp => Numbered(ac))
  BY DEF Good, Book
<1>2. b = [ac EXCEPT !.sessions = {shut(s) : s \in ac.sessions}]
  BY <1>1 DEF Closed, Shape
<1>3. \A s \in ac.sessions :
        shut(s) \in Session /\ shut(s).remote = s.remote /\ shut(s).conv = s.conv
  BY <1>1 DEF Shape, Session
<1> HIDE DEF shut
<1>4. /\ b.remote = ac.remote /\ b.queue = ac.queue
      /\ b.endpoints = ac.endpoints /\ b.convs = ac.convs
      /\ b.sessions = {shut(s) : s \in ac.sessions}
  BY <1>1, <1>2 DEF Shape
<1>5. b.sessions \in SUBSET Session
  BY <1>3, <1>4
<1>6. b \in Shape
  <2>1. b = [ac EXCEPT !.sessions = b.sessions]
    BY <1>2, <1>4
  <2> HIDE DEF b
  <2> QED BY <1>1, <1>5, <2>1 DEF Shape
<1> HIDE DEF b
<1>7. Sender(b)
  BY <1>1, <1>4 DEF Sender
<1>8. Once(b)
  <2>1. \A s, t \in b.sessions : s.remote = t.remote => s = t
    BY <1>1, <1>3, <1>4 DEF Once
  <2>2. \A r \in Remotes : (\E s \in b.sessions : s.remote = r)
                          <=> (\E s \in ac.sessions : s.remote = r)
    BY <1>3, <1>4
  <2> QED BY <1>1, <1>4, <2>1, <2>2 DEF Once
<1>9. ASSUME Kcp PROVE Numbered(b)
  <2>1. \A s \in b.sessions : s.conv \in 1..MaxConv /\ b.convs[s.conv] = s.remote
    BY <1>1, <1>3, <1>4, <1>9 DEF Numbered
  <2>2. ASSUME NEW c \in 1..MaxConv, b.convs[c] # None
        PROVE  \E s \in b.sessions : s.conv = c /\ s.remote = b.convs[c]
    <3>1. PICK s \in ac.sessions : s.conv = c /\ s.remote = ac.convs[c]
      BY <1>1, <1>4, <1>9, <2>2 DEF Numbered
    <3>2. shut(s) \in b.sessions
      BY <1>4
    <3> QED BY <1>3, <1>4, <3>1, <3>2
  <2> QED BY <2>1, <2>2 DEF Numbered
<1> QED BY <1>6, <1>7, <1>8, <1>9 DEF Good, Book, b

\* A step that changes only socket_ and its handlers keeps the books.
LEMMA FrameGood ==
  ASSUME NEW b, Good(ac), b \in Shape, Sender(b), b.sessions = ac.sessions,
         b.endpoints = ac.endpoints, b.convs = ac.convs
  PROVE  Good(b)
BY DEF Good, Book, Once, Numbered

LEMMA InitGood == Init => Inductive
<1> USE AcceptorConstants
<1> SUFFICES ASSUME Init PROVE Good(ac)
  BY DEF Inductive
<1>1. Fresh \in Shape
  BY DEF Fresh, Shape
<1>2. Good(Fresh)
  BY <1>1 DEF Good, Sender, Book, Once, Numbered, Fresh
<1> QED BY <1>2, DoAcceptGood DEF Init, listen

LEMMA NextGood == Inductive /\ [Next]_vars => Inductive'
<1> USE AcceptorConstants
<1> SUFFICES ASSUME Good(ac), [Next]_vars PROVE Good(ac')
  BY DEF Inductive, Good, Sender, Book, Once, Numbered
<1> DEFINE q == ac.queue
<1>1. ac \in Shape /\ Sender(ac)
  BY DEF Good
<1>2. /\ q \in Seq(Ops) /\ ac.inbox \in Seq(Remotes) /\ ac.rcv \in Nat
      /\ ac.ended \in Nat
  BY <1>1 DEF Shape
<1>3. ASSUME q # <<>> PROVE Good(Popped) /\ Popped.remote = ac.remote
                            /\ Popped.rcv = ac.rcv /\ Popped.inbox = ac.inbox
  <2>1. /\ Tail(q) \in Seq(Ops)
        /\ \A i \in DOMAIN Tail(q) : i + 1 \in DOMAIN q /\ Tail(q)[i] = q[i + 1]
    BY <1>2, <1>3, HeadTailProperties
  <2>2. Popped = [ac EXCEPT !.queue = Tail(q)]
    BY <1>1 DEF Popped, Shape
  <2>3. Popped \in Shape /\ Popped.queue = Tail(q) /\ Popped.remote = ac.remote
        /\ Popped.sessions = ac.sessions /\ Popped.endpoints = ac.endpoints
        /\ Popped.convs = ac.convs /\ Popped.rcv = ac.rcv /\ Popped.inbox = ac.inbox
    BY <1>1, <2>1, <2>2 DEF Shape
  <2>4. Sender(Popped)
    BY <1>1, <2>1, <2>3 DEF Sender
  <2> QED BY <2>3, <2>4, FrameGood
<1>push. ASSUME NEW op \in Ops, op # "accept", NEW b,
              b = [ac EXCEPT !.queue = Append(q, op)]
       PROVE  Good(b)
  <2>1. /\ Append(q, op) \in Seq(Ops) /\ Len(Append(q, op)) = Len(q) + 1
        /\ \A i \in 1..Len(q) : Append(q, op)[i] = q[i]
        /\ Append(q, op)[Len(q) + 1] = op
    BY <1>2, AppendProperties
  <2>2. /\ DOMAIN q = 1..Len(q) /\ Len(q) \in Nat
        /\ DOMAIN Append(q, op) = 1..(Len(q) + 1)
    BY <1>2, <2>1, LenProperties
  <2>3. b \in Shape /\ b.queue = Append(q, op) /\ b.remote = ac.remote
        /\ b.sessions = ac.sessions /\ b.endpoints = ac.endpoints
        /\ b.convs = ac.convs
    BY <1>1, <1>push, <2>1 DEF Shape
  <2>4. Sender(b)
    <3>1. ASSUME NEW i \in DOMAIN b.queue, b.queue[i] = "accept"
          PROVE  i \in DOMAIN q /\ q[i] = "accept"
      BY <1>push, <2>1, <2>2, <2>3, <3>1
    <3> QED BY <1>1, <2>3, <3>1 DEF Sender
  <2> QED BY <2>3, <2>4, FrameGood
<1>4. CASE EpollWait
  <2>1. ac' = [ac EXCEPT !.queue = Append(q, "event")]
    BY <1>1, <1>4 DEF EpollWait, Shape
  <2> QED BY <2>1, <1>push DEF Ops
<1>5. CASE PerformIO
  <2> DEFINE a == Popped
             n == IF a.rcv < Len(a.inbox) THEN a.rcv ELSE Len(a.inbox)
             more == [i \in 1..(n - 1) |-> "accept"]
             b == [a EXCEPT !.rcv = @ - n, !.remote = a.inbox[n],
                            !.inbox = SubSeq(@, n + 1, Len(@)),
                            !.queue = @ \o more]
  <2>1. q # <<>> /\ Good(a)
    BY <1>3, <1>5 DEF PerformIO, NextIs
  <2>2. PICK refused \in BOOLEAN : IF n = 0 THEN ac' = a ELSE Handled(b, refused)
    BY <1>5 DEF PerformIO
  <2>3. a \in Shape
    BY <2>1 DEF Good
  <2> HIDE DEF a
  <2>4. CASE n = 0
    BY <2>1, <2>2, <2>4
  <2>5. CASE n # 0
    <3>1. /\ a.rcv \in Nat /\ a.inbox \in Seq(Remotes) /\ a.queue \in Seq(Ops)
          /\ Len(a.inbox) \in Nat
      BY <2>3, LenProperties DEF Shape
    <3>2. n \in Nat /\ n \in 1..Len(a.inbox) /\ a.rcv - n \in Nat
      BY <2>5, <3>1
    <3> HIDE DEF n
    <3>3. a.inbox[n] \in Remotes
      BY <3>1, <3>2, ElementOfSeq
    <3>4. SubSeq(a.inbox, n + 1, Len(a.inbox)) \in Seq(Remotes)
      <4>1. \A i \in (n + 1)..Len(a.inbox) : a.inbox[i] \in Remotes
        BY <3>1, <3>2, ElementOfSeq
      <4> QED BY <3>1, <3>2, <4>1, SubSeqProperties
    <3>5. a.queue \o more \in Seq(Ops)
      <4>1. more \in [1..(n - 1) -> Ops] /\ n - 1 \in Nat
        BY <3>2 DEF Ops
      <4>2. more \in Seq(Ops)
        <5> HIDE DEF more
        <5> QED BY <4>1, SeqDef
      <4> HIDE DEF more
      <4> QED BY <3>1, <4>2, ConcatProperties
    <3> HIDE DEF more
    <3>6. b = [a EXCEPT !.rcv = a.rcv - n, !.remote = a.inbox[n],
                        !.inbox = SubSeq(a.inbox, n + 1, Len(a.inbox)),
                        !.queue = a.queue \o more]
      BY <2>3 DEF Shape
    <3>7. b \in Shape
      BY <2>3, <3>2, <3>3, <3>4, <3>5, <3>6 DEF Shape
    <3>8. /\ b.remote \in Remotes /\ b.sessions = a.sessions
          /\ b.endpoints = a.endpoints /\ b.convs = a.convs
      BY <2>3, <3>3, <3>6 DEF Shape
    <3> HIDE DEF b
    <3>9. Good(b)
      BY <2>1, <3>7, <3>8 DEF Good, Sender, Book, Once, Numbered
    <3> QED BY <2>2, <2>5, <3>8, <3>9, HandledGood
  <2> QED BY <2>4, <2>5
<1>6. CASE RunAccept
  <2>1. PICK refused \in BOOLEAN : Handled(Popped, refused)
    BY <1>6 DEF RunAccept
  <2>2. q # <<>> /\ q[1] = "accept" /\ 1 \in DOMAIN q
    BY <1>2, <1>6, HeadTailProperties DEF RunAccept, NextIs
  <2>3. ac.remote \in Remotes
    BY <1>1, <2>2 DEF Sender
  <2> QED BY <1>3, <2>1, <2>2, <2>3, HandledGood
<1>7. CASE ReceiveFails
  <2> DEFINE b == [ac EXCEPT !.queue = Append(q, "failed")]
  <2>1. ac.rcv - 1 \in Nat
    BY <1>2, <1>7 DEF ReceiveFails
  <2>2. Good(b)
    BY <1>push DEF Ops
  <2>3. b \in Shape /\ Sender(b)
    BY <2>2 DEF Good
  <2>4. ac' = [b EXCEPT !.rcv = ac.rcv - 1]
    BY <1>1, <1>7 DEF ReceiveFails, Shape
  <2>5. /\ b.sessions = ac.sessions /\ b.endpoints = ac.endpoints
        /\ b.convs = ac.convs
    BY <1>1 DEF Shape
  <2> HIDE DEF b
  <2>6. ac' \in Shape /\ ac'.queue = b.queue /\ ac'.remote = b.remote
        /\ ac'.sessions = ac.sessions /\ ac'.endpoints = ac.endpoints
        /\ ac'.convs = ac.convs
    BY <2>1, <2>3, <2>4, <2>5 DEF Shape
  <2>7. Sender(ac')
    BY <2>3, <2>6 DEF Sender
  <2> QED BY <2>6, <2>7, FrameGood
<1>8. CASE RunFailed
  <2> DEFINE a == Popped
  <2>1. q # <<>> /\ Good(a)
    BY <1>3, <1>8 DEF RunFailed, NextIs
  <2>2. ac' = [a EXCEPT !.ended = @ + 1]
    BY <1>8 DEF RunFailed
  <2>3. a \in Shape /\ Sender(a)
    BY <2>1 DEF Good
  <2> HIDE DEF a
  <2>4. a.ended + 1 \in Nat
    BY <2>3 DEF Shape
  <2>5. ac' \in Shape /\ ac'.queue = a.queue /\ ac'.remote = a.remote
        /\ ac'.sessions = a.sessions /\ ac'.endpoints = a.endpoints
        /\ ac'.convs = a.convs
    BY <2>2, <2>3, <2>4 DEF Shape
  <2> QED BY <2>1, <2>3, <2>5 DEF Good, Sender, Book, Once, Numbered
<1>9. CASE DatagramArrives
  <2>1. PICK r \in Remotes : ac' = [ac EXCEPT !.inbox = Append(ac.inbox, r)]
    BY <1>1, <1>9 DEF DatagramArrives, Shape
  <2>2. Append(ac.inbox, r) \in Seq(Remotes)
    BY <1>2, AppendProperties
  <2>3. ac' \in Shape /\ ac'.queue = ac.queue /\ ac'.remote = ac.remote
        /\ ac'.sessions = ac.sessions /\ ac'.endpoints = ac.endpoints
        /\ ac'.convs = ac.convs
    BY <1>1, <2>1, <2>2 DEF Shape
  <2>4. Sender(ac')
    BY <1>1, <2>3 DEF Sender
  <2> QED BY <2>3, <2>4, FrameGood
<1>10. CASE SessionCloses
  BY <1>10, ClosedGood DEF SessionCloses
<1>11. CASE OnTime
  BY <1>11, ClosedGood DEF OnTime
<1>12. CASE SessionDestroyed
  BY <1>12, CloseGood DEF SessionDestroyed
<1>13. CASE UNCHANGED vars
  BY <1>13 DEF vars
<1> QED BY <1>4, <1>5, <1>6, <1>7, <1>8, <1>9, <1>10, <1>11, <1>12, <1>13 DEF Next

LEMMA InductiveHolds == Spec => []Inductive
BY InitGood, NextGood, PTL DEF Spec

\* No remote ever has two sessions, and remote_endpoints_ names exactly those
\* that have one, for udp::acceptor and kcp::acceptor alike: sharing
\* remote_endpoint_ between two receives may miss a remote but never breaks
\* the books.
THEOREM OneSessionHolds == Spec => []OneSession
<1>1. Inductive => OneSession
  BY DEF Inductive, Good, Book, Once, OneSession
<1> QED BY <1>1, InductiveHolds, PTL

\* convs_ and the sessions of kcp::acceptor agree, and no conversation number
\* is given twice, for every width of the counter.
THEOREM ConvUniqueHolds == ASSUME Kcp PROVE Spec => []ConvUnique
<1>1. Inductive => ConvUnique
  BY DEF Inductive, Good, Book, Numbered, ConvUnique
<1> QED BY <1>1, InductiveHolds, PTL

-----------------------------------------------------------------------------
(* The receives.  A second inductive invariant counts them: Total is what  *)
(* listen() started, less the one whose handler is running.                *)

Places(q, op) == {i \in DOMAIN q : q[i] = op}
Num(q, op) == Cardinality(Places(q, op))

Total(a) == a.rcv + Num(a.queue, "accept") + Num(a.queue, "failed") + a.ended

LEMMA NumType ==
  ASSUME NEW q \in Seq(Ops), NEW op
  PROVE  IsFiniteSet(Places(q, op)) /\ Num(q, op) \in Nat
<1>1. Len(q) \in Nat /\ DOMAIN q = 1..Len(q)
  BY LenProperties
<1>2. IsFiniteSet(1..Len(q))
  BY <1>1, FS_Interval
<1>3. Places(q, op) \subseteq 1..Len(q)
  BY <1>1 DEF Places
<1>4. IsFiniteSet(Places(q, op))
  BY <1>2, <1>3, FS_Subset
<1> QED BY <1>4, FS_CardinalityType DEF Num

\* A handler that is queued counts once, under its own kind.
LEMMA NumAppend ==
  ASSUME NEW q \in Seq(Ops), NEW x \in Ops, NEW op
  PROVE  Num(Append(q, x), op) = IF x = op THEN Num(q, op) + 1 ELSE Num(q, op)
<1> DEFINE p == Append(q, x)
           n == Len(q)
<1>1. /\ n \in Nat /\ DOMAIN q = 1..n /\ DOMAIN p = 1..(n + 1)
      /\ \A i \in 1..n : p[i] = q[i]
      /\ p[n + 1] = x
  BY LenProperties, AppendProperties
<1> HIDE DEF p, n
<1>2. \A i : i \in 1..(n + 1) <=> i \in 1..n \/ i = n + 1
  BY <1>1
<1>3. n + 1 \notin 1..n
  BY <1>1
<1>4. CASE x = op
  <2>1. Places(p, op) = Places(q, op) \cup {n + 1}
    BY <1>1, <1>2, <1>4 DEF Places
  <2>2. n + 1 \notin Places(q, op)
    BY <1>1, <1>3 DEF Places
  <2>3. IsFiniteSet(Places(q, op))
    BY NumType
  <2>4. Cardinality(Places(q, op) \cup {n + 1}) = Cardinality(Places(q, op)) + 1
    BY <2>2, <2>3, FS_AddElement
  <2> QED BY <1>4, <2>1, <2>4 DEF Num, p
<1>5. CASE x # op
  <2>1. Places(p, op) = Places(q, op)
    BY <1>1, <1>2, <1>5 DEF Places
  <2> QED BY <1>5, <2>1 DEF Num, p
<1> QED BY <1>4, <1>5

\* A handler that leaves the queue is counted no more.
LEMMA NumTail ==
  ASSUME NEW q \in Seq(Ops), q # <<>>, NEW op
  PROVE  Num(q, op) = IF Head(q) = op THEN Num(Tail(q), op) + 1
                      ELSE Num(Tail(q), op)
<1> DEFINE p == Tail(q)
           n == Len(p)
           next(i) == i + 1
           P == Places(p, op)
           S == {next(i) : i \in P}
           f == [i \in P |-> next(i)]
<1>1. /\ p \in Seq(Ops) /\ n \in Nat /\ DOMAIN p = 1..n /\ DOMAIN q = 1..(n + 1)
      /\ \A i \in 1..n : p[i] = q[i + 1]
      /\ Head(q) = q[1]
  BY LenProperties, HeadTailProperties
<1> HIDE DEF p, n
<1>2. P \subseteq Nat
  BY <1>1 DEF Places
<1>3. S = {j \in 2..(n + 1) : q[j] = op}
  <2>1. ASSUME NEW j \in S PROVE j \in 2..(n + 1) /\ q[j] = op
    <3>1. PICK i \in P : j = i + 1
      OBVIOUS
    <3>2. i \in 1..n /\ p[i] = op
      BY <1>1 DEF Places
    <3> QED BY <1>1, <3>1, <3>2
  <2>2. ASSUME NEW j \in 2..(n + 1), q[j] = op PROVE j \in S
    <3> DEFINE i == j - 1
    <3>1. i \in 1..n /\ j = i + 1
      BY <1>1
    <3>2. p[i] = q[i + 1]
      BY <1>1, <3>1
    <3> HIDE DEF i
    <3>3. i \in P
      BY <1>1, <2>2, <3>1, <3>2 DEF Places
    <3> QED BY <3>1, <3>3
  <2> QED BY <2>1, <2>2
<1>4. IsFiniteSet(P) /\ Cardinality(P) = Num(p, op) /\ Num(p, op) \in Nat
  BY <1>1, NumType DEF Num
<1>5. f \in Bijection(P, S)
  <2> HIDE DEF P
  <2>1. f \in Injection(P, S)
    BY <1>2 DEF Injection, IsInjective
  <2>2. f \in Surjection(P, S)
    BY DEF Surjection
  <2> QED BY <2>1, <2>2 DEF Bijection
<1>6. IsFiniteSet(S) /\ Cardinality(S) = Num(p, op)
  <2> HIDE DEF S, P, f
  <2>1. ExistsBijection(P, S)
    BY <1>5 DEF ExistsBijection
  <2>2. IsFiniteSet(S) /\ Cardinality(S) = Cardinality(P)
    BY <1>4, <2>1, FS_Bijection
  <2> QED BY <1>4, <2>2
<1> HIDE DEF S, f, P
<1>7. \A j : j \in 1..(n + 1) <=> j = 1 \/ j \in 2..(n + 1)
  BY <1>1
<1>8. 1 \notin S
  BY <1>3
<1>9. CASE Head(q) = op
  <2>1. Places(q, op) = S \cup {1}
    BY <1>1, <1>3, <1>7, <1>9 DEF Places
  <2>2. Cardinality(S \cup {1}) = Cardinality(S) + 1
    BY <1>6, <1>8, FS_AddElement
  <2> QED BY <1>6, <1>9, <2>1, <2>2 DEF Num, p
<1>10. CASE Head(q) # op
  <2>1. Places(q, op) = S
    BY <1>1, <1>3, <1>7, <1>10 DEF Places
  <2> QED BY <1>6, <1>10, <2>1 DEF Num, p
<1> QED BY <1>9, <1>10

\* perform_io queues k handlers at once.
LEMMA NumBlock ==
  ASSUME NEW q \in Seq(Ops), NEW k \in Nat, NEW m, m = [i \in 1..k |-> "accept"]
  PROVE  /\ q \o m \in Seq(Ops)
         /\ Num(q \o m, "accept") = Num(q, "accept") + k
         /\ Num(q \o m, "failed") = Num(q, "failed")
<1> DEFINE p == q \o m
           n == Len(q)
           T == (n + 1)..(n + k)
<1>1. m \in Seq(Ops) /\ Len(m) = k /\ \A i \in 1..k : m[i] = "accept"
  <2>1. m \in [1..k -> Ops]
    BY DEF Ops
  <2>2. m \in Seq(Ops)
    BY <2>1, SeqDef
  <2> QED BY <2>2, LenProperties
<1>2. n \in Nat /\ DOMAIN q = 1..n
  BY LenProperties
<1>3. /\ p \in Seq(Ops) /\ Len(p) = n + k
      /\ \A i \in 1..(n + k) : p[i] = IF i <= n THEN q[i] ELSE m[i - n]
  BY <1>1, ConcatProperties
<1>4. DOMAIN p = 1..(n + k)
  BY <1>2, <1>3, LenProperties
<1> HIDE DEF p, n
<1>5. \A i \in 1..n : i \in 1..(n + k) /\ p[i] = q[i]
  BY <1>2, <1>3
<1>6. \A i \in T : i \in 1..(n + k) /\ p[i] = "accept"
  <2> SUFFICES ASSUME NEW i \in T PROVE i \in 1..(n + k) /\ p[i] = "accept"
    OBVIOUS
  <2>1. i \in 1..(n + k) /\ ~(i <= n) /\ i - n \in 1..k
    BY <1>2
  <2> QED BY <1>1, <1>3, <2>1
<1>7. \A i : i \in 1..(n + k) <=> i \in 1..n \/ i \in T
  BY <1>2
<1>8. IsFiniteSet(T) /\ Cardinality(T) = k
  <2>1. n + 1 \in Int /\ n + k \in Int /\ (n + k) - (n + 1) + 1 = k
    BY <1>2
  <2>2. n + 1 > n + k => k = 0
    BY <1>2
  <2> QED BY <2>1, <2>2, FS_Interval
<1>9. \A i \in T : i \notin 1..n
  BY <1>2
<1> HIDE DEF T
<1>10. Places(p, "accept") = Places(q, "accept") \cup T
  BY <1>2, <1>4, <1>5, <1>6, <1>7 DEF Places
<1>11. Places(p, "failed") = Places(q, "failed")
  BY <1>2, <1>4, <1>5, <1>6, <1>7 DEF Places
<1>12. Places(q, "accept") \cap T = {}
  BY <1>2, <1>9 DEF Places
<1>13. IsFiniteSet(Places(q, "accept")) /\ Num(q, "accept") \in Nat
  BY NumType
<1> DEFINE P == Places(q, "accept")
           u == Num(q, "accept")
<1> HIDE DEF P, u
<1>14. Cardinality(P \cup T) = u + k
  <2>1. Cardinality(P \cup T) = Cardinality(P) + Cardinality(T) - Cardinality(P \cap T)
    BY <1>8, <1>13, FS_Union DEF P
  <2>2. Cardinality(P \cap T) = 0
    BY <1>12, FS_EmptySet DEF P
  <2>3. Cardinality(P) = u /\ u \in Nat
    BY <1>13 DEF P, u, Num
  <2> QED BY <1>8, <2>1, <2>2, <2>3
<1>15. Num(p, "accept") = u + k
  BY <1>10, <1>14 DEF Num, P
<1> QED BY <1>3, <1>11, <1>15 DEF Num, p, u
LEMMA TotalType ==
  ASSUME NEW a \in Shape
  PROVE  /\ a.rcv \in Nat /\ a.ended \in Nat /\ a.queue \in Seq(Ops)
         /\ Num(a.queue, "accept") \in Nat /\ Num(a.queue, "failed") \in Nat
         /\ Total(a) \in Nat
<1>1. a.rcv \in Nat /\ a.ended \in Nat /\ a.queue \in Seq(Ops)
  BY DEF Shape
<1>2. Num(a.queue, "accept") \in Nat /\ Num(a.queue, "failed") \in Nat
  BY <1>1, NumType
<1> QED BY <1>1, <1>2 DEF Total

\* One more in one of the four places is one more in all.
LEMMA PlusOne ==
  ASSUME NEW r \in Nat, NEW u \in Nat, NEW v \in Nat, NEW e \in Nat
  PROVE  /\ (r + 1) + u + v + e = (r + u + v + e) + 1
         /\ r + (u + 1) + v + e = (r + u + v + e) + 1
         /\ r + u + (v + 1) + e = (r + u + v + e) + 1
         /\ r + u + v + (e + 1) = (r + u + v + e) + 1
         /\ r + u + v + e \in Nat
OBVIOUS

\* do_accept starts one receive, whether it waits or completes at once.
LEMMA DoAcceptTotal ==
  ASSUME NEW a \in Shape
  PROVE  Total(do_accept(a)) = Total(a) + 1
<1> DEFINE b == do_accept(a)
<1>1. CASE a.rcv = 0 /\ a.inbox # <<>>
  <2>1. b = [a EXCEPT !.remote = Head(a.inbox), !.inbox = Tail(a.inbox),
                      !.queue = Append(a.queue, "accept")]
    BY <1>1 DEF do_accept, async_receive_from, Shape
  <2>2. b.rcv = a.rcv /\ b.ended = a.ended /\ b.queue = Append(a.queue, "accept")
    BY <2>1 DEF Shape
  <2> HIDE DEF b
  <2>3. /\ Num(b.queue, "accept") = Num(a.queue, "accept") + 1
        /\ Num(b.queue, "failed") = Num(a.queue, "failed")
    BY <2>2, TotalType, NumAppend DEF Ops
  <2> DEFINE u == Num(a.queue, "accept")
             v == Num(a.queue, "failed")
  <2>4. Total(b) = a.rcv + (u + 1) + v + a.ended /\ Total(a) = a.rcv + u + v + a.ended
    BY <2>2, <2>3 DEF Total
  <2>5. a.rcv \in Nat /\ u \in Nat /\ v \in Nat /\ a.ended \in Nat
    BY TotalType
  <2> HIDE DEF u, v
  <2>6. Total(b) = Total(a) + 1
    BY <2>4, <2>5, PlusOne
  <2> QED BY <2>6 DEF b
<1>2. CASE ~(a.rcv = 0 /\ a.inbox # <<>>)
  <2>1. b = [a EXCEPT !.rcv = a.rcv + 1]
    BY <1>2 DEF do_accept, async_receive_from, Shape
  <2>2. b.rcv = a.rcv + 1 /\ b.ended = a.ended /\ b.queue = a.queue
    BY <2>1 DEF Shape
  <2> HIDE DEF b
  <2>3. Total(b) = Total(a) + 1
    BY <2>2, TotalType DEF Total
  <2> QED BY <2>3 DEF b
<1> QED BY <1>1, <1>2

\* The handler ends in exactly one do_accept: a remote that is known, a
\* connect that fails and a new session all keep the receive going.
LEMMA HandledTotal ==
  ASSUME NEW a, Good(a), a.remote \in Remotes, NEW refused \in BOOLEAN,
         Handled(a, refused)
  PROVE  Total(ac') = Total(a) + 1
<1>1. ac' = accept_handler(a, refused) /\ a \in Shape
  BY DEF Handled, Good
<1>2. CASE is_accepted(a, a.remote) \/ refused
  BY <1>1, <1>2, DoAcceptTotal DEF accept_handler
<1>3. CASE ~is_accepted(a, a.remote) /\ ~refused
  <2> DEFINE b == accept(a)
  <2>1. Good(b)
    BY <1>3, AcceptGood DEF Handled
  <2>2. b \in Shape
    BY <2>1 DEF Good
  <2>3. b.rcv = a.rcv /\ b.ended = a.ended /\ b.queue = a.queue
    BY <1>1 DEF accept, Shape
  <2>4. ac' = do_accept(b)
    BY <1>1, <1>3 DEF accept_handler
  <2> HIDE DEF b
  <2>5. Total(b) = Total(a)
    BY <2>3 DEF Total
  <2> QED BY <2>2, <2>4, <2>5, DoAcceptTotal
<1> QED BY <1>2, <1>3

Counted == Total(ac) = Receives

LEMMA InitCounted == Init => Counted
<1> USE AcceptorConstants
<1> SUFFICES ASSUME Init PROVE Counted
  OBVIOUS
<1>1. Good(Fresh)
  BY DEF Good, Sender, Book, Once, Numbered, Fresh, Shape
<1>2. Fresh.rcv = 0 /\ Fresh.ended = 0 /\ Fresh.queue = <<>>
  BY DEF Fresh
<1>3. Num(<<>>, "accept") = 0 /\ Num(<<>>, "failed") = 0
  <2>1. Places(<<>>, "accept") = {} /\ Places(<<>>, "failed") = {}
    BY DEF Places
  <2> QED BY <2>1, FS_EmptySet DEF Num
<1>4. Total(Fresh) = 0
  BY <1>2, <1>3 DEF Total
<1>5. Good(do_accept(Fresh))
  BY <1>1, DoAcceptGood
<1>6. Fresh \in Shape /\ do_accept(Fresh) \in Shape
  BY <1>1, <1>5 DEF Good
<1>7. Total(do_accept(Fresh)) = 1 /\ Total(do_accept(do_accept(Fresh))) = 2
  BY <1>4, <1>6, DoAcceptTotal
<1> QED BY <1>7 DEF Init, listen, Counted, Receives

LEMMA NextCounted == Inductive /\ Counted /\ [Next]_vars => Counted'
<1> USE AcceptorConstants
<1> SUFFICES ASSUME Good(ac), Total(ac) = Receives, [Next]_vars
             PROVE  Total(ac') = Receives
  BY DEF Inductive, Counted, Total, Num, Places, Receives
<1> DEFINE q == ac.queue
<1>1. ac \in Shape
  BY DEF Good
<1>2. q \in Seq(Ops) /\ ac.rcv \in Nat /\ ac.ended \in Nat
  BY <1>1 DEF Shape
<1>rec. Receives \in Nat
  BY DEF Receives
<1>same. ASSUME NEW b, b.rcv = ac.rcv, b.ended = ac.ended, b.queue = q
         PROVE  Total(b) = Receives
  BY <1>same DEF Total
<1>pop. ASSUME q # <<>>
        PROVE  /\ Popped \in Shape
               /\ Popped.rcv = ac.rcv /\ Popped.ended = ac.ended
               /\ Popped.queue = Tail(q) /\ Popped.remote = ac.remote
               /\ Popped.sessions = ac.sessions /\ Popped.endpoints = ac.endpoints
               /\ Popped.convs = ac.convs
               /\ Head(q) = "event" => Total(Popped) = Receives
               /\ Head(q) # "event" => Total(Popped) + 1 = Receives
  <2>1. Tail(q) \in Seq(Ops) /\ Head(q) \in Ops
    BY <1>2, <1>pop, HeadTailProperties
  <2>2. Popped = [ac EXCEPT !.queue = Tail(q)]
    BY <1>1 DEF Popped, Shape
  <2>3. /\ Popped \in Shape
        /\ Popped.rcv = ac.rcv /\ Popped.ended = ac.ended
        /\ Popped.queue = Tail(q) /\ Popped.remote = ac.remote
        /\ Popped.sessions = ac.sessions /\ Popped.endpoints = ac.endpoints
        /\ Popped.convs = ac.convs
    BY <1>1, <2>1, <2>2 DEF Shape
  <2> DEFINE A == Num(q, "accept")
             F == Num(q, "failed")
             A1 == Num(Tail(q), "accept")
             F1 == Num(Tail(q), "failed")
  <2>4. /\ A = (IF Head(q) = "accept" THEN A1 + 1 ELSE A1)
        /\ F = (IF Head(q) = "failed" THEN F1 + 1 ELSE F1)
    BY <1>2, <1>pop, NumTail
  <2>5. A1 \in Nat /\ F1 \in Nat
    BY <2>1, NumType
  <2>6. Total(ac) = ac.rcv + A + F + ac.ended
    BY DEF Total
  <2>7. Total(Popped) = ac.rcv + A1 + F1 + ac.ended
    BY <2>3 DEF Total
  <2> HIDE DEF A, F, A1, F1
  <2>8. Head(q) = "event" \/ Head(q) = "accept" \/ Head(q) = "failed"
    BY <2>1 DEF Ops
  <2>9. /\ Head(q) = "event" => Total(Popped) = Receives
        /\ Head(q) # "event" => Total(Popped) + 1 = Receives
    <3>1. CASE Head(q) = "event"
      BY <2>4, <2>6, <2>7, <3>1
    <3>2. CASE Head(q) = "accept"
      <4>1. A = A1 + 1 /\ F = F1
        BY <2>4, <3>2
      <4>2. ac.rcv + (A1 + 1) + F1 + ac.ended = (ac.rcv + A1 + F1 + ac.ended) + 1
        BY <1>2, <2>5, PlusOne
      <4>3. Total(ac) = Total(Popped) + 1
        BY <2>6, <2>7, <4>1, <4>2
      <4> QED BY <3>2, <4>3
    <3>3. CASE Head(q) = "failed"
      <4>1. A = A1 /\ F = F1 + 1
        BY <2>4, <3>3
      <4>2. ac.rcv + A1 + (F1 + 1) + ac.ended = (ac.rcv + A1 + F1 + ac.ended) + 1
        <5> DEFINE r == ac.rcv
                   e == ac.ended
        <5>1. r \in Nat /\ e \in Nat
          BY <1>2
        <5> HIDE DEF r, e
        <5>2. r + A1 + (F1 + 1) + e = (r + A1 + F1 + e) + 1
          BY <2>5, <5>1
        <5> QED BY <5>2 DEF r, e
      <4>3. Total(ac) = Total(Popped) + 1
        BY <2>6, <2>7, <4>1, <4>2
      <4> QED BY <3>3, <4>3
    <3> QED BY <2>8, <3>1, <3>2, <3>3
  <2> QED BY <2>3, <2>9
<1>popgood. ASSUME q # <<>> PROVE Good(Popped)
  <2>1. \A i \in DOMAIN Tail(q) : i + 1 \in DOMAIN q /\ Tail(q)[i] = q[i + 1]
    BY <1>2, <1>popgood, HeadTailProperties
  <2>2. Sender(Popped)
    BY <1>pop, <1>popgood, <2>1 DEF Sender, Good
  <2> QED BY <1>pop, <1>popgood, <2>2, FrameGood
<1>4. CASE EpollWait
  <2>1. ac' = [ac EXCEPT !.queue = Append(q, "event")]
    BY <1>1, <1>4 DEF EpollWait, Shape
  <2>2. /\ ac'.rcv = ac.rcv /\ ac'.ended = ac.ended
        /\ ac'.queue = Append(q, "event")
    BY <1>1, <2>1 DEF Shape
  <2>3. /\ Num(ac'.queue, "accept") = Num(q, "accept")
        /\ Num(ac'.queue, "failed") = Num(q, "failed")
    BY <1>2, <2>2, NumAppend DEF Ops
  <2> QED BY <2>2, <2>3 DEF Total
<1>5. CASE PerformIO
  <2> DEFINE a == Popped
             n == IF a.rcv < Len(a.inbox) THEN a.rcv ELSE Len(a.inbox)
             more == [i \in 1..(n - 1) |-> "accept"]
             b == [a EXCEPT !.rcv = @ - n, !.remote = a.inbox[n],
                            !.inbox = SubSeq(@, n + 1, Len(@)),
                            !.queue = @ \o more]
  <2>1. q # <<>> /\ Head(q) = "event"
    BY <1>5 DEF PerformIO, NextIs
  <2>2. PICK refused \in BOOLEAN : IF n = 0 THEN ac' = a ELSE Handled(b, refused)
    BY <1>5 DEF PerformIO
  <2>3. a \in Shape /\ Good(a) /\ Total(a) = Receives
    BY <1>pop, <1>popgood, <2>1
  <2> HIDE DEF a
  <2>4. CASE n = 0
    BY <2>2, <2>3, <2>4
  <2>5. CASE n # 0
    <3>1. /\ a.rcv \in Nat /\ a.inbox \in Seq(Remotes) /\ a.queue \in Seq(Ops)
          /\ Len(a.inbox) \in Nat /\ a.ended \in Nat
      BY <2>3, LenProperties DEF Shape
    <3>2. n \in Nat /\ n \in 1..Len(a.inbox) /\ a.rcv - n \in Nat /\ n - 1 \in Nat
      BY <2>5, <3>1
    <3> HIDE DEF n
    <3>3. a.inbox[n] \in Remotes
      BY <3>1, <3>2, ElementOfSeq
    <3>4. SubSeq(a.inbox, n + 1, Len(a.inbox)) \in Seq(Remotes)
      <4>1. \A i \in (n + 1)..Len(a.inbox) : a.inbox[i] \in Remotes
        BY <3>1, <3>2, ElementOfSeq
      <4> QED BY <3>1, <3>2, <4>1, SubSeqProperties
    <3> DEFINE k == n - 1
               c == a.queue \o more
    <3>5. /\ c \in Seq(Ops)
          /\ Num(c, "accept") = Num(a.queue, "accept") + k
          /\ Num(c, "failed") = Num(a.queue, "failed")
      BY <3>1, <3>2, NumBlock
    <3>6. b = [a EXCEPT !.rcv = a.rcv - n, !.remote = a.inbox[n],
                        !.inbox = SubSeq(a.inbox, n + 1, Len(a.inbox)),
                        !.queue = c]
      BY <2>3 DEF Shape
    <3> HIDE DEF c, more
    <3>7. b \in Shape
      BY <2>3, <3>2, <3>3, <3>4, <3>5, <3>6 DEF Shape
    <3>8. /\ b.remote \in Remotes /\ b.sessions = a.sessions
          /\ b.endpoints = a.endpoints /\ b.convs = a.convs
          /\ b.rcv = a.rcv - n /\ b.ended = a.ended /\ b.queue = c
      BY <2>3, <3>3, <3>6 DEF Shape
    <3> HIDE DEF b
    <3>9. Good(b)
      BY <2>3, <3>7, <3>8 DEF Good, Sender, Book, Once, Numbered
    <3>10. Total(b) + 1 = Receives
      <4>1. Num(a.queue, "accept") \in Nat /\ Num(a.queue, "failed") \in Nat
        BY <3>1, NumType
      <4> DEFINE u == Num(a.queue, "accept")
                 v == Num(a.queue, "failed")
      <4>2. Total(b) = (a.rcv - n) + (u + k) + v + a.ended
        BY <3>5, <3>8 DEF Total
      <4>3. Total(a) = a.rcv + u + v + a.ended
        BY DEF Total
      <4> HIDE DEF u, v
      <4>4. u \in Nat /\ v \in Nat
        BY <4>1 DEF u, v
      <4>5. ((a.rcv - n) + (u + k) + v + a.ended) + 1 = a.rcv + u + v + a.ended
        BY <3>1, <3>2, <4>4
      <4> QED BY <2>3, <4>2, <4>3, <4>5
    <3>11. Total(ac') = Total(b) + 1
      BY <2>2, <2>5, <3>8, <3>9, HandledTotal
    <3> QED BY <3>10, <3>11
  <2> QED BY <2>4, <2>5
<1>6. CASE RunAccept
  <2>1. PICK refused \in BOOLEAN : Handled(Popped, refused)
    BY <1>6 DEF RunAccept
  <2>2. q # <<>> /\ Head(q) = "accept" /\ q[1] = "accept" /\ 1 \in DOMAIN q
    BY <1>2, <1>6, HeadTailProperties DEF RunAccept, NextIs
  <2>3. Popped.remote \in Remotes /\ Good(Popped) /\ Total(Popped) + 1 = Receives
    BY <1>pop, <1>popgood, <2>2 DEF Sender, Good
  <2>4. Total(ac') = Total(Popped) + 1
    BY <2>1, <2>3, HandledTotal
  <2> QED BY <2>3, <2>4
<1>7. CASE ReceiveFails
  <2>1. ac' = [ac EXCEPT !.rcv = ac.rcv - 1, !.queue = Append(q, "failed")]
    BY <1>1, <1>7 DEF ReceiveFails, Shape
  <2>2. /\ ac'.rcv = ac.rcv - 1 /\ ac'.ended = ac.ended
        /\ ac'.queue = Append(q, "failed")
    BY <1>1, <2>1 DEF Shape
  <2>3. /\ Num(ac'.queue, "accept") = Num(q, "accept")
        /\ Num(ac'.queue, "failed") = Num(q, "failed") + 1
    BY <1>2, <2>2, NumAppend DEF Ops
  <2>4. Num(q, "accept") \in Nat /\ Num(q, "failed") \in Nat
    BY <1>2, NumType
  <2> DEFINE r == ac.rcv - 1
  <2>5. r \in Nat /\ ac.rcv = r + 1
    BY <1>2, <1>7 DEF ReceiveFails
  <2> HIDE DEF r
  <2>6. ac'.rcv = r
    BY <2>2 DEF r
  <2> QED BY <1>2, <2>2, <2>3, <2>4, <2>5, <2>6, PlusOne DEF Total
<1>8. CASE RunFailed
  <2> DEFINE a == Popped
  <2>1. q # <<>> /\ Head(q) = "failed"
    BY <1>8 DEF RunFailed, NextIs
  <2>2. ac' = [a EXCEPT !.ended = @ + 1]
    BY <1>8 DEF RunFailed
  <2>3. a \in Shape /\ Total(a) + 1 = Receives
    BY <1>pop, <2>1
  <2> HIDE DEF a
  <2>4. ac'.rcv = a.rcv /\ ac'.ended = a.ended + 1 /\ ac'.queue = a.queue
    BY <2>2, <2>3 DEF Shape
  <2> DEFINE u == Num(a.queue, "accept")
             v == Num(a.queue, "failed")
  <2>5. Total(ac') = a.rcv + u + v + (a.ended + 1) /\ Total(a) = a.rcv + u + v + a.ended
    BY <2>4 DEF Total
  <2>6. a.rcv \in Nat /\ u \in Nat /\ v \in Nat /\ a.ended \in Nat
    BY <2>3, TotalType
  <2> HIDE DEF u, v
  <2> QED BY <2>3, <2>5, <2>6, PlusOne
<1>9. CASE DatagramArrives
  <2>1. PICK r \in Remotes : ac' = [ac EXCEPT !.inbox = Append(ac.inbox, r)]
    BY <1>1, <1>9 DEF DatagramArrives, Shape
  <2>2. ac'.rcv = ac.rcv /\ ac'.ended = ac.ended /\ ac'.queue = q
    BY <1>1, <2>1 DEF Shape
  <2> QED BY <1>same, <2>2
<1>closed. ASSUME NEW ss, ac' = Closed(ss) PROVE Total(ac') = Receives
  <2>1. ac'.rcv = ac.rcv /\ ac'.ended = ac.ended /\ ac'.queue = q
    BY <1>1, <1>closed DEF Closed, Shape
  <2> QED BY <1>same, <2>1
<1>10. CASE SessionCloses
  BY <1>10, <1>closed DEF SessionCloses
<1>11. CASE OnTime
  BY <1>11, <1>closed DEF OnTime
<1>12. CASE SessionDestroyed
  <2>1. PICK s \in ac.sessions : ac' = close(ac, s)
    BY <1>12 DEF SessionDestroyed
  <2>2. ac'.rcv = ac.rcv /\ ac'.ended = ac.ended /\ ac'.queue = q
    BY <1>1, <2>1 DEF close, Shape
  <2> QED BY <1>same, <2>2
<1>13. CASE UNCHANGED vars
  BY <1>13 DEF vars
<1> QED BY <1>4, <1>5, <1>6, <1>7, <1>8, <1>9, <1>10, <1>11, <1>12, <1>13 DEF Next

\* The acceptor never loses a receive and never starts one too many: whatever
\* remotes come, are refused or are accepted, each receive that listen()
\* started waits, is queued or has failed for good.
THEOREM AcceptingHolds == Spec => []Accepting
<1>1. Counted => Accepting
  BY DEF Counted, Accepting, Total, Num, Places, Count
<1>2. Spec => []Counted
  BY InitCounted, NextCounted, InductiveHolds, PTL DEF Spec
<1> QED BY <1>1, <1>2, PTL

\* The members of the acceptor keep their types, at most Receives receives
\* wait or have failed, and no more faults happen than there are.
THEOREM TypeOKHolds == Spec => []TypeOK
<1> USE AcceptorConstants
<1> DEFINE Left == faults \in 0..MaxFaults
<1>1. Init => Left
  BY DEF Init
<1>2. Left /\ [Next]_vars => Left'
  BY DEF Next, vars, EpollWait, PerformIO, RunAccept, ReceiveFails, RunFailed,
         DatagramArrives, SessionCloses, OnTime, SessionDestroyed, Spend
<1>3. Inductive /\ Counted /\ Left => TypeOK
  <2> SUFFICES ASSUME Inductive, Counted, Left PROVE TypeOK
    OBVIOUS
  <2>1. ac \in Shape
    BY DEF Inductive, Good
  <2>2. ac.rcv \in 0..Receives /\ ac.ended \in 0..Receives
    BY <2>1, TotalType DEF Counted, Total, Receives
  <2>3. ac \in Acceptor
    BY <2>1, <2>2 DEF Shape, Acceptor, Ops
  <2> QED BY <2>3 DEF TypeOK
<1>4. Spec => []Counted
  BY InitCounted, NextCounted, InductiveHolds, PTL DEF Spec
<1>5. Spec => []Left
  BY <1>1, <1>2, PTL DEF Spec
<1> QED BY <1>3, <1>4, <1>5, InductiveHolds, PTL
=============================================================================
