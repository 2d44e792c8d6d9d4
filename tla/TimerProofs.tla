----------------------------- MODULE TimerProofs -----------------------------
(***************************************************************************)
(* Proofs about Timer, for every number of calls, and about TimerSet, the  *)
(* timers a tick of mgr calls, for any set of them.                        *)
(*                                                                         *)
(* The invariants of Timer are not inductive by themselves: that a         *)
(* repeating timer has a wait to come says nothing of a second, one-shot   *)
(* expiry whose handler would abort it.  Inductive says that an            *)
(* undisturbed timer has exactly one wait, pending or expired, of the kind *)
(* that was asked for.  The invariant of TimerSet says what the iterator   *)
(* stands for: in a tick without rehash an element that stayed has been    *)
(* called once if it is neither at the iterator nor ahead of it, and has   *)
(* not been called otherwise.                                              *)
(***************************************************************************)
EXTENDS Timer, TimerSet, SequenceTheorems, TLAPS

H == [repeat : BOOLEAN, ok : BOOLEAN]

\* Exactly one wait, with repeat flag r, is pending or expired.
JustOne(r) ==
  \/ waits = <<r>> /\ ~Expired(queue)
  \/ /\ waits = <<>>
     /\ \E i \in DOMAIN queue :
          /\ queue[i] = Handler(r, TRUE)
          /\ \A j \in DOMAIN queue : queue[j].ok => j = i

Inductive ==
  /\ TypeOK
  /\ OneWait
  /\ ~clash => /\ want = "none" => waits = <<>> /\ ~Expired(queue)
               /\ want = "once" => JustOne(FALSE)
               /\ want = "repeat" => JustOne(TRUE)

\* A function on 1..n is a sequence.
LEMMA FunctionIsSeq ==
  ASSUME NEW S, NEW n \in Nat, NEW f \in [1..n -> S]
  PROVE  f \in Seq(S) /\ Len(f) = n /\ DOMAIN f = 1..n
<1>1. f \in Seq(S)
  BY SeqDef
<1>2. DOMAIN f = 1..n
  OBVIOUS
<1>3. DOMAIN f = 1..Len(f) /\ Len(f) \in Nat
  BY <1>1, LenProperties
<1> QED BY <1>1, <1>2, <1>3

\* Appending aborted handlers does not change whether one has expired.
LEMMA AppendAborted ==
  ASSUME NEW q \in Seq(H), NEW new \in Seq(H),
         \A i \in 1..Len(new) : new[i].ok = FALSE
  PROVE  q \o new \in Seq(H) /\ (Expired(q \o new) <=> Expired(q))
<1> DEFINE u == q \o new
<1>1. /\ u \in Seq(H) /\ Len(u) = Len(q) + Len(new)
      /\ \A i \in 1..Len(q) + Len(new) :
           u[i] = IF i <= Len(q) THEN q[i] ELSE new[i - Len(q)]
  BY ConcatProperties
<1>2. /\ DOMAIN q = 1..Len(q) /\ DOMAIN u = 1..Len(u)
      /\ Len(q) \in Nat /\ Len(new) \in Nat
  BY <1>1, LenProperties
<1> HIDE DEF u
<1>3. ASSUME Expired(u) PROVE Expired(q)
  <2>1. PICK i \in DOMAIN u : u[i].ok
    BY <1>3 DEF Expired
  <2>2. i <= Len(q)
    BY <1>1, <1>2, <2>1
  <2> QED BY <1>1, <1>2, <2>1, <2>2 DEF Expired
<1>4. ASSUME Expired(q) PROVE Expired(u)
  <2>1. PICK i \in DOMAIN q : q[i].ok
    BY <1>4 DEF Expired
  <2>2. i \in DOMAIN u /\ u[i] = q[i]
    BY <1>1, <1>2
  <2> QED BY <2>1, <2>2 DEF Expired
<1> QED BY <1>1, <1>3, <1>4 DEF u

\* Cancelling empties the waits and appends aborted handlers only.
LEMMA CancelLemma ==
  ASSUME NEW t \in Timers
  PROVE  /\ timer_cancel(t) \in Timers
         /\ timer_cancel(t).waits = <<>>
         /\ Expired(timer_cancel(t).queue) <=> Expired(t.queue)
<1> DEFINE new == [i \in DOMAIN t.waits |-> Handler(t.waits[i], FALSE)]
<1>1. t.waits \in Seq(BOOLEAN) /\ t.queue \in Seq(H)
  BY DEF Timers, H
<1>2. new \in Seq(H) /\ \A i \in 1..Len(new) : new[i].ok = FALSE
  <2>1. /\ DOMAIN t.waits = 1..Len(t.waits) /\ Len(t.waits) \in Nat
        /\ \A i \in 1..Len(t.waits) : t.waits[i] \in BOOLEAN
    BY <1>1, LenProperties, ElementOfSeq
  <2>2. new \in [1..Len(t.waits) -> H]
    BY <2>1 DEF Handler, H
  <2>3. new \in Seq(H) /\ Len(new) = Len(t.waits)
    BY <2>1, <2>2, FunctionIsSeq
  <2> QED BY <2>1, <2>3 DEF Handler
<1>3. timer_cancel(t) = [waits |-> <<>>, queue |-> t.queue \o new]
  BY DEF timer_cancel
<1> HIDE DEF new
<1>4. t.queue \o new \in Seq(H) /\ (Expired(t.queue \o new) <=> Expired(t.queue))
  BY <1>1, <1>2, AppendAborted
<1>5. timer_cancel(t) \in Timers
  BY <1>3, <1>4 DEF Timers, H
<1> QED BY <1>3, <1>4, <1>5

\* do_time, delay and cancel leave one wait or none, and never undo an expiry.
LEMMA RequestLemma ==
  ASSUME NEW t \in Timers, NEW repeat \in BOOLEAN
  PROVE  /\ do_time(t, repeat) \in Timers
         /\ do_time(t, repeat).waits = <<repeat>>
         /\ Expired(do_time(t, repeat).queue) <=> Expired(t.queue)
         /\ delay(t, repeat) \in Timers
         /\ delay(t, repeat).waits = <<repeat>>
         /\ Expired(delay(t, repeat).queue) <=> Expired(t.queue)
<1>1. \A u \in Timers :
        /\ do_time(u, repeat) \in Timers
        /\ do_time(u, repeat).waits = <<repeat>>
        /\ Expired(do_time(u, repeat).queue) <=> Expired(u.queue)
  <2> TAKE u \in Timers
  <2> DEFINE c == timer_cancel(u)
  <2>1. c \in Timers /\ c.waits = <<>> /\ (Expired(c.queue) <=> Expired(u.queue))
    BY CancelLemma
  <2> HIDE DEF c
  <2>2. Append(c.waits, repeat) = <<repeat>> /\ <<repeat>> \in Seq(BOOLEAN)
    BY <2>1
  <2>3. /\ async_wait(c, repeat) \in Timers
        /\ async_wait(c, repeat).waits = <<repeat>>
        /\ async_wait(c, repeat).queue = c.queue
    BY <2>1, <2>2 DEF async_wait, Timers
  <2> QED BY <2>1, <2>2, <2>3 DEF do_time, c
<1>2. timer_cancel(t) \in Timers /\ (Expired(timer_cancel(t).queue) <=> Expired(t.queue))
  BY CancelLemma
<1> QED BY <1>1, <1>2 DEF delay

\* What on_time or another handler may do to the timer.
LEMMA AnyRequest ==
  ASSUME NEW t \in Timers, NEW r \in Requests
  PROVE  /\ Request(t, r) \in Timers
         /\ Expired(Request(t, r).queue) <=> Expired(t.queue)
         /\ r = "nothing" => Request(t, r) = t
         /\ r = "none" => Request(t, r).waits = <<>>
         /\ r = "once" => Request(t, r).waits = <<FALSE>>
         /\ r = "repeat" => Request(t, r).waits = <<TRUE>>
<1>1. CASE r = "nothing"
  BY <1>1 DEF Request
<1>2. CASE r = "none"
  BY <1>2, CancelLemma DEF Request, cancel
<1>3. CASE r = "once"
  BY <1>3, RequestLemma DEF Request
<1>4. CASE r = "repeat"
  BY <1>4, RequestLemma DEF Request
<1> QED BY <1>1, <1>2, <1>3, <1>4 DEF Requests

\* The handler of an expired wait leaves the wait it repeats, or else what
\* on_time asked for.
LEMMA ExpiryLemma ==
  ASSUME NEW t \in Timers, NEW repeat \in BOOLEAN, NEW r \in Requests
  PROVE  LET u == on_expiry(t, repeat, r)
         IN  /\ u \in Timers
             /\ Expired(u.queue) <=> Expired(t.queue)
             /\ repeat => u.waits = <<TRUE>>
             /\ ~repeat /\ r \in {"nothing", "none"} => u.waits = <<>>
             /\ ~repeat /\ r = "once" => u.waits = <<FALSE>>
             /\ ~repeat /\ r = "repeat" => u.waits = <<TRUE>>
<1> DEFINE c == timer_cancel(t)
<1> DEFINE v == Request(c, r)
<1>1. c \in Timers /\ c.waits = <<>> /\ (Expired(c.queue) <=> Expired(t.queue))
  BY CancelLemma
<1> HIDE DEF c
<1>2. /\ v \in Timers /\ (Expired(v.queue) <=> Expired(c.queue))
      /\ r \in {"nothing", "none"} => v.waits = <<>>
      /\ r = "once" => v.waits = <<FALSE>>
      /\ r = "repeat" => v.waits = <<TRUE>>
  BY <1>1, AnyRequest
<1>3. on_expiry(t, repeat, r) = IF repeat THEN do_time(v, repeat) ELSE v
  BY DEF on_expiry, c
<1> HIDE DEF v
<1>4. CASE repeat
  <2>1. /\ do_time(v, repeat) \in Timers /\ do_time(v, repeat).waits = <<repeat>>
        /\ Expired(do_time(v, repeat).queue) <=> Expired(v.queue)
    BY <1>2, RequestLemma
  <2> QED BY <1>1, <1>2, <1>3, <1>4, <2>1
<1>5. CASE ~repeat
  BY <1>1, <1>2, <1>3, <1>5
<1> QED BY <1>4, <1>5

-----------------------------------------------------------------------------

LEMMA InitInductive == Init => Inductive
<1> SUFFICES ASSUME Init PROVE Inductive
  OBVIOUS
<1>1. PICK repeat \in BOOLEAN : waits = <<repeat>> /\ want = Mode(repeat)
  BY DEF Init
<1>2. waits \in Seq(BOOLEAN) /\ Len(waits) = 1 /\ queue = <<>>
  BY <1>1 DEF Init
<1>3. TypeOK /\ OneWait
  <2>1. timer_ \in Timers
    BY <1>2 DEF timer_, Timers
  <2>2. want \in {"none", "once", "repeat"}
    BY <1>1 DEF Mode
  <2>3. asked \in BOOLEAN /\ turn \in BOOLEAN /\ clash \in BOOLEAN
    BY DEF Init
  <2>4. calls \in 0..MaxCalls
    BY TimerConstants DEF Init
  <2> QED BY <1>2, <2>1, <2>2, <2>3, <2>4 DEF TypeOK, OneWait
<1>4. ~Expired(queue)
  BY <1>2 DEF Expired
<1> QED BY <1>1, <1>3, <1>4 DEF Inductive, Mode, JustOne

\* What is left of the queue when its first handler is taken.
LEMMA PopLemma ==
  ASSUME NEW q \in Seq(H), q # <<>>
  PROVE  /\ Head(q) = q[1] /\ Head(q) \in H /\ Tail(q) \in Seq(H)
         /\ 1 \in DOMAIN q
         /\ \A i \in DOMAIN Tail(q) : i + 1 \in DOMAIN q /\ Tail(q)[i] = q[i + 1]
         /\ \A i \in DOMAIN q : i # 1 => i - 1 \in DOMAIN Tail(q)
<1>1. /\ Head(q) \in H /\ Tail(q) \in Seq(H)
      /\ Len(Tail(q)) = Len(q) - 1
      /\ \A i \in 1..Len(Tail(q)) : Tail(q)[i] = q[i + 1]
  BY HeadTailProperties
<1>2. Len(q) \in Nat \ {0} /\ DOMAIN q = 1..Len(q)
  BY EmptySeq, LenProperties
<1>3. DOMAIN Tail(q) = 1..Len(q) - 1
  BY <1>1, LenProperties
<1>4. Head(q) = q[1]
  OBVIOUS
<1> QED BY <1>1, <1>2, <1>3, <1>4

\* Sequences of length one.
LEMMA Single ==
  ASSUME NEW S, NEW s \in Seq(S), Len(s) = 1
  PROVE  s = <<s[1]>> /\ s[1] \in S
<1>1. s[1] \in S
  BY ElementOfSeq
<1>2. <<s[1]>> \in Seq(S) /\ Len(<<s[1]>>) = 1
  BY <1>1
<1>3. \A i \in 1..Len(s) : s[i] = <<s[1]>>[i]
  OBVIOUS
<1> QED BY <1>1, <1>2, <1>3, SeqEqual

\* No wait or a single one.
LEMMA OneOrNone ==
  ASSUME NEW s, s \in {<<>>, <<TRUE>>, <<FALSE>>}
  PROVE  Len(s) <= 1
<1>1. CASE s = <<>>
  <2>1. Len(s) = 0
    BY <1>1
  <2> QED BY <2>1
<1>2. ASSUME NEW x \in BOOLEAN, s = <<x>> PROVE Len(s) <= 1
  <2>1. Len(s) = 1
    BY <1>2
  <2> QED BY <2>1
<1> QED BY <1>1, <1>2, Zenon

\* The handler of a wait that expires goes to the end of the queue.
LEMMA AppendOne ==
  ASSUME NEW q \in Seq(H), NEW new \in Seq(H), Len(new) = 1
  PROVE  LET u == q \o new
         IN  /\ u \in Seq(H) /\ DOMAIN u = 1..Len(q) + 1 /\ Len(q) \in Nat
             /\ u[Len(q) + 1] = new[1]
             /\ \A i \in DOMAIN u :
                  i # Len(q) + 1 => i \in DOMAIN q /\ u[i] = q[i]
<1> DEFINE u == q \o new
<1>1. /\ u \in Seq(H) /\ Len(u) = Len(q) + 1
      /\ \A i \in 1..Len(q) + 1 :
           u[i] = IF i <= Len(q) THEN q[i] ELSE new[i - Len(q)]
  BY ConcatProperties
<1>2. DOMAIN u = 1..Len(u) /\ Len(q) \in Nat /\ DOMAIN q = 1..Len(q)
  BY <1>1, LenProperties
<1> HIDE DEF u
<1>3. u[Len(q) + 1] = new[1]
  <2>1. Len(q) + 1 \in 1..Len(q) + 1 /\ ~(Len(q) + 1 <= Len(q))
    BY <1>2
  <2>2. (Len(q) + 1) - Len(q) = 1
    BY <1>2
  <2>3. u[Len(q) + 1] = new[(Len(q) + 1) - Len(q)]
    BY <1>1, <2>1
  <2> QED BY <2>2, <2>3
<1>4. \A i \in DOMAIN u : i # Len(q) + 1 => i \in DOMAIN q /\ u[i] = q[i]
  BY <1>1, <1>2
<1> QED BY <1>1, <1>2, <1>3, <1>4 DEF u

LEMMA NextInductive == Inductive /\ [Next]_vars => Inductive'
<1> SUFFICES ASSUME Inductive, [Next]_vars PROVE Inductive'
  OBVIOUS
<1>0. /\ waits \in Seq(BOOLEAN) /\ queue \in Seq(H) /\ timer_ \in Timers
      /\ timer_.waits = waits /\ timer_.queue = queue
      /\ want \in {"none", "once", "repeat"}
      /\ asked \in BOOLEAN /\ turn \in BOOLEAN /\ clash \in BOOLEAN
  BY DEF Inductive, TypeOK, timer_, Timers, H
<1>t. ASSUME NEW u \in Timers, waits' = u.waits, queue' = u.queue
      PROVE  (timer_ \in Timers)'
  BY <1>t DEF Timers, timer_
<1>1. ASSUME NEW r \in Requests \ {"nothing"}, CallFromOutside(r)
      PROVE  Inductive'
  <2> DEFINE u == Request(timer_, r)
  <2>1. /\ u \in Timers /\ (Expired(u.queue) <=> Expired(queue))
        /\ r = "none" => u.waits = <<>>
        /\ r = "once" => u.waits = <<FALSE>>
        /\ r = "repeat" => u.waits = <<TRUE>>
    BY <1>0, AnyRequest
  <2>2. waits' = u.waits /\ queue' = u.queue /\ want' = r
    BY <1>1 DEF CallFromOutside, Becomes
  <2>3. clash' = Expired(queue) /\ asked' \in BOOLEAN /\ turn' = turn
    BY <1>1 DEF CallFromOutside
  <2>4. calls' \in 0..MaxCalls
    BY <1>1, TimerConstants DEF CallFromOutside, Inductive, TypeOK
  <2> HIDE DEF u
  <2>5. r \in {"none", "once", "repeat"}
    BY DEF Requests
  <2>6. TypeOK'
    <3>1. (timer_ \in Timers)'
      BY <1>t, <2>1, <2>2
    <3>2. clash' \in BOOLEAN /\ turn' \in BOOLEAN
      BY <1>0, <2>3 DEF Expired
    <3> QED BY <2>2, <2>3, <2>4, <2>5, <3>1, <3>2 DEF TypeOK
  <2>7. OneWait'
    <3>1. waits' \in {<<>>, <<TRUE>>, <<FALSE>>}
      BY <2>1, <2>2, <2>5
    <3> QED BY <3>1, OneOrNone DEF OneWait
  <2>8. ~clash' => ~Expired(queue')
    BY <2>1, <2>2, <2>3
  <2> QED BY <2>1, <2>2, <2>5, <2>6, <2>7, <2>8 DEF Inductive, JustOne
<1>2. ASSUME Expire PROVE Inductive'
  <2>1. PICK x \in BOOLEAN : waits = <<x>>
    <3>1. Len(waits) \in Nat \ {0} /\ Len(waits) <= 1
      <4>1. waits # <<>>
        BY <1>2 DEF Expire
      <4>2. Len(waits) \in Nat \ {0}
        BY <1>0, <4>1, EmptySeq
      <4> QED BY <4>2 DEF Inductive, OneWait
    <3>2. Len(waits) = 1
      BY <3>1
    <3> QED BY <1>0, <3>2, Single
  <2>2. /\ waits' = <<>> /\ UNCHANGED <<want, asked, turn, clash, calls>>
        /\ queue' = queue \o [i \in DOMAIN waits |-> Handler(waits[i], TRUE)]
    BY <1>2 DEF Expire
  <2>3. /\ queue' \in Seq(H) /\ DOMAIN queue' = 1..Len(queue) + 1 /\ Len(queue) \in Nat
        /\ queue'[Len(queue) + 1] = Handler(x, TRUE)
        /\ \A i \in DOMAIN queue' :
             i # Len(queue) + 1 => i \in DOMAIN queue /\ queue'[i] = queue[i]
    <3> DEFINE new == [i \in DOMAIN waits |-> Handler(waits[i], TRUE)]
    <3>1. DOMAIN waits = 1..1 /\ waits[1] = x
      BY <2>1
    <3>2. new \in [1..1 -> H] /\ new[1] = Handler(x, TRUE)
      <4>1. Handler(x, TRUE) \in H
        BY DEF Handler, H
      <4>2. \A i \in 1..1 : i = 1
        OBVIOUS
      <4>3. 1 \in 1..1
        OBVIOUS
      <4>4. \A i \in 1..1 : waits[i] = x
        BY <3>1, <4>2, Zenon
      <4>5. new = [i \in 1..1 |-> Handler(x, TRUE)]
        BY <3>1, <4>4, Zenon
      <4> HIDE DEF new
      <4> QED BY <4>1, <4>3, <4>5, Zenon
    <3>3. queue' = queue \o new
      BY <2>2
    <3> HIDE DEF new
    <3>4. new \in Seq(H) /\ Len(new) = 1
      BY <3>2, FunctionIsSeq, 1 \in Nat
    <3> QED BY <1>0, <3>2, <3>3, <3>4, AppendOne
  <2>4. TypeOK' /\ OneWait'
    <3>1. (timer_ \in Timers)'
      BY <2>2, <2>3 DEF timer_, Timers, H
    <3> QED BY <2>2, <3>1 DEF Inductive, TypeOK, OneWait
  <2>5. ASSUME NEW m \in BOOLEAN, JustOne(m) PROVE JustOne(m)'
    <3>1. waits = <<m>> /\ ~Expired(queue)
      BY <2>1, <2>5 DEF JustOne
    <3>2. x = m
      BY <2>1, <3>1
    <3>3. Len(queue) + 1 \in DOMAIN queue' /\ queue'[Len(queue) + 1] = Handler(m, TRUE)
      BY <2>3, <3>2
    <3>4. \A j \in DOMAIN queue' : queue'[j].ok => j = Len(queue) + 1
      BY <2>3, <3>1 DEF Expired
    <3> QED BY <2>2, <3>3, <3>4 DEF JustOne
  <2>6. ~clash => want # "none"
    BY <2>1 DEF Inductive
  <2> QED BY <1>0, <2>2, <2>4, <2>5, <2>6 DEF Inductive
<1>3. ASSUME RunAborted PROVE Inductive'
  <2>1. /\ queue # <<>> /\ ~Head(queue).ok /\ queue' = Tail(queue)
        /\ UNCHANGED <<waits, want, asked, turn, clash, calls>>
    BY <1>3 DEF RunAborted
  <2>2. /\ Head(queue) = queue[1] /\ queue' \in Seq(H) /\ 1 \in DOMAIN queue
        /\ \A i \in DOMAIN queue' : i + 1 \in DOMAIN queue /\ queue'[i] = queue[i + 1]
        /\ \A i \in DOMAIN queue : i # 1 => i - 1 \in DOMAIN queue'
    BY <1>0, <2>1, PopLemma
  <2>3. DOMAIN queue \subseteq Nat /\ DOMAIN queue' \subseteq Nat
    BY <1>0, <2>2, LenProperties
  <2>4. TypeOK' /\ OneWait'
    <3>1. (timer_ \in Timers)'
      BY <1>0, <2>1, <2>2 DEF timer_, Timers, H
    <3> QED BY <2>1, <3>1 DEF Inductive, TypeOK, OneWait
  <2>5. ~Expired(queue) => ~Expired(queue')
    BY <2>2 DEF Expired
  <2>6. ASSUME NEW m \in BOOLEAN, JustOne(m) PROVE JustOne(m)'
    <3>1. CASE waits = <<m>> /\ ~Expired(queue)
      BY <2>1, <2>5, <3>1 DEF JustOne
    <3>2. CASE ~(waits = <<m>> /\ ~Expired(queue))
      <4>1. PICK i \in DOMAIN queue :
              queue[i] = Handler(m, TRUE) /\ \A j \in DOMAIN queue : queue[j].ok => j = i
        BY <2>6, <3>2 DEF JustOne
      <4>2. i # 1
        BY <2>1, <2>2, <4>1 DEF Handler
      <4>3. i - 1 \in DOMAIN queue' /\ queue'[i - 1] = queue[i]
        BY <2>2, <2>3, <4>2
      <4>4. \A j \in DOMAIN queue' : queue'[j].ok => j = i - 1
        BY <2>2, <2>3, <4>1
      <4> QED BY <2>1, <2>6, <3>2, <4>1, <4>3, <4>4 DEF JustOne
    <3> QED BY <3>1, <3>2
  <2> QED BY <1>0, <2>1, <2>4, <2>5, <2>6 DEF Inductive
<1>4. ASSUME NEW r \in Requests, RunExpired(r) PROVE Inductive'
  <2> DEFINE h == Head(queue)
  <2> DEFINE t == [timer_ EXCEPT !.queue = Tail(queue)]
  <2> DEFINE u == on_expiry(t, h.repeat, r)
  <2>1. queue # <<>> /\ h.ok /\ waits' = u.waits /\ queue' = u.queue /\ turn' = ~turn
        /\ calls' = calls
    BY <1>4 DEF RunExpired, Becomes
  <2>2. /\ h = queue[1] /\ h \in H /\ Tail(queue) \in Seq(H) /\ 1 \in DOMAIN queue
        /\ \A i \in DOMAIN Tail(queue) :
             i + 1 \in DOMAIN queue /\ Tail(queue)[i] = queue[i + 1]
    BY <1>0, <2>1, PopLemma
  <2>3. DOMAIN Tail(queue) \subseteq Nat \ {0}
    BY <2>2, LenProperties
  <2>4. h.repeat \in BOOLEAN
    BY <2>2 DEF H
  <2>5. t \in Timers /\ t.queue = Tail(queue)
    BY <1>0, <2>2 DEF Timers, H
  <2>6. /\ u \in Timers
        /\ Expired(u.queue) <=> Expired(Tail(queue))
        /\ h.repeat => u.waits = <<TRUE>>
        /\ ~h.repeat /\ r \in {"nothing", "none"} => u.waits = <<>>
        /\ ~h.repeat /\ r = "once" => u.waits = <<FALSE>>
        /\ ~h.repeat /\ r = "repeat" => u.waits = <<TRUE>>
    <3> DEFINE p == h.repeat
    <3> HIDE DEF h, t, p
    <3>1. p \in BOOLEAN
      BY <2>4 DEF p
    <3> DEFINE e == on_expiry(t, p, r)
    <3>2. /\ e \in Timers
          /\ Expired(e.queue) <=> Expired(t.queue)
          /\ p => e.waits = <<TRUE>>
          /\ ~p /\ r \in {"nothing", "none"} => e.waits = <<>>
          /\ ~p /\ r = "once" => e.waits = <<FALSE>>
          /\ ~p /\ r = "repeat" => e.waits = <<TRUE>>
      BY <2>5, <3>1, ExpiryLemma, Zenon
    <3> HIDE DEF e
    <3>3. u = e
      BY DEF e, p
    <3> HIDE DEF u
    <3>4. Expired(t.queue) <=> Expired(Tail(queue))
      BY <2>5
    <3> QED BY <3>2, <3>3, <3>4, Zenon DEF p
  <2>7. Expired(queue)
    BY <2>1, <2>2 DEF Expired
  <2>8. \/ /\ r = "nothing"
           /\ want' = IF want = "once" THEN "none" ELSE want
           /\ asked' = FALSE /\ clash' = clash
        \/ /\ r \in {"none", "once", "repeat"}
           /\ want' = r /\ asked' \in BOOLEAN
           /\ clash' = (h.repeat \/ Expired(Tail(queue)))
    BY <1>4 DEF RunExpired, Requests
  <2> HIDE DEF h, t, u
  <2>9. OneWait'
    <3>1. waits' \in {<<>>, <<TRUE>>, <<FALSE>>}
      BY <2>1, <2>4, <2>6 DEF Requests
    <3> QED BY <3>1, OneOrNone DEF OneWait
  <2>10. TypeOK'
    <3>1. (timer_ \in Timers)'
      BY <1>t, <2>1, <2>6
    <3>2. want' \in {"none", "once", "repeat"}
      BY <1>0, <2>8
    <3>3. asked' \in BOOLEAN /\ clash' \in BOOLEAN /\ turn' \in BOOLEAN
      BY <1>0, <2>1, <2>4, <2>8 DEF Expired
    <3>4. calls' \in 0..MaxCalls
      BY <2>1 DEF Inductive, TypeOK
    <3> QED BY <3>1, <3>2, <3>3, <3>4 DEF TypeOK
  <2>11. CASE r = "nothing"
    <3>1. ASSUME ~clash, NEW m \in BOOLEAN, JustOne(m)
          PROVE  h.repeat = m /\ ~Expired(Tail(queue))
      <4>1. PICK i \in DOMAIN queue :
              queue[i] = Handler(m, TRUE) /\ \A j \in DOMAIN queue : queue[j].ok => j = i
        BY <2>7, <3>1 DEF JustOne
      <4>2. i = 1
        BY <2>1, <2>2, <4>1
      <4>3. h.repeat = m
        BY <2>2, <4>1, <4>2 DEF Handler
      <4>4. \A j \in DOMAIN Tail(queue) : ~Tail(queue)[j].ok
        BY <2>2, <2>3, <4>1, <4>2
      <4> QED BY <4>3, <4>4 DEF Expired
    <3>2. ASSUME ~clash, want = "once"
          PROVE  want' = "none" /\ waits' = <<>> /\ ~Expired(queue')
      BY <2>1, <2>6, <2>8, <2>11, <3>1, <3>2 DEF Inductive
    <3>3. ASSUME ~clash, want = "repeat"
          PROVE  want' = "repeat" /\ waits' = <<TRUE>> /\ ~Expired(queue')
      BY <2>1, <2>6, <2>8, <2>11, <3>1, <3>3 DEF Inductive
    <3>4. clash' = clash /\ (~clash => want # "none")
      BY <2>7, <2>8, <2>11 DEF Inductive
    <3> QED BY <1>0, <2>9, <2>10, <3>2, <3>3, <3>4 DEF Inductive, JustOne
  <2>12. CASE r # "nothing"
    <3>1. r \in {"none", "once", "repeat"} /\ want' = r
      BY <2>8, <2>12
    <3>2. ~clash' => ~h.repeat /\ ~Expired(queue')
      BY <2>1, <2>6, <2>8, <2>12
    <3> QED BY <2>1, <2>6, <2>9, <2>10, <3>1, <3>2 DEF Inductive, JustOne
  <2> QED BY <2>11, <2>12
<1>5. CASE UNCHANGED vars
  BY <1>5 DEF vars, Inductive, TypeOK, OneWait, JustOne, timer_
<1> QED BY <1>1, <1>2, <1>3, <1>4, <1>5 DEF Next

-----------------------------------------------------------------------------

\* The timer always has exactly the one wait that was asked for, unless the
\* last delay or cancel met an expiry that was queued already.
THEOREM InductiveHolds == Spec => []Inductive
<1>1. Init => Inductive
  BY InitInductive
<1>2. Inductive /\ [Next]_vars => Inductive'
  BY NextInductive
<1> QED BY <1>1, <1>2, PTL DEF Spec

\* However delay, cancel and expiries follow each other, at most one wait is
\* pending on the asio timer.
THEOREM OneWaitHolds == Spec => []OneWait
<1>1. Inductive => OneWait
  BY DEF Inductive
<1> QED BY <1>1, InductiveHolds, PTL

\* An undisturbed repeating timer never runs dry.
THEOREM KeepsTickingHolds == Spec => []KeepsTicking
<1>1. Inductive => KeepsTicking
  BY DEF Inductive, JustOne, KeepsTicking
<1> QED BY <1>1, InductiveHolds, PTL

\* After a cancel that came in time, or a one-shot's only expiry, nothing is
\* left that could call on_time.
THEOREM CancelStopsHolds == Spec => []CancelStops
<1>1. Inductive => CancelStops
  BY DEF Inductive, CancelStops
<1> QED BY <1>1, InductiveHolds, PTL

-----------------------------------------------------------------------------
(* The tick                                                                *)

Iterator ==
  looping =>
    /\ it \in timers \cup {End, Freed}
    /\ it \notin ahead
    /\ ahead \subseteq timers
    /\ stayed \subseteq timers
    /\ it = End => ahead = {}
    /\ ~others => it # Freed

Progress ==
  looping /\ ~rehashed =>
    \A t \in stayed : called[t] = IF t \in ahead \cup {it} THEN 0 ELSE 1

IInv == SetTypeOK /\ Iterator /\ Progress

\* What one turn of the loop leaves: the iterator is on an element that was
\* ahead, and the elements ahead are among those that were or are new.
LEMMA UpdateShape ==
  ASSUME SetTypeOK, Iterator, looping, it \in Element, it \in timers,
         NEW out \in SUBSET timers, NEW in \in SUBSET Element, NEW rehash \in BOOLEAN,
         in \cap (timers \ out) = {},
         NEW i \in After, Update(i, ahead \ {i}, out, in, rehash)
  PROVE  /\ timers' = (timers \ out) \cup in
         /\ i \in ahead \/ (i = End /\ ahead = {})
         /\ i # it /\ i # Freed
         /\ it' = IF i \in out THEN Freed ELSE i
         /\ ahead' \subseteq timers' /\ i \notin ahead'
         /\ i = End => ahead' = {}
         /\ ~rehash => \A t \in timers \ out : t \in ahead' <=> t \in ahead \ {i}
         /\ rehashes' \in 0..MaxRehashes
<1>1. i \in ahead \/ (i = End /\ ahead = {})
  BY DEF After
<1>2. i # it /\ i # Freed
  BY <1>1, TimerSetConstants DEF SetTypeOK, Iterator
<1>3. /\ timers' = (timers \ out) \cup in
      /\ it' = IF i \in out THEN Freed ELSE i
  BY DEF Update
<1>4. rehashes' \in 0..MaxRehashes
  BY TimerSetConstants DEF Update, SetTypeOK
<1>5. CASE i = End
  <2>1. ahead' = {}
    BY <1>5 DEF Update
  <2>2. ahead = {}
    BY <1>1, <1>5, TimerSetConstants DEF SetTypeOK
  <2>. QED  BY <1>1, <1>2, <1>3, <1>4, <2>1, <2>2
<1>6. CASE i # End /\ rehash
  <2>1. ahead' \in SUBSET (timers' \ {i})
    BY <1>6 DEF Update
  <2>. QED  BY <1>1, <1>2, <1>3, <1>4, <1>6, <2>1
<1>7. CASE i # End /\ ~rehash
  <2>1. PICK new \in SUBSET (in \ {i}) : ahead' = ((ahead \ {i}) \ out) \cup new
    BY <1>7 DEF Update
  <2>2. ahead \subseteq timers
    BY DEF Iterator
  <2>. QED  BY <1>1, <1>2, <1>3, <1>4, <1>7, <2>1, <2>2
<1>. QED  BY <1>5, <1>6, <1>7

LEMMA CallStep ==
  ASSUME IInv, NEW out \in SUBSET timers, NEW in \in SUBSET Element,
         NEW rehash \in BOOLEAN, in \cap (timers \ out) = {},
         call(out, in, rehash)
  PROVE  IInv'
<1>1. looping /\ it \in Element /\ it \in timers
  BY DEF call, Dangling, IInv, SetTypeOK
<1>2. PICK i \in After : Update(i, ahead \ {i}, out, in, rehash)
  BY DEF call
<1>3. /\ timers' = (timers \ out) \cup in
      /\ i \in ahead \/ (i = End /\ ahead = {})
      /\ i # it /\ i # Freed
      /\ it' = IF i \in out THEN Freed ELSE i
      /\ ahead' \subseteq timers' /\ i \notin ahead'
      /\ i = End => ahead' = {}
      /\ ~rehash => \A t \in timers \ out : t \in ahead' <=> t \in ahead \ {i}
      /\ rehashes' \in 0..MaxRehashes
  BY <1>1, <1>2, UpdateShape DEF IInv
<1>4. /\ called' = [called EXCEPT ![it] = IF it \in stayed THEN @ + 1 ELSE @]
      /\ stayed' = stayed \ out
      /\ rehashed' = (rehashed \/ rehash)
      /\ others' = (others \/ out \ {it} # {})
      /\ looping' = looping /\ service' = service
  BY DEF call, Note
<1>5. SetTypeOK'
  <2>1. called' \in [Element -> Nat]
    BY <1>1, <1>4 DEF IInv, SetTypeOK
  <2>2. timers' \subseteq Element /\ it' \in Element \cup {End, Freed} /\ ahead' \subseteq Element
    BY <1>3 DEF IInv, SetTypeOK
  <2>3. rehashed' \in BOOLEAN /\ others' \in BOOLEAN
    BY <1>4 DEF IInv, SetTypeOK
  <2>. QED  BY <1>3, <1>4, <2>1, <2>2, <2>3 DEF IInv, SetTypeOK
<1>6. Iterator'
  <2>1. it' \in timers' \cup {End, Freed}
    BY <1>1, <1>3 DEF IInv, Iterator
  <2>2. it' \notin ahead'
    BY <1>3, <1>5, TimerSetConstants DEF SetTypeOK
  <2>3. stayed' \subseteq timers'
    BY <1>1, <1>3, <1>4 DEF IInv, Iterator
  <2>4. it' = End => ahead' = {}
    BY <1>3, TimerSetConstants
  <2>5. ~others' => it' # Freed
    BY <1>3, <1>4
  <2>. QED  BY <1>3, <2>1, <2>2, <2>3, <2>4, <2>5 DEF Iterator
<1>7. Progress'
  <2>. SUFFICES ASSUME ~rehashed', NEW t \in stayed'
                PROVE  called'[t] = IF t \in ahead' \cup {it'} THEN 0 ELSE 1
    BY DEF Progress
  <2>1. ~rehash /\ ~rehashed /\ t \in stayed /\ t \in timers \ out /\ t \in Element
    BY <1>1, <1>4 DEF IInv, Iterator, SetTypeOK
  <2>2. called[t] = IF t \in ahead \cup {it} THEN 0 ELSE 1
    BY <1>1, <2>1 DEF IInv, Progress
  <2>3. t \in ahead' <=> t \in ahead /\ t # i
    BY <1>3, <2>1
  <2>4. t = it' <=> t = i
    BY <1>3, <2>1, TimerSetConstants
  <2>5. it \notin ahead
    BY <1>1 DEF IInv, Iterator
  <2>6. CASE t = it
    <3>1. called'[t] = called[t] + 1
      BY <1>4, <2>1, <2>6 DEF IInv, SetTypeOK
    <3>. QED  BY <1>3, <2>2, <2>3, <2>4, <2>5, <2>6, <3>1
  <2>7. CASE t # it
    <3>1. called'[t] = called[t]
      BY <1>4, <2>1, <2>7 DEF IInv, SetTypeOK
    <3>2. t \in ahead' \cup {it'} <=> t \in ahead \cup {it}
      BY <1>3, <2>1, <2>3, <2>4, <2>7, TimerSetConstants
    <3>. QED  BY <2>2, <3>1, <3>2
  <2>. QED  BY <2>6, <2>7
<1>. QED  BY <1>5, <1>6, <1>7 DEF IInv

\* Every state of the tick satisfies the invariant: each turn of the loop of
\* mgr::on_time keeps it, whatever the element called erases and inserts.
THEOREM SetInductive == SetSpec => []IInv
<1>1. SetInit => IInv
  <2>. SUFFICES ASSUME SetInit PROVE IInv
    OBVIOUS
  <2>1. [t \in Element |-> 0] \in [Element -> Nat]
    OBVIOUS
  <2>2. rehashes \in 0..MaxRehashes
    BY TimerSetConstants DEF SetInit
  <2>3. SetTypeOK
    BY <2>1, <2>2, Zenon DEF SetInit, SetTypeOK
  <2>. QED  BY <2>3 DEF SetInit, IInv, Iterator, Progress
<1>2. IInv /\ [SetNext]_setVars => IInv'
  <2>. SUFFICES ASSUME IInv, [SetNext]_setVars PROVE IInv'
    OBVIOUS
  <2>1. CASE run \/ stop
    BY <2>1 DEF run, stop, tick, IInv, SetTypeOK, Iterator, Progress
  <2>2. CASE begin
    <3>1. SetTypeOK'
      BY <2>2 DEF begin, IInv, SetTypeOK
    <3>2. Iterator'
      BY <2>2, TimerSetConstants DEF begin, IInv, SetTypeOK, Iterator
    <3>3. Progress'
      BY <2>2 DEF begin, IInv, SetTypeOK, Progress
    <3>. QED  BY <3>1, <3>2, <3>3 DEF IInv
  <2>3. CASE end
    BY <2>3 DEF end, IInv, SetTypeOK, Iterator, Progress
  <2>4. ASSUME NEW out \in SUBSET timers, NEW in \in SUBSET Element,
               NEW rehash \in BOOLEAN, in \cap (timers \ out) = {},
               call(out, in, rehash)
        PROVE  IInv'
    BY <2>4, CallStep
  <2>5. ASSUME NEW t \in Element, add(t) \/ remove(t) PROVE IInv'
    BY <2>5 DEF add, remove, tick, IInv, SetTypeOK, Iterator, Progress
  <2>6. CASE UNCHANGED setVars
    BY <2>6 DEF setVars, tick, IInv, SetTypeOK, Iterator, Progress
  <2>. QED  BY <2>1, <2>2, <2>3, <2>4, <2>5, <2>6 DEF SetNext
<1>. QED  BY <1>1, <1>2, PTL DEF SetSpec

\* A tick whose calls erase at most their own element never uses an element
\* that is gone, whatever is inserted and rehashed.
THEOREM SafeForSelf == SetSpec => []ErasesSelfSafely
<1>1. IInv => ErasesSelfSafely
  BY DEF IInv, Iterator, ErasesSelfSafely, Dangling
<1>. QED  BY <1>1, SetInductive, PTL

\* mgr::on_time calls no element twice and leaves none out.
THEOREM CallsEachOnce == SetSpec => []EachOnce
<1>1. IInv => EachOnce
  <2>. SUFFICES ASSUME IInv, looping, ~rehashed, NEW t \in stayed
                PROVE  called[t] <= 1 /\ (it = End => called[t] = 1)
    BY DEF EachOnce
  <2>1. called[t] = IF t \in ahead \cup {it} THEN 0 ELSE 1
    BY DEF IInv, Progress
  <2>2. it = End => t \notin ahead \cup {it}
    BY TimerSetConstants DEF IInv, Iterator, SetTypeOK
  <2>. QED  BY <2>1, <2>2
<1>. QED  BY <1>1, SetInductive, PTL
=============================================================================
