---------------------------- MODULE QueueProofs ----------------------------
(***************************************************************************)
(* Proofs about SpareBuffers: buffer::array and buffer::bip, of any size,  *)
(* are queues of bytes; and about Packet: over a queue, packets inside     *)
(* packets are written as they are meant and read as they were written.    *)
(*                                                                         *)
(*   ArrayGood  the bytes lie in the array, between head_ and tail_, and   *)
(*              its size is one that expand() came to                      *)
(*   BipGood    the bytes lie in region a and then in region b, in front   *)
(*              of it; with no byte in region a there is no region b, and  *)
(*              a region b was begun only where it has more room than      *)
(*              there is behind region a                                   *)
(*   PacketInv  send_buff_ is the packets sent and then what each writer   *)
(*              has added (Upto); a writer around another is not flushed   *)
(*              (Nested); head_ is where a writer's cells begin, and once  *)
(*              it is flushed not where a length is missing (Placed); and  *)
(*              a uint32 holds every length (Limit, Fits)                  *)
(*                                                                         *)
(* First comes what stands for induction: of the numbers a statement fails *)
(* for, look at the least (LeastNat); what every step keeps, stays         *)
(* (Stays); a recursive function whose steps stay in a set exists          *)
(* (Iterates).  Then the array, member function by member function, then   *)
(* the bip buffer, then the steps.  For Packet follow FlattenSeq, the      *)
(* writers, the steps, and the reader.  Join is \o under a name of its     *)
(* own, so that a lemma about it can be cited.                             *)
(***************************************************************************)
EXTENDS SpareBuffers, Packet, SequenceTheorems, WellFoundedInduction, TLAPS

\* Every set of naturals that is not empty has a least element.
LEMMA LeastNat ==
  ASSUME NEW T, T \subseteq Nat, T # {}
  PROVE  \E x \in T : \A y \in T : x <= y
<1> DEFINE R == OpToRel(<, Nat)
<1>1. \A m, n \in Nat : m < n => <<m, n>> \in R
  BY DEF OpToRel
<1>2. IsWellFoundedOn(R, Nat)
  BY NatLessThanWellFounded
<1> HIDE DEF R
<1>3. PICK x \in T : \A y \in T : ~(<<y, x>> \in R)
  BY <1>2, WFMin
<1>4. \A y \in T : x <= y
  <2> TAKE y \in T
  <2>1. x \in Nat /\ y \in Nat /\ ~(<<y, x>> \in R)
    BY <1>3
  <2>2. ~(y < x)
    BY <1>1, <2>1
  <2> QED BY <2>1, <2>2
<1> QED BY <1>4

\* Induction: what every step of a recursive function keeps holds throughout.
LEMMA Stays ==
  ASSUME NEW S, NEW m \in Nat, NEW n \in Nat, NEW f,
         f[m] \in S, \A k \in m + 1..n : f[k - 1] \in S => f[k] \in S
  PROVE  \A k \in m..n : f[k] \in S
<1> DEFINE T == {k \in m..n : f[k] \notin S}
<1>1. T = {}
  <2> SUFFICES ASSUME T # {} PROVE FALSE
    OBVIOUS
  <2>1. T \subseteq Nat
    OBVIOUS
  <2>2. PICK k \in T : \A y \in T : k <= y
    <3> HIDE DEF T
    <3> QED BY <2>1, LeastNat
  <2>3. k \in m..n /\ f[k] \notin S
    OBVIOUS
  <2>4. k # m
    BY <2>3
  <2>5. k \in m + 1..n /\ k - 1 \in m..n /\ ~(k <= k - 1)
    BY <2>3, <2>4
  <2>6. k - 1 \notin T
    <3> HIDE DEF T
    <3> QED BY <2>2, <2>5
  <2>7. f[k - 1] \in S
    BY <2>5, <2>6
  <2> QED BY <2>3, <2>5, <2>7
<1> QED BY <1>1

\* g is defined over m..n by its first value and its steps.
Solves(g, S, m, n, x, step) ==
  /\ g \in [m..n -> S]
  /\ \A k \in m..n : g[k] = IF k = m THEN x ELSE step[k][g[k - 1]]

\* A recursive definition whose steps stay in a set has a solution.
LEMMA Iterates ==
  ASSUME NEW S, NEW m \in Nat, NEW n \in Nat, m <= n, NEW x \in S,
         NEW step \in [m..n -> [S -> S]]
  PROVE  \E g : Solves(g, S, m, n, x, step)
<1> DEFINE P(g, j) == /\ g \in [m..j -> S]
                      /\ \A k \in m..j : g[k] = IF k = m THEN x ELSE step[k][g[k - 1]]
           T == {j \in m..n : ~ \E g : P(g, j)}
<1>1. T = {}
  <2> SUFFICES ASSUME T # {} PROVE FALSE
    OBVIOUS
  <2>1. T \subseteq Nat
    OBVIOUS
  <2>2. PICK j \in T : \A y \in T : j <= y
    <3> HIDE DEF T
    <3> QED BY <2>1, LeastNat
  <2>3. j \in m..n /\ ~ \E g : P(g, j)
    OBVIOUS
  <2>4. CASE j = m
    <3> DEFINE g == [k \in m..m |-> x]
    <3>1. P(g, m)
      OBVIOUS
    <3> QED BY <2>3, <2>4, <3>1
  <2>5. CASE j # m
    <3>1. j - 1 \in m..n /\ ~(j <= j - 1)
      BY <2>3, <2>5
    <3>2. j - 1 \notin T
      <4> HIDE DEF T
      <4> QED BY <2>2, <3>1
    <3>3. PICK g : P(g, j - 1)
      BY <3>1, <3>2
    <3> DEFINE v == step[j][g[j - 1]]
               h == [k \in m..j |-> IF k = j THEN v ELSE g[k]]
    <3>4. g[j - 1] \in S /\ v \in S
      <4>1. j - 1 \in m..j - 1 /\ j \in m..n
        BY <2>3, <3>1
      <4>2. g[j - 1] \in S
        BY <3>3, <4>1
      <4> QED BY <4>1, <4>2
    <3>5. \A k \in m..j : k # j => k \in m..j - 1
      BY <2>3
    <3>6. h \in [m..j -> S]
      <4> HIDE DEF v
      <4> QED BY <3>3, <3>4, <3>5
    <3>7. h[j] = v /\ \A k \in m..j - 1 : h[k] = g[k]
      <4>1. j \in m..j /\ \A k \in m..j - 1 : k \in m..j /\ k # j
        BY <2>3
      <4> HIDE DEF v
      <4> QED BY <4>1
    <3> HIDE DEF h
    <3>8. ASSUME NEW k \in m..j
          PROVE  h[k] = IF k = m THEN x ELSE step[k][h[k - 1]]
      <4>1. CASE k = j
        <5>1. j - 1 \in m..j - 1
          BY <2>3, <2>5
        <5>2. h[j - 1] = g[j - 1]
          BY <3>7, <5>1
        <5> QED BY <2>5, <3>7, <4>1, <5>2
      <4>2. CASE k # j
        <5>1. k \in m..j - 1 /\ (k # m => k - 1 \in m..j - 1)
          BY <2>3, <4>2
        <5>2. h[k] = g[k] /\ (k # m => h[k - 1] = g[k - 1])
          BY <3>7, <5>1
        <5>3. g[k] = IF k = m THEN x ELSE step[k][g[k - 1]]
          BY <3>3, <5>1
        <5> QED BY <5>2, <5>3
      <4> QED BY <4>1, <4>2
    <3>9. P(h, j)
      BY <3>6, <3>8
    <3> QED BY <2>3, <3>9
  <2> QED BY <2>4, <2>5
<1>2. n \in m..n
  OBVIOUS
<1>3. \E g : P(g, n)
  BY <1>1, <1>2
<1> QED BY <1>3 DEF Solves

\* A function on 1..n is a sequence.
LEMMA FunctionIsSeq ==
  ASSUME NEW S, NEW n \in Nat, NEW f \in [1..n -> S]
  PROVE  f \in Seq(S) /\ Len(f) = n /\ DOMAIN f = 1..n
<1>1. f \in Seq(S)
  BY SeqDef
<1>2. DOMAIN f = 1..n
  OBVIOUS
<1>3. DOMAIN f = 1..Len(f) /\ Len(f) \in Nat
  BY <1>1, LenProperties
<1> QED BY <1>1, <1>2, <1>3

\* Part of a sequence.
LEMMA PartOf ==
  ASSUME NEW S, NEW q \in Seq(S), NEW m \in Nat, NEW n \in Nat, m + n <= Len(q)
  PROVE  /\ SubSeq(q, m + 1, m + n) \in Seq(S)
         /\ Len(SubSeq(q, m + 1, m + n)) = n
         /\ \A i \in 1..n : SubSeq(q, m + 1, m + n)[i] = q[m + i]
<1> DEFINE l == m + 1
           u == m + n
<1>1. l \in Int /\ u \in Int /\ u - l + 1 = n /\ (l <= u <=> n # 0)
  OBVIOUS
<1>2. \A i \in l..u : q[i] \in S
  <2> TAKE i \in l..u
  <2>1. i \in 1..Len(q)
    BY LenProperties
  <2> QED BY <2>1, ElementOfSeq
<1>3. \A i \in 1..n : l + i - 1 = m + i
  OBVIOUS
<1> HIDE DEF l, u
<1>4. /\ SubSeq(q, l, u) \in Seq(S)
      /\ Len(SubSeq(q, l, u)) = IF l <= u THEN u - l + 1 ELSE 0
      /\ \A i \in 1..u - l + 1 : SubSeq(q, l, u)[i] = q[l + i - 1]
  BY <1>1, <1>2, SubSeqProperties
<1>5. /\ Len(SubSeq(q, l, u)) = n
      /\ \A i \in 1..n : SubSeq(q, l, u)[i] = q[m + i]
  BY <1>1, <1>3, <1>4
<1> QED BY <1>4, <1>5 DEF l, u

\* The first m elements of a sequence, and the others.
LEMMA Halves ==
  ASSUME NEW S, NEW q \in Seq(S), NEW m \in Nat, NEW n \in Nat, Len(q) = n, m <= n
  PROVE  /\ SubSeq(q, 1, m) \in Seq(S) /\ Len(SubSeq(q, 1, m)) = m
         /\ \A i \in 1..m : SubSeq(q, 1, m)[i] = q[i]
         /\ SubSeq(q, m + 1, n) \in Seq(S) /\ Len(SubSeq(q, m + 1, n)) = n - m
         /\ \A i \in 1..n - m : SubSeq(q, m + 1, n)[i] = q[m + i]
<1> DEFINE o == 0
           j == n - m
<1>1. o \in Nat /\ o + m <= Len(q) /\ o + 1 = 1 /\ o + m = m /\ \A i \in 1..m : o + i = i
  OBVIOUS
<1>2. j \in Nat /\ m + j <= Len(q) /\ m + j = n
  OBVIOUS
<1> HIDE DEF o, j
<1>3. /\ SubSeq(q, o + 1, o + m) \in Seq(S) /\ Len(SubSeq(q, o + 1, o + m)) = m
      /\ \A i \in 1..m : SubSeq(q, o + 1, o + m)[i] = q[o + i]
  BY <1>1, PartOf
<1>4. /\ SubSeq(q, m + 1, m + j) \in Seq(S) /\ Len(SubSeq(q, m + 1, m + j)) = j
      /\ \A i \in 1..j : SubSeq(q, m + 1, m + j)[i] = q[m + i]
  BY <1>2, PartOf
<1>5. /\ SubSeq(q, 1, m) \in Seq(S) /\ Len(SubSeq(q, 1, m)) = m
      /\ \A i \in 1..m : SubSeq(q, 1, m)[i] = q[i]
  BY <1>1, <1>3
<1>6. /\ SubSeq(q, m + 1, n) \in Seq(S) /\ Len(SubSeq(q, m + 1, n)) = j
      /\ \A i \in 1..j : SubSeq(q, m + 1, n)[i] = q[m + i]
  BY <1>2, <1>4
<1> QED BY <1>5, <1>6 DEF j

\* A sequence is its first k elements and the others.
LEMMA TwoParts ==
  ASSUME NEW S, NEW q \in Seq(S), NEW k \in 0..Len(q)
  PROVE  q = SubSeq(q, 1, k) \o SubSeq(q, k + 1, Len(q))
<1>1. Len(q) \in Nat
  BY LenProperties
<1>2. 1 \in 1..Len(q) + 1 /\ k \in 1 - 1..Len(q) /\ Len(q) \in k..Len(q)
  BY <1>1
<1>3. SubSeq(q, 1, k) \o SubSeq(q, k + 1, Len(q)) = SubSeq(q, 1, Len(q))
  BY <1>2, ConcatAdjacentSubSeq
<1> QED BY <1>3, SubSeqFull

-----------------------------------------------------------------------------
(* The array                                                               *)

Cell == Int \cup {Junk}

ArrayShape ==
  [size : Nat \ {0}, head : Nat, tail : Nat,
   mem : UNION {[0..n - 1 -> Cell] : n \in Nat}]

\* The bytes lie between head_ and tail_ in the array.
Run(r) ==
  /\ r \in ArrayShape
  /\ r.head <= r.tail /\ r.tail <= r.size
  /\ r.mem \in [0..r.size - 1 -> Cell]

LEMMA RunContents ==
  ASSUME NEW r, Run(r)
  PROVE  /\ Array!get_count(r) \in Nat /\ Array!get_count(r) = r.tail - r.head
         /\ Array!Contents(r) \in Seq(Cell)
         /\ Len(Array!Contents(r)) = Array!get_count(r)
         /\ \A i \in 1..Array!get_count(r) :
              Array!Contents(r)[i] = r.mem[r.head + i - 1]
<1> DEFINE n == Array!get_count(r)
           q == Array!Contents(r)
<1>1. /\ n \in Nat /\ n = r.tail - r.head /\ r.head + n <= r.size
      /\ r.mem \in [0..r.size - 1 -> Cell] /\ r.head \in Nat /\ r.size \in Nat
  BY DEF Run, ArrayShape, Array!get_count
<1>2. q = [i \in 1..n |-> r.mem[r.head + i - 1]]
  BY DEF Array!Contents
<1> HIDE DEF n, q
<1>3. \A i \in 1..n : r.head + i - 1 \in 0..r.size - 1
  BY <1>1
<1>4. q \in [1..n -> Cell]
  BY <1>1, <1>2, <1>3
<1>5. q \in Seq(Cell) /\ Len(q) = n
  BY <1>1, <1>4, FunctionIsSeq
<1>6. \A i \in 1..n : q[i] = r.mem[r.head + i - 1]
  BY <1>2
<1> QED BY <1>1, <1>5, <1>6 DEF n, q

\* What a member function puts in an array is what is in it.
LEMMA PlaceRun ==
  ASSUME NEW data \in Seq(Cell), NEW from \in Nat, NEW size \in Nat \ {0},
         from + Len(data) <= size
  PROVE  LET p == Array!Place(data, from, size)
         IN  /\ Run(p) /\ p.size = size /\ p.head = from
             /\ p.tail = from + Len(data) /\ Array!Contents(p) = data
             /\ Array!get_count(p) = Len(data)
<1> DEFINE p == Array!Place(data, from, size)
           n == Len(data)
           At(i) == IF i - from \in 0..n - 1 THEN data[i - from + 1] ELSE Junk
           M == [i \in 0..size - 1 |-> At(i)]
<1>1. n \in Nat /\ from + n <= size
  BY LenProperties
<1>2. p = [size |-> size, head |-> from, tail |-> from + n, mem |-> M]
  BY DEF Array!Place
<1>3. M \in [0..size - 1 -> Cell]
  <2>1. \A i \in 0..size - 1 : At(i) \in Cell
    <3> TAKE i \in 0..size - 1
    <3>1. CASE i - from \in 0..n - 1
      <4>1. i - from + 1 \in 1..Len(data)
        BY <1>1, <3>1
      <4>2. data[i - from + 1] \in Cell
        BY <4>1, ElementOfSeq
      <4> QED BY <3>1, <4>2
    <3>2. CASE ~(i - from \in 0..n - 1)
      BY <3>2 DEF Cell
    <3> QED BY <3>1, <3>2
  <2> HIDE DEF At
  <2> QED BY <2>1
<1>4. /\ p.size = size /\ p.head = from /\ p.tail = from + n /\ p.mem = M
      /\ p \in ArrayShape
  <2>1. M \in UNION {[0..k - 1 -> Cell] : k \in Nat}
    BY <1>3
  <2> HIDE DEF M
  <2> QED BY <1>1, <1>2, <2>1 DEF ArrayShape
<1>5. Run(p)
  <2> HIDE DEF M, p
  <2> QED BY <1>1, <1>3, <1>4 DEF Run
<1>6. /\ Array!get_count(p) = p.tail - p.head /\ Array!Contents(p) \in Seq(Cell)
      /\ Len(Array!Contents(p)) = Array!get_count(p)
      /\ \A i \in 1..Array!get_count(p) : Array!Contents(p)[i] = p.mem[p.head + i - 1]
  <2> HIDE DEF p
  <2> QED BY <1>5, RunContents
<1>7. Array!get_count(p) = n
  <2> HIDE DEF p, M
  <2> QED BY <1>1, <1>4, <1>6
<1>8. \A i \in 1..n : M[from + i - 1] = data[i]
  <2> TAKE i \in 1..n
  <2>1. from + i - 1 \in 0..size - 1 /\ (from + i - 1) - from \in 0..n - 1
        /\ (from + i - 1) - from + 1 = i
    BY <1>1
  <2> QED BY <2>1
<1>9. Array!Contents(p) = data
  <2> DEFINE q == Array!Contents(p)
  <2> HIDE DEF p, M, q
  <2>1. q \in Seq(Cell) /\ Len(q) = Len(data) /\ \A i \in 1..Len(q) : q[i] = data[i]
    BY <1>4, <1>6, <1>7, <1>8 DEF q
  <2>2. q = data
    BY <2>1, SeqEqual
  <2> QED BY <2>2 DEF q
<1> HIDE DEF M, p
<1>10. /\ Run(p) /\ p.size = size /\ p.head = from /\ p.tail = from + n
       /\ Array!Contents(p) = data /\ Array!get_count(p) = n
  BY <1>4, <1>5, <1>7, <1>9
<1> QED BY <1>10 DEF p

\* Four times as large each time, and never less than the number of times.
LEMMA GrownIs ==
  /\ Array!Grown[0] = ArraySize
  /\ \A k \in 1..ArrayLimit : Array!Grown[k] = 4 * Array!Grown[k - 1]
  /\ \A k \in 0..ArrayLimit : Array!Grown[k] \in Nat /\ Array!Grown[k] > k
<1> USE SpareBuffersConstants
<1> DEFINE G == Array!Grown
           N == ArrayLimit
           step == [k \in 0..N |-> [y \in Nat |-> 4 * y]]
<1>1. PICK g : Solves(g, Nat, 0, N, ArraySize, step)
  <2>1. step \in [0..N -> [Nat -> Nat]]
    OBVIOUS
  <2>2. 0 \in Nat /\ N \in Nat /\ 0 <= N /\ ArraySize \in Nat
    OBVIOUS
  <2> HIDE DEF step, N
  <2> HIDE SpareBuffersConstants
  <2> QED BY <2>1, <2>2, Iterates
<1>2. g = [k \in 0..N |-> IF k = 0 THEN ArraySize ELSE 4 * g[k - 1]]
  <2>1. ASSUME NEW k \in 0..N
        PROVE  g[k] = IF k = 0 THEN ArraySize ELSE 4 * g[k - 1]
    <3>1. k # 0 => k - 1 \in 0..N
      OBVIOUS
    <3>2. k # 0 => step[k][g[k - 1]] = 4 * g[k - 1]
      BY <1>1, <3>1 DEF Solves
    <3> QED BY <1>1, <3>2 DEF Solves
  <2> QED BY <1>1, <2>1 DEF Solves
<1>3. G = CHOOSE f : f = [k \in 0..N |-> IF k = 0 THEN ArraySize ELSE 4 * f[k - 1]]
  BY DEF Array!Grown
<1>4. G = [k \in 0..N |-> IF k = 0 THEN ArraySize ELSE 4 * G[k - 1]]
  BY <1>2, <1>3
<1> HIDE DEF G
<1>5. G[0] = ArraySize /\ \A k \in 1..N : G[k] = 4 * G[k - 1]
  <2>1. 0 \in 0..N /\ \A k \in 1..N : k \in 0..N /\ k # 0
    OBVIOUS
  <2> QED BY <1>4, <2>1
<1> DEFINE h == [k \in 0..N |-> <<k, G[k]>>]
           S == {p \in Nat \X Nat : p[2] > p[1]}
<1>6. \A k \in 0..N : h[k] \in S
  <2>1. h[0] \in S
    BY <1>5
  <2>2. ASSUME NEW k \in 0 + 1..N, h[k - 1] \in S PROVE h[k] \in S
    <3>1. k \in 1..N /\ k - 1 \in 0..N /\ k \in 0..N
      OBVIOUS
    <3>2. G[k - 1] \in Nat /\ G[k - 1] > k - 1
      BY <2>2, <3>1
    <3>3. G[k] \in Nat /\ G[k] > k
      BY <1>5, <3>1, <3>2
    <3> QED BY <3>1, <3>3
  <2> HIDE DEF h, S
  <2> QED BY <2>1, <2>2, Stays
<1>7. \A k \in 0..N : G[k] \in Nat /\ G[k] > k
  BY <1>6
<1> QED BY <1>5, <1>7 DEF G

\* An array of the program: its size is one it grew to.
ArrayOK(r) ==
  /\ Run(r) /\ r.size <= ArrayLimit
  /\ r.size = ArrayLimit \/ \E k \in 0..ArrayLimit : r.size = Array!Grown[k]

\* The last growth was to less than twice the size.
SmallStep == \E k \in 0..ArrayLimit :
               Array!Grown[k] < ArrayLimit /\ ArrayLimit < 2 * Array!Grown[k]

\* n bytes fit behind those of r, unless the array is at such a limit.
Safe(r, n) == r.tail + n <= r.size \/ (r.size = ArrayLimit /\ SmallStep)

LEMMA ExpandArray ==
  ASSUME NEW r, ArrayOK(r), Array!CanExpand(r)
  PROVE  LET e == Array!expand(r)
             c == Array!get_count(r)
         IN  /\ ArrayOK(e) /\ Array!Contents(e) = Array!Contents(r)
             /\ e.head = 0 /\ e.tail = c /\ e.size > r.size /\ c <= r.size
             /\ Array!get_count(e) = c
             /\ \A n \in 0..c : Safe(e, n)
<1> USE SpareBuffersConstants
<1> DEFINE e == Array!expand(r)
           c == Array!get_count(r)
           q == Array!Contents(r)
           z == IF 4 * r.size < ArrayLimit THEN 4 * r.size ELSE ArrayLimit
<1>1. /\ c \in Nat /\ c = r.tail - r.head /\ q \in Seq(Cell) /\ Len(q) = c
  BY RunContents DEF ArrayOK
<1>2. /\ r.size \in Nat \ {0} /\ r.head \in Nat /\ r.tail \in Nat /\ r.tail <= r.size
      /\ r.size < ArrayLimit
  BY DEF ArrayOK, Run, ArrayShape, Array!CanExpand
<1>3. PICK k \in 0..ArrayLimit : r.size = Array!Grown[k]
  BY <1>2 DEF ArrayOK
<1> HIDE DEF c, q
<1>4. c <= r.size
  BY <1>1, <1>2
<1>5. z \in Nat \ {0} /\ z > r.size /\ z <= ArrayLimit /\ 0 + Len(q) <= z /\ 0 \in Nat
  BY <1>1, <1>2, <1>4
<1>6. e = Array!Place(q, 0, z)
  BY DEF Array!expand, q
<1> HIDE DEF e, z
<1>7. /\ Run(e) /\ e.size = z /\ e.head = 0 /\ e.tail = 0 + Len(q)
      /\ Array!Contents(e) = q /\ Array!get_count(e) = Len(q)
  BY <1>1, <1>5, <1>6, PlaceRun
<1>8. z = ArrayLimit \/ \E j \in 0..ArrayLimit : z = Array!Grown[j]
  <2> SUFFICES ASSUME z # ArrayLimit PROVE z = Array!Grown[k + 1] /\ k + 1 \in 0..ArrayLimit
    OBVIOUS
  <2>1. z = 4 * r.size /\ z < ArrayLimit
    BY <1>2 DEF z
  <2>2. Array!Grown[k] \in Nat /\ Array!Grown[k] > k
    BY GrownIs
  <2>3. k + 1 \in 1..ArrayLimit /\ (k + 1) - 1 = k
    BY <1>2, <1>3, <2>2
  <2>4. Array!Grown[k + 1] = 4 * Array!Grown[k]
    BY <2>3, GrownIs
  <2> QED BY <1>3, <2>1, <2>3, <2>4
<1>9. ArrayOK(e)
  BY <1>5, <1>7, <1>8 DEF ArrayOK
<1>10. ASSUME NEW n \in 0..c PROVE Safe(e, n)
  <2>1. CASE e.tail + n <= e.size
    BY <2>1 DEF Safe
  <2>2. CASE ~(e.tail + n <= e.size)
    <3>1. 2 * r.size > z
      BY <1>1, <1>2, <1>4, <1>5, <1>7, <2>2
    <3>2. z = ArrayLimit
      BY <1>2, <3>1 DEF z
    <3>3. Array!Grown[k] < ArrayLimit /\ ArrayLimit < 2 * Array!Grown[k]
      BY <1>2, <1>3, <3>1, <3>2
    <3> QED BY <1>7, <3>2, <3>3 DEF Safe, SmallStep
  <2> QED BY <2>1, <2>2
<1>11. e.tail = c /\ e.size > r.size /\ Array!get_count(e) = c
  BY <1>1, <1>5, <1>7
<1> QED BY <1>4, <1>7, <1>9, <1>10, <1>11 DEF e, c, q

LEMMA CompactArray ==
  ASSUME NEW r, ArrayOK(r)
  PROVE  LET p == Array!compact(r)
         IN  /\ ArrayOK(p) /\ Array!Contents(p) = Array!Contents(r)
             /\ p.head = 0 /\ p.tail = Array!get_count(r) /\ p.size = r.size
             /\ Array!get_count(p) = Array!get_count(r)
<1> DEFINE p == Array!compact(r)
           q == Array!Contents(r)
<1>1. /\ Array!get_count(r) = r.tail - r.head /\ q \in Seq(Cell)
      /\ Len(q) = Array!get_count(r)
  BY RunContents DEF ArrayOK
<1>2. /\ r.size \in Nat \ {0} /\ r.head \in Nat /\ r.tail \in Nat /\ r.tail <= r.size
      /\ r.head <= r.tail
  BY DEF ArrayOK, Run, ArrayShape
<1>3. p = Array!Place(q, 0, r.size)
  BY DEF Array!compact
<1> HIDE DEF p, q
<1>4. 0 + Len(q) <= r.size /\ 0 \in Nat /\ Len(q) \in Nat
  BY <1>1, <1>2
<1>5. /\ Run(p) /\ p.size = r.size /\ p.head = 0 /\ p.tail = 0 + Len(q)
      /\ Array!Contents(p) = q /\ Array!get_count(p) = Len(q)
  BY <1>1, <1>2, <1>3, <1>4, PlaceRun
<1>6. ArrayOK(p)
  BY <1>5 DEF ArrayOK
<1>7. p.tail = Array!get_count(r)
  BY <1>1, <1>4, <1>5
<1> QED BY <1>1, <1>5, <1>6, <1>7 DEF p, q

\* get_continguious_space(): what it does to the array, and how much of what it
\* returns can be relied on.
LEMMA SpaceArray ==
  ASSUME NEW r, ArrayOK(r)
  PROVE  LET s == Array!get_continguious_space(r)
             c == Array!get_count(r)
         IN  /\ ArrayOK(s.r) /\ Array!Contents(s.r) = Array!Contents(r)
             /\ Array!get_count(s.r) = c /\ s.ok \in BOOLEAN /\ s.n \in Nat
             /\ r.size <= s.r.size
             /\ \A n \in 0..s.n : s.ok => Safe(s.r, n)
             /\ s.ok => c < s.r.size
             /\ ~s.ok => s.r = r /\ r.tail = r.size /\ r.size = ArrayLimit /\ s.n = 0
             /\ r.tail # r.size => s.r = r /\ s.n = r.size - r.tail
<1> USE SpareBuffersConstants
<1> DEFINE s == Array!get_continguious_space(r)
           c == Array!get_count(r)
           e == Array!expand(r)
<1>1. /\ r.size \in Nat \ {0} /\ r.head \in Nat /\ r.tail \in Nat /\ r.tail <= r.size
      /\ r.head <= r.tail
  BY DEF ArrayOK, Run, ArrayShape
<1>2. c \in Nat /\ c = r.tail - r.head
  BY RunContents DEF ArrayOK
<1>3. CASE r.tail # r.size
  <2>1. s = [r |-> r, n |-> r.size - r.tail, ok |-> TRUE]
    BY <1>3 DEF Array!get_continguious_space
  <2>2. s.r = r /\ s.n = r.size - r.tail /\ s.ok = TRUE
    BY <2>1
  <2> HIDE DEF s, c
  <2>3. s.n \in Nat /\ c < r.size /\ \A n \in 0..s.n : Safe(r, n)
    BY <1>1, <1>2, <1>3, <2>2 DEF Safe
  <2>4. r.size <= r.size
    BY <1>1
  <2> QED BY <1>1, <1>3, <2>2, <2>3, <2>4 DEF s, c
<1>4. CASE r.tail = r.size /\ Array!CanExpand(r)
  <2>1. s = [r |-> e, n |-> c, ok |-> TRUE]
    BY <1>4 DEF Array!get_continguious_space
  <2>2. s.r = e /\ s.n = c /\ s.ok = TRUE
    BY <2>1
  <2>3. /\ ArrayOK(e) /\ Array!Contents(e) = Array!Contents(r)
        /\ e.size > r.size /\ c <= r.size /\ Array!get_count(e) = c
        /\ \A n \in 0..c : Safe(e, n)
    BY <1>4, ExpandArray
  <2>4. e.size \in Nat
    <3> HIDE DEF e
    <3> QED BY <2>3 DEF ArrayOK, Run, ArrayShape
  <2> HIDE DEF s, c, e
  <2>5. r.size <= e.size /\ c < e.size
    BY <1>1, <1>2, <2>3, <2>4
  <2> QED BY <1>2, <1>4, <2>2, <2>3, <2>5 DEF s, c
<1>5. CASE r.tail = r.size /\ ~Array!CanExpand(r)
  <2>1. s = [r |-> r, n |-> 0, ok |-> FALSE]
    BY <1>5 DEF Array!get_continguious_space
  <2>2. s.r = r /\ s.n = 0 /\ s.ok = FALSE
    BY <2>1
  <2> HIDE DEF s
  <2>3. r.size = ArrayLimit /\ r.size <= r.size
    BY <1>1, <1>5 DEF Array!CanExpand
  <2>4. s.ok \in BOOLEAN /\ ~s.ok
    <3>1. s.ok = FALSE
      BY <2>2
    <3> QED BY <3>1, Zenon
  <2>5. s.n \in Nat
    <3>1. s.n = 0
      BY <2>2
    <3> QED BY <3>1
  <2> QED BY <1>5, <2>2, <2>3, <2>4, <2>5 DEF s
<1> QED BY <1>3, <1>4, <1>5

\* One turn of write: it goes through only where the bytes fit, and at the
\* limit fails only when they do not or the last cell is in use.
LEMMA TryArray ==
  ASSUME NEW r, ArrayOK(r), NEW n \in Nat \ {0}
  PROVE  LET t == Array!Try(r, n)
             c == Array!get_count(r)
         IN  /\ t = [r |-> t.r, ok |-> t.ok]
             /\ ArrayOK(t.r) /\ Array!Contents(t.r) = Array!Contents(r)
             /\ Array!get_count(t.r) = c /\ t.ok \in BOOLEAN
             /\ r.size <= t.r.size
             /\ t.ok => Safe(t.r, n)
             /\ ~t.ok /\ t.r.size = ArrayLimit =>
                  c + n > ArrayLimit \/ (r.size = ArrayLimit /\ r.tail = ArrayLimit
                                         /\ r.head > 0)
<1> USE SpareBuffersConstants
<1> DEFINE t == Array!Try(r, n)
           c == Array!get_count(r)
           s == Array!get_continguious_space(r)
           p == Array!compact(s.r)
           u == Array!get_continguious_space(p)
<1>1. /\ r.size \in Nat \ {0} /\ r.head \in Nat /\ r.tail \in Nat /\ r.tail <= r.size
      /\ r.head <= r.tail
  BY DEF ArrayOK, Run, ArrayShape
<1>2. c \in Nat /\ c = r.tail - r.head
  BY RunContents DEF ArrayOK
<1>3. /\ ArrayOK(s.r) /\ Array!Contents(s.r) = Array!Contents(r)
      /\ Array!get_count(s.r) = c /\ s.ok \in BOOLEAN /\ s.n \in Nat
      /\ r.size <= s.r.size
      /\ \A k \in 0..s.n : s.ok => Safe(s.r, k)
      /\ s.ok => c < s.r.size
      /\ ~s.ok => s.r = r /\ r.tail = r.size /\ r.size = ArrayLimit
  BY SpaceArray
<1>4. t = IF s.ok /\ s.n < n THEN [r |-> u.r, ok |-> u.ok /\ u.n >= n]
          ELSE [r |-> s.r, ok |-> s.ok]
  BY DEF Array!Try
<1> HIDE DEF s
<1>5. s.r.size \in Nat
  BY <1>3 DEF ArrayOK, Run, ArrayShape
<1>6. CASE ~s.ok
  <2>0. s.ok = FALSE /\ s.r = r
    BY <1>3, <1>6
  <2>1. t = [r |-> r, ok |-> FALSE]
    BY <1>4, <2>0
  <2> HIDE DEF t, c
  <2>2. c + n > ArrayLimit \/ (r.size = ArrayLimit /\ r.tail = ArrayLimit /\ r.head > 0)
    BY <1>1, <1>2, <1>3, <1>6
  <2>3. r.size <= r.size
    BY <1>1
  <2>4. t.r = r /\ t.ok = FALSE
    BY <2>1
  <2> QED BY <2>1, <2>2, <2>3, <2>4 DEF t, c
<1>7. CASE s.ok /\ ~(s.n < n)
  <2>1. t = [r |-> s.r, ok |-> TRUE] /\ t.r = s.r /\ t.ok = TRUE
    BY <1>3, <1>4, <1>7
  <2>2. n \in 0..s.n
    BY <1>3, <1>7
  <2> HIDE DEF t, c
  <2>3. Safe(s.r, n)
    BY <1>3, <1>7, <2>2
  <2> QED BY <1>3, <2>1, <2>3 DEF t, c
<1>8. CASE s.ok /\ s.n < n
  <2>1. /\ ArrayOK(p) /\ Array!Contents(p) = Array!Contents(s.r)
        /\ p.head = 0 /\ p.tail = c /\ p.size = s.r.size
        /\ Array!get_count(p) = c
    BY <1>3, CompactArray
  <2> HIDE DEF p
  <2>2. p.tail # p.size
    BY <1>2, <1>3, <1>5, <1>8, <2>1
  <2>3. /\ u.ok \in BOOLEAN /\ u.r = p /\ u.n = p.size - p.tail /\ u.n \in Nat
        /\ \A k \in 0..u.n : u.ok => Safe(p, k)
        /\ ~u.ok => p.tail = p.size
    BY <2>1, <2>2, SpaceArray
  <2> HIDE DEF u
  <2>4. /\ t = [r |-> p, ok |-> u.n >= n] /\ t.r = p /\ t.ok = (u.n >= n)
    BY <1>4, <1>8, <2>2, <2>3
  <2>5. t.ok => Safe(p, n)
    <3> SUFFICES ASSUME u.n >= n PROVE Safe(p, n)
      BY <2>4
    <3>1. n \in 0..u.n
      BY <2>3
    <3> QED BY <2>2, <2>3, <3>1
  <2> HIDE DEF t, c
  <2>6. ~t.ok /\ p.size = ArrayLimit => c + n > ArrayLimit
    BY <1>2, <2>1, <2>3, <2>4
  <2>7. r.size <= p.size /\ t.ok \in BOOLEAN
    BY <1>3, <2>1, <2>4
  <2> QED BY <1>3, <2>1, <2>4, <2>5, <2>6, <2>7 DEF t, c
<1> QED BY <1>3, <1>6, <1>7, <1>8

\* write(data, n, -1) finds its place after finitely many turns; the bytes stay
\* what they were, and where it copies there is room.
LEMMA RoomArray ==
  ASSUME NEW r, ArrayOK(r), NEW n \in Nat \ {0}
  PROVE  LET t == Array!RoomFor(r, n)
             c == Array!get_count(r)
         IN  /\ ArrayOK(t.r) /\ Array!Contents(t.r) = Array!Contents(r)
             /\ t.ok \in BOOLEAN
             /\ t.ok => Safe(t.r, n)
             /\ ~t.ok => c + n > ArrayLimit
                         \/ (r.size = ArrayLimit /\ r.tail = ArrayLimit /\ r.head > 0)
<1> USE SpareBuffersConstants
<1> DEFINE N == ArrayLimit
           c == Array!get_count(r)
           Full == c + n > N \/ (r.size = N /\ r.tail = N /\ r.head > 0)
           Step(t) == IF t.ok \/ ~Array!CanExpand(t.r) THEN t
                      ELSE Array!Try(Array!expand(t.r), n)
           S == {t \in [r : ArrayShape, ok : BOOLEAN] :
                   /\ ArrayOK(t.r) /\ Array!Contents(t.r) = Array!Contents(r)
                   /\ Array!get_count(t.r) = c
                   /\ t.ok => Safe(t.r, n)
                   /\ ~t.ok /\ t.r.size = N => Full}
           F == CHOOSE f : f = [k \in 0..N |-> IF k = 0 THEN Array!Try(r, n)
                  ELSE LET t == f[k - 1]
                       IN  IF t.ok \/ ~Array!CanExpand(t.r) THEN t
                           ELSE Array!Try(Array!expand(t.r), n)]
           Stops(k) == F[k].ok \/ ~Array!CanExpand(F[k].r)
           K == CHOOSE k \in 0..N :
                  /\ F[k].ok \/ ~Array!CanExpand(F[k].r)
                  /\ \A j \in 0..k - 1 : ~F[j].ok /\ Array!CanExpand(F[j].r)
<1>1. Array!RoomFor(r, n) = F[K]
  BY DEF Array!RoomFor
<1>2. c \in Nat
  BY RunContents DEF ArrayOK
<1>3. Array!Try(r, n) \in S
  <2> DEFINE t == Array!Try(r, n)
  <2>1. /\ t = [r |-> t.r, ok |-> t.ok]
        /\ ArrayOK(t.r) /\ Array!Contents(t.r) = Array!Contents(r)
        /\ Array!get_count(t.r) = c /\ t.ok \in BOOLEAN
        /\ t.ok => Safe(t.r, n)
        /\ ~t.ok /\ t.r.size = N => Full
    BY TryArray
  <2> HIDE DEF t, c, Full
  <2>2. t.r \in ArrayShape
    BY <2>1 DEF ArrayOK, Run
  <2>3. t \in [r : ArrayShape, ok : BOOLEAN]
    BY <2>1, <2>2
  <2>4. t \in S
    BY <2>1, <2>3
  <2> QED BY <2>4 DEF t
<1>4. ASSUME NEW t \in S, ~t.ok, Array!CanExpand(t.r)
      PROVE  Step(t) \in S /\ Step(t).r.size > t.r.size
  <2> DEFINE e == Array!expand(t.r)
             u == Array!Try(e, n)
  <2>1. /\ ArrayOK(t.r) /\ Array!Contents(t.r) = Array!Contents(r)
        /\ Array!get_count(t.r) = c
    OBVIOUS
  <2>2. /\ ArrayOK(e) /\ Array!Contents(e) = Array!Contents(r)
        /\ e.head = 0 /\ e.size > t.r.size /\ Array!get_count(e) = c
    BY <1>4, <2>1, ExpandArray
  <2> HIDE DEF e, c, S
  <2>3. /\ u = [r |-> u.r, ok |-> u.ok]
        /\ ArrayOK(u.r) /\ Array!Contents(u.r) = Array!Contents(r)
        /\ Array!get_count(u.r) = c /\ u.ok \in BOOLEAN
        /\ e.size <= u.r.size
        /\ u.ok => Safe(u.r, n)
        /\ ~u.ok /\ u.r.size = N => c + n > N \/ (e.size = N /\ e.tail = N /\ e.head > 0)
    BY <2>2, TryArray
  <2>4. Step(t) = u
    BY <1>4 DEF e
  <2> HIDE DEF u, Step
  <2>5. ~u.ok /\ u.r.size = N => c + n > N
    BY <2>2, <2>3
  <2>6. u.r \in ArrayShape
    BY <2>3 DEF ArrayOK, Run
  <2>7. u \in [r : ArrayShape, ok : BOOLEAN]
    BY <2>3, <2>6
  <2>8. u \in S
    BY <2>3, <2>5, <2>7 DEF S
  <2>9. e.size \in Nat /\ u.r.size \in Nat /\ t.r.size \in Nat
    BY <2>1, <2>2, <2>3 DEF ArrayOK, Run, ArrayShape
  <2>10. u.r.size > t.r.size
    BY <2>2, <2>3, <2>9
  <2> QED BY <2>4, <2>8, <2>10
<1>5. \A t \in S : Step(t) \in S
  <2> TAKE t \in S
  <2>1. CASE t.ok \/ ~Array!CanExpand(t.r)
    <3> HIDE DEF S
    <3> QED BY <2>1
  <2>2. CASE ~(t.ok \/ ~Array!CanExpand(t.r))
    <3> HIDE DEF S, Step
    <3> QED BY <1>4, <2>2
  <2> QED BY <2>1, <2>2
<1>6. F = [k \in 0..N |-> IF k = 0 THEN Array!Try(r, n) ELSE Step(F[k - 1])]
  <2> DEFINE step == [k \in 0..N |-> [y \in S |-> Step(y)]]
             x == Array!Try(r, n)
  <2>1. PICK g : Solves(g, S, 0, N, x, step)
    <3>1. step \in [0..N -> [S -> S]]
      <4> HIDE DEF S, Step
      <4> QED BY <1>5
    <3>2. 0 \in Nat /\ N \in Nat /\ 0 <= N /\ x \in S
      <4> HIDE DEF S
      <4> QED BY <1>3
    <3> HIDE DEF step, N, x, S
    <3> HIDE SpareBuffersConstants
    <3> QED BY <3>1, <3>2, Iterates
  <2>2. g = [k \in 0..N |-> IF k = 0 THEN x ELSE Step(g[k - 1])]
    <3> HIDE DEF S, Step, x
    <3>1. ASSUME NEW k \in 0..N
          PROVE  g[k] = IF k = 0 THEN x ELSE Step(g[k - 1])
      <4>1. k # 0 => k - 1 \in 0..N
        OBVIOUS
      <4>2. k # 0 => g[k - 1] \in S
        BY <2>1, <4>1 DEF Solves
      <4>3. k # 0 => step[k][g[k - 1]] = Step(g[k - 1])
        BY <4>2
      <4> QED BY <2>1, <4>3 DEF Solves
    <3> QED BY <2>1, <3>1 DEF Solves
  <2>3. \E f : f = [k \in 0..N |-> IF k = 0 THEN x ELSE Step(f[k - 1])]
    BY <2>2
  <2> QED BY <2>3
<1> HIDE DEF F, S, Step
<1>7. F[0] = Array!Try(r, n) /\ \A k \in 1..N : F[k] = Step(F[k - 1])
  <2>1. 0 \in 0..N /\ \A k \in 1..N : k \in 0..N /\ k # 0
    OBVIOUS
  <2> QED BY <1>6, <2>1
<1>8. \A k \in 0..N : F[k] \in S
  <2>1. F[0] \in S
    BY <1>3, <1>7
  <2>2. \A k \in 0 + 1..N : F[k - 1] \in S => F[k] \in S
    <3>1. \A k \in 0 + 1..N : k \in 1..N
      OBVIOUS
    <3> QED BY <1>5, <1>7, <3>1
  <2>3. 0 \in Nat /\ N \in Nat
    OBVIOUS
  <2> HIDE DEF N
  <2> QED BY <2>1, <2>2, <2>3, Stays
<1>9. \A k \in 0..N : Stops(k) \/ F[k].r.size > k
  <2> DEFINE h == [k \in 0..N |-> <<k, F[k]>>]
             U == {p \in Nat \X S : p[2].ok \/ ~Array!CanExpand(p[2].r) \/ p[2].r.size > p[1]}
  <2>1. h[0] \in U
    <3>1. F[0] \in S /\ 0 \in 0..N
      BY <1>8
    <3>2. F[0].r.size > 0
      BY <3>1 DEF S, ArrayOK, Run, ArrayShape
    <3> QED BY <3>1, <3>2
  <2>2. ASSUME NEW k \in 0 + 1..N, h[k - 1] \in U PROVE h[k] \in U
    <3>1. k \in 1..N /\ k \in Nat /\ k - 1 \in 0..N /\ k \in 0..N
      OBVIOUS
    <3> DEFINE t == F[k - 1]
    <3>2. t \in S /\ F[k] \in S /\ F[k] = Step(t)
      BY <1>7, <1>8, <3>1
    <3>3. t.ok \/ ~Array!CanExpand(t.r) \/ t.r.size > k - 1
      <4>1. h[k - 1] = <<k - 1, t>>
        BY <3>1
      <4> HIDE DEF t, h
      <4> QED BY <2>2, <4>1
    <3> HIDE DEF t
    <3>4. F[k].ok \/ ~Array!CanExpand(F[k].r) \/ F[k].r.size > k
      <4>1. CASE t.ok \/ ~Array!CanExpand(t.r)
        <5>1. F[k] = t
          BY <3>2, <4>1 DEF Step
        <5> QED BY <4>1, <5>1
      <4>2. CASE ~(t.ok \/ ~Array!CanExpand(t.r))
        <5>1. F[k].r.size > t.r.size /\ t.r.size > k - 1
          BY <1>4, <3>2, <3>3, <4>2
        <5>2. F[k].r.size \in Nat /\ t.r.size \in Nat
          BY <3>2 DEF S, ArrayShape
        <5> QED BY <3>1, <5>1, <5>2
      <4> QED BY <4>1, <4>2
    <3>5. h[k] = <<k, F[k]>>
      BY <3>1
    <3> HIDE DEF h
    <3> QED BY <3>1, <3>2, <3>4, <3>5
  <2>3. 0 \in Nat /\ N \in Nat
    OBVIOUS
  <2>4. \A k \in 0..N : h[k] \in U
    <3> HIDE DEF h, U, N
    <3> QED BY <2>1, <2>2, <2>3, Stays
  <2> TAKE k \in 0..N
  <2>5. <<k, F[k]>> \in U
    BY <2>4
  <2> QED BY <2>5
<1>10. K \in 0..N /\ Stops(K)
  <2> DEFINE T == {k \in 0..N : Stops(k)}
  <2>1. N \in T
    <3>1. N \in 0..N /\ F[N] \in S
      BY <1>8
    <3>2. F[N].r.size \in Nat /\ F[N].r.size <= N
      BY <3>1 DEF S, ArrayOK, ArrayShape
    <3> QED BY <1>9, <3>1, <3>2
  <2>2. PICK k \in T : \A y \in T : k <= y
    <3>1. T \subseteq Nat
      OBVIOUS
    <3> HIDE DEF T
    <3> QED BY <2>1, <3>1, LeastNat
  <2>3. k \in 0..N /\ Stops(k)
    OBVIOUS
  <2>4. ASSUME NEW j \in 0..k - 1 PROVE ~F[j].ok /\ Array!CanExpand(F[j].r)
    <3>1. j \in 0..N /\ ~(k <= j)
      BY <2>3
    <3> QED BY <2>2, <3>1
  <2>5. \E y \in 0..N : /\ F[y].ok \/ ~Array!CanExpand(F[y].r)
                        /\ \A j \in 0..y - 1 : ~F[j].ok /\ Array!CanExpand(F[j].r)
    BY <2>3, <2>4
  <2> QED BY <2>5
<1> HIDE DEF K
<1>11. F[K] \in S /\ Stops(K)
  BY <1>8, <1>10
<1>12. ~F[K].ok => F[K].r.size = N
  BY <1>11 DEF Array!CanExpand
<1> QED BY <1>1, <1>11, <1>12 DEF S

\* The bytes written are bytes.
LEMMA FreshIs ==
  ASSUME next \in Nat, NEW n \in Nat
  PROVE  /\ Array!Fresh(n) \in Seq(Cell) /\ Len(Array!Fresh(n)) = n
         /\ Bip!Fresh(n) = Array!Fresh(n)
         /\ (next + n) % Values \in Nat
<1> DEFINE f == Array!Fresh(n)
<1> USE SpareBuffersConstants
<1>1. \A i \in 1..n : (next + i - 1) % Values \in Cell
  BY DEF Cell
<1>2. f \in [1..n -> Cell]
  BY <1>1 DEF Array!Fresh
<1>3. Bip!Fresh(n) = f /\ (next + n) % Values \in Nat
  BY DEF Array!Fresh, Bip!Fresh
<1> HIDE DEF f
<1>4. f \in Seq(Cell) /\ Len(f) = n
  BY <1>2, FunctionIsSeq
<1> QED BY <1>3, <1>4 DEF f

\* The array after a step, and the bytes in it that the step is about.
ArrayGood == /\ ArrayOK(b) /\ next \in Nat /\ damage \in BOOLEAN
             /\ damage => b.size = ArrayLimit /\ SmallStep

LEMMA PutArray ==
  ASSUME NEW g, ArrayOK(g), Array!Contents(g) = Array!Contents(b), next \in Nat,
         NEW n \in Nat, Safe(g, n), Array!PutAt(g, Array!Fresh(n))
  PROVE  /\ ArrayOK(b') /\ next' \in Nat /\ damage' \in BOOLEAN
         /\ damage' => b'.size = ArrayLimit /\ SmallStep
         /\ \/ io' = io /\ Array!Contents(b') = Array!Contents(b)
            \/ /\ io' = [op |-> "put", data |-> Array!Fresh(n)]
               /\ Array!Contents(b') = Array!Contents(b) \o Array!Fresh(n)
<1> DEFINE data == Array!Fresh(n)
           q == Array!Contents(g)
<1>1. data \in Seq(Cell) /\ Len(data) = n /\ (next + n) % Values \in Nat
  BY FreshIs
<1>2. /\ g.size \in Nat \ {0} /\ g.head \in Nat /\ g.tail \in Nat /\ g.tail <= g.size
      /\ g.head <= g.tail
  BY DEF ArrayOK, Run, ArrayShape
<1>3. q \in Seq(Cell) /\ Len(q) = g.tail - g.head
  BY RunContents DEF ArrayOK
<1>4. next' \in Nat /\ damage' = (g.tail + n > g.size)
  BY <1>1 DEF Array!PutAt
<1>4a. damage' <=> g.tail + n > g.size
  BY <1>4, Zenon
<1>5. CASE damage'
  <2>1. b' = g /\ io' = io
    BY <1>5 DEF Array!PutAt
  <2>2. ~(g.tail + n <= g.size)
    BY <1>2, <1>4a, <1>5
  <2>3. g.size = ArrayLimit /\ SmallStep
    BY <2>2 DEF Safe
  <2> QED BY <1>4, <1>5, <2>1, <2>3
<1>6. CASE ~damage'
  <2> DEFINE d == q \o data
             p == Array!Place(d, g.head, g.size)
  <2>1. b' = p /\ io' = [op |-> "put", data |-> data]
    BY <1>6 DEF Array!PutAt, Array!Call
  <2>2. d \in Seq(Cell) /\ Len(d) = g.tail - g.head + n
    <3> HIDE DEF data, q
    <3>1. q \o data \in Seq(Cell) /\ Len(q \o data) = Len(q) + Len(data)
      BY <1>1, <1>3, ConcatProperties
    <3> QED BY <1>1, <1>3, <3>1
  <2>3. g.tail + n <= g.size
    BY <1>2, <1>4a, <1>6
  <2> HIDE DEF d, data, q
  <2>4. g.head + Len(d) <= g.size
    BY <1>2, <2>2, <2>3
  <2>5. Run(p) /\ p.size = g.size /\ Array!Contents(p) = d
    BY <1>2, <2>2, <2>4, PlaceRun
  <2> HIDE DEF p
  <2>6. ArrayOK(p)
    BY <2>5 DEF ArrayOK
  <2>7. damage' \in BOOLEAN
    BY <1>4
  <2> QED BY <1>4, <1>6, <2>1, <2>5, <2>6, <2>7 DEF d, q, data
<1> QED BY <1>5, <1>6

LEMMA WriteArray ==
  ASSUME ArrayGood, NEW n \in Sizes, Array!Write(n), ~damage
  PROVE  /\ ArrayGood'
         /\ \/ io' = io /\ Array!Contents(b') = Array!Contents(b)
            \/ io'.op = "put" /\ Array!Contents(b') = Array!Contents(b) \o io'.data
<1> DEFINE t == Array!RoomFor(b, n)
<1>1. n \in Nat \ {0}
  BY SpareBuffersConstants
<1>2. /\ ArrayOK(t.r) /\ Array!Contents(t.r) = Array!Contents(b)
      /\ t.ok \in BOOLEAN /\ (t.ok => Safe(t.r, n))
  BY <1>1, RoomArray DEF ArrayGood
<1>3. CASE t.ok
  <2>1. Array!PutAt(t.r, Array!Fresh(n))
    BY <1>3 DEF Array!Write
  <2> HIDE DEF t
  <2>2. /\ ArrayOK(b') /\ next' \in Nat /\ damage' \in BOOLEAN
        /\ damage' => b'.size = ArrayLimit /\ SmallStep
        /\ \/ io' = io /\ Array!Contents(b') = Array!Contents(b)
           \/ /\ io' = [op |-> "put", data |-> Array!Fresh(n)]
              /\ Array!Contents(b') = Array!Contents(b) \o Array!Fresh(n)
    BY <1>1, <1>2, <1>3, <2>1, PutArray DEF ArrayGood
  <2>3. ArrayGood'
    BY <2>2 DEF ArrayGood, SmallStep
  <2> QED BY <2>2, <2>3
<1>4. CASE ~t.ok
  <2>1. b' = t.r /\ io' = io /\ next' = next /\ damage' = damage
    BY <1>4 DEF Array!Write, Array!Leaves
  <2> HIDE DEF t
  <2>2. ArrayGood'
    BY <1>2, <2>1 DEF ArrayGood
  <2> QED BY <1>2, <2>1, <2>2
<1> QED BY <1>2, <1>3, <1>4

LEMMA ReceiveArray ==
  ASSUME ArrayGood, NEW n \in Sizes, Array!Receive(n), ~damage
  PROVE  /\ ArrayGood'
         /\ \/ io' = io /\ Array!Contents(b') = Array!Contents(b)
            \/ io'.op = "put" /\ Array!Contents(b') = Array!Contents(b) \o io'.data
<1> DEFINE s == Array!get_continguious_space(b)
<1>1. n \in Nat \ {0}
  BY SpareBuffersConstants
<1>2. /\ ArrayOK(s.r) /\ Array!Contents(s.r) = Array!Contents(b)
      /\ s.ok \in BOOLEAN /\ s.n \in Nat
      /\ \A k \in 0..s.n : s.ok => Safe(s.r, k)
      /\ ~s.ok => s.n = 0
  BY SpaceArray DEF ArrayGood
<1>3. CASE s.n > 0
  <2>1. n <= s.n /\ Array!PutAt(s.r, Array!Fresh(n))
    BY <1>3 DEF Array!Receive
  <2> HIDE DEF s
  <2>2. s.ok /\ n \in 0..s.n
    BY <1>1, <1>2, <1>3, <2>1
  <2>3. Safe(s.r, n)
    BY <1>2, <2>2
  <2>4. /\ ArrayOK(b') /\ next' \in Nat /\ damage' \in BOOLEAN
        /\ damage' => b'.size = ArrayLimit /\ SmallStep
        /\ \/ io' = io /\ Array!Contents(b') = Array!Contents(b)
           \/ /\ io' = [op |-> "put", data |-> Array!Fresh(n)]
              /\ Array!Contents(b') = Array!Contents(b) \o Array!Fresh(n)
    BY <1>1, <1>2, <2>1, <2>3, PutArray DEF ArrayGood
  <2>5. ArrayGood'
    BY <2>4 DEF ArrayGood, SmallStep
  <2> QED BY <2>4, <2>5
<1>4. CASE ~(s.n > 0)
  <2>1. b' = s.r /\ io' = io /\ next' = next /\ damage' = damage
    BY <1>4 DEF Array!Receive, Array!Leaves
  <2> HIDE DEF s
  <2>2. ArrayGood'
    BY <1>2, <2>1 DEF ArrayGood
  <2> QED BY <1>2, <2>1, <2>2
<1> QED BY <1>3, <1>4

LEMMA PatchArray ==
  ASSUME ArrayGood, NEW n \in Sizes, NEW k \in Nat, Array!Patch(k, n), ~damage
  PROVE  LET q == Array!Contents(b)
         IN  /\ ArrayGood' /\ io'.op = "replace" /\ io'.at + Len(io'.data) <= Len(q)
             /\ Array!Contents(b') = [i \in 1..Len(q) |->
                  IF i - io'.at \in 1..Len(io'.data) THEN io'.data[i - io'.at] ELSE q[i]]
<1> DEFINE q == Array!Contents(b)
           f == Array!Fresh(n)
           M == [i \in DOMAIN b.mem |-> IF i - b.head - k \in 0..n - 1
                                        THEN f[i - b.head - k + 1] ELSE b.mem[i]]
           p == [b EXCEPT !.mem = M]
           c == Array!get_count(b)
<1>1. n \in Nat \ {0}
  BY SpareBuffersConstants
<1>2. f \in Seq(Cell) /\ Len(f) = n /\ (next + n) % Values \in Nat
  BY <1>1, FreshIs DEF ArrayGood
<1>3. /\ k + n <= c /\ b' = p /\ io' = [op |-> "replace", at |-> k, data |-> f]
      /\ next' = (next + n) % Values /\ damage' = damage
  BY DEF Array!Patch, Array!CallAt
<1>4. /\ b \in ArrayShape /\ b.mem \in [0..b.size - 1 -> Cell]
      /\ b.size \in Nat /\ b.head \in Nat /\ b.tail \in Nat /\ b.head <= b.tail
      /\ b.tail <= b.size
  BY DEF ArrayGood, ArrayOK, Run, ArrayShape
<1>5. /\ c \in Nat /\ c = b.tail - b.head /\ q \in Seq(Cell) /\ Len(q) = c
      /\ \A i \in 1..c : q[i] = b.mem[b.head + i - 1]
  BY RunContents DEF ArrayGood, ArrayOK
<1> HIDE DEF f, c, q
<1>6. M \in [0..b.size - 1 -> Cell]
  <2>1. ASSUME NEW i \in 0..b.size - 1, i - b.head - k \in 0..n - 1
        PROVE  f[i - b.head - k + 1] \in Cell
    <3>1. i - b.head - k + 1 \in 1..Len(f)
      BY <1>1, <1>2, <1>4, <2>1
    <3> QED BY <1>2, <3>1, ElementOfSeq
  <2> QED BY <1>4, <2>1
<1>7. p \in ArrayShape /\ p.size = b.size /\ p.head = b.head /\ p.tail = b.tail /\ p.mem = M
  <2>1. M \in UNION {[0..j - 1 -> Cell] : j \in Nat}
    BY <1>4, <1>6
  <2> HIDE DEF M
  <2> QED BY <1>4, <2>1 DEF ArrayShape
<1>8. \A i \in 0..b.size - 1 : M[i] = IF i - b.head - k \in 0..n - 1
                                     THEN f[i - b.head - k + 1] ELSE b.mem[i]
  BY <1>4
<1> HIDE DEF M, p
<1>9. ArrayOK(p)
  BY <1>4, <1>6, <1>7 DEF ArrayGood, ArrayOK, Run
<1> DEFINE d == Array!Contents(p)
           w == [i \in 1..Len(q) |-> IF i - k \in 1..Len(f) THEN f[i - k] ELSE q[i]]
<1>10. /\ d \in Seq(Cell) /\ Len(d) = c
       /\ \A i \in 1..c : d[i] = M[b.head + i - 1]
  <2>1. Array!get_count(p) = c /\ Run(p)
    BY <1>5, <1>7, <1>9 DEF ArrayOK, Array!get_count
  <2> QED BY <1>7, <2>1, RunContents
<1>11. \A i \in 1..c : M[b.head + i - 1] = IF i - k \in 1..Len(f) THEN f[i - k] ELSE q[i]
  <2> TAKE i \in 1..c
  <2>1. b.head + i - 1 \in 0..b.size - 1
    BY <1>4, <1>5
  <2>2. (b.head + i - 1) - b.head - k \in 0..n - 1 <=> i - k \in 1..n
    BY <1>1, <1>4, <1>5
  <2>3. (b.head + i - 1) - b.head - k + 1 = i - k
    BY <1>1, <1>4, <1>5
  <2> QED BY <1>2, <1>5, <1>8, <2>1, <2>2, <2>3
<1>12. d = w
  <2>1. \A i \in 1..c : w[i] \in Cell
    <3> TAKE i \in 1..c
    <3>1. d[i] \in Cell
      BY <1>10, ElementOfSeq
    <3> HIDE DEF d
    <3> QED BY <1>5, <1>10, <1>11, <3>1
  <2>2. w \in [1..c -> Cell]
    <3>1. DOMAIN w = 1..c /\ w = [i \in 1..c |-> w[i]]
      BY <1>5
    <3> HIDE DEF w
    <3> QED BY <2>1, <3>1
  <2>3. \A i \in 1..c : w[i] = d[i]
    <3> HIDE DEF d
    <3> QED BY <1>5, <1>10, <1>11
  <2> HIDE DEF w, d
  <2>4. w \in Seq(Cell) /\ Len(w) = c
    BY <1>5, <2>2, FunctionIsSeq
  <2> QED BY <1>5, <1>10, <2>3, <2>4, SeqEqual
<1>13. ArrayGood'
  BY <1>2, <1>3, <1>9 DEF ArrayGood
<1> HIDE DEF w, d
<1>14. k + Len(f) <= Len(q)
  BY <1>1, <1>2, <1>3, <1>5
<1>15. io'.data = f /\ io'.at = k /\ io'.op = "replace"
  BY <1>3
<1>16. Array!Contents(b') = d
  BY <1>3 DEF d
<1> QED BY <1>12, <1>13, <1>14, <1>15, <1>16 DEF w, q, d

LEMMA PeekArray ==
  ASSUME ArrayGood, NEW n \in Sizes, NEW k \in Nat, Array!Peek(k, n), ~damage
  PROVE  LET q == Array!Contents(b)
         IN  /\ ArrayGood' /\ io'.op = "peek" /\ b' = b
             /\ io'.at + Len(io'.data) <= Len(q)
             /\ io'.data = SubSeq(q, io'.at + 1, io'.at + Len(io'.data))
<1> DEFINE q == Array!Contents(b)
           f == Array!read(b, k, n)
           c == Array!get_count(b)
           p == SubSeq(q, k + 1, k + n)
<1>1. n \in Nat \ {0}
  BY SpareBuffersConstants
<1>2. k + n <= c /\ io' = [op |-> "peek", at |-> k, data |-> f] /\ b' = b /\ ArrayGood'
  BY DEF Array!Peek, Array!CallAt, ArrayGood
<1>3. b.head \in Nat
  BY DEF ArrayGood, ArrayOK, Run, ArrayShape
<1>4. /\ c \in Nat /\ q \in Seq(Cell) /\ Len(q) = c
      /\ \A i \in 1..c : q[i] = b.mem[b.head + i - 1]
  BY RunContents DEF ArrayGood, ArrayOK
<1> HIDE DEF c, q
<1>5. p \in Seq(Cell) /\ Len(p) = n /\ \A i \in 1..n : p[i] = q[k + i]
  <2>1. n \in Nat /\ k + n <= Len(q)
    BY <1>1, <1>2, <1>4
  <2> QED BY <1>4, <2>1, PartOf
<1> HIDE DEF p
<1>6. \A i \in 1..n : b.mem[b.head + k + i - 1] = p[i]
  <2> TAKE i \in 1..n
  <2>1. k + i \in 1..c /\ b.head + (k + i) - 1 = b.head + k + i - 1
    BY <1>1, <1>2, <1>3, <1>4
  <2> QED BY <1>4, <1>5, <2>1
<1>7. f = [i \in 1..n |-> p[i]]
  BY <1>6 DEF Array!read
<1>8. p = [i \in 1..n |-> p[i]]
  BY <1>5, LenProperties
<1> HIDE DEF f
<1>9. f = p /\ Len(f) = n
  BY <1>5, <1>7, <1>8
<1>10. k + Len(f) <= Len(q)
  BY <1>1, <1>2, <1>4, <1>9
<1>11. io'.data = f /\ io'.at = k /\ io'.op = "peek"
  BY <1>2
<1> QED BY <1>2, <1>9, <1>10, <1>11 DEF q, p

LEMMA GetSpaceArray ==
  ASSUME ArrayGood, Array!GetSpace
  PROVE  ArrayGood' /\ io' = io /\ Array!Contents(b') = Array!Contents(b)
<1>1. b' = Array!get_space(b) /\ io' = io /\ next' = next /\ damage' = damage
  BY DEF Array!GetSpace
<1>2. CASE b' = b
  BY <1>1, <1>2 DEF ArrayGood
<1>3. CASE Array!CanExpand(b) /\ b' = Array!expand(b)
  <2>1. ArrayOK(b') /\ Array!Contents(b') = Array!Contents(b) /\ b.size # ArrayLimit
    BY <1>3, ExpandArray DEF ArrayGood, Array!CanExpand
  <2> QED BY <1>1, <2>1 DEF ArrayGood
<1> QED BY <1>1, <1>2, <1>3 DEF Array!get_space

\* Bytes are taken from the front, wherever the others are put.
LEMMA TakeArray ==
  ASSUME ArrayGood, NEW n \in 1..Array!get_count(b), NEW from \in {0, b.head + n},
         b' = Array!Place(SubSeq(Array!Contents(b), n + 1, Array!get_count(b)), from, b.size),
         UNCHANGED <<next, damage>>
  PROVE  /\ ArrayGood'
         /\ Array!Contents(b) = SubSeq(Array!Contents(b), 1, n) \o Array!Contents(b')
<1> DEFINE q == Array!Contents(b)
           c == Array!get_count(b)
           d == SubSeq(q, n + 1, c)
           p == Array!Place(d, from, b.size)
<1>1. /\ b.size \in Nat \ {0} /\ b.head \in Nat /\ b.tail \in Nat /\ b.head <= b.tail
      /\ b.tail <= b.size
  BY DEF ArrayGood, ArrayOK, Run, ArrayShape
<1>2. c \in Nat /\ c = b.tail - b.head /\ q \in Seq(Cell) /\ Len(q) = c
  BY RunContents DEF ArrayGood, ArrayOK
<1>3. b' = p
  OBVIOUS
<1> HIDE DEF c, q
<1>4. n \in Nat /\ n <= c /\ c - n \in Nat /\ n + (c - n) = c
  BY <1>2 DEF c
<1>5. d \in Seq(Cell) /\ Len(d) = c - n
  BY <1>2, <1>4, PartOf
<1> HIDE DEF d
<1>6. from \in Nat /\ from + Len(d) <= b.size
  BY <1>1, <1>2, <1>4, <1>5
<1>7. Run(p) /\ p.size = b.size /\ Array!Contents(p) = d
  BY <1>1, <1>5, <1>6, PlaceRun
<1> HIDE DEF p
<1>8. ArrayOK(p)
  BY <1>7 DEF ArrayOK, ArrayGood
<1>9. ArrayGood'
  BY <1>3, <1>7, <1>8 DEF ArrayGood
<1>10. n \in 0..Len(q)
  BY <1>2, <1>4
<1>11. q = SubSeq(q, 1, n) \o d
  BY <1>2, <1>10, TwoParts DEF d
<1> QED BY <1>3, <1>7, <1>9, <1>11 DEF q

LEMMA ReadArray ==
  ASSUME ArrayGood, NEW n \in 1..Array!get_count(b), ~damage,
         Array!Read(n) \/ Array!Remove(n)
  PROVE  ArrayGood' /\ io'.op = "get" /\ Array!Contents(b) = io'.data \o Array!Contents(b')
<1> DEFINE q == Array!Contents(b)
           c == Array!get_count(b)
           f == SubSeq(q, 1, n)
<1>1. b.head \in Nat
  BY DEF ArrayGood, ArrayOK, Run, ArrayShape
<1>2. /\ c \in Nat /\ q \in Seq(Cell) /\ Len(q) = c
      /\ \A i \in 1..c : q[i] = b.mem[b.head + i - 1]
  BY RunContents DEF ArrayGood, ArrayOK
<1>3. n \in Nat /\ n <= c
  BY <1>2
<1>4. f \in Seq(Cell) /\ Len(f) = n /\ \A i \in 1..n : f[i] = q[i]
  <2> HIDE DEF q, c
  <2>1. 0 \in Nat /\ 0 + n <= Len(q) /\ 0 + 1 = 1 /\ 0 + n = n /\ \A i \in 1..n : 0 + i = i
    BY <1>2, <1>3
  <2>2. /\ SubSeq(q, 0 + 1, 0 + n) \in Seq(Cell) /\ Len(SubSeq(q, 0 + 1, 0 + n)) = n
        /\ \A i \in 1..n : SubSeq(q, 0 + 1, 0 + n)[i] = q[0 + i]
    BY <1>2, <1>3, <2>1, PartOf
  <2> QED BY <2>1, <2>2
<1>5. Array!read(b, 0, n) = f
  <2> HIDE DEF q, c, f
  <2>1. \A i \in 1..n : b.mem[b.head + 0 + i - 1] = f[i]
    <3> TAKE i \in 1..n
    <3>1. i \in 1..c /\ b.head + 0 + i - 1 = b.head + i - 1
      BY <1>1, <1>2, <1>3
    <3> QED BY <1>2, <1>4, <3>1
  <2>2. f = [i \in 1..n |-> f[i]]
    BY <1>4, LenProperties
  <2> QED BY <2>1, <2>2 DEF Array!read
<1>6. io' = [op |-> "get", data |-> f] /\ UNCHANGED <<next, damage>>
  <2> HIDE DEF f
  <2>1. CASE Array!Read(n)
    BY <1>5, <2>1 DEF Array!Read, Array!Call
  <2>2. CASE Array!Remove(n)
    BY <2>2 DEF Array!Remove, Array!Call, f
  <2> QED BY <2>1, <2>2
<1>7. ArrayGood' /\ q = f \o Array!Contents(b')
  <2>1. CASE Array!Read(n)
    <3>1. b' = Array!Place(SubSeq(q, n + 1, c), b.head + n, b.size)
      BY <2>1 DEF Array!Read
    <3>2. b.head + n \in {0, b.head + n}
      OBVIOUS
    <3> QED BY <1>6, <3>1, <3>2, TakeArray
  <2>2. CASE Array!Remove(n)
    <3>1. b' = Array!Place(SubSeq(q, n + 1, c), 0, b.size)
      BY <2>2 DEF Array!Remove, Array!remove
    <3>2. 0 \in {0, b.head + n}
      OBVIOUS
    <3> QED BY <1>6, <3>1, <3>2, TakeArray
  <2> QED BY <2>1, <2>2
<1> HIDE DEF f
<1>8. io'.op = "get" /\ io'.data = f
  BY <1>6
<1> QED BY <1>7, <1>8

LEMMA UnputArray ==
  ASSUME ArrayGood, NEW n \in 1..Array!get_count(b), ~damage, Array!RemoveFromBack(n)
  PROVE  ArrayGood' /\ io'.op = "unput" /\ Array!Contents(b) = Array!Contents(b') \o io'.data
<1> DEFINE q == Array!Contents(b)
           c == Array!get_count(b)
           d == SubSeq(q, 1, c - n)
           f == SubSeq(q, c - n + 1, c)
           p == Array!Place(d, b.head, b.size)
<1>1. /\ b.size \in Nat \ {0} /\ b.head \in Nat /\ b.tail \in Nat /\ b.head <= b.tail
      /\ b.tail <= b.size
  BY DEF ArrayGood, ArrayOK, Run, ArrayShape
<1>2. c \in Nat /\ c = b.tail - b.head /\ q \in Seq(Cell) /\ Len(q) = c
  BY RunContents DEF ArrayGood, ArrayOK
<1>3. b' = p /\ io' = [op |-> "unput", data |-> f] /\ UNCHANGED <<next, damage>>
  BY DEF Array!RemoveFromBack, Array!remove_from_back, Array!Call
<1>4. n \in Nat /\ n <= c /\ c - n \in Nat
  BY <1>2
<1> HIDE DEF c, q
<1>5. d \in Seq(Cell) /\ Len(d) = c - n
  <2>1. 0 \in Nat /\ 0 + (c - n) <= Len(q) /\ 0 + 1 = 1 /\ 0 + (c - n) = c - n
    BY <1>2, <1>4
  <2>2. SubSeq(q, 0 + 1, 0 + (c - n)) \in Seq(Cell) /\ Len(SubSeq(q, 0 + 1, 0 + (c - n))) = c - n
    BY <1>2, <1>4, <2>1, PartOf
  <2> QED BY <2>1, <2>2
<1>6. q = d \o f
  <2>1. c - n \in 0..Len(q)
    BY <1>2, <1>4
  <2>2. q = SubSeq(q, 1, c - n) \o SubSeq(q, (c - n) + 1, Len(q))
    BY <1>2, <2>1, TwoParts
  <2> QED BY <1>2, <2>2
<1> HIDE DEF d, f
<1>7. b.head + Len(d) <= b.size
  BY <1>1, <1>2, <1>4, <1>5
<1>8. Run(p) /\ p.size = b.size /\ Array!Contents(p) = d
  BY <1>1, <1>5, <1>7, PlaceRun
<1> HIDE DEF p
<1>9. ArrayOK(p)
  BY <1>8 DEF ArrayOK, ArrayGood
<1>10. ArrayGood'
  BY <1>3, <1>8, <1>9 DEF ArrayGood
<1>11. io'.op = "unput" /\ io'.data = f
  BY <1>3
<1> QED BY <1>3, <1>6, <1>8, <1>10, <1>11 DEF q

LEMMA ResetArray ==
  ASSUME ArrayGood, ~damage, Array!Reset
  PROVE  ArrayGood' /\ io'.op = "clear" /\ Array!Contents(b') = <<>>
<1> DEFINE p == Array!Place(<<>>, 0, b.size)
<1>1. b.size \in Nat \ {0}
  BY DEF ArrayGood, ArrayOK, Run, ArrayShape
<1>2. b' = p /\ io' = [op |-> "clear", data |-> <<>>] /\ UNCHANGED <<next, damage>>
  BY DEF Array!Reset, Array!reset, Array!Call
<1>3. <<>> \in Seq(Cell) /\ Len(<<>>) = 0
  BY EmptySeq
<1>4. 0 \in Nat /\ 0 + Len(<<>>) <= b.size
  BY <1>1, <1>3
<1>5. Run(p) /\ p.size = b.size /\ Array!Contents(p) = <<>>
  BY <1>1, <1>3, <1>4, PlaceRun
<1> HIDE DEF p
<1>6. ArrayOK(p)
  BY <1>5 DEF ArrayOK, ArrayGood
<1>7. ArrayGood'
  BY <1>2, <1>5, <1>6 DEF ArrayGood
<1>8. io'.op = "clear"
  BY <1>2
<1> QED BY <1>2, <1>5, <1>7, <1>8

LEMMA InitArray ==
  ASSUME use = "array", Array!Init
  PROVE  ArrayGood /\ IsQueue!Init
<1> USE SpareBuffersConstants
<1>1. /\ b = Array!New /\ io = [op |-> "new", data |-> <<>>] /\ next = 0 /\ damage = FALSE
  BY DEF Array!Init, Array!Call
<1> DEFINE M == [i \in 0..ArraySize - 1 |-> Junk]
<1>2. M \in [0..ArraySize - 1 -> Cell]
  BY DEF Cell
<1>3. b = [size |-> ArraySize, head |-> 0, tail |-> 0, mem |-> M]
  BY <1>1 DEF Array!New
<1> HIDE DEF M
<1>4. /\ b.size = ArraySize /\ b.head = 0 /\ b.tail = 0 /\ b.mem = M /\ b \in ArrayShape
  <2>1. M \in UNION {[0..k - 1 -> Cell] : k \in Nat}
    BY <1>2
  <2> QED BY <1>3, <2>1 DEF ArrayShape
<1>5. Run(b)
  BY <1>2, <1>4 DEF Run
<1>6. 0 \in 0..ArrayLimit /\ Array!Grown[0] = ArraySize
  BY GrownIs
<1>7. ArrayOK(b)
  BY <1>4, <1>5, <1>6 DEF ArrayOK
<1>8. damage \in BOOLEAN /\ ~damage
  <2>1. damage = FALSE
    BY <1>1
  <2> QED BY <2>1, Zenon
<1>9. ArrayGood
  BY <1>1, <1>7, <1>8 DEF ArrayGood
<1>10. Array!Contents(b) = <<>>
  <2> DEFINE q == Array!Contents(b)
  <2>1. q \in Seq(Cell) /\ Len(q) = Array!get_count(b) /\ Array!get_count(b) = b.tail - b.head
    BY <1>5, RunContents
  <2> HIDE DEF q
  <2>2. Len(q) = 0
    BY <1>4, <2>1
  <2>3. q = <<>>
    BY <2>1, <2>2, EmptySeq
  <2> QED BY <2>3 DEF q
<1> QED BY <1>1, <1>9, <1>10 DEF IsQueue!Init, Bytes

LEMMA StepArray ==
  ASSUME use = "array", ArrayGood, use' = use, Array!Next
  PROVE  ArrayGood' /\ (IsQueue!Next \/ UNCHANGED <<Array!Contents(b), io>>)
<1>0. ~damage
  BY DEF Array!Next
<1>1. ASSUME NEW n \in Sizes, Array!Write(n) \/ Array!Receive(n)
      PROVE  ArrayGood' /\ (IsQueue!Next \/ UNCHANGED <<Array!Contents(b), io>>)
  <2>1. /\ ArrayGood'
        /\ \/ io' = io /\ Array!Contents(b') = Array!Contents(b)
           \/ io'.op = "put" /\ Array!Contents(b') = Array!Contents(b) \o io'.data
    BY <1>0, <1>1, WriteArray, ReceiveArray
  <2> QED BY <2>1 DEF IsQueue!Next, IsQueue!Put, Bytes
<1>2. ASSUME NEW n \in Sizes, NEW k \in 0..Array!get_count(b), Array!Patch(k, n)
      PROVE  ArrayGood' /\ IsQueue!Next
  <2>1. k \in Nat
    OBVIOUS
  <2>2. /\ ArrayGood' /\ io'.op = "replace"
        /\ io'.at + Len(io'.data) <= Len(Array!Contents(b))
        /\ Array!Contents(b') = [i \in 1..Len(Array!Contents(b)) |->
             IF i - io'.at \in 1..Len(io'.data) THEN io'.data[i - io'.at]
             ELSE Array!Contents(b)[i]]
    BY <1>0, <1>2, <2>1, PatchArray
  <2> QED BY <2>2 DEF IsQueue!Next, IsQueue!Replace, Bytes
<1>3. ASSUME NEW n \in Sizes, NEW k \in 0..Array!get_count(b), Array!Peek(k, n)
      PROVE  ArrayGood' /\ IsQueue!Next
  <2>1. k \in Nat
    OBVIOUS
  <2>2. /\ ArrayGood' /\ io'.op = "peek" /\ b' = b
        /\ io'.at + Len(io'.data) <= Len(Array!Contents(b))
        /\ io'.data = SubSeq(Array!Contents(b), io'.at + 1, io'.at + Len(io'.data))
    BY <1>0, <1>3, <2>1, PeekArray
  <2> QED BY <2>2 DEF IsQueue!Next, IsQueue!Peek, Bytes
<1>4. ASSUME NEW n \in 1..Array!get_count(b), Array!Read(n) \/ Array!Remove(n)
      PROVE  ArrayGood' /\ IsQueue!Next
  <2>1. /\ ArrayGood' /\ io'.op = "get"
        /\ Array!Contents(b) = io'.data \o Array!Contents(b')
    BY <1>0, <1>4, ReadArray
  <2> QED BY <2>1 DEF IsQueue!Next, IsQueue!Get, Bytes
<1>5. ASSUME NEW n \in 1..Array!get_count(b), Array!RemoveFromBack(n)
      PROVE  ArrayGood' /\ IsQueue!Next
  <2>1. /\ ArrayGood' /\ io'.op = "unput"
        /\ Array!Contents(b) = Array!Contents(b') \o io'.data
    BY <1>0, <1>5, UnputArray
  <2> QED BY <2>1 DEF IsQueue!Next, IsQueue!Unput, Bytes
<1>6. ASSUME Array!Reset
      PROVE  ArrayGood' /\ IsQueue!Next
  <2>1. ArrayGood' /\ io'.op = "clear" /\ Array!Contents(b') = <<>>
    BY <1>0, <1>6, ResetArray
  <2> QED BY <2>1 DEF IsQueue!Next, IsQueue!Clear, Bytes
<1>7. ASSUME Array!GetSpace
      PROVE  ArrayGood' /\ UNCHANGED <<Array!Contents(b), io>>
  BY <1>7, GetSpaceArray
<1> QED BY <1>1, <1>2, <1>3, <1>4, <1>5, <1>6, <1>7 DEF Array!Next

LEMMA SafeArray ==
  ASSUME ArrayGood
  PROVE  Array!OverrunsOnlyAtLimit /\ Array!ThrowsOnlyWhenFull
<1>1. Array!OverrunsOnlyAtLimit
  BY DEF ArrayGood, SmallStep, Array!OverrunsOnlyAtLimit
<1>2. ASSUME NEW n \in Sizes, ~Array!RoomFor(b, n).ok
      PROVE  \/ Array!get_count(b) + n > ArrayLimit
             \/ b.size = ArrayLimit /\ b.tail = ArrayLimit /\ b.head > 0
  <2>1. n \in Nat \ {0}
    BY SpareBuffersConstants
  <2> QED BY <1>2, <2>1, RoomArray DEF ArrayGood
<1> QED BY <1>1, <1>2 DEF Array!ThrowsOnlyWhenFull

-----------------------------------------------------------------------------
(* The bip                                                                 *)

LEMMA SizeMod ==
  ASSUME NEW n \in Nat \ {0}, NEW x \in Int, x < n, x > 0 - n
  PROVE  x % n = IF x >= 0 THEN x ELSE x + n
<1>1. ASSUME NEW y \in Int, NEW k \in Int, NEW z \in 0..n - 1, y = n * k + z
      PROVE  y % n = z
  BY <1>1, Z3
<1>2. CASE x >= 0
  <2>1. 0 \in Int /\ x \in 0..n - 1 /\ x = n * 0 + x
    BY <1>2
  <2> QED BY <1>1, <1>2, <2>1
<1>3. CASE ~(x >= 0)
  <2>1. 0 - 1 \in Int /\ x + n \in 0..n - 1 /\ x = n * (0 - 1) + (x + n)
    BY <1>3
  <2> QED BY <1>1, <1>3, <2>1
<1> QED BY <1>2, <1>3

BipShape ==
  [size : Nat \ {0}, mem : UNION {[0..n - 1 -> Cell] : n \in Nat},
   a : Nat, an : Nat, bs : {Null, 0}, bn : Nat]

\* Region a lies in the array, region b in front of it.
Regions(r) ==
  /\ r \in BipShape
  /\ r.mem \in [0..r.size - 1 -> Cell]
  /\ r.a + r.an <= r.size
  /\ r.bs = Null => r.bn = 0
  /\ r.bn <= r.a

\* A bip of the program: when region a is empty there is no region b either, and
\* a region b without bytes has more room than there is behind region a.
BipOK(r) ==
  /\ Regions(r) /\ r.size <= BipLimit
  /\ r.an = 0 => r.a = 0 /\ r.bs = Null
  /\ r.bs # Null /\ r.bn = 0 => r.size - r.a - r.an < r.a

LEMMA RegionsAre ==
  ASSUME NEW r, Regions(r)
  PROVE  /\ r.size \in Nat \ {0} /\ r.a \in Nat /\ r.an \in Nat /\ r.bn \in Nat
         /\ r.bs \in {Null, 0} /\ Null # 0
         /\ r.a + r.an <= r.size /\ r.bn <= r.a
         /\ (r.bs = Null => r.bn = 0) /\ (r.bn > 0 => r.bs = 0)
         /\ r.mem \in [0..r.size - 1 -> Cell]
<1>1. Null # 0
  BY SpareBuffersConstants
<1>2. /\ r.size \in Nat \ {0} /\ r.a \in Nat /\ r.an \in Nat /\ r.bn \in Nat
      /\ r.bs \in {Null, 0}
  BY DEF Regions, BipShape
<1>3. /\ r.a + r.an <= r.size /\ r.bn <= r.a /\ (r.bs = Null => r.bn = 0)
      /\ r.mem \in [0..r.size - 1 -> Cell]
  BY DEF Regions
<1>4. r.bn > 0 => r.bs = 0
  BY <1>2, <1>3
<1> QED BY <1>1, <1>2, <1>3, <1>4

\* The i-th byte.
ByteAt(r, i) == IF i <= r.an THEN r.mem[r.a + i - 1] ELSE r.mem[i - r.an - 1]

LEMMA RegionIs ==
  ASSUME NEW r, Regions(r), NEW from \in Nat, NEW n \in Nat, from + n <= r.size
  PROVE  /\ Bip!Region(r, from, n) \in Seq(Cell)
         /\ Len(Bip!Region(r, from, n)) = n
         /\ \A i \in 1..n : Bip!Region(r, from, n)[i] = r.mem[from + i - 1]
<1> DEFINE f == Bip!Region(r, from, n)
<1>1. r.size \in Nat /\ r.mem \in [0..r.size - 1 -> Cell]
  BY RegionsAre
<1>2. \A i \in 1..n : from + i - 1 \in 0..r.size - 1
  BY <1>1
<1>3. f = [i \in 1..n |-> r.mem[from + i - 1]]
  BY DEF Bip!Region
<1>4. f \in [1..n -> Cell]
  BY <1>1, <1>2, <1>3
<1>5. \A i \in 1..n : f[i] = r.mem[from + i - 1]
  BY <1>3
<1> HIDE DEF f
<1>6. f \in Seq(Cell) /\ Len(f) = n
  BY <1>4, FunctionIsSeq
<1> QED BY <1>5, <1>6 DEF f

LEMMA NoRegion ==
  ASSUME NEW r, NEW from
  PROVE  Bip!Region(r, from, 0) = <<>>
<1> DEFINE f == Bip!Region(r, from, 0)
<1>1. 1..0 = {}
  OBVIOUS
<1>2. f = [i \in {} |-> r.mem[from + i - 1]]
  BY <1>1 DEF Bip!Region
<1>3. f \in [1..0 -> Cell]
  BY <1>1, <1>2
<1> HIDE DEF f
<1>4. f \in Seq(Cell) /\ Len(f) = 0
  BY <1>3, FunctionIsSeq
<1> QED BY <1>4, EmptySeq DEF f

LEMMA BipContents ==
  ASSUME NEW r, Regions(r)
  PROVE  LET q == Bip!Contents(r)
             c == Bip!get_count(r)
         IN  /\ c \in Nat /\ c = r.an + r.bn /\ c <= r.size
             /\ q \in Seq(Cell) /\ Len(q) = c
             /\ \A i \in 1..c : q[i] = ByteAt(r, i)
<1> DEFINE q == Bip!Contents(r)
           c == Bip!get_count(r)
           f == Bip!Region(r, r.a, r.an)
           h == IF r.bn = 0 THEN <<>> ELSE Bip!Region(r, r.bs, r.bn)
<1>1. /\ r.size \in Nat /\ r.a \in Nat /\ r.an \in Nat /\ r.bn \in Nat
      /\ r.a + r.an <= r.size /\ r.bn <= r.a
      /\ r.bn > 0 => r.bs = 0
  BY RegionsAre
<1>2. c \in Nat /\ c = r.an + r.bn /\ c <= r.size
  BY <1>1 DEF Bip!get_count
<1>3. f \in Seq(Cell) /\ Len(f) = r.an /\ \A i \in 1..r.an : f[i] = r.mem[r.a + i - 1]
  BY <1>1, RegionIs
<1>4. h \in Seq(Cell) /\ Len(h) = r.bn /\ \A i \in 1..r.bn : h[i] = r.mem[i - 1]
  <2>1. CASE r.bn = 0
    <3>1. <<>> \in Seq(Cell) /\ Len(<<>>) = 0
      BY EmptySeq
    <3> QED BY <2>1, <3>1
  <2>2. CASE r.bn # 0
    <3>1. r.bs = 0 /\ 0 + r.bn <= r.size /\ 0 \in Nat
      BY <1>1, <2>2
    <3>2. h = Bip!Region(r, 0, r.bn)
      BY <2>2, <3>1
    <3> HIDE DEF h
    <3>3. h \in Seq(Cell) /\ Len(h) = r.bn /\ \A i \in 1..r.bn : h[i] = r.mem[0 + i - 1]
      <4> DEFINE o == 0
                 z == Bip!Region(r, o, r.bn)
      <4>1. o \in Nat /\ o + r.bn <= r.size
        BY <3>1
      <4>2. h = z
        BY <3>2
      <4> HIDE DEF o
      <4>3. z \in Seq(Cell) /\ Len(z) = r.bn /\ \A i \in 1..r.bn : z[i] = r.mem[o + i - 1]
        BY <1>1, <4>1, RegionIs
      <4> HIDE DEF z
      <4> QED BY <4>2, <4>3 DEF o
    <3>4. \A i \in 1..r.bn : 0 + i - 1 = i - 1
      BY <1>1
    <3> QED BY <3>3, <3>4
  <2> QED BY <2>1, <2>2
<1>5. q = f \o h
  BY DEF Bip!Contents
<1> HIDE DEF f, h, q, c
<1>6. /\ q \in Seq(Cell) /\ Len(q) = r.an + r.bn
      /\ \A i \in 1..r.an + r.bn : q[i] = IF i <= r.an THEN f[i] ELSE h[i - r.an]
  <2>1. /\ f \o h \in Seq(Cell) /\ Len(f \o h) = Len(f) + Len(h)
        /\ \A i \in 1..Len(f) + Len(h) : (f \o h)[i] =
             IF i <= Len(f) THEN f[i] ELSE h[i - Len(f)]
    BY <1>3, <1>4, ConcatProperties
  <2> QED BY <1>3, <1>4, <1>5, <2>1
<1>7. \A i \in 1..c : q[i] = ByteAt(r, i)
  <2> TAKE i \in 1..c
  <2>1. i \in 1..r.an + r.bn
    BY <1>2
  <2>2. CASE i <= r.an
    <3>1. i \in 1..r.an
      BY <1>1, <2>2
    <3> QED BY <1>3, <1>6, <2>1, <2>2, <3>1 DEF ByteAt
  <2>3. CASE ~(i <= r.an)
    <3>1. i - r.an \in 1..r.bn
      BY <1>1, <2>1, <2>3
    <3> QED BY <1>4, <1>6, <2>1, <2>3, <3>1 DEF ByteAt
  <2> QED BY <2>2, <2>3
<1> QED BY <1>2, <1>6, <1>7 DEF q, c

\* What the cells say is what is in it.
LEMMA BytesAre ==
  ASSUME NEW r, Regions(r), NEW d \in Seq(Cell), Len(d) = r.an + r.bn,
         \A i \in 1..r.an + r.bn : d[i] = ByteAt(r, i)
  PROVE  Bip!Contents(r) = d
<1> DEFINE q == Bip!Contents(r)
<1>1. q \in Seq(Cell) /\ Len(q) = r.an + r.bn /\ \A i \in 1..r.an + r.bn : q[i] = ByteAt(r, i)
  BY BipContents
<1> HIDE DEF q
<1>2. q = d
  BY <1>1, SeqEqual
<1> QED BY <1>2 DEF q

\* A bip whose cells outside the regions have lost their content is the same.
LEMMA ForgetBip ==
  ASSUME NEW r, Regions(r)
  PROVE  LET p == Bip!Forget(r)
         IN  /\ Regions(p) /\ (BipOK(r) => BipOK(p))
             /\ Bip!Contents(p) = Bip!Contents(r)
<1> DEFINE p == Bip!Forget(r)
           Live(i) == i - r.a \in 0..r.an - 1 \/ (r.bn > 0 /\ i - r.bs \in 0..r.bn - 1)
           M == [i \in DOMAIN r.mem |-> IF Live(i) THEN r.mem[i] ELSE Junk]
<1>1. /\ r.size \in Nat \ {0} /\ r.a \in Nat /\ r.an \in Nat /\ r.bn \in Nat
      /\ r.a + r.an <= r.size /\ r.bn <= r.a
      /\ (r.bn > 0 => r.bs = 0)
      /\ r.mem \in [0..r.size - 1 -> Cell]
  BY RegionsAre
<1>2. p = [r EXCEPT !.mem = M]
  BY DEF Bip!Forget
<1>3. M \in [0..r.size - 1 -> Cell]
  <2> HIDE DEF Live
  <2> QED BY <1>1 DEF Cell
<1>4. \A i \in 0..r.size - 1 : Live(i) => M[i] = r.mem[i]
  <2> HIDE DEF Live
  <2> QED BY <1>1
<1> HIDE DEF M
<1>5. /\ p.size = r.size /\ p.a = r.a /\ p.an = r.an /\ p.bs = r.bs /\ p.bn = r.bn
      /\ p.mem = M /\ p \in BipShape
  <2>1. M \in UNION {[0..n - 1 -> Cell] : n \in Nat} /\ r \in BipShape
    BY <1>1, <1>3 DEF Regions
  <2> QED BY <1>2, <2>1 DEF BipShape
<1> HIDE DEF p
<1>6. Regions(p)
  BY <1>3, <1>5 DEF Regions
<1>7. BipOK(r) => BipOK(p)
  BY <1>5, <1>6 DEF BipOK
<1>8. /\ Bip!Contents(r) \in Seq(Cell) /\ Len(Bip!Contents(r)) = r.an + r.bn
      /\ \A i \in 1..r.an + r.bn : Bip!Contents(r)[i] = ByteAt(r, i)
  BY BipContents
<1>9. ASSUME NEW i \in 1..r.an + r.bn PROVE ByteAt(r, i) = ByteAt(p, i)
  <2>1. CASE i <= r.an
    <3>1. r.a + i - 1 \in 0..r.size - 1 /\ (r.a + i - 1) - r.a \in 0..r.an - 1
      BY <1>1, <2>1
    <3>2. M[r.a + i - 1] = r.mem[r.a + i - 1]
      BY <1>4, <3>1
    <3> QED BY <1>5, <2>1, <3>2 DEF ByteAt
  <2>2. CASE ~(i <= r.an)
    <3>1. r.bn > 0
      BY <1>1, <2>2
    <3>2. i - r.an - 1 \in 0..r.size - 1 /\ (i - r.an - 1) - r.bs \in 0..r.bn - 1
      <4>1. r.bs = 0
        BY <1>1, <3>1
      <4>2. i - r.an - 1 \in 0..r.size - 1 /\ (i - r.an - 1) - 0 \in 0..r.bn - 1
        <5>1. /\ r.size \in Nat /\ r.a \in Nat /\ r.an \in Nat /\ r.bn \in Nat
              /\ r.a + r.an <= r.size /\ r.bn <= r.a
          BY <1>1
        <5>2. i \in Int /\ i <= r.an + r.bn /\ i > r.an
          BY <2>2, <5>1
        <5> QED BY <5>1, <5>2
      <4> QED BY <4>1, <4>2
    <3>3. M[i - r.an - 1] = r.mem[i - r.an - 1]
      BY <1>4, <3>1, <3>2
    <3> QED BY <1>5, <2>2, <3>3 DEF ByteAt
  <2> QED BY <2>1, <2>2
<1>10. Bip!Contents(p) = Bip!Contents(r)
  <2> DEFINE d == Bip!Contents(r)
  <2>1. d \in Seq(Cell) /\ Len(d) = p.an + p.bn /\ \A i \in 1..p.an + p.bn : d[i] = ByteAt(p, i)
    BY <1>5, <1>8, <1>9
  <2> HIDE DEF d
  <2>2. Bip!Contents(p) = d
    BY <1>6, <2>1, BytesAre
  <2> QED BY <2>2 DEF d
<1> QED BY <1>6, <1>7, <1>10 DEF p

\* Cells after data was copied to pos.
Copied(m, pos, data) ==
  [i \in DOMAIN m |-> IF i - pos \in 0..Len(data) - 1 THEN data[i - pos + 1] ELSE m[i]]

LEMMA CopiedIs ==
  ASSUME NEW r, Regions(r), NEW pos \in Nat, NEW data \in Seq(Cell)
  PROVE  /\ Copied(r.mem, pos, data) \in [0..r.size - 1 -> Cell]
         /\ \A i \in 0..r.size - 1 : Copied(r.mem, pos, data)[i] =
              IF i - pos \in 0..Len(data) - 1 THEN data[i - pos + 1] ELSE r.mem[i]
<1>1. r.size \in Nat /\ r.mem \in [0..r.size - 1 -> Cell]
  BY RegionsAre
<1>2. ASSUME NEW i \in 0..r.size - 1, i - pos \in 0..Len(data) - 1
      PROVE  data[i - pos + 1] \in Cell
  <2>1. i - pos + 1 \in 1..Len(data) /\ Len(data) \in Nat
    BY <1>1, <1>2, LenProperties
  <2> QED BY <2>1, ElementOfSeq
<1> QED BY <1>1, <1>2 DEF Copied

LEMMA CopyBip ==
  ASSUME NEW r, Regions(r), NEW pos \in Nat, NEW data \in Seq(Cell)
  PROVE  LET p == Bip!Copy(r, pos, data)
         IN  /\ p = [r EXCEPT !.mem = Copied(r.mem, pos, data)]
             /\ p.size = r.size /\ p.a = r.a /\ p.an = r.an /\ p.bs = r.bs /\ p.bn = r.bn
             /\ p.mem = Copied(r.mem, pos, data) /\ Regions(p) /\ (BipOK(r) => BipOK(p))
<1> DEFINE p == Bip!Copy(r, pos, data)
           M == Copied(r.mem, pos, data)
<1>1. p = [r EXCEPT !.mem = M]
  BY DEF Bip!Copy, Copied
<1>2. r \in BipShape /\ r.size \in Nat /\ r.mem \in [0..r.size - 1 -> Cell]
  BY RegionsAre DEF Regions
<1>3. M \in [0..r.size - 1 -> Cell]
  BY CopiedIs
<1> HIDE DEF M, p
<1>4. M \in UNION {[0..n - 1 -> Cell] : n \in Nat}
  BY <1>2, <1>3
<1>5. /\ p.size = r.size /\ p.a = r.a /\ p.an = r.an /\ p.bs = r.bs /\ p.bn = r.bn
      /\ p.mem = M /\ p \in BipShape
  BY <1>1, <1>2, <1>4 DEF BipShape
<1>6. Regions(p)
  BY <1>3, <1>5 DEF Regions
<1>7. BipOK(r) => BipOK(p)
  BY <1>5, <1>6 DEF BipOK
<1> QED BY <1>1, <1>5, <1>6, <1>7 DEF p, M

\* Nothing is copied.
LEMMA CopyNone ==
  ASSUME NEW r, Regions(r), NEW pos
  PROVE  Bip!Copy(r, pos, <<>>) = r
<1>1. r \in BipShape /\ r.size \in Nat /\ r.mem \in [0..r.size - 1 -> Cell]
  BY RegionsAre DEF Regions
<1> DEFINE M == [i \in DOMAIN r.mem |->
                   IF i - pos \in 0..Len(<<>>) - 1 THEN <<>>[i - pos + 1] ELSE r.mem[i]]
<1>2. 0..Len(<<>>) - 1 = {}
  OBVIOUS
<1>3. M = r.mem
  BY <1>1, <1>2
<1>4. Bip!Copy(r, pos, <<>>) = [r EXCEPT !.mem = M]
  BY DEF Bip!Copy
<1> HIDE DEF M
<1> QED BY <1>1, <1>3, <1>4 DEF BipShape

LEMMA ExpandBip ==
  ASSUME NEW r, BipOK(r), Bip!CanExpand(r)
  PROVE  LET e == Bip!expand(r)
         IN  /\ BipOK(e) /\ Bip!Contents(e) = Bip!Contents(r) /\ e.size > r.size
             /\ e.a = 0 /\ e.an = Bip!get_count(r) /\ e.bs = Null /\ e.bn = 0
             /\ Bip!get_count(e) = Bip!get_count(r)
<1> USE SpareBuffersConstants
<1> DEFINE e == Bip!expand(r)
           d == Bip!Contents(r)
           c == Bip!get_count(r)
           z == Bip!MinOf(4 * r.size, BipLimit)
           M == [i \in 0..z - 1 |-> IF i < Len(d) THEN d[i + 1] ELSE Junk]
<1>1. /\ r.size \in Nat \ {0} /\ r.size < BipLimit
  BY RegionsAre DEF BipOK, Bip!CanExpand
<1>2. c \in Nat /\ c <= r.size /\ d \in Seq(Cell) /\ Len(d) = c
  BY BipContents DEF BipOK
<1>3. z \in Nat /\ z > r.size /\ z <= BipLimit
  BY <1>1 DEF Bip!MinOf
<1>4. e = [size |-> z, a |-> 0, an |-> Len(d), bs |-> Null, bn |-> 0, mem |-> M]
  BY DEF Bip!expand
<1> HIDE DEF c, d, z, e
<1>5. M \in [0..z - 1 -> Cell]
  <2>1. ASSUME NEW i \in 0..z - 1, i < Len(d) PROVE d[i + 1] \in Cell
    <3>1. i + 1 \in 1..Len(d)
      BY <1>2, <1>3, <2>1
    <3> QED BY <1>2, <3>1, ElementOfSeq
  <2> QED BY <2>1 DEF Cell
<1>6. \A i \in 1..c : M[0 + i - 1] = d[i]
  <2> TAKE i \in 1..c
  <2>1. 0 + i - 1 \in 0..z - 1 /\ 0 + i - 1 < Len(d) /\ (0 + i - 1) + 1 = i
    BY <1>1, <1>2, <1>3
  <2> QED BY <2>1
<1> HIDE DEF M
<1>7. /\ e.size = z /\ e.a = 0 /\ e.an = c /\ e.bs = Null /\ e.bn = 0 /\ e.mem = M
      /\ e \in BipShape
  <2>1. M \in UNION {[0..n - 1 -> Cell] : n \in Nat} /\ z \in Nat \ {0}
    BY <1>1, <1>3, <1>5
  <2> QED BY <1>2, <1>4, <2>1 DEF BipShape
<1>8. Regions(e)
  BY <1>1, <1>2, <1>3, <1>5, <1>7 DEF Regions
<1>9. BipOK(e)
  BY <1>3, <1>7, <1>8 DEF BipOK
<1>10. Bip!Contents(e) = d
  <2>1. Len(d) = e.an + e.bn /\ e.an + e.bn = c
    BY <1>2, <1>7
  <2>2. ASSUME NEW i \in 1..e.an + e.bn PROVE d[i] = ByteAt(e, i)
    <3>1. i \in 1..c /\ i <= e.an
      BY <1>2, <1>7
    <3> QED BY <1>6, <1>7, <3>1 DEF ByteAt
  <2> QED BY <1>2, <1>8, <2>1, <2>2, BytesAre
<1>11. Bip!get_count(e) = c /\ e.size > r.size
  BY <1>2, <1>3, <1>7 DEF Bip!get_count
<1> QED BY <1>7, <1>9, <1>10, <1>11 DEF e, d, c

\* Bytes go behind region a, while there is no region b.
BehindA(r, data) ==
  [r EXCEPT !.mem = Copied(r.mem, r.a + r.an, data), !.an = r.an + Len(data)]

\* Where the i-th byte behind a lies in n bytes copied to a + k.
LEMMA PlaceInCopy ==
  ASSUME NEW a \in Int, NEW i \in Int, NEW k \in Int, NEW n \in Int
  PROVE  /\ (a + i - 1) - (a + k) + 1 = i - k
         /\ (a + i - 1) - (a + k) \in 0..n - 1 <=> i - k \in 1..n
OBVIOUS

LEMMA AppendA ==
  ASSUME NEW r, BipOK(r), r.bs = Null, NEW data \in Seq(Cell),
         Len(data) <= r.size - r.a - r.an
  PROVE  LET w == BehindA(r, data)
         IN  /\ BipOK(w) /\ Bip!Contents(w) = Bip!Contents(r) \o data
             /\ w.bs = Null /\ ~(Bip!get_end(w) > w.size)
<1> DEFINE w == BehindA(r, data)
           n == Len(data)
           q == Bip!Contents(r)
           d == q \o data
           M == Copied(r.mem, r.a + r.an, data)
<1>0. r \in BipShape
  BY DEF BipOK, Regions
<1>1. /\ r.size \in Nat \ {0} /\ r.a \in Nat /\ r.an \in Nat /\ r.bn = 0
      /\ r.a + r.an <= r.size
  BY RegionsAre DEF BipOK
<1>2. n \in Nat /\ n <= r.size - r.a - r.an
  BY LenProperties
<1>3. /\ M \in [0..r.size - 1 -> Cell]
      /\ \A i \in 0..r.size - 1 : M[i] =
           IF i - (r.a + r.an) \in 0..n - 1 THEN data[i - (r.a + r.an) + 1] ELSE r.mem[i]
  <2>1. r.size \in Nat /\ r.a + r.an \in Nat
    BY <1>1
  <2> QED BY <2>1, CopiedIs DEF BipOK
<1>4. /\ q \in Seq(Cell) /\ Len(q) = r.an
      /\ \A i \in 1..r.an : q[i] = r.mem[r.a + i - 1]
  <2>1. /\ q \in Seq(Cell) /\ Len(q) = r.an + r.bn
        /\ \A i \in 1..r.an + r.bn : q[i] = ByteAt(r, i)
    BY BipContents DEF BipOK
  <2> HIDE DEF q
  <2>2. r.an + r.bn = r.an
    BY <1>1
  <2>3. \A i \in 1..r.an : ByteAt(r, i) = r.mem[r.a + i - 1]
    BY <1>1 DEF ByteAt
  <2> QED BY <2>1, <2>2, <2>3
<1> HIDE DEF M, q, n
<1>5. /\ w.size = r.size /\ w.a = r.a /\ w.an = r.an + n /\ w.bs = Null /\ w.bn = 0
      /\ w.mem = M /\ w \in BipShape
  <2>1. M \in UNION {[0..k - 1 -> Cell] : k \in Nat}
    BY <1>1, <1>3
  <2>2. r.an + n \in Nat /\ w = [r EXCEPT !.mem = M, !.an = r.an + n]
    BY <1>1, <1>2 DEF M, n, BehindA
  <2> HIDE DEF w
  <2> QED BY <1>0, <1>1, <2>1, <2>2 DEF BipShape
<1> HIDE DEF w
<1>6. Regions(w)
  <2>1. w.mem \in [0..w.size - 1 -> Cell] /\ w.a + w.an <= w.size /\ w.bn <= w.a /\ w.bn = 0
    BY <1>1, <1>2, <1>3, <1>5
  <2> QED BY <1>5, <2>1 DEF Regions
<1>7. BipOK(w)
  <2>1. w.an = 0 => w.a = 0
    <3>1. w.an = 0 => r.an = 0
      BY <1>1, <1>2, <1>5
    <3> QED BY <1>5, <3>1 DEF BipOK
  <2> QED BY <1>5, <1>6, <2>1 DEF BipOK
<1>8. /\ d \in Seq(Cell) /\ Len(d) = r.an + n
      /\ \A i \in 1..r.an + n : d[i] = IF i <= r.an THEN q[i] ELSE data[i - r.an]
  <2>1. /\ d \in Seq(Cell) /\ Len(d) = Len(q) + Len(data)
        /\ \A i \in 1..Len(q) + Len(data) : d[i] = IF i <= Len(q) THEN q[i] ELSE data[i - Len(q)]
    BY <1>4, ConcatProperties
  <2> HIDE DEF d
  <2> QED BY <1>4, <2>1 DEF n
<1> HIDE DEF d
<1>9. ASSUME NEW i \in 1..r.an + n PROVE d[i] = M[r.a + i - 1]
  <2>1. r.a + i - 1 \in 0..r.size - 1
    BY <1>1, <1>2
  <2>2. CASE i <= r.an
    <3>1. ~((r.a + i - 1) - (r.a + r.an) \in 0..n - 1) /\ i \in 1..r.an
      <4>1. /\ r.a \in Int /\ i \in Int /\ r.an \in Int /\ n \in Int /\ ~(i - r.an \in 1..n)
            /\ i \in 1..r.an
        BY <1>1, <1>2, <2>2
      <4> QED BY <4>1, PlaceInCopy
    <3> QED BY <1>3, <1>4, <1>8, <2>1, <2>2, <3>1
  <2>3. CASE ~(i <= r.an)
    <3>1. /\ (r.a + i - 1) - (r.a + r.an) \in 0..n - 1
          /\ (r.a + i - 1) - (r.a + r.an) + 1 = i - r.an
      <4>1. r.a \in Int /\ i \in Int /\ r.an \in Int /\ n \in Int /\ i - r.an \in 1..n
        BY <1>1, <1>2, <2>3
      <4> QED BY <4>1, PlaceInCopy
    <3>2. M[r.a + i - 1] = data[(r.a + i - 1) - (r.a + r.an) + 1]
      BY <1>3, <2>1, <3>1
    <3> QED BY <1>8, <2>3, <3>1, <3>2
  <2> QED BY <2>2, <2>3
<1>10. Bip!Contents(w) = d
  <2>1. w.an + w.bn = r.an + n
    BY <1>1, <1>2, <1>5
  <2>2. ASSUME NEW i \in 1..w.an + w.bn PROVE d[i] = ByteAt(w, i)
    <3>1. i \in 1..r.an + n /\ i <= w.an
      BY <1>5, <2>1
    <3> QED BY <1>5, <1>9, <3>1 DEF ByteAt
  <2> QED BY <1>6, <1>8, <2>1, <2>2, BytesAre
<1>11. ~(Bip!get_end(w) > w.size)
  <2>1. Bip!get_end(w) = w.a + w.an
    BY <1>5 DEF Bip!get_end
  <2> QED BY <1>1, <1>2, <1>5, <2>1
<1> QED BY <1>5, <1>7, <1>10, <1>11 DEF d, q, w

\* Bytes go behind those of region b, or begin it.
BehindB(r, data) ==
  [r EXCEPT !.mem = Copied(r.mem, r.bn, data), !.bs = 0, !.bn = r.bn + Len(data)]

LEMMA CellOfB ==
  ASSUME NEW size \in Nat, NEW a \in Nat, NEW an \in Nat, NEW bn \in Nat, NEW n \in Nat,
         NEW i \in Int, a + an <= size, bn + n <= a, i > an, i <= an + bn + n
  PROVE  /\ i - an - 1 \in 0..size - 1
         /\ i > an + bn => (i - an - 1) - bn \in 0..n - 1
OBVIOUS

LEMMA AppendB ==
  ASSUME NEW r, BipOK(r), NEW data \in Seq(Cell), data # <<>>,
         r.bn + Len(data) <= r.a
  PROVE  LET w == BehindB(r, data)
         IN  /\ BipOK(w) /\ Bip!Contents(w) = Bip!Contents(r) \o data
             /\ w.bs # Null /\ ~(Bip!get_end(w) > w.a)
<1> DEFINE w == BehindB(r, data)
           n == Len(data)
           q == Bip!Contents(r)
           d == q \o data
           M == Copied(r.mem, r.bn, data)
<1>0. r \in BipShape /\ Null # 0 /\ (r.an = 0 => r.a = 0) /\ r.size <= BipLimit
  BY RegionsAre DEF BipOK, Regions
<1>1. /\ r.size \in Nat \ {0} /\ r.a \in Nat /\ r.an \in Nat /\ r.bn \in Nat
      /\ r.a + r.an <= r.size
  BY RegionsAre DEF BipOK
<1>2. n \in Nat /\ n > 0 /\ r.bn + n <= r.a
  BY LenProperties, EmptySeq
<1>3. /\ M \in [0..r.size - 1 -> Cell]
      /\ \A i \in 0..r.size - 1 : M[i] =
           IF i - r.bn \in 0..n - 1 THEN data[i - r.bn + 1] ELSE r.mem[i]
  <2>1. r.size \in Nat /\ r.bn \in Nat
    BY <1>1
  <2> QED BY <2>1, CopiedIs DEF BipOK
<1>4. /\ q \in Seq(Cell) /\ Len(q) = r.an + r.bn
      /\ \A i \in 1..r.an + r.bn : q[i] = ByteAt(r, i)
  BY BipContents DEF BipOK
<1> HIDE DEF M, q, n
<1>5. /\ w.size = r.size /\ w.a = r.a /\ w.an = r.an /\ w.bs = 0 /\ w.bn = r.bn + n
      /\ w.mem = M /\ w \in BipShape
  <2>1. M \in UNION {[0..k - 1 -> Cell] : k \in Nat}
    BY <1>1, <1>3
  <2>2. r.bn + n \in Nat /\ w = [r EXCEPT !.mem = M, !.bs = 0, !.bn = r.bn + n]
    BY <1>1, <1>2 DEF M, n, BehindB
  <2> HIDE DEF w
  <2> QED BY <1>0, <1>1, <2>1, <2>2 DEF BipShape
<1> HIDE DEF w
<1>6. r.an # 0 /\ w.bn # 0 /\ w.bs # Null
  BY <1>0, <1>1, <1>2, <1>5
<1>7. Regions(w)
  <2>1. w.mem \in [0..w.size - 1 -> Cell] /\ w.a + w.an <= w.size /\ w.bn <= w.a
    BY <1>1, <1>2, <1>3, <1>5
  <2> QED BY <1>5, <1>6, <2>1 DEF Regions
<1>8. BipOK(w)
  BY <1>0, <1>5, <1>6, <1>7 DEF BipOK
<1>9. /\ d \in Seq(Cell) /\ Len(d) = r.an + r.bn + n
      /\ \A i \in 1..r.an + r.bn + n :
           d[i] = IF i <= r.an + r.bn THEN q[i] ELSE data[i - (r.an + r.bn)]
  <2>1. /\ d \in Seq(Cell) /\ Len(d) = Len(q) + Len(data)
        /\ \A i \in 1..Len(q) + Len(data) : d[i] = IF i <= Len(q) THEN q[i] ELSE data[i - Len(q)]
    BY <1>4, ConcatProperties
  <2> HIDE DEF d
  <2> QED BY <1>4, <2>1 DEF n
<1> HIDE DEF d
<1>10. ASSUME NEW i \in 1..r.an + r.bn + n PROVE d[i] = ByteAt(w, i)
  <2>0. i \in Int /\ 1 <= i /\ i <= r.an + r.bn + n
    BY <1>1, <1>2
  <2>1. CASE i <= r.an
    <3>1. /\ r.a + i - 1 \in 0..r.size - 1 /\ ~((r.a + i - 1) - r.bn \in 0..n - 1)
          /\ i \in 1..r.an + r.bn /\ i <= r.an + r.bn
      <4>1. r.a + i - 1 \in 0..r.size - 1
        BY <1>1, <2>0, <2>1
      <4>2. ~((r.a + i - 1) - r.bn <= n - 1)
        BY <1>1, <1>2, <2>0, <2>1
      <4>3. i \in 1..r.an + r.bn /\ i <= r.an + r.bn
        BY <1>1, <2>0, <2>1
      <4> QED BY <4>1, <4>2, <4>3
    <3>2. M[r.a + i - 1] = r.mem[r.a + i - 1]
      BY <1>3, <3>1
    <3>3. d[i] = r.mem[r.a + i - 1]
      BY <1>4, <1>9, <2>1, <3>1 DEF ByteAt
    <3> QED BY <1>5, <2>1, <3>2, <3>3 DEF ByteAt
  <2>2. CASE i > r.an /\ i <= r.an + r.bn
    <3>1. /\ i - r.an - 1 \in 0..r.size - 1 /\ ~((i - r.an - 1) - r.bn \in 0..n - 1)
          /\ i \in 1..r.an + r.bn /\ ~(i <= r.an)
      <4>1. i - r.an - 1 \in 0..r.size - 1
        BY <1>1, <1>2, <2>0, <2>2, CellOfB
      <4>2. ~(0 <= (i - r.an - 1) - r.bn)
        BY <1>1, <1>2, <2>0, <2>2
      <4>3. i \in 1..r.an + r.bn /\ ~(i <= r.an)
        BY <1>1, <2>0, <2>2
      <4> QED BY <4>1, <4>2, <4>3
    <3>2. M[i - r.an - 1] = r.mem[i - r.an - 1]
      BY <1>3, <3>1
    <3>3. d[i] = r.mem[i - r.an - 1]
      BY <1>4, <1>9, <2>2, <3>1 DEF ByteAt
    <3> QED BY <1>5, <3>1, <3>2, <3>3 DEF ByteAt
  <2>3. CASE i > r.an /\ ~(i <= r.an + r.bn)
    <3>1. /\ i - r.an - 1 \in 0..r.size - 1 /\ (i - r.an - 1) - r.bn \in 0..n - 1
          /\ (i - r.an - 1) - r.bn + 1 = i - (r.an + r.bn)
      <4>1. i > r.an + r.bn
        BY <1>1, <2>0, <2>3
      <4>2. i - r.an - 1 \in 0..r.size - 1
        BY <1>1, <1>2, <2>0, <2>3, CellOfB
      <4>3. (i - r.an - 1) - r.bn \in 0..n - 1
        BY <1>1, <1>2, <2>0, <2>3, <4>1, CellOfB
      <4>4. (i - r.an - 1) - r.bn + 1 = i - (r.an + r.bn)
        BY <1>1, <2>0
      <4> QED BY <4>2, <4>3, <4>4
    <3>2. M[i - r.an - 1] = data[i - (r.an + r.bn)]
      BY <1>3, <3>1
    <3>3. d[i] = data[i - (r.an + r.bn)]
      BY <1>9, <2>3
    <3>4. ~(i <= r.an)
      BY <1>1, <2>0, <2>3
    <3> QED BY <1>5, <3>2, <3>3, <3>4 DEF ByteAt
  <2>4. i <= r.an \/ (i > r.an /\ i <= r.an + r.bn) \/ (i > r.an /\ ~(i <= r.an + r.bn))
    BY <1>1, <2>0
  <2> QED BY <2>1, <2>2, <2>3, <2>4
<1>11. Bip!Contents(w) = d
  <2>1. w.an + w.bn = r.an + r.bn + n
    BY <1>1, <1>2, <1>5
  <2> QED BY <1>7, <1>9, <1>10, <2>1, BytesAre
<1>12. ~(Bip!get_end(w) > w.a)
  <2>1. Bip!get_end(w) = 0 + w.bn
    BY <1>5, <1>6 DEF Bip!get_end
  <2> QED BY <1>1, <1>2, <1>5, <2>1
<1> QED BY <1>6, <1>8, <1>11, <1>12 DEF d, q, w

\* get_continguious_space() keeps the bytes, and what it returns is at most the
\* room at get_end().
LEMMA BeginBip ==
  ASSUME NEW r, BipOK(r)
  PROVE  LET g == Bip!Begin(r)
             n == Bip!SpaceOf(r)
         IN  /\ BipOK(g) /\ Bip!Contents(g) = Bip!Contents(r) /\ n \in Nat
             /\ \/ g.bs = Null /\ n <= g.size - g.a - g.an
                \/ g.bs = 0 /\ g.bn + n <= g.a
<1> DEFINE g == Bip!Begin(r)
           n == Bip!SpaceOf(r)
           q == [r EXCEPT !.bs = 0]
           Begins == r.bn = 0 /\ Bip!get_a_space(r) < Bip!get_space_before_a(r)
<1>0. r \in BipShape /\ r.mem \in [0..r.size - 1 -> Cell] /\ Null # 0 /\ Regions(r)
  BY RegionsAre DEF BipOK, Regions
<1>1. /\ r.size \in Nat \ {0} /\ r.a \in Nat /\ r.an \in Nat /\ r.bn \in Nat
      /\ r.a + r.an <= r.size /\ r.bn <= r.a
  BY RegionsAre DEF BipOK
<1>2. /\ r.bs \in {Null, 0} /\ (r.bs = Null => r.bn = 0) /\ (r.bn > 0 => r.bs = 0)
      /\ (r.bs # Null /\ r.bn = 0 => r.size - r.a - r.an < r.a)
      /\ (r.an = 0 => r.a = 0 /\ r.bs = Null) /\ r.size <= BipLimit
  BY RegionsAre DEF BipOK
<1>3. g = IF Begins THEN q ELSE r
  BY DEF Bip!Begin
<1>4. Begins <=> r.bn = 0 /\ r.size - r.a - r.an < r.a
  BY DEF Bip!get_a_space, Bip!get_space_before_a
<1>5. /\ r.bn = 0 => n = r.size - r.a - r.an
      /\ r.bn > 0 => n = r.a - r.bn
  <2>1. r.bn > 0 => Bip!get_b_space(r) = r.a - 0 - r.bn
    BY <1>0, <1>1, <1>2 DEF Bip!get_b_space
  <2>2. n = IF r.bn > 0 THEN Bip!get_b_space(r) ELSE r.size - r.a - r.an
    BY DEF Bip!SpaceOf, Bip!get_a_space
  <2> QED BY <1>1, <2>1, <2>2
<1> HIDE DEF g, n, Begins
<1>6. n \in Nat
  BY <1>1, <1>5
<1>7. CASE Begins
  <2>1. /\ q.size = r.size /\ q.a = r.a /\ q.an = r.an /\ q.bs = 0 /\ q.bn = r.bn
        /\ q.mem = r.mem /\ q \in BipShape
    BY <1>0 DEF BipShape
  <2>2. r.bn = 0 /\ r.size - r.a - r.an < r.a
    BY <1>4, <1>7
  <2> HIDE DEF q
  <2>3. Regions(q)
    BY <1>0, <1>1, <2>1 DEF Regions
  <2>4. r.an # 0
    BY <1>1, <1>2, <2>2
  <2>5. BipOK(q)
    BY <1>2, <2>1, <2>2, <2>3, <2>4 DEF BipOK
  <2>6. Bip!Contents(q) = Bip!Contents(r)
    <3> DEFINE d == Bip!Contents(r)
    <3>1. /\ d \in Seq(Cell) /\ Len(d) = r.an + r.bn
          /\ \A i \in 1..r.an + r.bn : d[i] = ByteAt(r, i)
      BY <1>0, BipContents
    <3> HIDE DEF d
    <3>2. \A i \in 1..r.an + r.bn : ByteAt(r, i) = ByteAt(q, i)
      BY <2>1 DEF ByteAt
    <3>3. d \in Seq(Cell) /\ Len(d) = q.an + q.bn /\ \A i \in 1..q.an + q.bn : d[i] = ByteAt(q, i)
      BY <2>1, <3>1, <3>2
    <3>4. Bip!Contents(q) = d
      BY <2>3, <3>3, BytesAre
    <3> QED BY <3>4 DEF d
  <2>7. q.bn + n <= q.a
    BY <1>1, <1>5, <2>1, <2>2
  <2>8. g = q
    BY <1>3, <1>7
  <2> QED BY <1>6, <2>1, <2>5, <2>6, <2>7, <2>8 DEF g, n
<1>8. CASE ~Begins
  <2>1. g = r
    BY <1>3, <1>8
  <2>2. CASE r.bn > 0
    <3>1. r.bs = 0 /\ r.bn + n <= r.a
      BY <1>1, <1>2, <1>5, <2>2
    <3> QED BY <1>6, <2>1, <3>1 DEF g, n
  <2>3. CASE ~(r.bn > 0)
    <3>1. r.bn = 0
      BY <1>1, <2>3
    <3>2. r.bs = Null
      BY <1>2, <1>4, <1>8, <3>1
    <3>3. n <= r.size - r.a - r.an
      BY <1>1, <1>5, <3>1
    <3> QED BY <1>6, <2>1, <3>2, <3>3 DEF g, n
  <2> QED BY <2>2, <2>3
<1> QED BY <1>7, <1>8

LEMMA SpaceBip ==
  ASSUME NEW r, BipOK(r)
  PROVE  LET s == Bip!get_continguious_space(r)
         IN  /\ BipOK(s.r) /\ Bip!Contents(s.r) = Bip!Contents(r) /\ s.n \in Nat
             /\ \/ s.r.bs = Null /\ s.n <= s.r.size - s.r.a - s.r.an
                \/ s.r.bs = 0 /\ s.r.bn + s.n <= s.r.a
<1> DEFINE s == Bip!get_continguious_space(r)
           g == IF Bip!SpaceOf(r) = 0 /\ Bip!CanExpand(r) THEN Bip!expand(r) ELSE r
<1>1. BipOK(g) /\ Bip!Contents(g) = Bip!Contents(r)
  <2>1. CASE Bip!SpaceOf(r) = 0 /\ Bip!CanExpand(r)
    <3>1. BipOK(Bip!expand(r)) /\ Bip!Contents(Bip!expand(r)) = Bip!Contents(r)
      BY <2>1, ExpandBip
    <3> QED BY <2>1, <3>1
  <2>2. CASE ~(Bip!SpaceOf(r) = 0 /\ Bip!CanExpand(r))
    BY <2>2
  <2> QED BY <2>1, <2>2
<1>2. s = [r |-> Bip!Begin(g), n |-> Bip!SpaceOf(g)]
  BY DEF Bip!get_continguious_space
<1> HIDE DEF g, s
<1>3. s.r = Bip!Begin(g) /\ s.n = Bip!SpaceOf(g)
  BY <1>2
<1>4. BipOK(s.r) /\ Bip!Contents(s.r) = Bip!Contents(g) /\ s.n \in Nat
  BY <1>1, <1>3, BeginBip
<1>5. \/ s.r.bs = Null /\ s.n <= s.r.size - s.r.a - s.r.an
      \/ s.r.bs = 0 /\ s.r.bn + s.n <= s.r.a
  BY <1>1, <1>3, BeginBip
<1> QED BY <1>1, <1>4, <1>5 DEF s

BipGood == BipOK(b) /\ next \in Nat /\ damage = FALSE

LEMMA ReceiveBip ==
  ASSUME BipGood, NEW n \in Sizes, Bip!Receive(n)
  PROVE  /\ BipGood'
         /\ \/ io' = io /\ Bip!Contents(b') = Bip!Contents(b)
            \/ io'.op = "put" /\ Bip!Contents(b') = Bip!Contents(b) \o io'.data
<1> DEFINE s == Bip!get_continguious_space(b)
           r == s.r
           f == Bip!Fresh(n)
           w == Bip!written(Bip!Copy(r, Bip!get_end(r), f), n)
<1>1. n \in Nat \ {0}
  BY SpareBuffersConstants
<1>2. /\ BipOK(r) /\ Bip!Contents(r) = Bip!Contents(b) /\ s.n \in Nat
      /\ \/ r.bs = Null /\ s.n <= r.size - r.a - r.an
         \/ r.bs = 0 /\ r.bn + s.n <= r.a
  BY SpaceBip DEF BipGood
<1>3. f \in Seq(Cell) /\ Len(f) = n /\ (next + n) % Values \in Nat
  <2>1. Array!Fresh(n) \in Seq(Cell) /\ Len(Array!Fresh(n)) = n /\ (next + n) % Values \in Nat
        /\ f = Array!Fresh(n)
    BY <1>1, FreshIs DEF BipGood
  <2> HIDE DEF f
  <2> QED BY <2>1
<1>4. CASE s.n > 0
  <2>1. /\ n <= s.n /\ b' = Bip!Forget(w) /\ io' = [op |-> "put", data |-> f]
        /\ next' = (next + n) % Values
        /\ damage' = (Bip!get_end(w) > (IF w.bs # Null THEN w.a ELSE w.size))
    BY <1>4 DEF Bip!Receive, Bip!Call
  <2> HIDE DEF s, f, r
  <2>2. /\ r.size \in Nat /\ r.a \in Nat /\ r.an \in Nat /\ r.bn \in Nat /\ Null # 0
        /\ Regions(r) /\ (r.bs = Null => r.bn = 0)
    BY <1>2, RegionsAre DEF BipOK
  <2>3. /\ BipOK(w) /\ Bip!Contents(w) = Bip!Contents(r) \o f
        /\ ~(Bip!get_end(w) > (IF w.bs # Null THEN w.a ELSE w.size))
    <3>1. CASE r.bs = Null
      <4>1. s.n <= r.size - r.a - r.an
        BY <1>2, <2>2, <3>1
      <4>2. Len(f) <= r.size - r.a - r.an
        BY <1>1, <1>2, <1>3, <2>1, <2>2, <4>1
      <4>3. Bip!get_end(r) = r.a + r.an /\ r.a + r.an \in Nat
        BY <2>2, <3>1 DEF Bip!get_end
      <4> DEFINE p == Bip!Copy(r, r.a + r.an, f)
      <4>4. /\ p = [r EXCEPT !.mem = Copied(r.mem, r.a + r.an, f)] /\ p.an = r.an /\ p.bs = r.bs
        BY <1>3, <2>2, <4>3, CopyBip
      <4>5. w = Bip!written(p, n)
        BY <4>3
      <4> HIDE DEF p, w
      <4>6. w = [p EXCEPT !.an = r.an + n]
        BY <3>1, <4>4, <4>5 DEF Bip!written
      <4>7. w = BehindA(r, f)
        BY <1>3, <4>4, <4>6 DEF BehindA
      <4>8. /\ BipOK(w) /\ Bip!Contents(w) = Bip!Contents(r) \o f
            /\ w.bs = Null /\ ~(Bip!get_end(w) > w.size)
        BY <1>2, <1>3, <3>1, <4>2, <4>7, AppendA
      <4> QED BY <4>8
    <3>2. CASE r.bs # Null
      <4>1. r.bs = 0 /\ r.bn + s.n <= r.a
        BY <1>2, <3>2
      <4>2. r.bn + Len(f) <= r.a
        BY <1>1, <1>2, <1>3, <2>1, <2>2, <4>1
      <4>3. f # <<>>
        BY <1>1, <1>3, EmptySeq
      <4>4. Bip!get_end(r) = r.bn /\ r.bn \in Nat
        BY <2>2, <3>2, <4>1 DEF Bip!get_end
      <4> DEFINE p == Bip!Copy(r, r.bn, f)
      <4>5. /\ p = [r EXCEPT !.mem = Copied(r.mem, r.bn, f)] /\ p.bn = r.bn /\ p.bs = r.bs
        BY <1>3, <2>2, <4>4, CopyBip
      <4>6. w = Bip!written(p, n)
        BY <4>4
      <4> HIDE DEF p, w
      <4>7. w = [p EXCEPT !.bn = r.bn + n]
        BY <3>2, <4>5, <4>6 DEF Bip!written
      <4>8. r \in BipShape
        BY <2>2 DEF Regions
      <4>9. w = BehindB(r, f)
        BY <1>3, <4>1, <4>5, <4>7, <4>8 DEF BehindB, BipShape
      <4>10. /\ BipOK(w) /\ Bip!Contents(w) = Bip!Contents(r) \o f
             /\ w.bs # Null /\ ~(Bip!get_end(w) > w.a)
        BY <1>2, <1>3, <4>2, <4>3, <4>9, AppendB
      <4> QED BY <4>10
    <3> QED BY <3>1, <3>2
  <2> HIDE DEF w
  <2>4. BipOK(b') /\ Bip!Contents(b') = Bip!Contents(b) \o f
    BY <1>2, <2>1, <2>3, ForgetBip DEF BipOK
  <2>5. damage' = FALSE
    <3> DEFINE D == Bip!get_end(w) > (IF w.bs # Null THEN w.a ELSE w.size)
    <3>1. damage' = D /\ ~D /\ D \in BOOLEAN
      BY <2>1, <2>3
    <3> HIDE DEF D
    <3> QED BY <3>1, Zenon
  <2>6. BipGood'
    BY <1>3, <2>1, <2>4, <2>5 DEF BipGood
  <2>7. io'.op = "put" /\ io'.data = f
    BY <2>1
  <2> QED BY <2>4, <2>6, <2>7
<1>5. CASE ~(s.n > 0)
  <2>1. b' = Bip!Forget(r) /\ io' = io /\ next' = next /\ damage' = damage
    BY <1>5 DEF Bip!Receive
  <2> HIDE DEF s, r
  <2>2. BipOK(b') /\ Bip!Contents(b') = Bip!Contents(b)
    BY <1>2, <2>1, ForgetBip DEF BipOK
  <2>3. BipGood'
    BY <2>1, <2>2 DEF BipGood
  <2> QED BY <2>1, <2>2, <2>3
<1> QED BY <1>4, <1>5

\* write finds its place after finitely many turns and keeps the bytes; only the
\* first turn meets more than one region.
LEMMA RoomBip ==
  ASSUME NEW r, BipOK(r), NEW offset, NEW n
  PROVE  LET g == Bip!RoomFor(r, offset, n)
             c == Bip!get_count(r)
         IN  /\ BipOK(g) /\ Bip!Contents(g) = Bip!Contents(r) /\ Bip!get_count(g) = c
             /\ Bip!Fits(g, offset, n) \/ g.size = BipLimit
             /\ g = r \/ (g.a = 0 /\ g.an = c /\ g.bs = Null /\ g.bn = 0)
<1> USE SpareBuffersConstants
<1> DEFINE N == BipLimit
           c == Bip!get_count(r)
           Step(x) == IF Bip!CanExpand(x) THEN Bip!expand(x) ELSE x
           S == {x \in BipShape :
                   /\ BipOK(x) /\ Bip!Contents(x) = Bip!Contents(r) /\ Bip!get_count(x) = c
                   /\ x = r \/ (x.a = 0 /\ x.an = c /\ x.bs = Null /\ x.bn = 0)}
           F == CHOOSE f : f = [k \in 0..N |-> IF k = 0 THEN r ELSE
                  IF Bip!CanExpand(f[k - 1]) THEN Bip!expand(f[k - 1]) ELSE f[k - 1]]
           Stops(k) == Bip!Fits(F[k], offset, n) \/ ~Bip!CanExpand(F[k])
           K == CHOOSE k \in 0..N : Stops(k) /\ \A j \in 0..k - 1 : ~Stops(j)
<1>1. Bip!RoomFor(r, offset, n) = F[K]
  BY DEF Bip!RoomFor
<1>2. r \in S
  BY DEF BipOK, Regions
<1>3. ASSUME NEW x \in S, Bip!CanExpand(x)
      PROVE  Step(x) \in S /\ Step(x).size > x.size
  <2> DEFINE e == Bip!expand(x)
  <2>1. BipOK(x) /\ Bip!Contents(x) = Bip!Contents(r) /\ Bip!get_count(x) = c
    OBVIOUS
  <2> HIDE DEF c, S
  <2>2. /\ BipOK(e) /\ Bip!Contents(e) = Bip!Contents(r) /\ e.size > x.size
        /\ e.a = 0 /\ e.an = c /\ e.bs = Null /\ e.bn = 0 /\ Bip!get_count(e) = c
    BY <1>3, <2>1, ExpandBip
  <2>3. Step(x) = e
    BY <1>3
  <2> HIDE DEF e, Step
  <2>4. e \in BipShape
    BY <2>2 DEF BipOK, Regions
  <2>5. e \in S
    BY <2>2, <2>4 DEF S
  <2> QED BY <2>2, <2>3, <2>5
<1>4. \A x \in S : Step(x) \in S
  <2> TAKE x \in S
  <2>1. CASE Bip!CanExpand(x)
    <3> HIDE DEF S, Step
    <3> QED BY <1>3, <2>1
  <2>2. CASE ~Bip!CanExpand(x)
    <3> HIDE DEF S
    <3> QED BY <2>2
  <2> QED BY <2>1, <2>2
<1>5. F = [k \in 0..N |-> IF k = 0 THEN r ELSE Step(F[k - 1])]
  <2> DEFINE step == [k \in 0..N |-> [y \in S |-> Step(y)]]
  <2>1. PICK g : Solves(g, S, 0, N, r, step)
    <3>1. step \in [0..N -> [S -> S]]
      <4> HIDE DEF S, Step
      <4> QED BY <1>4
    <3>2. 0 \in Nat /\ N \in Nat /\ 0 <= N /\ r \in S
      <4> HIDE DEF S
      <4> QED BY <1>2
    <3> HIDE DEF step, N, S
    <3> HIDE SpareBuffersConstants
    <3> QED BY <3>1, <3>2, Iterates
  <2>2. g = [k \in 0..N |-> IF k = 0 THEN r ELSE Step(g[k - 1])]
    <3> HIDE DEF S, Step
    <3>1. ASSUME NEW k \in 0..N
          PROVE  g[k] = IF k = 0 THEN r ELSE Step(g[k - 1])
      <4>1. k # 0 => k - 1 \in 0..N
        OBVIOUS
      <4>2. k # 0 => g[k - 1] \in S
        BY <2>1, <4>1 DEF Solves
      <4>3. k # 0 => step[k][g[k - 1]] = Step(g[k - 1])
        BY <4>2
      <4> QED BY <2>1, <4>3 DEF Solves
    <3> QED BY <2>1, <3>1 DEF Solves
  <2>3. \E f : f = [k \in 0..N |-> IF k = 0 THEN r ELSE Step(f[k - 1])]
    BY <2>2
  <2> QED BY <2>3
<1> HIDE DEF F, S, Step
<1>6. F[0] = r /\ \A k \in 1..N : F[k] = Step(F[k - 1])
  <2>1. 0 \in 0..N /\ \A k \in 1..N : k \in 0..N /\ k # 0
    OBVIOUS
  <2> QED BY <1>5, <2>1
<1>7. \A k \in 0..N : F[k] \in S
  <2>1. F[0] \in S
    BY <1>2, <1>6
  <2>2. \A k \in 0 + 1..N : F[k - 1] \in S => F[k] \in S
    <3>1. \A k \in 0 + 1..N : k \in 1..N
      OBVIOUS
    <3> QED BY <1>4, <1>6, <3>1
  <2>3. 0 \in Nat /\ N \in Nat
    OBVIOUS
  <2> HIDE DEF N
  <2> QED BY <2>1, <2>2, <2>3, Stays
<1>8. \A k \in 0..N : ~Bip!CanExpand(F[k]) \/ F[k].size > k
  <2> DEFINE h == [k \in 0..N |-> <<k, F[k]>>]
             U == {p \in Nat \X S : ~Bip!CanExpand(p[2]) \/ p[2].size > p[1]}
  <2>1. h[0] \in U
    <3>1. F[0] \in S /\ 0 \in 0..N
      BY <1>7
    <3>2. F[0].size > 0
      BY <3>1 DEF S, BipShape
    <3> QED BY <3>1, <3>2
  <2>2. ASSUME NEW k \in 0 + 1..N, h[k - 1] \in U PROVE h[k] \in U
    <3>1. k \in 1..N /\ k \in Nat /\ k - 1 \in 0..N /\ k \in 0..N
      OBVIOUS
    <3> DEFINE t == F[k - 1]
    <3>2. t \in S /\ F[k] \in S /\ F[k] = Step(t)
      BY <1>6, <1>7, <3>1
    <3>3. ~Bip!CanExpand(t) \/ t.size > k - 1
      <4>1. h[k - 1] = <<k - 1, t>>
        BY <3>1
      <4> HIDE DEF t, h
      <4> QED BY <2>2, <4>1
    <3> HIDE DEF t
    <3>4. ~Bip!CanExpand(F[k]) \/ F[k].size > k
      <4>1. CASE ~Bip!CanExpand(t)
        <5>1. F[k] = t
          BY <3>2, <4>1 DEF Step
        <5> QED BY <4>1, <5>1
      <4>2. CASE Bip!CanExpand(t)
        <5>1. F[k].size > t.size /\ t.size > k - 1
          BY <1>3, <3>2, <3>3, <4>2
        <5>2. F[k].size \in Nat /\ t.size \in Nat
          BY <3>2 DEF S, BipShape
        <5> QED BY <3>1, <5>1, <5>2
      <4> QED BY <4>1, <4>2
    <3>5. h[k] = <<k, F[k]>>
      BY <3>1
    <3> HIDE DEF h
    <3> QED BY <3>1, <3>2, <3>4, <3>5
  <2>3. 0 \in Nat /\ N \in Nat
    OBVIOUS
  <2>4. \A k \in 0..N : h[k] \in U
    <3> HIDE DEF h, U, N
    <3> QED BY <2>1, <2>2, <2>3, Stays
  <2> TAKE k \in 0..N
  <2>5. <<k, F[k]>> \in U
    BY <2>4
  <2> QED BY <2>5
<1> HIDE DEF Stops
<1>9. K \in 0..N /\ Stops(K)
  <2> DEFINE T == {k \in 0..N : Stops(k)}
  <2>1. N \in T
    <3>1. N \in 0..N /\ F[N] \in S
      BY <1>7
    <3>2. F[N].size \in Nat /\ F[N].size <= N
      BY <3>1 DEF S, BipOK, BipShape
    <3> QED BY <1>8, <3>1, <3>2 DEF Stops
  <2>2. PICK k \in T : \A y \in T : k <= y
    <3>1. T \subseteq Nat
      OBVIOUS
    <3> HIDE DEF T
    <3> QED BY <2>1, <3>1, LeastNat
  <2>3. k \in 0..N /\ Stops(k)
    OBVIOUS
  <2>4. ASSUME NEW j \in 0..k - 1 PROVE ~Stops(j)
    <3>1. j \in 0..N /\ ~(k <= j)
      BY <2>3
    <3> QED BY <2>2, <3>1
  <2>5. \E y \in 0..N : Stops(y) /\ \A j \in 0..y - 1 : ~Stops(j)
    BY <2>3, <2>4
  <2> QED BY <2>5
<1> HIDE DEF K
<1> DEFINE g == F[K]
<1>10. g \in S /\ (Bip!Fits(g, offset, n) \/ ~Bip!CanExpand(g))
  BY <1>7, <1>9 DEF Stops
<1>11. Bip!RoomFor(r, offset, n) = g
  BY <1>1
<1> HIDE DEF g
<1>12. Bip!Fits(g, offset, n) \/ g.size = BipLimit
  BY <1>10 DEF Bip!CanExpand
<1> QED BY <1>10, <1>11, <1>12 DEF S

\* write(data, n, -1): one turn that goes through.
LEMMA AppendBip ==
  ASSUME NEW g, BipOK(g), NEW data \in Seq(Cell), NEW n \in Nat \ {0}, Len(data) = n,
         BipLimit + n < SizeT, NEW c, c = Bip!get_count(g)
  PROVE  LET w == Bip!Write1(g, c, data)
         IN  /\ Bip!InA(g, c, n) = 0
             /\ Bip!Fits(g, c, n) =>
                  /\ BipOK(w) /\ Bip!Contents(w) = Bip!Contents(g) \o data
                  /\ ~(Bip!get_end(w) > (IF w.bs # Null THEN w.a ELSE w.size))
<1> DEFINE w == Bip!Write1(g, c, data)
           q == Bip!Copy(g, g.a + c, SubSeq(data, 1, 0))
           nb == Bip!NewB(g, c, n)
<1>0. g \in BipShape /\ Null # 0 /\ Regions(g) /\ SizeT \in Nat \ {0}
  BY RegionsAre, SpareBuffersConstants DEF BipOK, Regions
<1>1. /\ g.size \in Nat \ {0} /\ g.a \in Nat /\ g.an \in Nat /\ g.bn \in Nat
      /\ g.a + g.an <= g.size /\ g.bn <= g.a /\ g.size <= BipLimit /\ BipLimit \in Nat
  BY RegionsAre, SpareBuffersConstants DEF BipOK
<1>2. /\ g.bs \in {Null, 0} /\ (g.bs = Null => g.bn = 0)
      /\ (g.an = 0 => g.a = 0 /\ g.bs = Null)
  BY RegionsAre DEF BipOK
<1>3. c = g.an + g.bn /\ c \in Nat
  BY <1>1 DEF Bip!get_count
<1>4. Bip!InA(g, c, n) = 0
  BY <1>1, <1>3 DEF Bip!InA
<1>5. SubSeq(data, 1, 0) = <<>> /\ SubSeq(data, 0 + 1, n) = data /\ SubSeq(data, 1, n) = data
  <2>1. SubSeq(data, 1, Len(data)) = data
    BY SubSeqFull
  <2>2. SubSeq(data, 1, 0) = <<>>
    BY SubSeqEmpty
  <2>3. 0 + 1 = 1
    OBVIOUS
  <2> QED BY <2>1, <2>2, <2>3
<1>6. q = g
  BY <1>0, <1>5, CopyNone
<1>7. n - 0 = n /\ n > 0 /\ ~(n = 0)
  OBVIOUS
<1>8. SUFFICES ASSUME Bip!Fits(g, c, n)
               PROVE  /\ BipOK(w) /\ Bip!Contents(w) = Bip!Contents(g) \o data
                      /\ ~(Bip!get_end(w) > (IF w.bs # Null THEN w.a ELSE w.size))
  BY <1>4
<1>9. data # <<>>
  BY <1>7, EmptySeq
<1>10. CASE g.bs # Null
  <2>1. g.bs = 0
    BY <1>2, <1>10
  <2>2. Bip!Fits(g, c, n) <=> Bip!get_b_space(g) >= nb - g.bn
    BY <1>4, <1>7, <1>10 DEF Bip!Fits
  <2>3. Bip!get_b_space(g) = g.a - g.bn
    <3>1. Bip!get_b_space(g) = g.a - 0 - g.bn
      BY <1>10, <2>1 DEF Bip!get_b_space
    <3> QED BY <1>1, <3>1
  <2>4. nb = g.bn + n
    <3>1. c - g.an + n = g.bn + n /\ g.bn + n \in Int /\ g.bn + n >= 0 /\ g.bn + n < SizeT
      <4>1. /\ g.an \in Nat /\ g.bn \in Nat /\ n \in Nat /\ SizeT \in Nat /\ g.a \in Nat
            /\ g.size \in Nat /\ BipLimit \in Nat
        BY <1>0, <1>1
      <4>2. c = g.an + g.bn /\ g.bn <= g.a /\ g.a + g.an <= g.size /\ g.size <= BipLimit
            /\ BipLimit + n < SizeT
        BY <1>1, <1>3
      <4> DEFINE an == g.an
                 bn == g.bn
                 start == g.a
                 size == g.size
      <4>3. /\ an \in Nat /\ bn \in Nat /\ start \in Nat /\ size \in Nat
            /\ c = an + bn /\ bn <= start /\ start + an <= size /\ size <= BipLimit
        BY <4>1, <4>2
      <4> HIDE DEF an, bn, start, size
      <4>4. c - an + n = bn + n /\ bn + n \in Int /\ bn + n >= 0 /\ bn + n < SizeT
        <5>1. n \in Nat /\ SizeT \in Nat /\ BipLimit \in Nat /\ BipLimit + n < SizeT
          BY <4>1, <4>2
        <5> QED BY <4>3, <5>1
      <4> QED BY <4>4 DEF an, bn
    <3>2. g.bn + n > 0 - SizeT
      BY <1>0, <1>1
    <3>3. (c - g.an + n) % SizeT = g.bn + n
      BY <1>0, <3>1, <3>2, SizeMod
    <3> QED BY <1>1, <3>3 DEF Bip!NewB, Bip!MaxOf
  <2>5. g.bn + Len(data) <= g.a
    BY <1>1, <1>8, <2>2, <2>3, <2>4
  <2>6. w = [Bip!Copy(q, g.bs + (IF 0 > 0 THEN 0 ELSE c - g.an), SubSeq(data, 0 + 1, n))
               EXCEPT !.bn = nb]
    BY <1>4, <1>7, <1>10 DEF Bip!Write1
  <2>7. g.bs + (IF 0 > 0 THEN 0 ELSE c - g.an) = g.bn
    <3>1. c - g.an = g.bn /\ 0 + g.bn = g.bn
      BY <1>1, <1>3
    <3> QED BY <2>1, <3>1
  <2>8. w = [Bip!Copy(g, g.bn, data) EXCEPT !.bn = g.bn + n]
    <3> HIDE DEF q, w, nb
    <3> QED BY <1>5, <1>6, <2>4, <2>6, <2>7
  <2> HIDE DEF w
  <2>9. Bip!Copy(g, g.bn, data) = [g EXCEPT !.mem = Copied(g.mem, g.bn, data)]
    BY DEF Bip!Copy, Copied
  <2>10. w = BehindB(g, data)
    BY <1>0, <2>1, <2>8, <2>9 DEF BehindB, BipShape
  <2>11. /\ BipOK(w) /\ Bip!Contents(w) = Bip!Contents(g) \o data
         /\ w.bs # Null /\ ~(Bip!get_end(w) > w.a)
    BY <1>9, <2>5, <2>10, AppendB
  <2> QED BY <2>11
<1>11. CASE g.bs = Null
  <2>0. g.bn = 0 /\ c = g.an
    BY <1>1, <1>2, <1>3, <1>11
  <2>1. Bip!get_a_space(g) = g.size - g.a - g.an /\ Bip!get_space_before_a(g) = g.a
    BY DEF Bip!get_a_space, Bip!get_space_before_a
  <2>2. Bip!MaxOf(Bip!get_a_space(g), Bip!get_space_before_a(g)) >= n
    BY <1>4, <1>7, <1>8, <1>11 DEF Bip!Fits
  <2>3. CASE g.size - g.a - g.an > g.a
    <3>1. Len(data) <= g.size - g.a - g.an
      BY <1>1, <2>1, <2>2, <2>3 DEF Bip!MaxOf
    <3>2. w = [Bip!Copy(q, g.a + g.an, SubSeq(data, 0 + 1, n)) EXCEPT !.an = @ + n]
      BY <1>4, <1>7, <1>11, <2>1, <2>3 DEF Bip!Write1
    <3> HIDE DEF w, q
    <3>3. w = [Bip!Copy(g, g.a + g.an, data) EXCEPT !.an = @ + n]
      BY <1>5, <1>6, <3>2
    <3>5. Bip!Copy(g, g.a + g.an, data) = [g EXCEPT !.mem = Copied(g.mem, g.a + g.an, data)]
      BY DEF Bip!Copy, Copied
    <3>6. w = BehindA(g, data)
      BY <1>0, <3>3, <3>5 DEF BehindA, BipShape
    <3>7. /\ BipOK(w) /\ Bip!Contents(w) = Bip!Contents(g) \o data
          /\ w.bs = Null /\ ~(Bip!get_end(w) > w.size)
      BY <1>11, <3>1, <3>6, AppendA
    <3> QED BY <3>7
  <2>4. CASE ~(g.size - g.a - g.an > g.a)
    <3>1. g.bn + Len(data) <= g.a
      BY <1>1, <2>0, <2>1, <2>2, <2>4 DEF Bip!MaxOf
    <3>2. w = [Bip!Copy(q, 0, SubSeq(data, 1, n)) EXCEPT !.bs = 0, !.bn = @ + n]
      BY <1>4, <1>7, <1>11, <2>1, <2>4 DEF Bip!Write1
    <3> HIDE DEF w, q
    <3>3. w = [Bip!Copy(g, 0, data) EXCEPT !.bs = 0, !.bn = @ + n]
      BY <1>5, <1>6, <3>2
    <3>4. Bip!Copy(g, 0, data) = [g EXCEPT !.mem = Copied(g.mem, 0, data)]
      BY DEF Bip!Copy, Copied
    <3>5. w = BehindB(g, data)
      BY <1>0, <2>0, <3>3, <3>4 DEF BehindB, BipShape
    <3>6. /\ BipOK(w) /\ Bip!Contents(w) = Bip!Contents(g) \o data
          /\ w.bs # Null /\ ~(Bip!get_end(w) > w.a)
      BY <1>9, <3>1, <3>5, AppendB
    <3> QED BY <3>6
  <2> QED BY <2>3, <2>4
<1> QED BY <1>10, <1>11

LEMMA EndIn ==
  ASSUME NEW r, Regions(r)
  PROVE  ~(Bip!get_end(r) > (IF r.bs # Null THEN r.a ELSE r.size))
<1>1. /\ r.size \in Nat \ {0} /\ r.a \in Nat /\ r.an \in Nat /\ r.bn \in Nat
      /\ r.a + r.an <= r.size /\ r.bn <= r.a
  BY RegionsAre
<1>2. r.bs \in {Null, 0} /\ Null # 0
  BY RegionsAre
<1>3. CASE r.bs = Null
  <2>1. Bip!get_end(r) = r.a + r.an
    BY <1>3 DEF Bip!get_end
  <2> QED BY <1>1, <1>3, <2>1
<1>4. CASE r.bs = 0
  <2>1. Bip!get_end(r) = 0 + r.bn
    BY <1>2, <1>4 DEF Bip!get_end
  <2>2. r.bs # Null
    BY <1>2, <1>4
  <2> QED BY <1>1, <2>1, <2>2
<1> QED BY <1>2, <1>3, <1>4

\* The queue q with the bytes from k on replaced by d.
Replaced(q, k, d) ==
  [i \in 1..Len(q) |-> IF i - k \in 1..Len(d) THEN d[i - k] ELSE q[i]]

\* w is r with the bytes from k on replaced by d.
PatchedBy(w, r, k, d) ==
  /\ w.size = r.size /\ w.a = r.a /\ w.an = r.an /\ w.bs = r.bs /\ w.bn = r.bn
  /\ Regions(w) /\ (BipOK(r) => BipOK(w))
  /\ \A i \in 1..r.an + r.bn :
       ByteAt(w, i) = IF i - k \in 1..Len(d) THEN d[i - k] ELSE ByteAt(r, i)

LEMMA PatchedContents ==
  ASSUME NEW r, Regions(r), NEW w, NEW k \in Nat, NEW d \in Seq(Cell), PatchedBy(w, r, k, d)
  PROVE  Bip!Contents(w) = Replaced(Bip!Contents(r), k, d)
<1> DEFINE q == Bip!Contents(r)
           m == r.an + r.bn
           p == Replaced(q, k, d)
<1>1. r.an \in Nat /\ r.bn \in Nat
  BY RegionsAre
<1>2. q \in Seq(Cell) /\ Len(q) = m /\ \A i \in 1..m : q[i] = ByteAt(r, i)
  BY BipContents
<1>3. /\ w.an + w.bn = m /\ Regions(w)
      /\ \A i \in 1..m : ByteAt(w, i) = IF i - k \in 1..Len(d) THEN d[i - k] ELSE ByteAt(r, i)
  BY DEF PatchedBy
<1> HIDE DEF q
<1>4. m \in Nat
  BY <1>1
<1> HIDE DEF m
<1>5. \A i \in 1..m : p[i] = ByteAt(w, i)
  BY <1>2, <1>3 DEF Replaced
<1>6. p \in [1..m -> Cell]
  <2>1. \A i \in 1..m : (IF i - k \in 1..Len(d) THEN d[i - k] ELSE q[i]) \in Cell
    <3> TAKE i \in 1..m
    <3>1. q[i] \in Cell
      BY <1>2, ElementOfSeq
    <3>2. i - k \in 1..Len(d) => d[i - k] \in Cell
      BY ElementOfSeq
    <3> QED BY <3>1, <3>2
  <2> QED BY <1>2, <2>1 DEF Replaced
<1> HIDE DEF p
<1>7. p \in Seq(Cell) /\ Len(p) = m
  BY <1>4, <1>6, FunctionIsSeq
<1>8. Bip!Contents(w) = p
  BY <1>3, <1>5, <1>7, BytesAre
<1> QED BY <1>8 DEF p, q

LEMMA CellOfA ==
  ASSUME NEW size \in Nat, NEW a \in Nat, NEW an \in Nat, NEW bn \in Nat, NEW i \in Int,
         a + an <= size, bn <= a, 1 <= i, i <= an + bn
  PROVE  /\ i <= an => a + i - 1 \in 0..size - 1
         /\ ~(i <= an) => i - an - 1 \in 0..size - 1 /\ i - an - 1 < bn
OBVIOUS

LEMMA PatchA ==
  ASSUME NEW r, Regions(r), NEW k \in Nat, NEW d \in Seq(Cell), NEW n \in Nat, Len(d) = n,
         n = 0 \/ k + n <= r.an
  PROVE  PatchedBy(Bip!Copy(r, r.a + k, d), r, k, d)
<1> DEFINE w == Bip!Copy(r, r.a + k, d)
           M == Copied(r.mem, r.a + k, d)
<1>1. /\ r.size \in Nat \ {0} /\ r.a \in Nat /\ r.an \in Nat /\ r.bn \in Nat
      /\ r.a + r.an <= r.size /\ r.bn <= r.a
  BY RegionsAre
<1>2. r.a + k \in Nat
  BY <1>1
<1>3. /\ w.size = r.size /\ w.a = r.a /\ w.an = r.an /\ w.bs = r.bs /\ w.bn = r.bn
      /\ w.mem = M /\ Regions(w) /\ (BipOK(r) => BipOK(w))
  BY <1>2, CopyBip
<1>4. \A i \in 0..r.size - 1 : M[i] =
        IF i - (r.a + k) \in 0..n - 1 THEN d[i - (r.a + k) + 1] ELSE r.mem[i]
  <2> DEFINE o == r.a + k
  <2>1. o \in Nat
    BY <1>2
  <2> HIDE DEF o
  <2>2. \A i \in 0..r.size - 1 : Copied(r.mem, o, d)[i] =
          IF i - o \in 0..Len(d) - 1 THEN d[i - o + 1] ELSE r.mem[i]
    BY <2>1, CopiedIs
  <2> QED BY <2>2 DEF o
<1> HIDE DEF w, M
<1>5. ASSUME NEW i \in 1..r.an + r.bn
      PROVE  ByteAt(w, i) = IF i - k \in 1..n THEN d[i - k] ELSE ByteAt(r, i)
  <2>0. i \in Int /\ 1 <= i /\ i <= r.an + r.bn
    BY <1>1
  <2>1. CASE i <= r.an
    <3>1. r.a + i - 1 \in 0..r.size - 1
      BY <1>1, <2>0, <2>1, CellOfA
    <3>0. r.a \in Int /\ k \in Int /\ n \in Int
      BY <1>1
    <3>2. (r.a + i - 1) - (r.a + k) \in 0..n - 1 <=> i - k \in 1..n
      BY <2>0, <3>0, PlaceInCopy
    <3>3. (r.a + i - 1) - (r.a + k) + 1 = i - k
      BY <2>0, <3>0, PlaceInCopy
    <3>4. M[r.a + i - 1] = IF i - k \in 1..n THEN d[i - k] ELSE r.mem[r.a + i - 1]
      BY <1>4, <3>1, <3>2, <3>3
    <3> QED BY <1>3, <2>1, <3>4 DEF ByteAt
  <2>2. CASE ~(i <= r.an)
    <3>1. i - r.an - 1 \in 0..r.size - 1 /\ i - r.an - 1 < r.bn
      BY <1>1, <2>0, <2>2, CellOfA
    <3>2. ~((i - r.an - 1) - (r.a + k) >= 0)
      BY <1>1, <2>0, <3>1
    <3>3. ~(i - k \in 1..n)
      BY <1>1, <2>0, <2>2
    <3>4. M[i - r.an - 1] = r.mem[i - r.an - 1]
      BY <1>4, <3>1, <3>2
    <3> QED BY <1>3, <2>2, <3>3, <3>4 DEF ByteAt
  <2> QED BY <2>1, <2>2
<1>6. PatchedBy(w, r, k, d)
  BY <1>3, <1>5 DEF PatchedBy
<1> QED BY <1>6 DEF w

LEMMA PatchB ==
  ASSUME NEW r, Regions(r), NEW j \in Nat, NEW d \in Seq(Cell), NEW n \in Nat, Len(d) = n,
         j + n <= r.bn, NEW k \in Nat, k = r.an + j
  PROVE  PatchedBy(Bip!Copy(r, j, d), r, k, d)
<1> DEFINE w == Bip!Copy(r, j, d)
           M == Copied(r.mem, j, d)
<1>1. /\ r.size \in Nat \ {0} /\ r.a \in Nat /\ r.an \in Nat /\ r.bn \in Nat
      /\ r.a + r.an <= r.size /\ r.bn <= r.a
  BY RegionsAre
<1>3. /\ w.size = r.size /\ w.a = r.a /\ w.an = r.an /\ w.bs = r.bs /\ w.bn = r.bn
      /\ w.mem = M /\ Regions(w) /\ (BipOK(r) => BipOK(w))
  BY CopyBip
<1>4. \A i \in 0..r.size - 1 : M[i] =
        IF i - j \in 0..n - 1 THEN d[i - j + 1] ELSE r.mem[i]
  BY CopiedIs
<1> HIDE DEF w, M
<1>5. ASSUME NEW i \in 1..r.an + r.bn
      PROVE  ByteAt(w, i) = IF i - k \in 1..n THEN d[i - k] ELSE ByteAt(r, i)
  <2>0. i \in Int /\ 1 <= i /\ i <= r.an + r.bn
    BY <1>1
  <2>1. CASE i <= r.an
    <3>1. r.a + i - 1 \in 0..r.size - 1
      BY <1>1, <2>0, <2>1, CellOfA
    <3>2. ~((r.a + i - 1) - j <= n - 1)
      BY <1>1, <2>0
    <3>3. ~(i - k \in 1..n)
      BY <1>1, <2>0, <2>1
    <3>4. M[r.a + i - 1] = r.mem[r.a + i - 1]
      BY <1>4, <3>1, <3>2
    <3> QED BY <1>3, <2>1, <3>3, <3>4 DEF ByteAt
  <2>2. CASE ~(i <= r.an)
    <3>1. i - r.an - 1 \in 0..r.size - 1
      BY <1>1, <2>0, <2>2, CellOfA
    <3>2. (i - r.an - 1) - j \in 0..n - 1 <=> i - k \in 1..n
      <4>1. (i - r.an - 1) - j = (i - k) - 1 /\ i - k \in Int
        BY <1>1, <2>0
      <4> QED BY <4>1
    <3>3. (i - r.an - 1) - j + 1 = i - k
      BY <1>1, <2>0
    <3>4. M[i - r.an - 1] = IF i - k \in 1..n THEN d[i - k] ELSE r.mem[i - r.an - 1]
      BY <1>4, <3>1, <3>2, <3>3
    <3> QED BY <1>3, <2>2, <3>4 DEF ByteAt
  <2> QED BY <2>1, <2>2
<1>6. PatchedBy(w, r, k, d)
  BY <1>3, <1>5 DEF PatchedBy
<1> QED BY <1>6 DEF w

\* The first part of data in region a, the rest in region b.
LEMMA PatchAB ==
  ASSUME NEW r, Regions(r), NEW data \in Seq(Cell), NEW n \in Nat, Len(data) = n,
         NEW k \in Nat, k < r.an, NEW na \in Nat, k + na = r.an, na < n, k + n <= r.an + r.bn
  PROVE  PatchedBy(Bip!Copy(Bip!Copy(r, r.a + k, SubSeq(data, 1, na)), 0,
                            SubSeq(data, na + 1, n)),
                   r, k, data)
<1> DEFINE f == SubSeq(data, 1, na)
           t == SubSeq(data, na + 1, n)
           q == Bip!Copy(r, r.a + k, f)
           w == Bip!Copy(q, 0, t)
           m == n - na
<1>1. r.an \in Nat /\ r.bn \in Nat
  BY RegionsAre
<1>2. m \in Nat /\ na + m = n /\ na <= n
  OBVIOUS
<1>3. f \in Seq(Cell) /\ Len(f) = na /\ \A i \in 1..na : f[i] = data[i]
  BY <1>2, Halves
<1>4. t \in Seq(Cell) /\ Len(t) = m /\ \A i \in 1..m : t[i] = data[na + i]
  BY <1>2, Halves
<1> HIDE DEF f, t, m
<1>5. k + na <= r.an
  BY <1>1
<1>6. PatchedBy(q, r, k, f)
  BY <1>3, <1>5, PatchA
<1> HIDE DEF q
<1>7. /\ q.an = r.an /\ q.bn = r.bn /\ Regions(q)
      /\ q.size = r.size /\ q.a = r.a /\ q.bs = r.bs /\ (BipOK(r) => BipOK(q))
      /\ \A i \in 1..r.an + r.bn :
           ByteAt(q, i) = IF i - k \in 1..na THEN f[i - k] ELSE ByteAt(r, i)
  BY <1>3, <1>6 DEF PatchedBy
<1>8. 0 \in Nat /\ 0 + m <= q.bn /\ r.an = q.an + 0
  BY <1>1, <1>2, <1>7
<1>9. PatchedBy(w, q, r.an, t)
  BY <1>1, <1>2, <1>4, <1>7, <1>8, PatchB
<1> HIDE DEF w
<1>10. /\ w.size = q.size /\ w.a = q.a /\ w.an = q.an /\ w.bs = q.bs /\ w.bn = q.bn
       /\ Regions(w) /\ (BipOK(q) => BipOK(w))
       /\ \A i \in 1..r.an + r.bn :
            ByteAt(w, i) = IF i - r.an \in 1..m THEN t[i - r.an] ELSE ByteAt(q, i)
  BY <1>4, <1>7, <1>9 DEF PatchedBy
<1>11. ASSUME NEW i \in 1..r.an + r.bn
       PROVE  ByteAt(w, i) = IF i - k \in 1..n THEN data[i - k] ELSE ByteAt(r, i)
  <2>0. i \in Int
    OBVIOUS
  <2>1. CASE i - r.an \in 1..m
    <3>1. i - k \in 1..n /\ na + (i - r.an) = i - k
      <4>1. na + (i - r.an) = i - k /\ i - k \in Int
        BY <1>1, <2>0
      <4>2. na + (i - r.an) >= 1 /\ na + (i - r.an) <= na + m
        BY <1>1, <1>2, <2>0, <2>1
      <4> QED BY <1>2, <4>1, <4>2
    <3> QED BY <1>4, <1>10, <2>1, <3>1
  <2>2. CASE ~(i - r.an \in 1..m)
    <3>1. i - k \in 1..n <=> i - k \in 1..na
      BY <1>1, <1>2, <2>0, <2>2
    <3> QED BY <1>3, <1>7, <1>10, <2>2, <3>1
  <2> QED BY <2>1, <2>2
<1>12. PatchedBy(w, r, k, data)
  BY <1>7, <1>10, <1>11 DEF PatchedBy
<1> QED BY <1>12 DEF w, q, f, t

\* How much of it goes to region a.
LEMMA PartInA ==
  ASSUME NEW r, Regions(r), NEW k \in Nat, NEW n \in Nat \ {0}
  PROVE  LET m == Bip!InA(r, k, n)
         IN  /\ m \in Nat /\ m <= n /\ (m = 0 \/ k + m <= r.an)
             /\ m < n /\ k < r.an => k + m = r.an
             /\ k < r.an => m # 0
             /\ ~(k < r.an) => m = 0
<1>1. r.an \in Nat
  BY RegionsAre
<1> QED BY <1>1 DEF Bip!InA, Bip!MinOf

\* When a patch goes through: unless it lies across the regions with the larger
\* part in region a, where the count of region b would wrap.
LEMMA PatchFits ==
  ASSUME NEW r, BipOK(r), NEW k \in Nat, NEW n \in Nat \ {0}, k + n <= r.an + r.bn
  PROVE  LET m == Bip!InA(r, k, n)
         IN  /\ m < n => /\ r.bs = 0 /\ Null # 0 /\ r.bn > 0
                         /\ Bip!Fits(r, k, n) => Bip!NewB(r, k, n - m) = r.bn
             /\ ~Bip!Fits(r, k, n) => r.an > k /\ r.an - k < n /\ 2 * (r.an - k) > n
<1> DEFINE m == Bip!InA(r, k, n)
           x == k - r.an + (n - m)
<1>0. Null # 0 /\ SizeT \in Nat \ {0} /\ BipLimit \in Nat /\ SizeT > 2 * BipLimit
  BY SpareBuffersConstants
<1>1. /\ r.size \in Nat \ {0} /\ r.a \in Nat /\ r.an \in Nat /\ r.bn \in Nat
      /\ r.a + r.an <= r.size /\ r.bn <= r.a /\ r.size <= BipLimit
  BY RegionsAre DEF BipOK
<1>2. r.bn > 0 => r.bs = 0
  BY RegionsAre DEF BipOK
<1>3. /\ m \in Nat /\ m <= n /\ (m = 0 \/ k + m <= r.an)
      /\ (m < n /\ k < r.an => k + m = r.an)
      /\ (~(k < r.an) => m = 0)
  BY PartInA DEF BipOK
<1>3a. Bip!Fits(r, k, n) <=>
         CASE n - m = 0 -> TRUE
           [] n - m > 0 /\ r.bs # Null -> Bip!get_b_space(r) >= Bip!NewB(r, k, n - m) - r.bn
           [] OTHER -> Bip!MaxOf(Bip!get_a_space(r), Bip!get_space_before_a(r)) >= n - m
  BY DEF Bip!Fits
<1>3b. Bip!NewB(r, k, n - m) = Bip!MaxOf(r.bn, x % SizeT)
  BY DEF Bip!NewB
<1> HIDE DEF m
<1>4. CASE ~(m < n)
  <2>1. n - m = 0
    BY <1>3, <1>4
  <2>2. Bip!Fits(r, k, n)
    BY <1>3a, <2>1
  <2> QED BY <1>4, <2>2 DEF m
<1>5. CASE m < n
  <2>1. n - m > 0 /\ ~(n - m = 0)
    BY <1>3, <1>5
  <2>2. r.bn > 0
    <3>1. CASE k < r.an
      <4>1. k + m = r.an
        BY <1>3, <1>5, <3>1
      <4> QED BY <1>1, <1>3, <1>5, <4>1
    <3>2. CASE ~(k < r.an)
      BY <1>1, <3>2
    <3> QED BY <3>1, <3>2
  <2>3. r.bs = 0 /\ r.bs # Null
    BY <1>0, <1>2, <2>2
  <2>4. Bip!get_b_space(r) = r.a - r.bn
    <3>1. Bip!get_b_space(r) = r.a - 0 - r.bn
      BY <2>3 DEF Bip!get_b_space
    <3> QED BY <1>1, <3>1
  <2> DEFINE nb == Bip!NewB(r, k, n - m)
  <2>5. Bip!Fits(r, k, n) <=> r.a - r.bn >= nb - r.bn
    BY <1>3a, <2>1, <2>3, <2>4
  <2>6. nb = Bip!MaxOf(r.bn, x % SizeT) /\ x \in Int
    BY <1>1, <1>3, <1>3b
  <2> HIDE DEF nb
  <2>7. CASE x >= 0
    <3>1. x <= r.bn
      <4>1. CASE k < r.an
        <5>1. k + m = r.an
          BY <1>3, <1>5, <4>1
        <5> QED BY <1>1, <1>3, <5>1
      <4>2. CASE ~(k < r.an)
        BY <1>1, <1>3, <4>2
      <4> QED BY <4>1, <4>2
    <3>2. x < SizeT /\ x > 0 - SizeT
      BY <1>0, <1>1, <2>6, <2>7, <3>1
    <3> HIDE DEF x
    <3>3. x % SizeT = x
      BY <1>0, <2>6, <2>7, <3>2, SizeMod
    <3>4. nb = r.bn
      BY <1>1, <2>6, <3>1, <3>3 DEF Bip!MaxOf
    <3>5. Bip!Fits(r, k, n)
      BY <1>1, <2>5, <3>4
    <3> QED BY <1>0, <2>2, <2>3, <3>4, <3>5 DEF m, nb
  <2>8. CASE ~(x >= 0)
    <3>1. k < r.an
      BY <1>1, <1>3, <1>5, <2>8
    <3>2. k + m = r.an
      BY <1>3, <1>5, <3>1
    <3>3. x = n - 2 * m /\ x + m > 0
      BY <1>1, <1>3, <1>5, <3>2
    <3>4. x < SizeT /\ x > 0 - SizeT
      BY <1>0, <1>1, <1>3, <2>6, <2>8, <3>2, <3>3
    <3>5. x < 0
      BY <2>6, <2>8
    <3>5a. x + SizeT > r.a
      BY <1>0, <1>1, <1>3, <2>6, <3>2, <3>3
    <3>5b. 2 * (r.an - k) > n /\ r.an > k /\ r.an - k < n
      <4>1. r.an - k = m
        BY <1>1, <1>3, <3>2
      <4> QED BY <1>1, <1>3, <1>5, <3>1, <3>3, <3>5, <4>1
    <3> HIDE DEF x
    <3>6. x % SizeT = x + SizeT
      <4>1. x \in Int /\ SizeT \in Nat \ {0}
        BY <1>0, <2>6
      <4>2. x % SizeT = IF x >= 0 THEN x ELSE x + SizeT
        BY <3>4, <4>1, SizeMod
      <4> QED BY <2>8, <4>2
    <3>7. nb > r.a
      BY <1>0, <1>1, <2>6, <3>5a, <3>6 DEF Bip!MaxOf
    <3>8. nb \in Int
      BY <1>0, <1>1, <2>6, <3>6 DEF Bip!MaxOf
    <3>9. ~Bip!Fits(r, k, n)
      BY <1>1, <2>5, <3>7, <3>8
    <3> QED BY <1>0, <2>2, <2>3, <3>5b, <3>9 DEF m
  <2> QED BY <2>7, <2>8
<1> QED BY <1>4, <1>5

LEMMA PatchBip ==
  ASSUME NEW r, BipOK(r), NEW k \in Nat, NEW data \in Seq(Cell), NEW n \in Nat \ {0},
         Len(data) = n, k + n <= r.an + r.bn
  PROVE  LET w == Bip!Write1(r, k, data)
             f == SubSeq(data, 1, Bip!InA(r, k, n))
         IN  /\ Bip!Fits(r, k, n) => PatchedBy(w, r, k, data)
             /\ PatchedBy(Bip!Copy(r, r.a + k, f), r, k, f)
             /\ f \in Seq(Cell) /\ Len(f) <= n
<1> DEFINE w == Bip!Write1(r, k, data)
           m == Bip!InA(r, k, n)
           f == SubSeq(data, 1, m)
           t == SubSeq(data, m + 1, n)
           q == Bip!Copy(r, r.a + k, f)
<1>0. Regions(r) /\ r \in BipShape
  BY DEF BipOK, Regions
<1>1. /\ r.size \in Nat \ {0} /\ r.a \in Nat /\ r.an \in Nat /\ r.bn \in Nat
  BY RegionsAre DEF BipOK
<1>2. /\ m \in Nat /\ m <= n /\ (m = 0 \/ k + m <= r.an)
      /\ (m < n /\ k < r.an => k + m = r.an)
      /\ (~(k < r.an) => m = 0) /\ (k < r.an => m # 0)
  BY <1>0, PartInA
<1>3. /\ m < n => /\ r.bs = 0 /\ Null # 0 /\ r.bn > 0
                  /\ Bip!Fits(r, k, n) => Bip!NewB(r, k, n - m) = r.bn
  BY PatchFits
<1>4. w = CASE n - m = 0 -> q
            [] n - m > 0 /\ r.bs # Null ->
                 [Bip!Copy(q, r.bs + (IF m > 0 THEN 0 ELSE k - r.an), t)
                    EXCEPT !.bn = Bip!NewB(r, k, n - m)]
            [] n - m > 0 /\ r.bs = Null /\ Bip!get_a_space(r) > Bip!get_space_before_a(r) ->
                 [Bip!Copy(q, r.a + r.an, t) EXCEPT !.an = @ + (n - m)]
            [] OTHER -> [Bip!Copy(q, 0, SubSeq(data, 1, n - m))
                           EXCEPT !.bs = 0, !.bn = @ + (n - m)]
  BY DEF Bip!Write1
<1> HIDE DEF m, w
<1>5. f \in Seq(Cell) /\ Len(f) = m
  BY <1>2, Halves
<1>6. PatchedBy(q, r, k, f)
  <2> HIDE DEF f
  <2> QED BY <1>0, <1>2, <1>5, PatchA
<1>7. ASSUME Bip!Fits(r, k, n) PROVE PatchedBy(w, r, k, data)
  <2>1. CASE ~(m < n)
    <3>1. m = n /\ n - m = 0
      BY <1>2, <2>1
    <3>2. w = q
      BY <1>4, <3>1
    <3>3. f = data
      BY <3>1, SubSeqFull
    <3> HIDE DEF f, q
    <3> QED BY <1>6, <3>2, <3>3
  <2>2. CASE m < n
    <3>1. n - m > 0 /\ ~(n - m = 0) /\ r.bs # Null /\ r.bs = 0
      BY <1>2, <1>3, <2>2
    <3>2. Bip!NewB(r, k, n - m) = r.bn
      BY <1>3, <1>7, <2>2
    <3> DEFINE p == Bip!Copy(q, 0 + (IF m > 0 THEN 0 ELSE k - r.an), t)
    <3>3. w = [p EXCEPT !.bn = r.bn]
      <4> HIDE DEF q, t
      <4> QED BY <1>4, <3>1, <3>2
    <3>4. PatchedBy(p, r, k, data)
      <4>1. CASE k < r.an
        <5>1. k + m = r.an /\ m > 0
          BY <1>2, <2>2, <4>1
        <5>2. p = Bip!Copy(q, 0, t)
          BY <5>1
        <5> HIDE DEF p
        <5> QED BY <1>0, <1>2, <2>2, <4>1, <5>1, <5>2, PatchAB
      <4>2. CASE ~(k < r.an)
        <5>1. m = 0 /\ k - r.an \in Nat /\ k = r.an + (k - r.an) /\ (k - r.an) + n <= r.bn
          BY <1>1, <1>2, <4>2
        <5>2. f = <<>> /\ t = data
          <6>1. SubSeq(data, 1, 0) = <<>> /\ SubSeq(data, 1, Len(data)) = data
            BY SubSeqEmpty, SubSeqFull
          <6>2. m + 1 = 1
            BY <5>1
          <6> QED BY <5>1, <6>1, <6>2
        <5>3. q = r
          <6> HIDE DEF f
          <6> QED BY <1>0, <5>2, CopyNone
        <5>4. 0 + (IF m > 0 THEN 0 ELSE k - r.an) = k - r.an
          BY <1>1, <5>1
        <5>5. p = Bip!Copy(r, k - r.an, data)
          <6> HIDE DEF q, t
          <6> QED BY <5>2, <5>3, <5>4
        <5> HIDE DEF p
        <5>6. PatchedBy(Bip!Copy(r, k - r.an, data), r, k, data)
          BY <1>0, <1>1, <5>1, PatchB
        <5> QED BY <5>5, <5>6
      <4> QED BY <4>1, <4>2
    <3> HIDE DEF p
    <3>5. w = p
      <4>1. p.bn = r.bn /\ p \in BipShape
        BY <3>4 DEF PatchedBy, Regions
      <4> QED BY <3>3, <4>1 DEF BipShape
    <3> QED BY <3>4, <3>5
  <2> QED BY <2>1, <2>2
<1>8. Len(f) <= n
  <2> HIDE DEF f
  <2> QED BY <1>2, <1>5
<1> HIDE DEF f, q
<1> QED BY <1>5, <1>6, <1>7, <1>8 DEF w, f, m, q

LEMMA WriteBip ==
  ASSUME BipGood, NEW n \in Sizes, Bip!Write(n)
  PROVE  /\ BipGood'
         /\ \/ io' = io /\ Bip!Contents(b') = Bip!Contents(b)
            \/ io'.op = "put" /\ Bip!Contents(b') = Bip!Contents(b) \o io'.data
<1> DEFINE c == Bip!get_count(b)
           f == Bip!Fresh(n)
           g == Bip!RoomFor(b, c, n)
           w == Bip!Write1(g, c, f)
           D == Bip!get_end(w) > (IF w.bs # Null THEN w.a ELSE w.size)
           p == SubSeq(f, 1, Bip!InA(g, c, n))
<1>1. n \in Nat \ {0} /\ BipLimit + n < SizeT
  BY SpareBuffersConstants
<1>2. f \in Seq(Cell) /\ Len(f) = n /\ (next + n) % Values \in Nat
  <2>1. Array!Fresh(n) \in Seq(Cell) /\ Len(Array!Fresh(n)) = n /\ (next + n) % Values \in Nat
        /\ f = Array!Fresh(n)
    BY <1>1, FreshIs DEF BipGood
  <2> HIDE DEF f
  <2> QED BY <2>1
<1>3. /\ next' = (next + n) % Values
      /\ Bip!Fits(g, c, n) =>
           damage' = D /\ b' = Bip!Forget(w) /\ io' = [op |-> "put", at |-> c, data |-> f]
      /\ ~Bip!Fits(g, c, n) =>
           /\ b' = Bip!Forget(Bip!Copy(g, g.a + c, p))
           /\ io' = (IF p = <<>> THEN io ELSE [op |-> "put", at |-> c, data |-> p])
           /\ damage' = damage
  <2>1. Bip!WriteAt(c, f, "put")
    BY DEF Bip!Write
  <2> HIDE DEF f
  <2> QED BY <1>2, <2>1 DEF Bip!WriteAt, Bip!CallAt
<1> HIDE DEF f
<1>4. /\ BipOK(g) /\ Bip!Contents(g) = Bip!Contents(b) /\ Bip!get_count(g) = c
  BY RoomBip DEF BipGood
<1> HIDE DEF g, c
<1>5. /\ Bip!InA(g, c, n) = 0
      /\ Bip!Fits(g, c, n) => BipOK(w) /\ Bip!Contents(w) = Bip!Contents(g) \o f /\ ~D
  BY <1>1, <1>2, <1>4, AppendBip
<1>6. CASE Bip!Fits(g, c, n)
  <2>1. /\ BipOK(w) /\ Bip!Contents(w) = Bip!Contents(g) \o f /\ ~D /\ D \in BOOLEAN
        /\ damage' = D /\ b' = Bip!Forget(w) /\ io' = [op |-> "put", at |-> c, data |-> f]
    BY <1>3, <1>5, <1>6
  <2> HIDE DEF D, w
  <2>2. damage' = FALSE
    BY <2>1, Zenon
  <2>3. BipOK(b') /\ Bip!Contents(b') = Bip!Contents(w)
    BY <2>1, ForgetBip DEF BipOK
  <2>4. BipGood'
    BY <1>2, <1>3, <2>2, <2>3 DEF BipGood
  <2>5. io'.op = "put" /\ io'.data = f
    BY <2>1
  <2> QED BY <1>4, <2>1, <2>3, <2>4, <2>5
<1>7. CASE ~Bip!Fits(g, c, n)
  <2>1. p = <<>>
    BY <1>5, SubSeqEmpty
  <2>2. Bip!Copy(g, g.a + c, p) = g
    BY <1>4, <2>1, CopyNone DEF BipOK
  <2>3. b' = Bip!Forget(g) /\ io' = io /\ damage' = damage
    BY <1>3, <1>7, <2>1, <2>2
  <2>4. BipOK(b') /\ Bip!Contents(b') = Bip!Contents(b)
    BY <1>4, <2>3, ForgetBip DEF BipOK
  <2>5. BipGood'
    BY <1>2, <1>3, <2>3, <2>4 DEF BipGood
  <2> QED BY <2>3, <2>4, <2>5
<1> QED BY <1>6, <1>7

LEMMA PatchStepBip ==
  ASSUME BipGood, NEW n \in Sizes, NEW k \in Nat, Bip!Patch(k, n)
  PROVE  LET q == Bip!Contents(b)
         IN  /\ BipGood'
             /\ \/ io' = io /\ Bip!Contents(b') = Bip!Contents(b)
                \/ /\ io'.op = "replace" /\ io'.at + Len(io'.data) <= Len(q)
                   /\ Bip!Contents(b') = Replaced(q, io'.at, io'.data)
<1> DEFINE c == Bip!get_count(b)
           f == Bip!Fresh(n)
           g == Bip!RoomFor(b, k, n)
           w == Bip!Write1(g, k, f)
           D == Bip!get_end(w) > (IF w.bs # Null THEN w.a ELSE w.size)
           p == SubSeq(f, 1, Bip!InA(g, k, n))
           q == Bip!Contents(b)
<1>1. n \in Nat \ {0}
  BY SpareBuffersConstants
<1>2. f \in Seq(Cell) /\ Len(f) = n /\ (next + n) % Values \in Nat
  <2>1. Array!Fresh(n) \in Seq(Cell) /\ Len(Array!Fresh(n)) = n /\ (next + n) % Values \in Nat
        /\ f = Array!Fresh(n)
    BY <1>1, FreshIs DEF BipGood
  <2> HIDE DEF f
  <2> QED BY <2>1
<1>3. /\ k + n <= c
      /\ next' = (next + n) % Values
      /\ Bip!Fits(g, k, n) =>
           damage' = D /\ b' = Bip!Forget(w) /\ io' = [op |-> "replace", at |-> k, data |-> f]
      /\ ~Bip!Fits(g, k, n) =>
           /\ b' = Bip!Forget(Bip!Copy(g, g.a + k, p))
           /\ io' = (IF p = <<>> THEN io ELSE [op |-> "replace", at |-> k, data |-> p])
           /\ damage' = damage
  <2>1. Bip!WriteAt(k, f, "replace") /\ k + n <= c
    BY DEF Bip!Patch
  <2> HIDE DEF f
  <2> QED BY <1>2, <2>1 DEF Bip!WriteAt, Bip!CallAt
<1>3a. c \in Nat /\ Len(q) = c
  BY BipContents DEF BipGood, BipOK
<1> HIDE DEF f
<1>4. /\ BipOK(g) /\ Bip!Contents(g) = q /\ Bip!get_count(g) = c
  BY RoomBip DEF BipGood
<1> HIDE DEF g, c, q
<1>5. c = g.an + g.bn
  BY <1>4 DEF Bip!get_count
<1>6. /\ Bip!Fits(g, k, n) => PatchedBy(w, g, k, f)
      /\ PatchedBy(Bip!Copy(g, g.a + k, p), g, k, p)
      /\ p \in Seq(Cell) /\ Len(p) <= n
  BY <1>1, <1>2, <1>3, <1>4, <1>5, PatchBip
<1>7. CASE Bip!Fits(g, k, n)
  <2>1. PatchedBy(w, g, k, f) /\ damage' = D /\ b' = Bip!Forget(w)
        /\ io' = [op |-> "replace", at |-> k, data |-> f] /\ D \in BOOLEAN
    BY <1>3, <1>6, <1>7
  <2>2. Regions(w) /\ BipOK(w)
    BY <1>4, <2>1 DEF PatchedBy
  <2>3. Bip!Contents(w) = Replaced(q, k, f)
    BY <1>2, <1>4, <2>1, PatchedContents DEF BipOK
  <2>4. ~D
    BY <2>2, EndIn
  <2> HIDE DEF D, w
  <2>5. damage' = FALSE
    BY <2>1, <2>4, Zenon
  <2>6. BipOK(b') /\ Bip!Contents(b') = Bip!Contents(w)
    BY <2>1, <2>2, ForgetBip
  <2>7. BipGood'
    BY <1>2, <1>3, <2>5, <2>6 DEF BipGood
  <2>8. io'.op = "replace" /\ io'.at = k /\ io'.data = f
    BY <2>1
  <2>9. k + Len(f) <= Len(q)
    BY <1>1, <1>2, <1>3, <1>3a
  <2>10. Bip!Contents(b') = Replaced(q, io'.at, io'.data) /\ io'.at + Len(io'.data) <= Len(q)
    BY <2>3, <2>6, <2>8, <2>9
  <2> QED BY <2>7, <2>8, <2>10 DEF q
<1>8. CASE ~Bip!Fits(g, k, n)
  <2> DEFINE v == Bip!Copy(g, g.a + k, p)
  <2>1. /\ PatchedBy(v, g, k, p) /\ p \in Seq(Cell) /\ Len(p) <= n
        /\ b' = Bip!Forget(v) /\ damage' = damage
        /\ io' = (IF p = <<>> THEN io ELSE [op |-> "replace", at |-> k, data |-> p])
    BY <1>3, <1>6, <1>8
  <2> HIDE DEF v, p
  <2>2. Regions(v) /\ BipOK(v)
    BY <1>4, <2>1 DEF PatchedBy
  <2>3. Bip!Contents(v) = Replaced(q, k, p)
    BY <1>4, <2>1, PatchedContents DEF BipOK
  <2>4. BipOK(b') /\ Bip!Contents(b') = Bip!Contents(v)
    BY <2>1, <2>2, ForgetBip
  <2>5. BipGood'
    BY <1>2, <1>3, <2>1, <2>4 DEF BipGood
  <2>6. CASE p = <<>>
    <3>1. v = g
      BY <1>4, <2>6, CopyNone DEF BipOK, v
    <3> QED BY <1>4, <2>1, <2>4, <2>5, <2>6, <3>1 DEF q
  <2>7. CASE p # <<>>
    <3>1. io' = [op |-> "replace", at |-> k, data |-> p]
      BY <2>1, <2>7
    <3>2. io'.op = "replace" /\ io'.at = k /\ io'.data = p
      BY <3>1
    <3>3. k + Len(p) <= Len(q)
      <4>1. Len(p) \in Nat
        BY <2>1, LenProperties
      <4> QED BY <1>1, <1>3, <1>3a, <2>1, <4>1
    <3>4. Bip!Contents(b') = Replaced(q, io'.at, io'.data) /\ io'.at + Len(io'.data) <= Len(q)
      BY <2>3, <2>4, <3>2, <3>3
    <3> QED BY <2>5, <3>2, <3>4 DEF q
  <2> QED BY <2>6, <2>7
<1> QED BY <1>7, <1>8

\* n bytes from the k-th on: na of them in region a, the others in region b from
\* its j-th cell on.
LEMMA TwoRegions ==
  ASSUME NEW r, Regions(r), NEW k \in Nat, NEW n \in Nat, NEW na \in Nat, NEW j \in Nat,
         na <= n, k + n <= r.an + r.bn, na = 0 \/ k + na <= r.an,
         na < n => k + na = r.an + j
  PROVE  Bip!Region(r, r.a + k, na) \o (IF n > na THEN Bip!Region(r, j, n - na) ELSE <<>>)
           = SubSeq(Bip!Contents(r), k + 1, k + n)
<1> DEFINE x == Bip!Region(r, r.a + k, na)
           y == IF n > na THEN Bip!Region(r, j, n - na) ELSE <<>>
           q == Bip!Contents(r)
           d == SubSeq(q, k + 1, k + n)
           z == x \o y
<1>1. /\ r.size \in Nat \ {0} /\ r.a \in Nat /\ r.an \in Nat /\ r.bn \in Nat
      /\ r.a + r.an <= r.size /\ r.bn <= r.a
  BY RegionsAre
<1>2. /\ q \in Seq(Cell) /\ Len(q) = r.an + r.bn
      /\ \A i \in 1..r.an + r.bn : q[i] = ByteAt(r, i)
  BY BipContents
<1>3. /\ x \in Seq(Cell) /\ Len(x) = na
      /\ \A i \in 1..na : x[i] = r.mem[r.a + k + i - 1]
  <2>1. CASE na = 0
    <3>1. x = <<>>
      BY <2>1, NoRegion
    <3>2. <<>> \in Seq(Cell) /\ Len(<<>>) = 0
      BY EmptySeq
    <3> HIDE DEF x
    <3> QED BY <2>1, <3>1, <3>2
  <2>2. CASE na # 0
    <3> DEFINE o == r.a + k
    <3>1. o \in Nat /\ o + na <= r.size
      BY <1>1, <2>2
    <3> HIDE DEF o
    <3>2. /\ Bip!Region(r, o, na) \in Seq(Cell) /\ Len(Bip!Region(r, o, na)) = na
          /\ \A i \in 1..na : Bip!Region(r, o, na)[i] = r.mem[o + i - 1]
      BY <3>1, RegionIs
    <3> QED BY <3>2 DEF o
  <2> QED BY <2>1, <2>2
<1>4. /\ y \in Seq(Cell) /\ Len(y) = n - na
      /\ \A i \in 1..n - na : y[i] = r.mem[j + i - 1]
  <2>1. CASE ~(n > na)
    <3>1. y = <<>> /\ n - na = 0
      BY <2>1
    <3>2. <<>> \in Seq(Cell) /\ Len(<<>>) = 0
      BY EmptySeq
    <3> HIDE DEF y
    <3> QED BY <3>1, <3>2
  <2>2. CASE n > na
    <3> DEFINE m == n - na
    <3>1. m \in Nat /\ j + m <= r.size /\ y = Bip!Region(r, j, m)
      BY <1>1, <2>2
    <3> HIDE DEF m, y
    <3>2. /\ Bip!Region(r, j, m) \in Seq(Cell) /\ Len(Bip!Region(r, j, m)) = m
          /\ \A i \in 1..m : Bip!Region(r, j, m)[i] = r.mem[j + i - 1]
      BY <3>1, RegionIs
    <3> QED BY <3>1, <3>2 DEF m
  <2> QED BY <2>1, <2>2
<1> HIDE DEF x, y, q
<1>5. d \in Seq(Cell) /\ Len(d) = n /\ \A i \in 1..n : d[i] = q[k + i]
  <2>1. q \in Seq(Cell) /\ k + n <= Len(q)
    BY <1>2
  <2> HIDE DEF z
  <2>2. /\ SubSeq(q, k + 1, k + n) \in Seq(Cell) /\ Len(SubSeq(q, k + 1, k + n)) = n
        /\ \A i \in 1..n : SubSeq(q, k + 1, k + n)[i] = q[k + i]
    <3> HIDE DEF d
    <3> QED BY <2>1, PartOf
  <2> HIDE DEF d
  <2> QED BY <2>2 DEF d
<1>6. /\ z \in Seq(Cell) /\ Len(z) = n
      /\ \A i \in 1..n : z[i] = IF i <= na THEN x[i] ELSE y[i - na]
  <2>1. /\ x \o y \in Seq(Cell) /\ Len(x \o y) = Len(x) + Len(y)
        /\ \A i \in 1..Len(x) + Len(y) :
             (x \o y)[i] = IF i <= Len(x) THEN x[i] ELSE y[i - Len(x)]
    BY <1>3, <1>4, ConcatProperties
  <2>2. Len(x) + Len(y) = n
    BY <1>3, <1>4
  <2> QED BY <1>3, <2>1, <2>2
<1> HIDE DEF z, d
<1>7. ASSUME NEW i \in 1..n PROVE z[i] = d[i]
  <2>0. i \in Int /\ 1 <= i /\ i <= n
    OBVIOUS
  <2>1. k + i \in 1..r.an + r.bn
    BY <1>1, <2>0
  <2>2. d[i] = ByteAt(r, k + i)
    BY <1>2, <1>5, <2>1
  <2>3. CASE i <= na
    <3>1. k + i <= r.an /\ i \in 1..na /\ r.a + (k + i) - 1 = r.a + k + i - 1
      BY <1>1, <2>0, <2>3
    <3> QED BY <1>3, <1>6, <2>2, <2>3, <3>1 DEF ByteAt
  <2>4. CASE ~(i <= na)
    <3>1. k + na = r.an + j
      BY <2>0, <2>4
    <3>2. ~(k + i <= r.an) /\ i - na \in 1..n - na /\ (k + i) - r.an - 1 = j + (i - na) - 1
      BY <1>1, <2>0, <2>4, <3>1
    <3>3. z[i] = y[i - na]
      BY <1>6, <2>4
    <3>4. y[i - na] = r.mem[j + (i - na) - 1]
      BY <1>4, <3>2
    <3> QED BY <2>2, <3>2, <3>3, <3>4 DEF ByteAt
  <2> QED BY <2>3, <2>4
<1>8. z = d
  BY <1>5, <1>6, <1>7, SeqEqual
<1> QED BY <1>8 DEF z, d, x, y, q

LEMMA ReadBip ==
  ASSUME NEW r, Regions(r), NEW k \in Nat, NEW n \in Nat \ {0}, k + n <= r.an + r.bn
  PROVE  /\ k <= r.an => Bip!read(r, k, n) = SubSeq(Bip!Contents(r), k + 1, k + n)
         /\ Bip!Pieces(r, k, n) = SubSeq(Bip!Contents(r), k + 1, k + n)
<1> DEFINE na == IF r.an < k THEN 0 ELSE Bip!MinOf(r.an - k, n)
           j == IF r.an < k THEN k - r.an ELSE 0
           d == SubSeq(Bip!Contents(r), k + 1, k + n)
<1>1. r.an \in Nat /\ r.bn \in Nat
  BY RegionsAre
<1>2. r.bn > 0 => r.bs = 0
  BY RegionsAre
<1>3. /\ na \in Nat /\ j \in Nat /\ na <= n /\ (na = 0 \/ k + na <= r.an)
      /\ na < n => k + na = r.an + j
  BY <1>1 DEF Bip!MinOf
<1>4. na < n => r.bs = 0
  <2>1. na < n => r.bn > 0
    <3> HIDE DEF na, j
    <3> QED BY <1>1, <1>3
  <2> QED BY <1>2, <2>1
<1>5. k <= r.an => j = 0
  BY <1>1
<1>6. Bip!read(r, k, n) = Bip!Region(r, r.a + k, na) \o Bip!Region(r, r.bs, n - na)
  BY DEF Bip!read
<1>7. Bip!Pieces(r, k, n) = Bip!Region(r, r.a + k, na)
        \o (IF n > na THEN Bip!Region(r, r.bs + j, n - na) ELSE <<>>)
  BY DEF Bip!Pieces
<1> HIDE DEF na, j
<1>8. Bip!Region(r, r.a + k, na) \o (IF n > na THEN Bip!Region(r, j, n - na) ELSE <<>>) = d
  <2>1. n \in Nat
    OBVIOUS
  <2> QED BY <1>3, <2>1, TwoRegions, ZenonT(60)
<1>9. Bip!Pieces(r, k, n) = d
  <2>1. CASE na < n
    <3>1. r.bs + j = j /\ n > na
      <4>1. 0 + j = j /\ n > na
        BY <1>3, <2>1
      <4> QED BY <1>4, <2>1, <4>1
    <3> QED BY <1>7, <1>8, <3>1
  <2>2. CASE ~(na < n)
    <3>1. ~(n > na)
      BY <1>3, <2>2
    <3> QED BY <1>7, <1>8, <3>1
  <2> QED BY <2>1, <2>2
<1>10. ASSUME k <= r.an PROVE Bip!read(r, k, n) = d
  <2>1. CASE na < n
    <3>1. r.bs = j /\ n > na
      BY <1>3, <1>4, <1>5, <1>10, <2>1
    <3> QED BY <1>6, <1>8, <3>1
  <2>2. CASE ~(na < n)
    <3>1. ~(n > na) /\ n - na = 0
      BY <1>3, <2>2
    <3>2. Bip!Region(r, r.bs, n - na) = <<>>
      BY <3>1, NoRegion
    <3> QED BY <1>6, <1>8, <3>1, <3>2
  <2> QED BY <2>1, <2>2
<1> QED BY <1>9, <1>10

\* A bip without bytes.
LEMMA EmptyBip ==
  ASSUME NEW r, Regions(r), r.an = 0, r.bn = 0
  PROVE  Bip!Contents(r) = <<>>
<1> DEFINE q == Bip!Contents(r)
<1>1. q \in Seq(Cell) /\ Len(q) = r.an + r.bn
  BY BipContents
<1> HIDE DEF q
<1>2. Len(q) = 0
  BY <1>1
<1>3. q = <<>>
  BY <1>1, <1>2, EmptySeq
<1> QED BY <1>3 DEF q

\* A part of what is in r, in other regions over the same cells.
LEMMA PartBip ==
  ASSUME NEW r, Regions(r), NEW w, Regions(w), w.mem = r.mem, NEW k \in Nat,
         k + (w.an + w.bn) <= r.an + r.bn,
         \A i \in 1..w.an + w.bn : ByteAt(w, i) = ByteAt(r, k + i)
  PROVE  Bip!Contents(w) = SubSeq(Bip!Contents(r), k + 1, k + (w.an + w.bn))
<1> DEFINE q == Bip!Contents(r)
           m == w.an + w.bn
           d == SubSeq(q, k + 1, k + m)
<1>1. r.an \in Nat /\ r.bn \in Nat /\ w.an \in Nat /\ w.bn \in Nat
  BY RegionsAre
<1>2. q \in Seq(Cell) /\ Len(q) = r.an + r.bn /\ \A i \in 1..r.an + r.bn : q[i] = ByteAt(r, i)
  BY BipContents
<1> HIDE DEF q
<1>3. m \in Nat /\ k + m <= Len(q)
  BY <1>1, <1>2
<1>4. d \in Seq(Cell) /\ Len(d) = m /\ \A i \in 1..m : d[i] = q[k + i]
  <2> HIDE DEF m
  <2> QED BY <1>2, <1>3, PartOf
<1> HIDE DEF d
<1>5. \A i \in 1..m : d[i] = ByteAt(w, i)
  <2> TAKE i \in 1..m
  <2>1. k + i \in 1..r.an + r.bn
    BY <1>1, <1>2, <1>3
  <2> QED BY <1>2, <1>4, <2>1
<1>6. Bip!Contents(w) = d
  BY <1>4, <1>5, BytesAre
<1> QED BY <1>6 DEF d, q

\* A bip while it is changed.
AnyShape ==
  [size : Nat \ {0}, mem : UNION {[0..n - 1 -> Cell] : n \in Nat},
   a : Nat, an : Nat, bs : {Null} \cup Nat, bn : Nat]

\* Its fields, the size and the cells being those of r.
Fields(w, r, a, an, bs, bn) ==
  /\ w \in AnyShape /\ w.size = r.size /\ w.mem = r.mem
  /\ w.a = a /\ w.an = an /\ w.bs = bs /\ w.bn = bn

\* remove(): what is left, in region a and b or, after region a, in region a.
LEMMA RemoveBip ==
  ASSUME NEW r, BipOK(r), NEW n \in Nat, n <= r.an + r.bn
  PROVE  LET w == Bip!remove(r, n)
         IN  /\ BipOK(w)
             /\ Bip!Contents(w) = SubSeq(Bip!Contents(r), n + 1, r.an + r.bn)
<1> DEFINE w == Bip!remove(r, n)
           na == Bip!MinOf(r.an, n)
           p == [r EXCEPT !.a = r.a + na, !.an = r.an - na]
           u == [p EXCEPT !.bs = @ + n - na, !.bn = @ - (n - na)]
<1>0. r \in BipShape /\ Regions(r) /\ Null # 0 /\ r.mem \in [0..r.size - 1 -> Cell]
      /\ r.mem \in UNION {[0..m - 1 -> Cell] : m \in Nat}
  <2>1. r \in BipShape /\ Regions(r) /\ Null # 0 /\ r.mem \in [0..r.size - 1 -> Cell]
    BY RegionsAre DEF BipOK, Regions
  <2> QED BY <2>1 DEF BipShape
<1>1. /\ r.size \in Nat \ {0} /\ r.a \in Nat /\ r.an \in Nat /\ r.bn \in Nat
      /\ r.a + r.an <= r.size /\ r.bn <= r.a
  BY RegionsAre DEF BipOK
<1>2. /\ r.bs \in {Null, 0} /\ (r.bs = Null => r.bn = 0) /\ (r.bn > 0 => r.bs = 0)
      /\ (r.an = 0 => r.a = 0 /\ r.bs = Null) /\ r.size <= BipLimit
      /\ (r.bs # Null /\ r.bn = 0 => r.size - r.a - r.an < r.a)
  BY RegionsAre DEF BipOK
<1>3. w = Bip!Turn(IF n > na THEN u ELSE p)
  BY <1>0 DEF Bip!remove
<1>4. na = IF r.an < n THEN r.an ELSE n
  BY DEF Bip!MinOf
<1>4a. na \in Nat /\ na <= r.an /\ na <= n /\ r.an - na \in Nat /\ r.a + na \in Nat
  BY <1>1, <1>4
<1>4b. Fields(p, r, r.a + na, r.an - na, r.bs, r.bn)
  <2> HIDE DEF na
  <2>1. r \in AnyShape
    BY <1>0 DEF BipShape, AnyShape
  <2> QED BY <1>4a, <2>1 DEF AnyShape, Fields
<1>4c. n > na => Fields(u, r, r.a + na, r.an - na, n - na, r.bn - (n - na))
  <2> SUFFICES ASSUME n > na
               PROVE  Fields(u, r, r.a + na, r.an - na, n - na, r.bn - (n - na))
    OBVIOUS
  <2> HIDE DEF na, p
  <2>1. r.bn > 0 /\ n - na \in Nat /\ r.bn - (n - na) \in Nat
    BY <1>1, <1>4, <1>4a
  <2>2. p.bs = 0 /\ p.bn = r.bn /\ p \in AnyShape
    BY <1>2, <1>4b, <2>1 DEF Fields
  <2>3. p.bs + n - na = n - na /\ p.bn - (n - na) = r.bn - (n - na)
    <3>1. 0 + n - na = n - na
      BY <1>4a
    <3> QED BY <2>2, <3>1
  <2>4. u = [p EXCEPT !.bs = n - na, !.bn = r.bn - (n - na)]
    BY <2>3
  <2> HIDE DEF u
  <2> QED BY <1>4b, <2>1, <2>2, <2>4 DEF AnyShape, Fields
<1> HIDE DEF na, p, u, w
<1>5. CASE n < r.an
  <2>1. na = n /\ ~(n > na) /\ r.an - na > 0
    BY <1>1, <1>4, <1>5
  <2>2. w = p
    BY <1>3, <1>4b, <2>1 DEF Bip!Turn, Fields
  <2>4. w \in BipShape /\ w.size = r.size /\ w.mem = r.mem /\ w.a = r.a + n /\ w.an = r.an - n
        /\ w.bs = r.bs /\ w.bn = r.bn
    <3>1. Fields(w, r, r.a + n, r.an - n, r.bs, r.bn)
      BY <1>4b, <2>1, <2>2
    <3> QED BY <1>2, <3>1 DEF BipShape, AnyShape, Fields
  <2>5. Regions(w)
    <3>1. w.a + w.an <= w.size /\ w.bn <= w.a /\ w.mem \in [0..w.size - 1 -> Cell]
      BY <1>0, <1>1, <1>5, <2>4
    <3> QED BY <1>2, <2>4, <3>1 DEF Regions
  <2>6. BipOK(w)
    <3>1. w.an # 0
      BY <1>1, <1>5, <2>4
    <3>2. r.size - r.a - r.an < r.a => w.size - w.a - w.an < w.a
      BY <1>1, <1>5, <2>4
    <3> QED BY <1>2, <2>4, <2>5, <3>1, <3>2 DEF BipOK
  <2>7. n + (w.an + w.bn) = r.an + r.bn /\ n + (w.an + w.bn) <= r.an + r.bn
    BY <1>1, <1>5, <2>4
  <2>8. ASSUME NEW i \in 1..w.an + w.bn PROVE ByteAt(w, i) = ByteAt(r, n + i)
    <3>1. i \in Int
      OBVIOUS
    <3>2. i <= w.an <=> n + i <= r.an
      BY <1>1, <1>5, <2>4, <3>1
    <3>3. w.a + i - 1 = r.a + (n + i) - 1 /\ i - w.an - 1 = (n + i) - r.an - 1
      BY <1>1, <1>5, <2>4, <3>1
    <3> QED BY <2>4, <3>2, <3>3 DEF ByteAt
  <2>9. Bip!Contents(w) = SubSeq(Bip!Contents(r), n + 1, n + (w.an + w.bn))
    BY <1>0, <2>4, <2>5, <2>7, <2>8, PartBip
  <2> QED BY <2>6, <2>7, <2>9 DEF w
<1>6. CASE ~(n < r.an) /\ n < r.an + r.bn
  <2>0. r.bn > 0 /\ r.bs = 0
    BY <1>1, <1>2, <1>6
  <2>1. na = r.an /\ r.an - na = 0
    BY <1>1, <1>4, <1>6
  <2> DEFINE o == n - r.an
  <2>2. o \in Nat /\ r.bn - o \in Nat /\ r.bn - o > 0
    BY <1>1, <1>6
  <2>3. Fields(w, r, o, r.bn - o, Null, 0)
    <3> DEFINE v == IF n > na THEN u ELSE p
    <3>1. Fields(v, r, r.a + na, 0, o, r.bn - o)
      <4>1. CASE n > na
        <5>1. n - na = o /\ r.bn - (n - na) = r.bn - o
          BY <2>1
        <5> QED BY <1>4c, <2>1, <4>1, <5>1
      <4>2. CASE ~(n > na)
        <5>1. o = 0 /\ r.bn - o = r.bn
          BY <1>1, <1>6, <2>1, <4>2
        <5> QED BY <1>4b, <2>0, <2>1, <4>2, <5>1
      <4> QED BY <4>1, <4>2
    <3>2. w = Bip!Turn(v)
      BY <1>3
    <3> HIDE DEF v, o
    <3>3. ~(v.an > 0) /\ v.an = 0 /\ v.bn > 0
      BY <2>2, <3>1 DEF Fields
    <3>4. w = [v EXCEPT !.a = v.bs, !.an = v.bn, !.bs = Null, !.bn = 0]
      BY <3>2, <3>3 DEF Bip!Turn
    <3>5. v \in AnyShape /\ v.size = r.size /\ v.mem = r.mem /\ v.bs = o /\ v.bn = r.bn - o
      BY <3>1 DEF Fields
    <3> QED BY <2>2, <3>4, <3>5 DEF Fields, AnyShape
  <2>3a. n = r.an + o
    BY <1>1
  <2> HIDE DEF o
  <2>4. w \in BipShape /\ w.size = r.size /\ w.mem = r.mem /\ w.a = o /\ w.an = r.bn - o
        /\ w.bs = Null /\ w.bn = 0
    BY <2>3 DEF BipShape, AnyShape, Fields
  <2>5. Regions(w)
    <3>1. w.a + w.an <= w.size /\ w.bn <= w.a /\ w.mem \in [0..w.size - 1 -> Cell]
      BY <1>0, <1>1, <2>2, <2>4
    <3> QED BY <2>4, <3>1 DEF Regions
  <2>6. BipOK(w)
    <3>1. w.an # 0
      BY <2>2, <2>4
    <3> QED BY <1>2, <2>4, <2>5, <3>1 DEF BipOK
  <2>7. n + (w.an + w.bn) = r.an + r.bn /\ n + (w.an + w.bn) <= r.an + r.bn
    BY <1>1, <2>2, <2>3a, <2>4
  <2>8. ASSUME NEW i \in 1..w.an + w.bn PROVE ByteAt(w, i) = ByteAt(r, n + i)
    <3>0. i \in Int /\ 1 <= i /\ i <= w.an
      BY <2>2, <2>4
    <3>1. ~(n + i <= r.an)
      BY <1>1, <2>2, <2>3a, <3>0
    <3>2. w.a + i - 1 = (n + i) - r.an - 1
      BY <1>1, <2>2, <2>3a, <2>4, <3>0
    <3> QED BY <2>4, <3>0, <3>1, <3>2 DEF ByteAt
  <2>9. Bip!Contents(w) = SubSeq(Bip!Contents(r), n + 1, n + (w.an + w.bn))
    BY <1>0, <2>4, <2>5, <2>7, <2>8, PartBip
  <2> QED BY <2>6, <2>7, <2>9 DEF w
<1>7. CASE n = r.an + r.bn
  <2>1. na = r.an /\ r.an - na = 0
    BY <1>1, <1>4, <1>7
  <2>2. Fields(w, r, 0, 0, Null, 0)
    <3> DEFINE v == IF n > na THEN u ELSE p
    <3>1. v \in AnyShape /\ v.size = r.size /\ v.mem = r.mem /\ v.an = 0 /\ v.bn = 0
      <4>1. CASE n > na
        <5>1. r.bn - (n - na) = 0
          BY <1>1, <1>7, <2>1
        <5> QED BY <1>4c, <2>1, <4>1, <5>1 DEF Fields
      <4>2. CASE ~(n > na)
        <5>1. r.bn = 0
          BY <1>1, <1>7, <2>1, <4>2
        <5> QED BY <1>4b, <2>1, <4>2, <5>1 DEF Fields
      <4> QED BY <4>1, <4>2
    <3>2. w = Bip!Turn(v)
      BY <1>3
    <3> HIDE DEF v
    <3>3. w = Bip!reset(v)
      BY <3>1, <3>2 DEF Bip!Turn
    <3>4. w = [v EXCEPT !.a = 0, !.an = 0, !.bs = Null, !.bn = 0]
      BY <3>3 DEF Bip!reset
    <3> QED BY <3>1, <3>4 DEF Fields, AnyShape
  <2>3. w \in BipShape /\ w.size = r.size /\ w.mem = r.mem /\ w.a = 0 /\ w.an = 0
        /\ w.bs = Null /\ w.bn = 0
    BY <2>2 DEF BipShape, AnyShape, Fields
  <2>4. Regions(w)
    BY <1>0, <1>1, <2>3 DEF Regions
  <2>5. BipOK(w)
    BY <1>2, <2>3, <2>4 DEF BipOK
  <2>6. Bip!Contents(w) = <<>>
    BY <2>3, <2>4, EmptyBip
  <2>7. n + 1 \in Int /\ r.an + r.bn \in Int /\ r.an + r.bn < n + 1
    BY <1>1, <1>7
  <2>8. SubSeq(Bip!Contents(r), n + 1, r.an + r.bn) = <<>>
    BY <2>7, SubSeqEmpty
  <2> QED BY <2>5, <2>6, <2>8 DEF w
<1>8. n < r.an \/ (~(n < r.an) /\ n < r.an + r.bn) \/ n = r.an + r.bn
  BY <1>1
<1> QED BY <1>5, <1>6, <1>7, <1>8

LEMMA UnputBip ==
  ASSUME NEW r, BipOK(r), NEW n \in Nat, n <= r.an + r.bn
  PROVE  LET w == Bip!remove_from_back(r, n)
         IN  /\ BipOK(w)
             /\ Bip!Contents(w) = SubSeq(Bip!Contents(r), 1, (r.an + r.bn) - n)
<1> DEFINE w == Bip!remove_from_back(r, n)
           nb == Bip!MinOf(r.bn, n)
           p == [r EXCEPT !.bn = r.bn - nb, !.an = r.an - (n - nb)]
<1>0. r \in BipShape /\ Regions(r) /\ Null # 0 /\ r.mem \in [0..r.size - 1 -> Cell]
      /\ r \in AnyShape
  <2>1. r \in BipShape /\ Regions(r) /\ Null # 0 /\ r.mem \in [0..r.size - 1 -> Cell]
    BY RegionsAre DEF BipOK, Regions
  <2> QED BY <2>1 DEF BipShape, AnyShape
<1>1. /\ r.size \in Nat \ {0} /\ r.a \in Nat /\ r.an \in Nat /\ r.bn \in Nat
      /\ r.a + r.an <= r.size /\ r.bn <= r.a
  BY RegionsAre DEF BipOK
<1>2. /\ r.bs \in {Null, 0} /\ (r.bs = Null => r.bn = 0) /\ (r.bn > 0 => r.bs = 0)
      /\ (r.an = 0 => r.a = 0 /\ r.bs = Null) /\ r.size <= BipLimit
  BY RegionsAre DEF BipOK
<1>3. w = CASE p.bn > 0             -> p
            [] p.bn = 0 /\ p.an > 0 -> [p EXCEPT !.bs = Null]
            [] OTHER                -> Bip!reset(p)
  BY <1>0 DEF Bip!remove_from_back
<1>4. nb = IF r.bn < n THEN r.bn ELSE n
  BY DEF Bip!MinOf
<1>5. nb \in Nat /\ r.bn - nb \in Nat /\ r.an - (n - nb) \in Nat
      /\ (r.bn - nb > 0 => nb = n)
  BY <1>1, <1>4
<1>6. Fields(p, r, r.a, r.an - (n - nb), r.bs, r.bn - nb)
  <2> HIDE DEF nb
  <2> QED BY <1>0, <1>5 DEF AnyShape, Fields
<1> HIDE DEF w, p, nb
<1>7. /\ Fields(w, r, w.a, r.an - (n - nb), w.bs, r.bn - nb)
      /\ w.bs = Null => r.bn - nb = 0
      /\ w.bs = Null \/ (w.bs = 0 /\ r.bn - nb > 0 /\ r.an - (n - nb) # 0)
      /\ w.a = r.a \/ (w.a = 0 /\ r.an - (n - nb) = 0)
      /\ r.an - (n - nb) = 0 => w.a = 0
  <2>0. /\ p \in AnyShape /\ p.size = r.size /\ p.mem = r.mem /\ p.a = r.a
        /\ p.an = r.an - (n - nb) /\ p.bs = r.bs /\ p.bn = r.bn - nb
    BY <1>6 DEF Fields
  <2>1. CASE r.bn - nb > 0
    <3>1. w = p
      BY <1>3, <2>0, <2>1
    <3>2. r.bn > 0 /\ r.bs = 0 /\ r.bs # Null
      BY <1>0, <1>1, <1>2, <1>5, <2>1
    <3>3. r.an - (n - nb) # 0
      <4>1. n - nb = 0 /\ r.an # 0
        BY <1>1, <1>2, <1>5, <2>1, <3>2
      <4> QED BY <1>1, <4>1
    <3> QED BY <2>0, <2>1, <3>1, <3>2, <3>3 DEF Fields
  <2>2. CASE r.bn - nb = 0 /\ r.an - (n - nb) > 0
    <3>1. w = [p EXCEPT !.bs = Null]
      BY <1>3, <2>0, <2>2
    <3>2. /\ w \in AnyShape /\ w.size = r.size /\ w.mem = r.mem /\ w.a = r.a
          /\ w.an = r.an - (n - nb) /\ w.bs = Null /\ w.bn = r.bn - nb
      BY <2>0, <3>1 DEF AnyShape
    <3> QED BY <2>2, <3>2 DEF Fields
  <2>3. CASE r.bn - nb = 0 /\ r.an - (n - nb) = 0
    <3>1. w = [p EXCEPT !.a = 0, !.an = 0, !.bs = Null, !.bn = 0]
      BY <1>3, <2>0, <2>3 DEF Bip!reset
    <3>2. /\ w \in AnyShape /\ w.size = r.size /\ w.mem = r.mem /\ w.a = 0
          /\ w.an = 0 /\ w.bs = Null /\ w.bn = 0
      BY <2>0, <3>1 DEF AnyShape
    <3> QED BY <2>3, <3>2 DEF Fields
  <2>4. \/ r.bn - nb > 0 \/ (r.bn - nb = 0 /\ r.an - (n - nb) > 0)
        \/ (r.bn - nb = 0 /\ r.an - (n - nb) = 0)
    BY <1>5
  <2> QED BY <2>1, <2>2, <2>3, <2>4
<1>8. w \in BipShape /\ w.size = r.size /\ w.mem = r.mem /\ w.an = r.an - (n - nb)
      /\ w.bn = r.bn - nb
  BY <1>7 DEF Fields, AnyShape, BipShape
<1>9. Regions(w)
  <2>1. w.an \in Nat /\ w.an <= r.an /\ w.bn \in Nat /\ w.bn <= r.bn
    BY <1>1, <1>4, <1>5, <1>8
  <2>2. w.a + w.an <= w.size
    BY <1>1, <1>7, <1>8, <2>1
  <2>3. w.bn <= w.a
    <3>1. CASE w.a = r.a
      BY <1>1, <2>1, <3>1
    <3>2. CASE w.a = 0 /\ r.an - (n - nb) = 0
      <4>1. w.bn = 0
        BY <1>7, <1>8, <3>2
      <4> QED BY <3>2, <4>1
    <3> QED BY <1>7, <3>1, <3>2
  <2>4. w.bs = Null => w.bn = 0
    BY <1>7, <1>8
  <2> QED BY <1>0, <1>8, <2>2, <2>3, <2>4 DEF Regions
<1>10. BipOK(w)
  <2>1. w.an = 0 => w.a = 0 /\ w.bs = Null
    BY <1>7, <1>8
  <2>2. w.bs # Null => w.bn # 0
    BY <1>7, <1>8
  <2> QED BY <1>2, <1>8, <1>9, <2>1, <2>2 DEF BipOK
<1> DEFINE o == 0
<1>11. /\ w.an + w.bn = (r.an + r.bn) - n /\ o \in Nat
       /\ o + (w.an + w.bn) = (r.an + r.bn) - n /\ o + 1 = 1
       /\ o + (w.an + w.bn) <= r.an + r.bn
  BY <1>1, <1>5, <1>8
<1>12. ASSUME NEW i \in 1..w.an + w.bn PROVE ByteAt(w, i) = ByteAt(r, o + i)
  <2>0. i \in Int /\ 1 <= i /\ i <= w.an + w.bn /\ o + i = i
    BY <1>1, <1>5, <1>8
  <2>1. CASE i <= w.an
    <3>1. i <= r.an /\ w.an # 0
      BY <1>1, <1>4, <1>5, <1>8, <2>0, <2>1
    <3>2. w.a = r.a
      BY <1>7, <1>8, <3>1
    <3> HIDE DEF o
    <3> QED BY <1>8, <2>0, <2>1, <3>1, <3>2 DEF ByteAt
  <2>2. CASE ~(i <= w.an)
    <3>1. w.bn > 0
      BY <1>1, <1>5, <1>8, <2>0, <2>2
    <3>2. w.an = r.an
      BY <1>1, <1>5, <1>8, <3>1
    <3> HIDE DEF o
    <3> QED BY <1>8, <2>0, <2>2, <3>2 DEF ByteAt
  <2> QED BY <2>1, <2>2
<1> HIDE DEF o
<1>13. Bip!Contents(w) = SubSeq(Bip!Contents(r), o + 1, o + (w.an + w.bn))
  BY <1>0, <1>8, <1>9, <1>11, <1>12, PartBip
<1> QED BY <1>10, <1>11, <1>13 DEF w

LEMMA ReadStepBip ==
  ASSUME BipGood, NEW n \in 1..Bip!get_count(b), Bip!Read(n)
  PROVE  BipGood' /\ io'.op = "get" /\ Bip!Contents(b) = io'.data \o Bip!Contents(b')
<1> DEFINE q == Bip!Contents(b)
           c == b.an + b.bn
           w == Bip!remove(b, n)
           f == Bip!read(b, 0, n)
<1>1. b.an \in Nat /\ b.bn \in Nat /\ BipOK(b) /\ Regions(b)
  BY RegionsAre DEF BipGood, BipOK
<1>2. q \in Seq(Cell) /\ Len(q) = c
  BY <1>1, BipContents
<1>3. n \in Nat \ {0} /\ n <= c /\ n \in Nat
  BY <1>1 DEF Bip!get_count
<1>4. b' = Bip!Forget(w) /\ io' = [op |-> "get", data |-> f] /\ UNCHANGED <<next, damage>>
  BY DEF Bip!Read, Bip!Call
<1>5. BipOK(w) /\ Bip!Contents(w) = SubSeq(q, n + 1, c)
  BY <1>1, <1>3, RemoveBip
<1> DEFINE o == 0
<1>6. o \in Nat /\ o <= b.an /\ o + n <= b.an + b.bn /\ o + 1 = 1 /\ o + n = n
  BY <1>1, <1>3
<1>7. f = SubSeq(q, 1, n)
  <2>1. Bip!read(b, o, n) = SubSeq(q, o + 1, o + n)
    <3> HIDE DEF o
    <3> QED BY <1>1, <1>3, <1>6, ReadBip
  <2> QED BY <1>6, <2>1
<1> HIDE DEF w, q, f
<1>8. BipOK(b') /\ Bip!Contents(b') = SubSeq(q, n + 1, c)
  BY <1>4, <1>5, ForgetBip DEF BipOK
<1>9. BipGood'
  BY <1>4, <1>8 DEF BipGood
<1>10. n \in 0..Len(q)
  BY <1>2, <1>3
<1>11. q = SubSeq(q, 1, n) \o SubSeq(q, n + 1, Len(q))
  BY <1>2, <1>10, TwoParts
<1>12. io'.op = "get" /\ io'.data = f
  BY <1>4
<1>13. q = io'.data \o Bip!Contents(b')
  BY <1>2, <1>7, <1>8, <1>11, <1>12
<1> QED BY <1>9, <1>12, <1>13 DEF q

LEMMA UnputStepBip ==
  ASSUME BipGood, NEW n \in 1..Bip!get_count(b), Bip!RemoveFromBack(n)
  PROVE  BipGood' /\ io'.op = "unput" /\ Bip!Contents(b) = Bip!Contents(b') \o io'.data
<1> DEFINE q == Bip!Contents(b)
           c == Bip!get_count(b)
           w == Bip!remove_from_back(b, n)
           f == SubSeq(q, c - n + 1, c)
<1>1. b.an \in Nat /\ b.bn \in Nat /\ BipOK(b) /\ Regions(b)
  BY RegionsAre DEF BipGood, BipOK
<1>2. q \in Seq(Cell) /\ Len(q) = c /\ c = b.an + b.bn
  BY <1>1, BipContents
<1>3. n \in Nat /\ n <= b.an + b.bn
  BY <1>1 DEF Bip!get_count
<1>4. b' = Bip!Forget(w) /\ io' = [op |-> "unput", data |-> f] /\ UNCHANGED <<next, damage>>
  BY DEF Bip!RemoveFromBack, Bip!Call
<1>5. BipOK(w) /\ Bip!Contents(w) = SubSeq(q, 1, c - n)
  <2>1. BipOK(w) /\ Bip!Contents(w) = SubSeq(q, 1, (b.an + b.bn) - n)
    BY <1>1, <1>3, UnputBip
  <2> HIDE DEF w, q, c
  <2> QED BY <1>2, <2>1
<1> HIDE DEF w, q, c
<1>6. BipOK(b') /\ Bip!Contents(b') = SubSeq(q, 1, c - n)
  BY <1>4, <1>5, ForgetBip DEF BipOK
<1>7. BipGood'
  BY <1>4, <1>6 DEF BipGood
<1>8. c - n \in 0..Len(q)
  BY <1>1, <1>2, <1>3
<1>9. q = SubSeq(q, 1, c - n) \o SubSeq(q, (c - n) + 1, Len(q))
  BY <1>2, <1>8, TwoParts
<1>10. io'.op = "unput" /\ io'.data = f
  BY <1>4
<1>11. q = Bip!Contents(b') \o io'.data
  BY <1>2, <1>6, <1>9, <1>10
<1> QED BY <1>7, <1>10, <1>11 DEF q

LEMMA ResetStepBip ==
  ASSUME BipGood, Bip!Reset
  PROVE  BipGood' /\ io'.op = "clear" /\ Bip!Contents(b') = <<>>
<1> DEFINE w == Bip!reset(b)
<1>0. b \in BipShape /\ b.mem \in [0..b.size - 1 -> Cell] /\ b.size <= BipLimit
      /\ b.size \in Nat \ {0}
  BY RegionsAre DEF BipGood, BipOK, Regions
<1>1. b' = Bip!Forget(w) /\ io' = [op |-> "clear", data |-> <<>>] /\ UNCHANGED <<next, damage>>
  BY DEF Bip!Reset, Bip!Call
<1>2. w = [b EXCEPT !.a = 0, !.an = 0, !.bs = Null, !.bn = 0]
  BY DEF Bip!reset
<1> HIDE DEF w
<1>3. w \in BipShape /\ w.size = b.size /\ w.mem = b.mem /\ w.a = 0 /\ w.an = 0
      /\ w.bs = Null /\ w.bn = 0
  BY <1>0, <1>2 DEF BipShape
<1>4. Regions(w)
  BY <1>0, <1>3 DEF Regions
<1>5. BipOK(w)
  BY <1>0, <1>3, <1>4 DEF BipOK
<1>6. Bip!Contents(w) = <<>>
  BY <1>3, <1>4, EmptyBip
<1>7. BipOK(b') /\ Bip!Contents(b') = <<>>
  BY <1>1, <1>4, <1>5, <1>6, ForgetBip
<1>8. BipGood'
  BY <1>1, <1>7 DEF BipGood
<1>9. io'.op = "clear"
  BY <1>1
<1> QED BY <1>7, <1>8, <1>9

\* A read at an offset gives what is there, or the first bytes of region b.
LEMMA PeekStepBip ==
  ASSUME BipGood, NEW n \in Sizes, NEW k \in Nat, Bip!Peek(k, n)
  PROVE  LET q == Bip!Contents(b)
         IN  /\ BipGood' /\ io'.op = "peek" /\ b' = b
             /\ io'.at + Len(io'.data) <= Len(q)
             /\ \/ io'.data = SubSeq(q, io'.at + 1, io'.at + Len(io'.data))
                \/ /\ io'.at > b.an
                   /\ io'.data = SubSeq(q, b.an + 1, b.an + Len(io'.data))
<1> DEFINE q == Bip!Contents(b)
           f == Bip!read(b, k, n)
<1>1. b.an \in Nat /\ b.bn \in Nat /\ BipOK(b) /\ Regions(b) /\ (b.bn > 0 => b.bs = 0)
  BY RegionsAre DEF BipGood, BipOK
<1>2. q \in Seq(Cell) /\ Len(q) = b.an + b.bn
  BY <1>1, BipContents
<1>3. n \in Nat \ {0}
  BY SpareBuffersConstants
<1>4. /\ k + n <= b.an + b.bn /\ io' = [op |-> "peek", at |-> k, data |-> f]
      /\ b' = b /\ next' = next /\ damage' = damage
  BY DEF Bip!Peek, Bip!CallAt, Bip!get_count
<1>5. BipGood'
  BY <1>4 DEF BipGood
<1>6. io'.op = "peek" /\ io'.at = k /\ io'.data = f
  BY <1>4
<1>7. CASE k <= b.an
  <2>1. f = SubSeq(q, k + 1, k + n)
    BY <1>1, <1>3, <1>4, <1>7, ReadBip
  <2> HIDE DEF q, f
  <2>2. Len(f) = n
    <3>1. n \in Nat /\ k + n <= Len(q)
      BY <1>2, <1>3, <1>4
    <3> QED BY <1>2, <2>1, <3>1, PartOf
  <2> QED BY <1>2, <1>4, <1>5, <1>6, <2>1, <2>2 DEF q
<1>8. CASE k > b.an
  <2> DEFINE m == b.an
  <2>1. m \in Nat /\ n \in Nat /\ m <= b.an /\ m + n <= b.an + b.bn
    BY <1>1, <1>3, <1>4, <1>8
  <2>2. Bip!read(b, m, n) = SubSeq(q, m + 1, m + n)
    <3> HIDE DEF m
    <3> QED BY <1>1, <1>3, <2>1, ReadBip
  <2>3. f = Bip!Region(b, b.a + k, 0) \o Bip!Region(b, b.bs, n - 0)
    BY <1>1, <1>8 DEF Bip!read
  <2>4. Bip!read(b, m, n) = Bip!Region(b, b.a + m, 0) \o Bip!Region(b, b.bs, n - 0)
    <3> DEFINE z == IF b.an < m THEN 0 ELSE Bip!MinOf(b.an - m, n)
    <3>1. z = 0
      BY <1>1, <1>3 DEF Bip!MinOf
    <3>2. Bip!read(b, m, n) = Bip!Region(b, b.a + m, z) \o Bip!Region(b, b.bs, n - z)
      BY DEF Bip!read
    <3> HIDE DEF z
    <3> QED BY <3>1, <3>2
  <2>5. f = SubSeq(q, m + 1, m + n)
    <3>1. Bip!Region(b, b.a + k, 0) = <<>> /\ Bip!Region(b, b.a + m, 0) = <<>>
      BY NoRegion
    <3> HIDE DEF f, q, m
    <3> QED BY <2>2, <2>3, <2>4, <3>1
  <2> HIDE DEF f, q
  <2>6. Len(f) = n
    <3>1. n \in Nat /\ m + n <= Len(q)
      BY <1>2, <2>1
    <3> HIDE DEF m
    <3> QED BY <1>2, <2>1, <2>5, <3>1, PartOf
  <2> QED BY <1>2, <1>4, <1>5, <1>6, <1>8, <2>5, <2>6 DEF q
<1> QED BY <1>1, <1>7, <1>8

LEMMA GetSpaceStepBip ==
  ASSUME BipGood, Bip!GetSpace
  PROVE  BipGood' /\ io' = io /\ Bip!Contents(b') = Bip!Contents(b)
<1>1. b' = Bip!get_space(b) /\ io' = io /\ next' = next /\ damage' = damage
  BY DEF Bip!GetSpace
<1>2. CASE b' = b
  BY <1>1, <1>2 DEF BipGood
<1>3. CASE Bip!CanExpand(b) /\ b' = Bip!expand(b)
  <2>1. BipOK(b') /\ Bip!Contents(b') = Bip!Contents(b)
    BY <1>3, ExpandBip DEF BipGood
  <2> QED BY <1>1, <2>1 DEF BipGood
<1> QED BY <1>1, <1>2, <1>3 DEF Bip!get_space

LEMMA InitBip ==
  ASSUME use = "bip", Bip!Init
  PROVE  BipGood /\ IsQueue!Init
<1> USE SpareBuffersConstants
<1> DEFINE M == [i \in 0..BipSize - 1 |-> Junk]
<1>1. /\ b = Bip!New /\ io = [op |-> "new", data |-> <<>>] /\ next = 0 /\ damage = FALSE
  BY DEF Bip!Init, Bip!Call
<1>2. M \in [0..BipSize - 1 -> Cell]
  BY DEF Cell
<1>3. b = [size |-> BipSize, mem |-> M, a |-> 0, an |-> 0, bs |-> Null, bn |-> 0]
  BY <1>1 DEF Bip!New
<1> HIDE DEF M
<1>4. /\ b.size = BipSize /\ b.mem = M /\ b.a = 0 /\ b.an = 0 /\ b.bs = Null /\ b.bn = 0
      /\ b \in BipShape
  <2>1. M \in UNION {[0..k - 1 -> Cell] : k \in Nat}
    BY <1>2
  <2> QED BY <1>3, <2>1 DEF BipShape
<1>5. Regions(b)
  BY <1>2, <1>4 DEF Regions
<1>6. BipOK(b)
  BY <1>4, <1>5 DEF BipOK
<1>7. BipGood
  BY <1>1, <1>6 DEF BipGood
<1>8. Bip!Contents(b) = <<>>
  BY <1>4, <1>5, EmptyBip
<1> QED BY <1>1, <1>7, <1>8 DEF IsQueue!Init, Bytes

LEMMA StepBip ==
  ASSUME use = "bip", BipGood, use' = use, Bip!Next
  PROVE  BipGood' /\ (IsQueue!Next \/ Misread \/ UNCHANGED <<Bip!Contents(b), io>>)
<1>1. ASSUME NEW n \in Sizes, Bip!Write(n) \/ Bip!Receive(n)
      PROVE  BipGood' /\ (IsQueue!Next \/ UNCHANGED <<Bip!Contents(b), io>>)
  <2>1. /\ BipGood'
        /\ \/ io' = io /\ Bip!Contents(b') = Bip!Contents(b)
           \/ io'.op = "put" /\ Bip!Contents(b') = Bip!Contents(b) \o io'.data
    BY <1>1, WriteBip, ReceiveBip
  <2> QED BY <2>1 DEF IsQueue!Next, IsQueue!Put, Bytes
<1>2. ASSUME NEW n \in Sizes, NEW k \in 0..Bip!get_count(b), Bip!Patch(k, n)
      PROVE  BipGood' /\ (IsQueue!Next \/ UNCHANGED <<Bip!Contents(b), io>>)
  <2>1. k \in Nat
    OBVIOUS
  <2>2. /\ BipGood'
        /\ \/ io' = io /\ Bip!Contents(b') = Bip!Contents(b)
           \/ /\ io'.op = "replace" /\ io'.at + Len(io'.data) <= Len(Bip!Contents(b))
              /\ Bip!Contents(b') = Replaced(Bip!Contents(b), io'.at, io'.data)
    BY <1>2, <2>1, PatchStepBip
  <2> QED BY <2>2 DEF IsQueue!Next, IsQueue!Replace, Replaced, Bytes
<1>3. ASSUME NEW n \in 1..Bip!get_count(b), Bip!Read(n)
      PROVE  BipGood' /\ IsQueue!Next
  <2>1. BipGood' /\ io'.op = "get" /\ Bip!Contents(b) = io'.data \o Bip!Contents(b')
    BY <1>3, ReadStepBip
  <2> QED BY <2>1 DEF IsQueue!Next, IsQueue!Get, Bytes
<1>4. ASSUME NEW n \in 1..Bip!get_count(b), Bip!RemoveFromBack(n)
      PROVE  BipGood' /\ IsQueue!Next
  <2>1. BipGood' /\ io'.op = "unput" /\ Bip!Contents(b) = Bip!Contents(b') \o io'.data
    BY <1>4, UnputStepBip
  <2> QED BY <2>1 DEF IsQueue!Next, IsQueue!Unput, Bytes
<1>5. ASSUME Bip!Reset
      PROVE  BipGood' /\ IsQueue!Next
  <2>1. BipGood' /\ io'.op = "clear" /\ Bip!Contents(b') = <<>>
    BY <1>5, ResetStepBip
  <2> QED BY <2>1 DEF IsQueue!Next, IsQueue!Clear, Bytes
<1>6. ASSUME NEW n \in Sizes, NEW k \in 0..Bip!get_count(b), Bip!Peek(k, n)
      PROVE  BipGood' /\ (IsQueue!Next \/ Misread)
  <2>1. k \in Nat
    OBVIOUS
  <2>2. /\ BipGood' /\ io'.op = "peek" /\ b' = b
        /\ io'.at + Len(io'.data) <= Len(Bip!Contents(b))
        /\ \/ io'.data = SubSeq(Bip!Contents(b), io'.at + 1, io'.at + Len(io'.data))
           \/ /\ io'.at > b.an
              /\ io'.data = SubSeq(Bip!Contents(b), b.an + 1, b.an + Len(io'.data))
    BY <1>6, <2>1, PeekStepBip
  <2> QED BY <2>2 DEF IsQueue!Next, IsQueue!Peek, Misread, Bytes
<1>7. ASSUME Bip!GetSpace
      PROVE  BipGood' /\ UNCHANGED <<Bip!Contents(b), io>>
  BY <1>7, GetSpaceStepBip
<1> QED BY <1>1, <1>2, <1>3, <1>4, <1>5, <1>6, <1>7 DEF Bip!Next

LEMMA SafeBip ==
  ASSUME BipGood
  PROVE  Bip!NoDamage /\ Bip!PatchThrowsOnlyAcross /\ Bip!ReadsBack
<1>0. BipOK(b) /\ Regions(b) /\ b.an \in Nat /\ b.bn \in Nat
  BY RegionsAre DEF BipGood, BipOK
<1>1. Bip!NoDamage
  <2>1. damage = FALSE
    BY DEF BipGood
  <2> QED BY <2>1 DEF Bip!NoDamage
<1>2. ASSUME NEW n \in Sizes, NEW k \in 0..Bip!get_count(b), k + n <= Bip!get_count(b),
             ~Bip!Fits(Bip!RoomFor(b, k, n), k, n)
      PROVE  b.size = BipLimit /\ b.an > k /\ b.an - k < n /\ 2 * (b.an - k) > n
  <2> DEFINE g == Bip!RoomFor(b, k, n)
             c == Bip!get_count(b)
  <2>1. n \in Nat \ {0} /\ k \in Nat
    BY SpareBuffersConstants
  <2>2. /\ BipOK(g) /\ Bip!get_count(g) = c
        /\ Bip!Fits(g, k, n) \/ g.size = BipLimit
        /\ g = b \/ (g.a = 0 /\ g.an = c /\ g.bs = Null /\ g.bn = 0)
    BY <1>0, RoomBip
  <2>3. ~Bip!Fits(g, k, n)
    BY <1>2
  <2> HIDE DEF g
  <2>4. c = g.an + g.bn /\ g.an \in Nat /\ g.bn \in Nat
    BY <2>2, RegionsAre DEF Bip!get_count, BipOK
  <2>5. k + n <= g.an + g.bn
    BY <1>2, <2>4
  <2>6. g.an > k /\ g.an - k < n /\ 2 * (g.an - k) > n
    BY <2>1, <2>2, <2>3, <2>5, PatchFits
  <2>7. g = b
    <3> SUFFICES ASSUME g.an = c, g.bn = 0 PROVE FALSE
      BY <2>2
    <3>1. k + n <= g.an
      BY <2>4, <2>5
    <3> QED BY <2>1, <2>4, <2>6, <3>1
  <2> QED BY <2>2, <2>3, <2>6, <2>7
<1>3. ASSUME NEW n \in Sizes, NEW k \in 0..Bip!get_count(b), k + n <= Bip!get_count(b)
      PROVE  /\ k <= b.an => Bip!read(b, k, n) = SubSeq(Bip!Contents(b), k + 1, k + n)
             /\ Bip!Pieces(b, k, n) = SubSeq(Bip!Contents(b), k + 1, k + n)
  <2>1. n \in Nat \ {0} /\ k \in Nat
    BY SpareBuffersConstants
  <2>2. k + n <= b.an + b.bn
    BY <1>3 DEF Bip!get_count
  <2> QED BY <1>0, <2>1, <2>2, ReadBip
<1>4. Bip!PatchThrowsOnlyAcross
  BY <1>2 DEF Bip!PatchThrowsOnlyAcross
<1>5. Bip!ReadsBack
  BY <1>3 DEF Bip!ReadsBack
<1> QED BY <1>1, <1>4, <1>5

-----------------------------------------------------------------------------
(* Both                                                                    *)

\* The inductive invariant: the buffer in use is a sound one.
BufferGood ==
  \/ use = "array" /\ ArrayGood
  \/ use = "bip" /\ BipGood

LEMMA GoodInit ==
  ASSUME Init
  PROVE  BufferGood /\ IsQueue!Init
BY InitArray, InitBip DEF Init, BufferGood

LEMMA GoodNext ==
  ASSUME BufferGood, [Next]_vars
  PROVE  /\ BufferGood'
         /\ [IsQueue!Next \/ Misread]_<<Bytes, io>>
<1>1. CASE use = "array" /\ use' = use /\ Array!Next
  <2>1. ArrayGood
    BY <1>1 DEF BufferGood
  <2>2. ArrayGood' /\ (IsQueue!Next \/ UNCHANGED <<Array!Contents(b), io>>)
    BY <1>1, <2>1, StepArray
  <2> QED BY <1>1, <2>2 DEF BufferGood, Bytes
<1>2. CASE use = "bip" /\ use' = use /\ Bip!Next
  <2>1. BipGood
    BY <1>2 DEF BufferGood
  <2>2. BipGood' /\ (IsQueue!Next \/ Misread \/ UNCHANGED <<Bip!Contents(b), io>>)
    BY <1>2, <2>1, StepBip
  <2>3. use # "array"
    BY <1>2
  <2> QED BY <1>2, <2>2, <2>3 DEF BufferGood, Bytes
<1>3. CASE UNCHANGED vars
  <2>1. use' = use /\ b' = b /\ io' = io /\ next' = next /\ damage' = damage
    BY <1>3 DEF vars
  <2> QED BY <2>1 DEF BufferGood, ArrayGood, BipGood, Bytes
<1> QED BY <1>1, <1>2, <1>3 DEF Next

LEMMA GoodNow ==
  ASSUME BufferGood
  PROVE  SafeBelowLimit /\ ReadsBack
<1>1. CASE use = "array" /\ ArrayGood
  <2>1. use # "bip"
    BY <1>1
  <2> QED BY <1>1, <2>1, SafeArray DEF SafeBelowLimit, ReadsBack
<1>2. CASE use = "bip" /\ BipGood
  <2>1. use # "array"
    BY <1>2
  <2> QED BY <1>2, <2>1, SafeBip DEF SafeBelowLimit, ReadsBack
<1> QED BY <1>1, <1>2 DEF BufferGood

\* Every step of an array or a bip is a step of a queue of bytes, or none, but
\* for one: a read of a bip at an offset within region b, which gives the first
\* bytes of region b.  This is what write, receive, read, remove,
\* remove_from_back, get_space, reads and writes at an offset and reset do to
\* the bytes, whatever is moved, expanded or turned on the way.
THEOREM QueueButMisreadsHolds == Spec => QueueButMisreads
<1>1. Init => BufferGood /\ IsQueue!Init
  BY GoodInit
<1>2. BufferGood /\ [Next]_vars =>
        /\ BufferGood'
        /\ [IsQueue!Next \/ Misread]_<<Bytes, io>>
  BY GoodNext
<1> QED BY <1>1, <1>2, PTL DEF Spec, QueueButMisreads

\* The array is overrun only at its limit and throws only when it is full or its
\* last cell is in use; no byte of a bip is overwritten, and a patch of a bip
\* throws only at its limit, across the regions.
THEOREM SafeBelowLimitHolds == Spec => []SafeBelowLimit
<1>1. Init => BufferGood
  BY GoodInit
<1>2. BufferGood /\ [Next]_vars => BufferGood'
  BY GoodNext
<1>3. BufferGood => SafeBelowLimit
  BY GoodNow
<1> QED BY <1>1, <1>2, <1>3, PTL DEF Spec

\* What is read from a bip at an offset up to the end of region a, or copied
\* from it at any offset, is what was written there.
THEOREM ReadsBackHolds == Spec => []ReadsBack
<1>1. Init => BufferGood
  BY GoodInit
<1>2. BufferGood /\ [Next]_vars => BufferGood'
  BY GoodNext
<1>3. BufferGood => ReadsBack
  BY GoodNow
<1> QED BY <1>1, <1>2, <1>3, PTL DEF Spec

-----------------------------------------------------------------------------
(* FlattenSeq                                                              *)

\* FlattenSeq as a function of the number of sequences put together.
Flat(F, S, s) ==
  /\ F \in [1..Len(s) -> Seq(S)]
  /\ \A i \in 1..Len(s) : F[i] = IF i = 1 THEN s[1] ELSE F[i - 1] \o s[i]

LEMMA FlattenIs ==
  ASSUME NEW S, NEW s \in Seq(Seq(S)), s # <<>>
  PROVE  \E F : Flat(F, S, s) /\ FlattenSeq(s) = F[Len(s)]
<1> DEFINE n == Len(s)
           F == CHOOSE f : f = [i \in 1..n |-> IF i = 1 THEN s[i] ELSE f[i - 1] \o s[i]]
           T == Seq(S)
<1>1. n \in Nat /\ n # 0 /\ n \in Nat \ {0}
  BY EmptySeq, LenProperties
<1>2. FlattenSeq(s) = F[n]
  BY <1>1 DEF FlattenSeq
<1>3. \A i \in 1..n : s[i] \in T
  BY ElementOfSeq
<1> DEFINE step == [i \in 1..n |-> [x \in T |-> x \o s[i]]]
<1>4. step \in [1..n -> [T -> T]]
  <2>1. \A i \in 1..n : \A x \in T : x \o s[i] \in T
    BY <1>3, ConcatProperties
  <2> HIDE DEF T, n
  <2> QED BY <2>1
<1>5. \A i \in 1..n : \A x \in T : step[i][x] = x \o s[i]
  OBVIOUS
<1>6. 1 \in Nat /\ 1 <= n /\ s[1] \in T
  BY <1>1, <1>3
<1> HIDE DEF step, T
<1>7. PICK g : Solves(g, T, 1, n, s[1], step)
  <2> HIDE DEF n
  <2> QED BY <1>1, <1>4, <1>6, Iterates
<1>8. g \in [1..n -> T] /\ \A i \in 1..n : g[i] = IF i = 1 THEN s[1] ELSE g[i - 1] \o s[i]
  <2>1. g \in [1..n -> T]
        /\ \A i \in 1..n : g[i] = IF i = 1 THEN s[1] ELSE step[i][g[i - 1]]
    <3> HIDE DEF n
    <3> QED BY <1>7 DEF Solves
  <2>2. ASSUME NEW i \in 1..n, i # 1 PROVE step[i][g[i - 1]] = g[i - 1] \o s[i]
    <3>1. i - 1 \in 1..n
      BY <1>1, <2>2
    <3>2. g[i - 1] \in T
      BY <2>1, <3>1
    <3> QED BY <1>5, <3>2
  <2> QED BY <2>1, <2>2
<1>9. g = [i \in 1..n |-> IF i = 1 THEN s[i] ELSE g[i - 1] \o s[i]]
  <2>1. g = [i \in 1..n |-> g[i]]
    BY <1>8
  <2>2. \A i \in 1..n : g[i] = IF i = 1 THEN s[i] ELSE g[i - 1] \o s[i]
    BY <1>8
  <2> HIDE DEF n
  <2> QED BY <2>1, <2>2
<1>10. F = [i \in 1..n |-> IF i = 1 THEN s[i] ELSE F[i - 1] \o s[i]]
  <2> HIDE DEF n
  <2> QED BY <1>9
<1> HIDE DEF F
<1>11. \A i \in 1..n : F[i] = IF i = 1 THEN s[1] ELSE F[i - 1] \o s[i]
  BY <1>10
<1>12. \A i \in 1..n : F[i] \in T
  <2> SUFFICES \A i \in 1..n : F[i] \in T
    OBVIOUS
  <2>1. F[1] \in T
    BY <1>1, <1>6, <1>11
  <2>2. ASSUME NEW k \in 1 + 1..n, F[k - 1] \in T PROVE F[k] \in T
    <3>1. k \in 1..n /\ k # 1
      BY <1>1
    <3>2. F[k] = F[k - 1] \o s[k] /\ s[k] \in T
      BY <1>3, <1>11, <3>1
    <3> QED BY <2>2, <3>2, ConcatProperties DEF T
  <2> HIDE DEF n
  <2> QED BY <1>1, <2>1, <2>2, Stays
<1>13. F \in [1..n -> T]
  <2>1. F = [i \in 1..n |-> F[i]]
    BY <1>10
  <2> HIDE DEF n
  <2> QED BY <1>12, <2>1
<1>14. Flat(F, S, s)
  BY <1>11, <1>13 DEF Flat, T
<1> QED BY <1>2, <1>14

LEMMA FlattenType ==
  ASSUME NEW S, NEW s \in Seq(Seq(S))
  PROVE  FlattenSeq(s) \in Seq(S) /\ FlattenSeq(<<>>) = <<>>
<1>1. FlattenSeq(<<>>) = <<>>
  BY EmptySeq DEF FlattenSeq
<1>2. CASE s = <<>>
  BY <1>1, <1>2, EmptySeq
<1>3. CASE s # <<>>
  <2>1. PICK F : Flat(F, S, s) /\ FlattenSeq(s) = F[Len(s)]
    BY <1>3, FlattenIs
  <2>2. Len(s) \in Nat \ {0}
    BY <1>3, EmptySeq
  <2>3. Len(s) \in 1..Len(s)
    BY <2>2
  <2>4. F[Len(s)] \in Seq(S)
    BY <2>1, <2>3 DEF Flat
  <2> QED BY <1>1, <2>1, <2>4
<1> QED BY <1>2, <1>3

\* Two functions that put the same sequences together agree.
LEMMA FlatAgree ==
  ASSUME NEW S, NEW s \in Seq(Seq(S)), NEW t \in Seq(Seq(S)), Len(s) <= Len(t),
         \A i \in 1..Len(s) : t[i] = s[i],
         NEW F, Flat(F, S, s), NEW G, Flat(G, S, t)
  PROVE  \A i \in 1..Len(s) : F[i] = G[i]
<1> DEFINE n == Len(s)
           d == [i \in 1..n |-> F[i] = G[i]]
           Yes == {TRUE}
<1>1. n \in Nat /\ Len(t) \in Nat /\ \A i \in 1..n : i \in 1..Len(t)
  BY LenProperties
<1>2. \A i \in 1..n : F[i] = IF i = 1 THEN s[1] ELSE F[i - 1] \o s[i]
  BY DEF Flat
<1>3. \A i \in 1..n : G[i] = IF i = 1 THEN t[1] ELSE G[i - 1] \o t[i]
  BY <1>1 DEF Flat
<1>4. CASE n = 0
  BY <1>4
<1>5. CASE n # 0
  <2>1. d[1] \in Yes
    <3>1. 1 \in 1..n
      BY <1>1, <1>5
    <3>2. F[1] = s[1] /\ G[1] = t[1] /\ t[1] = s[1]
      BY <1>2, <1>3, <3>1
    <3> QED BY <3>1, <3>2
  <2>2. ASSUME NEW k \in 1 + 1..n, d[k - 1] \in Yes PROVE d[k] \in Yes
    <3>1. k \in 1..n /\ k # 1 /\ k - 1 \in 1..n
      BY <1>1
    <3>2. F[k - 1] = G[k - 1]
      BY <2>2, <3>1
    <3>3. F[k] = F[k - 1] \o s[k] /\ G[k] = G[k - 1] \o t[k] /\ t[k] = s[k]
      BY <1>2, <1>3, <3>1
    <3>4. F[k] = G[k]
      BY <3>2, <3>3
    <3> QED BY <3>1, <3>4
  <2>3. \A k \in 1..n : d[k] \in Yes
    <3> HIDE DEF n, d, Yes
    <3>1. 1 \in Nat
      OBVIOUS
    <3> QED BY <1>1, <2>1, <2>2, <3>1, Stays
  <2> QED BY <2>3
<1> QED BY <1>4, <1>5

\* One more sequence.
LEMMA FlattenAppend ==
  ASSUME NEW S, NEW s \in Seq(Seq(S)), NEW x \in Seq(S)
  PROVE  FlattenSeq(Append(s, x)) = FlattenSeq(s) \o x
<1> DEFINE t == Append(s, x)
           n == Len(s)
<1>1. /\ t \in Seq(Seq(S)) /\ t # <<>> /\ Len(t) = n + 1 /\ t[n + 1] = x
      /\ \A i \in 1..n : t[i] = s[i]
  BY AppendProperties
<1>2. n \in Nat /\ n + 1 \in 1..n + 1
  BY LenProperties
<1> HIDE DEF t
<1>3. PICK G : Flat(G, S, t) /\ FlattenSeq(t) = G[Len(t)]
  BY <1>1, FlattenIs
<1>4. G[n + 1] = IF n + 1 = 1 THEN t[1] ELSE G[n + 1 - 1] \o t[n + 1]
  <2>1. \A i \in 1..n + 1 : G[i] = IF i = 1 THEN t[1] ELSE G[i - 1] \o t[i]
    BY <1>1, <1>3 DEF Flat
  <2> HIDE DEF n
  <2> QED BY <1>2, <2>1
<1>5. CASE s = <<>>
  <2>1. n = 0 /\ FlattenSeq(s) = <<>>
    BY <1>5, EmptySeq, FlattenType
  <2>2. FlattenSeq(t) = x
    BY <1>1, <1>3, <1>4, <2>1
  <2>3. <<>> \o x = x
    BY ConcatEmptySeq
  <2> QED BY <2>1, <2>2, <2>3 DEF t
<1>6. CASE s # <<>>
  <2>1. n \in Nat \ {0} /\ n \in 1..n /\ n <= Len(t) /\ n + 1 # 1 /\ n + 1 - 1 = n
    BY <1>1, <1>2, <1>6, EmptySeq
  <2>2. PICK F : Flat(F, S, s) /\ FlattenSeq(s) = F[n]
    BY <1>6, FlattenIs
  <2>3. F[n] = G[n]
    BY <1>1, <1>3, <2>1, <2>2, FlatAgree
  <2>4. G[n + 1] = G[n] \o x
    BY <1>1, <1>4, <2>1
  <2> QED BY <1>1, <1>3, <2>2, <2>3, <2>4 DEF t
<1> QED BY <1>5, <1>6

Join(x, y) == x \o y

\* Putting sequences together is associative.
LEMMA Regroup ==
  ASSUME NEW S, NEW x \in Seq(S), NEW y \in Seq(S), NEW z \in Seq(S)
  PROVE  /\ Join(x, y) \in Seq(S) /\ Join(y, z) \in Seq(S)
         /\ Join(Join(x, y), z) \in Seq(S) /\ Join(Join(x, y), z) = Join(x, Join(y, z))
  BY ConcatAssociative, ConcatProperties DEF Join

LEMMA FlattenOne ==
  ASSUME NEW S, NEW x \in Seq(S)
  PROVE  <<x>> \in Seq(Seq(S)) /\ Len(<<x>>) = 1 /\ FlattenSeq(<<x>>) = x
<1> DEFINE e == <<>>
<1>1. e \in Seq(Seq(S)) /\ FlattenSeq(e) = <<>>
  BY EmptySeq, FlattenType
<1>2. Append(e, x) = <<x>>
  OBVIOUS
<1> HIDE DEF e
<1>3. FlattenSeq(Append(e, x)) = FlattenSeq(e) \o x
  BY <1>1, FlattenAppend
<1>4. <<>> \o x = x
  BY ConcatEmptySeq
<1>5. FlattenSeq(<<x>>) = x
  BY <1>1, <1>2, <1>3, <1>4
<1> QED BY <1>5

\* The parts of a sequence of sequences.
LEMMA FlattenConcat ==
  ASSUME NEW S, NEW s \in Seq(Seq(S)), NEW t \in Seq(Seq(S))
  PROVE  FlattenSeq(s \o t) = FlattenSeq(s) \o FlattenSeq(t)
<1> DEFINE n == Len(t)
           T == Seq(S)
           p(k) == SubSeq(t, 1, k)
           Good(k) == FlattenSeq(s \o p(k)) = FlattenSeq(s) \o FlattenSeq(p(k))
           d == [k \in 0..n |-> Good(k)]
           Yes == {TRUE}
<1>1. n \in Nat /\ 0 \in Nat /\ n \in 0..n /\ 0 \in 0..n
  BY LenProperties
<1>2. \A k \in 0..n : p(k) \in Seq(T) /\ \A i \in 1..k : t[i] \in T
  <2> TAKE k \in 0..n
  <2>1. k \in Nat /\ k <= n
    BY <1>1
  <2>2. p(k) \in Seq(T)
    BY <2>1, Halves
  <2>3. \A i \in 1..k : t[i] \in T
    <3> TAKE i \in 1..k
    <3>1. i \in 1..n
      BY <2>1
    <3> QED BY <3>1, ElementOfSeq
  <2> QED BY <2>2, <2>3
<1>3. Good(0)
  <2>1. p(0) = <<>>
    BY SubSeqEmpty
  <2>2. s \o <<>> = s /\ FlattenSeq(<<>>) = <<>> /\ FlattenSeq(s) \in Seq(S)
    BY ConcatEmptySeq, FlattenType
  <2>3. FlattenSeq(s) \o <<>> = FlattenSeq(s)
    BY <2>2, ConcatEmptySeq
  <2> HIDE DEF p
  <2> QED BY <2>1, <2>2, <2>3
<1>4. ASSUME NEW k \in 0 + 1..n, Good(k - 1) PROVE Good(k)
  <2> DEFINE u == p(k - 1)
             x == t[k]
  <2>1. k \in 1..n /\ k - 1 \in 0..n /\ k \in 0..n /\ 1 \in 1..Len(t) /\ k \in 1..Len(t)
    BY <1>1
  <2>2. u \in Seq(T) /\ x \in T
    BY <1>2, <2>1
  <2>3. p(k) = u \o <<x>>
    BY <2>1, SubSeqRecursiveSecond
  <2> HIDE DEF u, x
  <2>4. FlattenSeq(s \o u) = FlattenSeq(s) \o FlattenSeq(u)
    BY <1>4 DEF u
  <2> HIDE DEF p
  <2>5. p(k) = Append(u, x)
    BY <2>2, <2>3, AppendIsConcat
  <2>6. s \o u \in Seq(T) /\ Append(s \o u, x) = s \o Append(u, x)
    <3>1. s \o u \in Seq(T) /\ <<x>> \in Seq(T)
      BY <2>2, ConcatProperties
    <3>2. Append(s \o u, x) = (s \o u) \o <<x>> /\ Append(u, x) = u \o <<x>>
      BY <2>2, <3>1, AppendIsConcat
    <3>3. (s \o u) \o <<x>> = s \o (u \o <<x>>)
      <4> DEFINE o == <<x>>
      <4>1. o \in Seq(T)
        BY <3>1
      <4> HIDE DEF o, T
      <4>2. Join(Join(s, u), o) = Join(s, Join(u, o))
        BY <2>2, <4>1, Regroup DEF T
      <4> QED BY <4>2 DEF o, Join
    <3> QED BY <3>1, <3>2, <3>3
  <2>7. FlattenSeq(Append(s \o u, x)) = FlattenSeq(s \o u) \o x
    BY <2>2, <2>6, FlattenAppend
  <2>8. FlattenSeq(Append(u, x)) = FlattenSeq(u) \o x
    BY <2>2, FlattenAppend
  <2>9. FlattenSeq(s) \in Seq(S) /\ FlattenSeq(u) \in Seq(S)
    BY <2>2, FlattenType
  <2>10. (FlattenSeq(s) \o FlattenSeq(u)) \o x = FlattenSeq(s) \o (FlattenSeq(u) \o x)
    <3> DEFINE a == FlattenSeq(s)
               c == FlattenSeq(u)
    <3>1. a \in Seq(S) /\ c \in Seq(S) /\ x \in Seq(S)
      BY <2>2, <2>9
    <3> HIDE DEF a, c
    <3>2. Join(Join(a, c), x) = Join(a, Join(c, x))
      BY <3>1, Regroup
    <3> QED BY <3>2 DEF a, c, Join
  <2> QED BY <2>4, <2>5, <2>6, <2>7, <2>8, <2>10
<1> HIDE DEF Good
<1>5. \A k \in 0..n : d[k] = Good(k)
  OBVIOUS
<1>6. d[0] \in Yes
  BY <1>1, <1>3, <1>5
<1>7. ASSUME NEW k \in 0 + 1..n, d[k - 1] \in Yes PROVE d[k] \in Yes
  <2>1. k \in 0..n /\ k - 1 \in 0..n
    BY <1>1
  <2>2. Good(k - 1)
    BY <1>5, <1>7, <2>1
  <2>3. Good(k)
    BY <1>4, <2>2
  <2> QED BY <1>5, <2>1, <2>3
<1>8. \A k \in 0..n : d[k] \in Yes
  <2> HIDE DEF d, Yes, n
  <2> QED BY <1>1, <1>6, <1>7, Stays
<1>9. Good(n)
  BY <1>1, <1>5, <1>8
<1>10. SubSeq(t, 1, n) = t
  BY SubSeqFull
<1> QED BY <1>9, <1>10 DEF Good

LEMMA FlattenFirst ==
  ASSUME NEW S, NEW s \in Seq(Seq(S)), s # <<>>
  PROVE  /\ Head(s) \in Seq(S) /\ Tail(s) \in Seq(Seq(S))
         /\ FlattenSeq(s) = Head(s) \o FlattenSeq(Tail(s))
<1> DEFINE x == Head(s)
           t == Tail(s)
<1>1. x \in Seq(S) /\ t \in Seq(Seq(S)) /\ Len(t) = Len(s) - 1
      /\ \A i \in 1..Len(t) : t[i] = s[i + 1]
  BY HeadTailProperties
<1>2. Len(s) \in Nat \ {0} /\ x = s[1]
  BY EmptySeq
<1> HIDE DEF x, t
<1>3. <<x>> \in Seq(Seq(S)) /\ Len(<<x>>) = 1 /\ <<x>>[1] = x /\ FlattenSeq(<<x>>) = x
  BY <1>1, FlattenOne
<1> DEFINE o == <<x>>
           c == o \o t
<1>4. /\ c \in Seq(Seq(S)) /\ Len(c) = Len(o) + Len(t)
      /\ \A i \in 1..Len(o) + Len(t) : c[i] = IF i <= Len(o) THEN o[i] ELSE t[i - Len(o)]
  <2> HIDE DEF o
  <2>1. o \in Seq(Seq(S))
    BY <1>3 DEF o
  <2> QED BY <1>1, <2>1, ConcatProperties
<1>5. Len(c) = Len(s) /\ \A i \in 1..Len(c) : c[i] = s[i]
  <2>1. Len(o) = 1 /\ o[1] = x
    BY <1>3
  <2> HIDE DEF o, c
  <2>2. Len(c) = Len(s)
    BY <1>1, <1>2, <1>4, <2>1
  <2>3. ASSUME NEW i \in 1..Len(c) PROVE c[i] = s[i]
    <3>1. CASE i = 1
      BY <1>2, <1>4, <2>1, <2>2, <3>1
    <3>2. CASE i # 1
      <4>1. i - 1 \in 1..Len(t) /\ i - 1 + 1 = i /\ ~(i <= 1) /\ i \in 1..Len(o) + Len(t)
        BY <1>1, <1>2, <1>4, <2>2, <3>2
      <4>2. c[i] = t[i - 1]
        BY <1>4, <2>1, <4>1
      <4>3. t[i - 1] = s[i - 1 + 1]
        BY <1>1, <4>1
      <4> QED BY <4>1, <4>2, <4>3
    <3> QED BY <3>1, <3>2
  <2> QED BY <2>2, <2>3
<1>6. c = s
  <2> HIDE DEF c
  <2> QED BY <1>4, <1>5, SeqEqual
<1>7. FlattenSeq(c) = FlattenSeq(o) \o FlattenSeq(t)
  <2>1. o \in Seq(Seq(S))
    BY <1>3
  <2> HIDE DEF o
  <2> QED BY <1>1, <2>1, FlattenConcat
<1> HIDE DEF c
<1> QED BY <1>1, <1>3, <1>6, <1>7 DEF x, t

LEMMA JoinIs ==
  ASSUME NEW S, NEW x \in Seq(S), NEW y \in Seq(S)
  PROVE  /\ Join(x, y) \in Seq(S) /\ Len(Join(x, y)) = Len(x) + Len(y)
         /\ Len(x) \in Nat /\ Len(y) \in Nat
         /\ \A i \in 1..Len(x) : Join(x, y)[i] = x[i]
         /\ Join(x, <<>>) = x /\ Join(<<>>, x) = x
<1>1. Len(x) \in Nat /\ Len(y) \in Nat
  BY LenProperties
<1>2. /\ x \o y \in Seq(S) /\ Len(x \o y) = Len(x) + Len(y)
      /\ \A i \in 1..Len(x) + Len(y) : (x \o y)[i] = IF i <= Len(x) THEN x[i] ELSE y[i - Len(x)]
  BY ConcatProperties
<1>3. \A i \in 1..Len(x) : i \in 1..Len(x) + Len(y) /\ i <= Len(x)
  BY <1>1
<1>4. \A i \in 1..Len(x) : (x \o y)[i] = x[i]
  BY <1>2, <1>3
<1>5. x \o <<>> = x /\ <<>> \o x = x
  BY ConcatEmptySeq
<1> QED BY <1>1, <1>2, <1>4, <1>5 DEF Join

LEMMA PrefixIs ==
  ASSUME NEW S, NEW s \in Seq(S), NEW t \in Seq(S)
  PROVE  IsPrefix(s, t) <=> Len(s) <= Len(t) /\ \A i \in 1..Len(s) : s[i] = t[i]
<1> DEFINE n == Len(s)
           u == SubSeq(t, 1, n)
<1>1. n \in Nat /\ Len(t) \in Nat /\ SubSeq(s, 1, n) = s
  BY LenProperties, SubSeqFull
<1>2. IsPrefix(s, t) <=> n <= Len(t) /\ s = u
  BY <1>1 DEF IsPrefix
<1>3. ASSUME n <= Len(t)
      PROVE  u \in Seq(S) /\ Len(u) = n /\ \A i \in 1..n : u[i] = t[i]
  BY <1>1, <1>3, Halves
<1>4. ASSUME n <= Len(t), \A i \in 1..n : s[i] = t[i] PROVE s = u
  <2>1. u \in Seq(S) /\ Len(u) = Len(s) /\ \A i \in 1..Len(s) : s[i] = u[i]
    BY <1>3, <1>4
  <2> HIDE DEF u
  <2> QED BY <2>1, SeqEqual
<1> HIDE DEF u
<1>5. ASSUME n <= Len(t), s = u PROVE \A i \in 1..n : s[i] = t[i]
  BY <1>3, <1>5
<1> QED BY <1>2, <1>4, <1>5

-----------------------------------------------------------------------------
(* Packets inside packets                                                  *)

\* What a packet is made of, and with the lengths that are not yet known.
PacketCell == Value \cup Int
AnyCell == PacketCell \cup {Mark}

WriterShape ==
  [head : Nat, length : Nat, flushed : BOOLEAN,
   cells : Seq(PacketCell), inside : Seq(Seq(PacketCell))]
DoneShape == [cells : Seq(PacketCell), inside : Seq(Seq(PacketCell))]

\* The cells of a writer in use that are in send_buff_ and not in the packet
\* around it.
OwnOf(ws, j) ==
  CASE ~ws[j].flushed          -> <<Mark>> \o ws[j].cells
    [] ws[j].flushed /\ j = 1 -> Framed(ws[j].cells)
    [] OTHER                  -> <<>>
Owned(ws, n) == [j \in 1..n |-> OwnOf(ws, j)]
Frames(d, n) == [i \in 1..n |-> Framed(d[i].cells)]

\* send_buff_ up to and with the j-th writer's.
Upto(d, ws, j) == Join(FlattenSeq(Frames(d, Len(d))), FlattenSeq(Owned(ws, j)))

\* A packet at depth j, and all that is inside it, has fewer cells.
Limit(j) == (MaxDepth - j + 1) * (MaxItems + 1)

PacketShape ==
  /\ send_buff \in Seq(AnyCell) /\ writers \in Seq(WriterShape) /\ done \in Seq(DoneShape)
  /\ Top <= MaxDepth

\* Only the innermost writer has been flushed; the others have room for it.
Nested(ws) ==
  \A j \in 1..Len(ws) :
    /\ ws[j].length = Len(ws[j].cells) /\ Len(ws[j].cells) < Limit(j)
    /\ j < Len(ws) => ~ws[j].flushed
    /\ j < Len(ws) /\ ~ws[j + 1].flushed => Len(ws[j].cells) < MaxItems

\* Where head_ is: before the writer's own cells, or, once they are part of the
\* packet around it, among those.
Placed(d, ws) ==
  \A j \in 1..Len(ws) :
    /\ ~ws[j].flushed \/ j = 1 => ws[j].head = Len(Upto(d, ws, j - 1))
    /\ ws[j].flushed /\ j > 1 =>
         Len(Upto(d, ws, j - 2)) + 1 <= ws[j].head /\ ws[j].head < Len(Upto(d, ws, j - 1))

Fits(d) == \A i \in 1..Len(d) : Len(d[i].cells) < Width

PacketInv ==
  /\ PacketShape
  /\ send_buff = Upto(done, writers, Top)
  /\ Nested(writers) /\ Placed(done, writers) /\ Fits(done)

LEMMA ConsIs ==
  ASSUME NEW S, NEW x \in S, NEW c \in Seq(S)
  PROVE  /\ <<x>> \o c \in Seq(S) /\ Len(<<x>> \o c) = Len(c) + 1 /\ Len(c) \in Nat
         /\ (<<x>> \o c)[1] = x /\ \A i \in 1..Len(c) : (<<x>> \o c)[i + 1] = c[i]
<1> DEFINE a == <<x>>
<1>1. a \in Seq(S) /\ Len(a) = 1 /\ a[1] = x
  OBVIOUS
<1> HIDE DEF a
<1>2. /\ a \o c \in Seq(S) /\ Len(a \o c) = Len(a) + Len(c)
      /\ \A i \in 1..Len(a) + Len(c) : (a \o c)[i] = IF i <= Len(a) THEN a[i] ELSE c[i - Len(a)]
  BY <1>1, ConcatProperties
<1>3. Len(c) \in Nat
  BY LenProperties
<1>4. (a \o c)[1] = x
  <2>1. 1 \in 1..Len(a) + Len(c) /\ 1 <= Len(a)
    BY <1>1, <1>3
  <2> QED BY <1>1, <1>2, <2>1
<1>5. ASSUME NEW i \in 1..Len(c) PROVE (a \o c)[i + 1] = c[i]
  <2>1. i + 1 \in 1..Len(a) + Len(c) /\ ~(i + 1 <= Len(a)) /\ (i + 1) - Len(a) = i
    BY <1>1, <1>3
  <2> QED BY <1>2, <2>1
<1> QED BY <1>1, <1>2, <1>3, <1>4, <1>5 DEF a

LEMMA FramedIs ==
  ASSUME NEW c \in Seq(PacketCell)
  PROVE  /\ Framed(c) \in Seq(PacketCell) /\ Framed(c) \in Seq(AnyCell)
         /\ Len(Framed(c)) = Len(c) + 1 /\ Len(c) \in Nat
         /\ Framed(c)[1] = Len(c) /\ \A i \in 1..Len(c) : Framed(c)[i + 1] = c[i]
<1> DEFINE n == Len(c)
<1>1. n \in Nat
  BY LenProperties
<1>2. n \in PacketCell
  BY <1>1 DEF PacketCell
<1>3. Framed(c) = <<n>> \o c
  BY DEF Framed
<1>4. PacketCell \subseteq AnyCell
  BY DEF AnyCell
<1> HIDE DEF n
<1>5. /\ <<n>> \o c \in Seq(PacketCell) /\ Len(<<n>> \o c) = Len(c) + 1 /\ Len(c) \in Nat
      /\ (<<n>> \o c)[1] = n /\ \A i \in 1..Len(c) : (<<n>> \o c)[i + 1] = c[i]
  BY <1>2, ConsIs
<1>6. Framed(c) \in Seq(AnyCell)
  BY <1>3, <1>4, <1>5, SeqMonotonic
<1> QED BY <1>3, <1>5, <1>6 DEF n

LEMMA MarkedIs ==
  ASSUME NEW c \in Seq(PacketCell)
  PROVE  /\ <<Mark>> \o c \in Seq(AnyCell) /\ Len(<<Mark>> \o c) = Len(c) + 1 /\ Len(c) \in Nat
         /\ (<<Mark>> \o c)[1] = Mark /\ \A i \in 1..Len(c) : (<<Mark>> \o c)[i + 1] = c[i]
<1>1. Mark \in AnyCell /\ PacketCell \subseteq AnyCell
  BY DEF AnyCell
<1>2. c \in Seq(AnyCell)
  BY <1>1, SeqMonotonic
<1> QED BY <1>1, <1>2, ConsIs

\* A cell of a packet is no mark.
LEMMA NoMark ==
  ASSUME NEW c \in Seq(PacketCell), NEW i \in 1..Len(c)
  PROVE  c[i] # Mark
<1>1. c[i] \in PacketCell
  BY ElementOfSeq
<1> QED BY <1>1, PacketConstants DEF PacketCell

LEMMA WriterIs ==
  ASSUME NEW ws \in Seq(WriterShape), NEW j \in 1..Len(ws)
  PROVE  /\ ws[j] \in WriterShape /\ ws[j].cells \in Seq(PacketCell)
         /\ ws[j].inside \in Seq(Seq(PacketCell)) /\ ws[j].head \in Nat
         /\ ws[j].flushed \in BOOLEAN /\ Len(ws[j].cells) \in Nat
<1>1. ws[j] \in WriterShape
  BY ElementOfSeq
<1>2. /\ ws[j].cells \in Seq(PacketCell) /\ ws[j].inside \in Seq(Seq(PacketCell))
      /\ ws[j].head \in Nat /\ ws[j].flushed \in BOOLEAN
  BY <1>1 DEF WriterShape
<1> QED BY <1>1, <1>2, LenProperties

LEMMA OwnIs ==
  ASSUME NEW ws \in Seq(WriterShape), NEW j \in 1..Len(ws)
  PROVE  /\ OwnOf(ws, j) \in Seq(AnyCell)
         /\ ~ws[j].flushed => OwnOf(ws, j) = <<Mark>> \o ws[j].cells
         /\ ws[j].flushed /\ j = 1 => OwnOf(ws, j) = Framed(ws[j].cells)
         /\ ws[j].flushed /\ j # 1 => OwnOf(ws, j) = <<>>
<1>1. ws[j].cells \in Seq(PacketCell) /\ ws[j].flushed \in BOOLEAN
  BY WriterIs
<1>2. /\ ~ws[j].flushed => OwnOf(ws, j) = <<Mark>> \o ws[j].cells
      /\ ws[j].flushed /\ j = 1 => OwnOf(ws, j) = Framed(ws[j].cells)
      /\ ws[j].flushed /\ j # 1 => OwnOf(ws, j) = <<>>
  BY <1>1 DEF OwnOf
<1>3. <<>> \in Seq(AnyCell)
  BY EmptySeq
<1>4. <<Mark>> \o ws[j].cells \in Seq(AnyCell) /\ Framed(ws[j].cells) \in Seq(AnyCell)
  BY <1>1, MarkedIs, FramedIs
<1> QED BY <1>1, <1>2, <1>3, <1>4

LEMMA OwnedSeq ==
  ASSUME NEW ws \in Seq(WriterShape), NEW n \in Nat, n <= Len(ws)
  PROVE  /\ Owned(ws, n) \in Seq(Seq(AnyCell))
         /\ n # 0 => Owned(ws, n) = Append(Owned(ws, n - 1), OwnOf(ws, n))
         /\ n = 0 => Owned(ws, n) = <<>>
<1> DEFINE T == Seq(AnyCell)
           f == Owned(ws, n)
<1>1. \A j \in 1..n : OwnOf(ws, j) \in T
  <2> SUFFICES ASSUME NEW j \in 1..n PROVE OwnOf(ws, j) \in T
    OBVIOUS
  <2>1. j \in 1..Len(ws)
    <3>1. Len(ws) \in Nat
      BY LenProperties
    <3> QED BY <3>1
  <2> QED BY <2>1, OwnIs
<1>2. f \in [1..n -> T] /\ \A j \in 1..n : f[j] = OwnOf(ws, j)
  BY <1>1 DEF Owned
<1> HIDE DEF T
<1>3. f \in Seq(T) /\ Len(f) = n
  <2> HIDE DEF f
  <2> QED BY <1>2, FunctionIsSeq
<1>4. ASSUME n # 0 PROVE f = Append(Owned(ws, n - 1), OwnOf(ws, n))
  <2> DEFINE m == n - 1
             g == Owned(ws, m)
             x == OwnOf(ws, n)
             a == Append(g, x)
  <2>1. m \in Nat /\ n \in 1..n /\ m + 1 = n /\ \A j \in 1..m : j \in 1..n
    BY <1>4
  <2>2. g \in [1..m -> T] /\ \A j \in 1..m : g[j] = OwnOf(ws, j)
    BY <1>1, <2>1 DEF Owned
  <2> HIDE DEF g, m
  <2>3. g \in Seq(T) /\ Len(g) = m
    BY <2>1, <2>2, FunctionIsSeq
  <2>4. x \in T
    BY <1>1, <2>1
  <2> HIDE DEF x, f
  <2>5. a \in Seq(T) /\ Len(a) = m + 1 /\ a[m + 1] = x /\ \A j \in 1..m : a[j] = g[j]
    BY <2>3, <2>4, AppendProperties
  <2> HIDE DEF a
  <2>6. \A j \in 1..Len(a) : a[j] = f[j]
    <3> TAKE j \in 1..Len(a)
    <3>1. j = m + 1 \/ j \in 1..m
      BY <2>1, <2>5
    <3> QED BY <1>2, <2>1, <2>2, <2>5, <3>1 DEF x
  <2>7. a = f
    BY <1>3, <2>1, <2>5, <2>6, SeqEqual
  <2> QED BY <2>7 DEF a, g, x, m
<1>5. n = 0 => f = <<>>
  <2> HIDE DEF f
  <2> QED BY <1>3, EmptySeq
<1> QED BY <1>3, <1>4, <1>5 DEF T

\* The same of the packets sent.
LEMMA FramesSeq ==
  ASSUME NEW d \in Seq(DoneShape), NEW n \in Nat, n <= Len(d)
  PROVE  /\ Frames(d, n) \in Seq(Seq(AnyCell)) /\ Len(Frames(d, n)) = n
         /\ \A i \in 1..n : /\ Frames(d, n)[i] = Framed(d[i].cells)
                            /\ d[i].cells \in Seq(PacketCell)
                            /\ d[i].inside \in Seq(Seq(PacketCell))
<1> DEFINE T == Seq(AnyCell)
           f == Frames(d, n)
<1>1. \A i \in 1..n : d[i].cells \in Seq(PacketCell) /\ d[i].inside \in Seq(Seq(PacketCell))
  <2> SUFFICES ASSUME NEW i \in 1..n
               PROVE  d[i].cells \in Seq(PacketCell) /\ d[i].inside \in Seq(Seq(PacketCell))
    OBVIOUS
  <2>1. i \in 1..Len(d)
    <3>1. Len(d) \in Nat
      BY LenProperties
    <3> QED BY <3>1
  <2>2. d[i] \in DoneShape
    BY <2>1, ElementOfSeq
  <2> QED BY <2>2 DEF DoneShape
<1>2. \A i \in 1..n : Framed(d[i].cells) \in T
  BY <1>1, FramedIs
<1>3. f \in [1..n -> T] /\ \A i \in 1..n : f[i] = Framed(d[i].cells)
  BY <1>2 DEF Frames
<1> HIDE DEF T, f
<1>4. f \in Seq(T) /\ Len(f) = n
  BY <1>3, FunctionIsSeq
<1> QED BY <1>1, <1>3, <1>4 DEF f, T

LEMMA UptoStep ==
  ASSUME NEW d \in Seq(DoneShape), NEW ws \in Seq(WriterShape), NEW j \in Nat, j <= Len(ws)
  PROVE  /\ Upto(d, ws, j) \in Seq(AnyCell) /\ Len(Upto(d, ws, j)) \in Nat
         /\ j # 0 => Upto(d, ws, j) = Join(Upto(d, ws, j - 1), OwnOf(ws, j))
         /\ j = 0 => Upto(d, ws, j) = FlattenSeq(Frames(d, Len(d)))
<1> DEFINE B == FlattenSeq(Frames(d, Len(d)))
           F(k) == FlattenSeq(Owned(ws, k))
<1>1. B \in Seq(AnyCell)
  <2>1. Len(d) \in Nat /\ Len(d) <= Len(d)
    <3>1. Len(d) \in Nat
      BY LenProperties
    <3> QED BY <3>1
  <2> QED BY <2>1, FramesSeq, FlattenType
<1> HIDE DEF B
<1>2. Owned(ws, j) \in Seq(Seq(AnyCell)) /\ F(j) \in Seq(AnyCell)
  BY OwnedSeq, FlattenType
<1>3. \A k : Upto(d, ws, k) = Join(B, F(k))
  BY DEF Upto, B
<1>4. Upto(d, ws, j) \in Seq(AnyCell) /\ Len(Upto(d, ws, j)) \in Nat
  <2>1. Join(B, F(j)) \in Seq(AnyCell)
    BY <1>1, <1>2, JoinIs
  <2> QED BY <1>3, <2>1, LenProperties
<1>5. ASSUME j # 0 PROVE Upto(d, ws, j) = Join(Upto(d, ws, j - 1), OwnOf(ws, j))
  <2> DEFINE m == j - 1
             x == OwnOf(ws, j)
  <2>1. m \in Nat /\ m <= Len(ws) /\ j \in 1..Len(ws)
    <3>1. Len(ws) \in Nat
      BY LenProperties
    <3> QED BY <1>5, <3>1
  <2>2. x \in Seq(AnyCell) /\ Owned(ws, j) = Append(Owned(ws, m), x)
    BY <1>5, <2>1, OwnIs, OwnedSeq
  <2> HIDE DEF m, x
  <2>3. Owned(ws, m) \in Seq(Seq(AnyCell)) /\ F(m) \in Seq(AnyCell)
    BY <2>1, OwnedSeq, FlattenType
  <2>4. F(j) = Join(F(m), x)
    BY <2>2, <2>3, FlattenAppend DEF Join
  <2> HIDE DEF F
  <2>5. Join(B, Join(F(m), x)) = Join(Join(B, F(m)), x)
    BY <1>1, <2>2, <2>3, Regroup
  <2>6. Upto(d, ws, j) = Join(Upto(d, ws, m), x)
    BY <1>3, <2>4, <2>5
  <2> QED BY <2>6 DEF m, x
<1>6. ASSUME j = 0 PROVE Upto(d, ws, j) = B
  <2>1. F(j) = <<>>
    BY <1>6, OwnedSeq, FlattenType
  <2> HIDE DEF F
  <2>2. Join(B, <<>>) = B
    BY <1>1, JoinIs
  <2> QED BY <1>3, <2>1, <2>2
<1> QED BY <1>4, <1>5, <1>6 DEF B

LEMMA UptoSame ==
  ASSUME NEW d, NEW ws, NEW vs, NEW j, \A i \in 1..j : OwnOf(ws, i) = OwnOf(vs, i)
  PROVE  Upto(d, ws, j) = Upto(d, vs, j)
<1>1. Owned(ws, j) = Owned(vs, j)
  BY DEF Owned
<1> QED BY <1>1 DEF Upto

LEMMA Limits ==
  /\ \A j \in 1..MaxDepth : Limit(j) \in Nat /\ Limit(j) <= Width /\ MaxItems + 1 <= Limit(j)
  /\ \A j \in 1..MaxDepth - 1 : Limit(j) = Limit(j + 1) + MaxItems + 1
<1> USE PacketConstants
<1> DEFINE K == MaxItems + 1
<1>1. K \in Nat \ {0} /\ MaxDepth \in Nat \ {0} /\ Width \in Nat /\ MaxDepth * K <= Width
      /\ MaxItems \in Nat
  OBVIOUS
<1> HIDE DEF K
<1> HIDE PacketConstants
<1>2. ASSUME NEW m \in Nat, NEW n \in Nat, m <= n PROVE m * K <= n * K /\ m * K \in Nat
  BY <1>1, <1>2
<1>3. ASSUME NEW m \in Nat PROVE (m + 1) * K = m * K + K
  BY <1>1
<1>4. ASSUME NEW j \in 1..MaxDepth
      PROVE  Limit(j) \in Nat /\ Limit(j) <= Width /\ MaxItems + 1 <= Limit(j)
  <2> DEFINE m == MaxDepth - j + 1
  <2>1. m \in Nat /\ m <= MaxDepth /\ 1 \in Nat /\ 1 <= m
    BY <1>1
  <2>2. Limit(j) = m * K
    BY DEF Limit, K
  <2> HIDE DEF m
  <2>3. m * K <= MaxDepth * K /\ m * K \in Nat
    BY <1>1, <1>2, <2>1
  <2>4. 1 * K <= m * K
    BY <1>1, <1>2, <2>1
  <2>5. MaxDepth * K \in Nat /\ 1 * K = K
    BY <1>1
  <2> QED BY <1>1, <2>2, <2>3, <2>4, <2>5 DEF K
<1>5. ASSUME NEW j \in 1..MaxDepth - 1 PROVE Limit(j) = Limit(j + 1) + MaxItems + 1
  <2> DEFINE m == MaxDepth - j
  <2>1. m \in Nat /\ MaxDepth - (j + 1) + 1 = m /\ MaxDepth - j + 1 = m + 1
    BY <1>1
  <2>2. Limit(j) = (m + 1) * K /\ Limit(j + 1) = m * K
    BY <2>1 DEF Limit, K
  <2> HIDE DEF m
  <2>3. (m + 1) * K = m * K + K /\ m * K \in Nat
    BY <1>2, <1>3, <2>1
  <2> QED BY <1>1, <2>2, <2>3 DEF K
<1> QED BY <1>4, <1>5

LEMMA JoinAt ==
  ASSUME NEW S, NEW x \in Seq(S), NEW y \in Seq(S), NEW i \in 1..Len(y)
  PROVE  /\ Len(x) + i \in 1..Len(Join(x, y)) /\ Join(x, y)[Len(x) + i] = y[i]
<1>1. Len(x) \in Nat /\ Len(y) \in Nat
  BY LenProperties
<1>2. /\ Len(x \o y) = Len(x) + Len(y)
      /\ \A k \in 1..Len(x) + Len(y) : (x \o y)[k] = IF k <= Len(x) THEN x[k] ELSE y[k - Len(x)]
  BY ConcatProperties
<1>3. Len(x) + i \in 1..Len(x) + Len(y) /\ ~(Len(x) + i <= Len(x)) /\ (Len(x) + i) - Len(x) = i
  BY <1>1
<1> QED BY <1>2, <1>3 DEF Join

\* The length that flush() fills in.
LEMMA PatchMark ==
  ASSUME NEW P \in Seq(AnyCell), NEW c \in Seq(PacketCell)
  PROVE  [Join(P, <<Mark>> \o c) EXCEPT ![Len(P) + 1] = Len(c)] = Join(P, Framed(c))
<1> DEFINE u == <<Mark>> \o c
           v == Framed(c)
           x == Join(P, u)
           y == Join(P, v)
           z == [x EXCEPT ![Len(P) + 1] = Len(c)]
           n == Len(c) + 1
<1>1. /\ u \in Seq(AnyCell) /\ Len(u) = n /\ Len(c) \in Nat
      /\ \A i \in 1..Len(c) : u[i + 1] = c[i]
  BY MarkedIs
<1>2. /\ v \in Seq(AnyCell) /\ Len(v) = n /\ v[1] = Len(c)
      /\ \A i \in 1..Len(c) : v[i + 1] = c[i]
  BY FramedIs
<1> HIDE DEF u, v
<1>3. /\ x \in Seq(AnyCell) /\ Len(x) = Len(P) + n /\ Len(P) \in Nat
      /\ \A i \in 1..Len(P) : x[i] = P[i]
  <2>1. /\ Join(P, u) \in Seq(AnyCell) /\ Len(Join(P, u)) = Len(P) + Len(u) /\ Len(P) \in Nat
        /\ \A i \in 1..Len(P) : Join(P, u)[i] = P[i]
    <3>1. u \in Seq(AnyCell)
      BY <1>1
    <3> QED BY <3>1, JoinIs
  <2> HIDE DEF n
  <2> QED BY <1>1, <2>1
<1>4. /\ y \in Seq(AnyCell) /\ Len(y) = Len(P) + n
      /\ \A i \in 1..Len(P) : y[i] = P[i]
  <2>1. /\ Join(P, v) \in Seq(AnyCell) /\ Len(Join(P, v)) = Len(P) + Len(v)
        /\ \A i \in 1..Len(P) : Join(P, v)[i] = P[i]
    <3>1. v \in Seq(AnyCell)
      BY <1>2
    <3> QED BY <3>1, JoinIs
  <2> HIDE DEF n
  <2> QED BY <1>2, <2>1
<1>5. \A i \in 1..n : x[Len(P) + i] = u[i] /\ y[Len(P) + i] = v[i]
  BY <1>1, <1>2, JoinAt
<1> HIDE DEF x, y
<1>6. DOMAIN x = 1..Len(P) + n /\ DOMAIN y = 1..Len(P) + n
  BY <1>3, <1>4, LenProperties
<1>7. ASSUME NEW k \in 1..Len(P) + n PROVE z[k] = y[k]
  <2>1. CASE k \in 1..Len(P)
    <3>1. k # Len(P) + 1
      BY <1>3, <2>1
    <3> QED BY <1>3, <1>4, <1>6, <2>1, <3>1
  <2>2. CASE k = Len(P) + 1
    <3>1. 1 \in 1..n
      BY <1>1
    <3> QED BY <1>2, <1>5, <1>6, <2>2, <3>1
  <2>3. CASE k \notin 1..Len(P) /\ k # Len(P) + 1
    <3> DEFINE i == k - Len(P) - 1
    <3>1. i \in 1..Len(c) /\ i + 1 \in 1..n /\ Len(P) + (i + 1) = k
      <4>1. ASSUME NEW a \in Nat, NEW e \in Nat, NEW j \in 1..a + (e + 1),
                   j \notin 1..a, j # a + 1
            PROVE  j - a - 1 \in 1..e /\ j - a - 1 + 1 \in 1..e + 1 /\ a + (j - a - 1 + 1) = j
        BY <4>1
      <4>2. Len(P) \in Nat /\ Len(c) \in Nat
        BY <1>1, <1>3
      <4> QED BY <2>3, <4>1, <4>2
    <3> HIDE DEF i
    <3>2. x[k] = u[i + 1] /\ y[k] = v[i + 1]
      BY <1>5, <3>1
    <3>3. z[k] = x[k]
      BY <1>6, <2>3
    <3> QED BY <1>1, <1>2, <3>1, <3>2, <3>3
  <2> QED BY <2>1, <2>2, <2>3
<1>8. z = [k \in 1..Len(P) + n |-> z[k]] /\ y = [k \in 1..Len(P) + n |-> y[k]]
  <2>1. y = [k \in 1..Len(P) + n |-> y[k]]
    BY <1>4, <1>6, LenProperties
  <2>2. z = [k \in 1..Len(P) + n |-> z[k]]
    BY <1>6
  <2> QED BY <2>1, <2>2
<1> HIDE DEF z, n
<1>9. z = y
  BY <1>7, <1>8
<1> QED BY <1>9 DEF x, y, z, u, v

LEMMA PacketTypes ==
  ASSUME PacketInv
  PROVE  /\ send_buff \in Seq(AnyCell) /\ writers \in Seq(WriterShape) /\ done \in Seq(DoneShape)
         /\ Top \in Nat /\ Top <= MaxDepth /\ Len(writers) = Top
         /\ Upto(done, writers, Top) = send_buff
         /\ Nested(writers) /\ Placed(done, writers) /\ Fits(done)
<1>1. /\ send_buff \in Seq(AnyCell) /\ writers \in Seq(WriterShape) /\ done \in Seq(DoneShape)
      /\ Top <= MaxDepth
  BY DEF PacketInv, PacketShape
<1>2. Top \in Nat
  BY <1>1, LenProperties DEF Top
<1> QED BY <1>1, <1>2 DEF PacketInv, Top

\* The innermost writer: what is in front of its cells, and they.
LEMMA InnerIs ==
  ASSUME PacketInv, Top > 0
  PROVE  /\ Top \in 1..Len(writers) /\ Top - 1 \in Nat /\ Top \in 1..MaxDepth
         /\ Inner = writers[Top] /\ Inner \in WriterShape
         /\ Inner.cells \in Seq(PacketCell) /\ Inner.inside \in Seq(Seq(PacketCell))
         /\ Inner.flushed \in BOOLEAN /\ Inner.head \in Nat
         /\ Len(Inner.cells) \in Nat /\ Inner.length = Len(Inner.cells)
         /\ Len(Inner.cells) < Limit(Top)
         /\ Upto(done, writers, Top - 1) \in Seq(AnyCell)
         /\ send_buff = Join(Upto(done, writers, Top - 1), OwnOf(writers, Top))
         /\ ~Inner.flushed \/ Top = 1 => Inner.head = Len(Upto(done, writers, Top - 1))
<1>1. /\ writers \in Seq(WriterShape) /\ done \in Seq(DoneShape)
      /\ Top \in Nat /\ Top <= MaxDepth /\ Len(writers) = Top
      /\ Upto(done, writers, Top) = send_buff /\ Nested(writers) /\ Placed(done, writers)
  BY PacketTypes
<1>2. Top \in 1..Len(writers) /\ Top - 1 \in Nat /\ Top - 1 <= Len(writers) /\ Top \in 1..MaxDepth
      /\ Top # 0 /\ Top <= Len(writers)
  BY <1>1, PacketConstants
<1>3. Inner = writers[Top]
  BY DEF Inner
<1> DEFINE t == Top
<1> HIDE DEF t
<1>4. /\ writers[t] \in WriterShape /\ writers[t].cells \in Seq(PacketCell)
      /\ writers[t].inside \in Seq(Seq(PacketCell)) /\ writers[t].head \in Nat
      /\ writers[t].flushed \in BOOLEAN /\ Len(writers[t].cells) \in Nat
  BY <1>1, <1>2, WriterIs DEF t
<1>5. writers[t].length = Len(writers[t].cells) /\ Len(writers[t].cells) < Limit(t)
  BY <1>1, <1>2 DEF Nested, t
<1>6. ~writers[t].flushed \/ t = 1 => writers[t].head = Len(Upto(done, writers, t - 1))
  BY <1>1, <1>2 DEF Placed, t
<1>7. Upto(done, writers, t - 1) \in Seq(AnyCell)
  BY <1>1, <1>2, UptoStep DEF t
<1>8. Upto(done, writers, t) = Join(Upto(done, writers, t - 1), OwnOf(writers, t))
  BY <1>1, <1>2, UptoStep DEF t
<1> QED BY <1>1, <1>2, <1>3, <1>4, <1>5, <1>6, <1>7, <1>8 DEF t

\* The outer writers keep their place while the inner ones change.
LEMMA OuterKept ==
  ASSUME NEW d, NEW ws \in Seq(WriterShape), NEW vs \in Seq(WriterShape), Placed(d, ws),
         NEW m \in Nat, m <= Len(ws), m <= Len(vs),
         \A i \in 1..m : vs[i] = ws[i]
  PROVE  /\ \A i \in 1..m : OwnOf(vs, i) = OwnOf(ws, i)
         /\ \A i \in 0..m : Upto(d, vs, i) = Upto(d, ws, i)
         /\ \A j \in 1..m :
              /\ ~vs[j].flushed \/ j = 1 => vs[j].head = Len(Upto(d, vs, j - 1))
              /\ vs[j].flushed /\ j > 1 =>
                   Len(Upto(d, vs, j - 2)) + 1 <= vs[j].head /\ vs[j].head < Len(Upto(d, vs, j - 1))
<1>1. \A i \in 1..m : OwnOf(vs, i) = OwnOf(ws, i)
  BY DEF OwnOf
<1>2. ASSUME NEW i \in 0..m PROVE Upto(d, vs, i) = Upto(d, ws, i)
  <2>1. \A k \in 1..i : k \in 1..m
    OBVIOUS
  <2>2. \A k \in 1..i : OwnOf(vs, k) = OwnOf(ws, k)
    BY <1>1, <2>1
  <2> QED BY <2>2, UptoSame
<1>3. ASSUME NEW j \in 1..m
      PROVE  /\ ~vs[j].flushed \/ j = 1 => vs[j].head = Len(Upto(d, vs, j - 1))
             /\ vs[j].flushed /\ j > 1 =>
                  Len(Upto(d, vs, j - 2)) + 1 <= vs[j].head /\ vs[j].head < Len(Upto(d, vs, j - 1))
  <2>1. j \in 1..Len(ws) /\ j - 1 \in 0..m /\ (j > 1 => j - 2 \in 0..m) /\ vs[j] = ws[j]
    <3>1. Len(ws) \in Nat
      BY LenProperties
    <3> QED BY <3>1
  <2>2. /\ ~ws[j].flushed \/ j = 1 => ws[j].head = Len(Upto(d, ws, j - 1))
        /\ ws[j].flushed /\ j > 1 =>
             Len(Upto(d, ws, j - 2)) + 1 <= ws[j].head /\ ws[j].head < Len(Upto(d, ws, j - 1))
    BY <2>1 DEF Placed
  <2>3. Upto(d, vs, j - 1) = Upto(d, ws, j - 1) /\ (j > 1 => Upto(d, vs, j - 2) = Upto(d, ws, j - 2))
    BY <1>2, <2>1
  <2> QED BY <2>1, <2>2, <2>3
<1> QED BY <1>1, <1>2, <1>3

LEMMA NewInv ==
  ASSUME send_buff' \in Seq(AnyCell), writers' \in Seq(WriterShape), done' \in Seq(DoneShape),
         Len(writers') <= MaxDepth, send_buff' = Upto(done', writers', Len(writers')),
         Nested(writers'), Placed(done', writers'), Fits(done')
  PROVE  PacketInv'
  BY DEF PacketInv, PacketShape, Top

\* A writer is opened.
LEMMA Pushed ==
  ASSUME PacketInv, Top < MaxDepth, Top > 0 => ~Inner.flushed /\ Len(Inner.cells) < MaxItems,
         writers' = Append(writers, NewWriter(Len(send_buff))),
         send_buff' = Append(send_buff, Mark), done' = done
  PROVE  PacketInv'
<1> DEFINE w == NewWriter(Len(send_buff))
           ws == Append(writers, w)
           n == Top
           q == Append(send_buff, Mark)
           d == done
<1>1. /\ send_buff \in Seq(AnyCell) /\ writers \in Seq(WriterShape) /\ d \in Seq(DoneShape)
      /\ n \in Nat /\ n < MaxDepth /\ Len(writers) = n
      /\ Upto(d, writers, n) = send_buff
      /\ Nested(writers) /\ Placed(d, writers) /\ Fits(d)
  BY PacketTypes
<1>2. w \in WriterShape /\ w.cells = <<>> /\ w.length = 0 /\ ~w.flushed /\ w.head = Len(send_buff)
  <2>1. Len(send_buff) \in Nat /\ <<>> \in Seq(PacketCell) /\ <<>> \in Seq(Seq(PacketCell))
    BY <1>1, EmptySeq, LenProperties
  <2> QED BY <2>1 DEF NewWriter, WriterShape
<1>3. n > 0 => ~writers[n].flushed /\ Len(writers[n].cells) < MaxItems
  BY DEF Inner
<1> HIDE DEF n, w
<1>4. ws \in Seq(WriterShape) /\ Len(ws) = n + 1 /\ ws[n + 1] = w /\ \A i \in 1..n : ws[i] = writers[i]
  BY <1>1, <1>2, AppendProperties
<1>5. Mark \in AnyCell
  BY DEF AnyCell
<1>6. q \in Seq(AnyCell)
  BY <1>1, <1>5, AppendProperties
<1> HIDE DEF ws
<1>7. n <= Len(writers) /\ n <= Len(ws) /\ n + 1 \in Nat /\ n + 1 <= Len(ws)
      /\ n + 1 \in 1..Len(ws) /\ n + 1 # 0 /\ n + 1 - 1 = n /\ n \in 0..n
      /\ Len(ws) <= MaxDepth /\ n + 1 \in 1..MaxDepth
  BY <1>1, <1>4, PacketConstants
<1>8. /\ \A i \in 0..n : Upto(d, ws, i) = Upto(d, writers, i)
      /\ \A j \in 1..n :
           /\ ~ws[j].flushed \/ j = 1 => ws[j].head = Len(Upto(d, ws, j - 1))
           /\ ws[j].flushed /\ j > 1 =>
                Len(Upto(d, ws, j - 2)) + 1 <= ws[j].head /\ ws[j].head < Len(Upto(d, ws, j - 1))
  BY <1>1, <1>4, <1>7, OuterKept
<1>9. q = Upto(d, ws, n + 1)
  <2>1. Upto(d, ws, n + 1) = Join(Upto(d, ws, n + 1 - 1), OwnOf(ws, n + 1))
    BY <1>1, <1>4, <1>7, UptoStep
  <2>2. OwnOf(ws, n + 1) = <<Mark>> \o <<>>
    BY <1>2, <1>4, <1>7, OwnIs
  <2>3. <<Mark>> \in Seq(AnyCell)
    BY <1>5
  <2>4. <<Mark>> \o <<>> = <<Mark>>
    BY <2>3, ConcatEmptySeq
  <2>5. Append(send_buff, Mark) = send_buff \o <<Mark>>
    BY <1>1, <1>5, AppendIsConcat
  <2>6. Upto(d, ws, n + 1) = Join(send_buff, <<Mark>>)
    BY <1>1, <1>7, <1>8, <2>1, <2>2, <2>4
  <2> QED BY <2>5, <2>6 DEF Join
<1>10. Nested(ws)
  <2> SUFFICES ASSUME NEW j \in 1..Len(ws)
               PROVE  /\ ws[j].length = Len(ws[j].cells) /\ Len(ws[j].cells) < Limit(j)
                      /\ j < Len(ws) => ~ws[j].flushed
                      /\ j < Len(ws) /\ ~ws[j + 1].flushed => Len(ws[j].cells) < MaxItems
    BY DEF Nested
  <2>1. CASE j = n + 1
    <3>1. Len(<<>>) = 0
      BY EmptySeq
    <3>2. Limit(n + 1) \in Nat /\ MaxItems + 1 <= Limit(n + 1)
      BY <1>7, Limits
    <3>3. ws[j].length = Len(ws[j].cells) /\ Len(ws[j].cells) < Limit(j)
      BY <1>2, <1>4, <2>1, <3>1, <3>2, PacketConstants
    <3>4. ~(j < Len(ws))
      BY <1>1, <1>4, <2>1
    <3> QED BY <3>3, <3>4
  <2>2. CASE j # n + 1
    <3>1. j \in 1..n /\ j \in 1..Len(writers)
      BY <1>1, <1>4, <2>2
    <3>2. /\ writers[j].length = Len(writers[j].cells) /\ Len(writers[j].cells) < Limit(j)
          /\ j < n => ~writers[j].flushed
          /\ j < n /\ ~writers[j + 1].flushed => Len(writers[j].cells) < MaxItems
      BY <1>1, <3>1 DEF Nested
    <3>3. ws[j] = writers[j]
      BY <1>4, <3>1
    <3>4. CASE j = n
      <4>1. n > 0
        BY <1>1, <3>1, <3>4
      <4> QED BY <1>3, <3>2, <3>3, <3>4, <4>1
    <3>5. CASE j # n
      <4>1. j < n /\ j + 1 \in 1..n
        BY <1>1, <3>1, <3>5
      <4>2. ws[j + 1] = writers[j + 1]
        BY <1>4, <4>1
      <4> QED BY <3>2, <3>3, <4>1, <4>2
    <3> QED BY <3>4, <3>5
  <2> QED BY <2>1, <2>2
<1>11. Placed(d, ws)
  <2> SUFFICES ASSUME NEW j \in 1..Len(ws)
               PROVE  /\ ~ws[j].flushed \/ j = 1 => ws[j].head = Len(Upto(d, ws, j - 1))
                      /\ ws[j].flushed /\ j > 1 =>
                           Len(Upto(d, ws, j - 2)) + 1 <= ws[j].head /\ ws[j].head < Len(Upto(d, ws, j - 1))
    BY DEF Placed
  <2>1. CASE j = n + 1
    BY <1>1, <1>2, <1>4, <1>7, <1>8, <2>1
  <2>2. CASE j # n + 1
    <3>1. j \in 1..n
      BY <1>1, <1>4, <2>2
    <3> QED BY <1>8, <3>1
  <2> QED BY <2>1, <2>2
<1>12. writers' = ws /\ send_buff' = q /\ done' = d
  BY DEF ws, w
<1> HIDE DEF q, d
<1>13. writers' \in Seq(WriterShape) /\ Len(writers') = n + 1 /\ Len(writers') <= MaxDepth
       /\ send_buff' \in Seq(AnyCell) /\ done' \in Seq(DoneShape)
  BY <1>1, <1>4, <1>6, <1>7, <1>12
<1>14. send_buff' = Upto(done', writers', Len(writers'))
  BY <1>4, <1>9, <1>12
<1>15. Nested(writers') /\ Placed(done', writers') /\ Fits(done')
  BY <1>1, <1>10, <1>11, <1>12
<1> QED BY <1>13, <1>14, <1>15, NewInv

\* The innermost writer changes, and none around it.
LEMMA TopChanged ==
  ASSUME PacketInv, Top > 0, ~Inner.flushed, NEW w \in WriterShape,
         w.head = Inner.head, w.length = Len(w.cells), Len(w.cells) < Limit(Top),
         w.flushed => Top = 1,
         writers' = [writers EXCEPT ![Top] = w],
         send_buff' = Join(Upto(done, writers, Top - 1), OwnOf(writers', Top)), done' = done
  PROVE  PacketInv'
<1> DEFINE ws == [writers EXCEPT ![Top] = w]
           n == Top
           d == done
           U == Upto(d, writers, n - 1)
           q == Join(U, OwnOf(ws, n))
<1>1. /\ writers \in Seq(WriterShape) /\ d \in Seq(DoneShape)
      /\ n \in Nat /\ n <= MaxDepth /\ Len(writers) = n
      /\ Nested(writers) /\ Placed(d, writers) /\ Fits(d)
  BY PacketTypes
<1>2. /\ U \in Seq(AnyCell) /\ writers[n].head = Len(U) /\ n \in 1..n /\ n - 1 \in Nat
  BY InnerIs DEF Inner
<1>3. ~writers[n].flushed /\ w.head = Len(U)
  BY <1>2 DEF Inner
<1>4. writers' = ws /\ send_buff' = q /\ done' = d
  OBVIOUS
<1>5. w.length = Len(w.cells) /\ Len(w.cells) < Limit(n) /\ (w.flushed => n = 1)
  OBVIOUS
<1>6. ws \in Seq(WriterShape) /\ Len(ws) = n /\ ws[n] = w /\ \A i \in 1..n - 1 : ws[i] = writers[i]
  <2>1. /\ Len(ws) = Len(writers)
        /\ ws \in Seq(WriterShape)
        /\ \A i \in 1..Len(writers) : ws[i] = IF i = n THEN w ELSE writers[i]
    BY <1>1, <1>2, ExceptSeq
  <2>2. \A i \in 1..n - 1 : i \in 1..Len(writers) /\ i # n
    BY <1>1
  <2> HIDE DEF ws, n
  <2> QED BY <1>1, <1>2, <2>1, <2>2
<1> HIDE DEF n, ws, U, d
<1>7. n - 1 <= Len(writers) /\ n - 1 <= Len(ws) /\ n <= Len(ws) /\ n # 0 /\ n \in 1..Len(ws)
      /\ n - 1 \in 0..n - 1
  BY <1>1, <1>2, <1>6
<1>8. /\ \A i \in 0..n - 1 : Upto(d, ws, i) = Upto(d, writers, i)
      /\ \A j \in 1..n - 1 :
           /\ ~ws[j].flushed \/ j = 1 => ws[j].head = Len(Upto(d, ws, j - 1))
           /\ ws[j].flushed /\ j > 1 =>
                Len(Upto(d, ws, j - 2)) + 1 <= ws[j].head /\ ws[j].head < Len(Upto(d, ws, j - 1))
  <2> DEFINE m == n - 1
  <2>1. m \in Nat /\ m <= Len(writers) /\ m <= Len(ws) /\ \A i \in 1..m : ws[i] = writers[i]
    BY <1>2, <1>6, <1>7
  <2> HIDE DEF m
  <2>2. /\ \A i \in 0..m : Upto(d, ws, i) = Upto(d, writers, i)
        /\ \A j \in 1..m :
             /\ ~ws[j].flushed \/ j = 1 => ws[j].head = Len(Upto(d, ws, j - 1))
             /\ ws[j].flushed /\ j > 1 =>
                  Len(Upto(d, ws, j - 2)) + 1 <= ws[j].head /\ ws[j].head < Len(Upto(d, ws, j - 1))
    BY <1>1, <1>6, <2>1, OuterKept
  <2> QED BY <2>2 DEF m
<1>9. Upto(d, ws, n - 1) = U
  BY <1>7, <1>8 DEF U
<1>10. OwnOf(ws, n) \in Seq(AnyCell) /\ q \in Seq(AnyCell)
  <2>1. OwnOf(ws, n) \in Seq(AnyCell)
    BY <1>6, <1>7, OwnIs
  <2> QED BY <1>2, <2>1, JoinIs
<1>11. q = Upto(d, ws, n)
  <2>1. Upto(d, ws, n) = Join(Upto(d, ws, n - 1), OwnOf(ws, n))
    BY <1>1, <1>6, <1>7, UptoStep
  <2> QED BY <1>9, <2>1
<1> HIDE DEF q
<1>12. Nested(ws)
  <2> SUFFICES ASSUME NEW j \in 1..n
               PROVE  /\ ws[j].length = Len(ws[j].cells) /\ Len(ws[j].cells) < Limit(j)
                      /\ j < n => ~ws[j].flushed
                      /\ j < n /\ ~ws[j + 1].flushed => Len(ws[j].cells) < MaxItems
    BY <1>6 DEF Nested
  <2>1. CASE j = n
    BY <1>1, <1>5, <1>6, <2>1
  <2>2. CASE j # n
    <3>1. j \in 1..n - 1 /\ j \in 1..Len(writers) /\ j < n /\ (j + 1 = n \/ j + 1 \in 1..n - 1)
      BY <1>1, <2>2
    <3>2. /\ writers[j].length = Len(writers[j].cells) /\ Len(writers[j].cells) < Limit(j)
          /\ ~writers[j].flushed
          /\ ~writers[j + 1].flushed => Len(writers[j].cells) < MaxItems
      BY <1>1, <3>1 DEF Nested
    <3>3. ws[j] = writers[j]
      BY <1>6, <3>1
    <3>4. ~ws[j + 1].flushed => ~writers[j + 1].flushed
      BY <1>3, <1>6, <3>1
    <3> QED BY <3>2, <3>3, <3>4
  <2> QED BY <2>1, <2>2
<1>13. Placed(d, ws)
  <2> SUFFICES ASSUME NEW j \in 1..n
               PROVE  /\ ~ws[j].flushed \/ j = 1 => ws[j].head = Len(Upto(d, ws, j - 1))
                      /\ ws[j].flushed /\ j > 1 =>
                           Len(Upto(d, ws, j - 2)) + 1 <= ws[j].head /\ ws[j].head < Len(Upto(d, ws, j - 1))
    BY <1>6 DEF Placed
  <2>1. CASE j = n
    BY <1>1, <1>3, <1>5, <1>6, <1>9, <2>1
  <2>2. CASE j # n
    <3>1. j \in 1..n - 1
      BY <1>1, <2>2
    <3> QED BY <1>8, <3>1
  <2> QED BY <2>1, <2>2
<1>14. writers' \in Seq(WriterShape) /\ Len(writers') = n /\ Len(writers') <= MaxDepth
       /\ send_buff' \in Seq(AnyCell) /\ done' \in Seq(DoneShape)
  BY <1>1, <1>4, <1>6, <1>10
<1>15. send_buff' = Upto(done', writers', Len(writers'))
  BY <1>4, <1>6, <1>11
<1>16. Nested(writers') /\ Placed(done', writers') /\ Fits(done')
  BY <1>1, <1>4, <1>12, <1>13
<1> QED BY <1>14, <1>15, <1>16, NewInv

LEMMA OpenStep ==
  ASSUME PacketInv, Open
  PROVE  PacketInv'
<1>1. writers = <<>> /\ done' = done /\ send_buff' = Append(send_buff, Mark)
      /\ writers' = <<NewWriter(Len(send_buff))>>
  BY DEF Open
<1>2. Top = 0
  BY <1>1, EmptySeq DEF Top
<1>3. writers' = Append(writers, NewWriter(Len(send_buff)))
  BY <1>1
<1>4. Top < MaxDepth /\ (Top > 0 => ~Inner.flushed /\ Len(Inner.cells) < MaxItems)
  BY <1>2, PacketConstants
<1> QED BY <1>1, <1>3, <1>4, Pushed

LEMMA OpenInsideStep ==
  ASSUME PacketInv, OpenInside
  PROVE  PacketInv'
<1>1. /\ Top \in 1..MaxDepth - 1 /\ ~Inner.flushed /\ Len(Inner.cells) < MaxItems
      /\ writers' = Append(writers, NewWriter(Inner.head + Inner.length + 1))
      /\ done' = done /\ send_buff' = Append(send_buff, Mark)
  BY DEF OpenInside
<1>2. Top > 0 /\ Top < MaxDepth
  BY <1>1, PacketConstants
<1> DEFINE U == Upto(done, writers, Top - 1)
           c == Inner.cells
           own == OwnOf(writers, Top)
<1>3. /\ Top \in 1..Len(writers) /\ Inner = writers[Top] /\ c \in Seq(PacketCell)
      /\ Inner.length = Len(c) /\ U \in Seq(AnyCell) /\ send_buff = Join(U, own)
      /\ Inner.head = Len(U)
  BY <1>1, <1>2, InnerIs
<1>4. own \in Seq(AnyCell) /\ own = <<Mark>> \o c
  <2>1. writers \in Seq(WriterShape)
    BY PacketTypes
  <2> QED BY <1>1, <1>3, <2>1, OwnIs
<1>5. Len(<<Mark>> \o c) = Len(c) + 1 /\ Len(c) \in Nat
  BY <1>3, MarkedIs
<1> HIDE DEF U, own, c
<1>6. Len(send_buff) = Len(U) + Len(own) /\ Len(U) \in Nat
  BY <1>3, <1>4, JoinIs
<1>7. Inner.head + Inner.length + 1 = Len(send_buff)
  BY <1>3, <1>4, <1>5, <1>6
<1> QED BY <1>1, <1>2, <1>7, Pushed

\* A cell behind the others.
LEMMA JoinAppend ==
  ASSUME NEW S, NEW x \in Seq(S), NEW y \in Seq(S), NEW e \in S
  PROVE  Append(Join(x, y), e) = Join(x, Append(y, e)) /\ Append(y, e) \in Seq(S)
<1>1. <<e>> \in Seq(S) /\ Append(y, e) = Join(y, <<e>>)
  BY AppendIsConcat DEF Join
<1>2. Join(x, y) \in Seq(S) /\ Join(Join(x, y), <<e>>) = Join(x, Join(y, <<e>>))
      /\ Join(y, <<e>>) \in Seq(S)
  <2> DEFINE z == <<e>>
  <2>1. z \in Seq(S)
    BY <1>1
  <2> HIDE DEF z
  <2>2. Join(x, y) \in Seq(S) /\ Join(Join(x, y), z) = Join(x, Join(y, z)) /\ Join(y, z) \in Seq(S)
    BY <2>1, Regroup
  <2> QED BY <2>2 DEF z
<1>3. Append(Join(x, y), e) = Join(Join(x, y), <<e>>)
  BY <1>2, AppendIsConcat DEF Join
<1> QED BY <1>1, <1>2, <1>3

LEMMA PutStep ==
  ASSUME PacketInv, NEW v \in Value, Put(v)
  PROVE  PacketInv'
<1>1. /\ Top > 0 /\ ~Inner.flushed /\ Len(Inner.cells) < MaxItems
      /\ send_buff' = Append(send_buff, v)
      /\ writers' = [writers EXCEPT ![Top].length = @ + 1, ![Top].cells = Append(@, v)]
      /\ done' = done
  BY DEF Put
<1> DEFINE n == Top
           c == Inner.cells
           U == Upto(done, writers, n - 1)
           w == [Inner EXCEPT !.length = @ + 1, !.cells = Append(@, v)]
           ws == [writers EXCEPT ![n] = w]
<1>2. /\ n \in 1..Len(writers) /\ n \in 1..MaxDepth /\ Inner = writers[n] /\ Inner \in WriterShape
      /\ c \in Seq(PacketCell) /\ Inner.length = Len(c) /\ U \in Seq(AnyCell)
      /\ send_buff = Join(U, OwnOf(writers, n)) /\ Len(c) \in Nat
  BY <1>1, InnerIs
<1>3. writers \in Seq(WriterShape)
  BY PacketTypes
<1>4. v \in PacketCell /\ v \in AnyCell
  BY DEF PacketCell, AnyCell
<1>5. Append(c, v) \in Seq(PacketCell) /\ Len(Append(c, v)) = Len(c) + 1
  BY <1>2, <1>4, AppendProperties
<1>6. /\ w \in WriterShape /\ w.head = Inner.head /\ w.flushed = Inner.flushed
      /\ w.length = Len(c) + 1 /\ w.cells = Append(c, v)
  <2>1. /\ w.head = Inner.head /\ w.flushed = Inner.flushed
        /\ w.length = Inner.length + 1 /\ w.cells = Append(c, v) /\ w.inside = Inner.inside
    BY <1>2 DEF WriterShape
  <2>2. Len(c) + 1 \in Nat
    BY <1>2
  <2>3. w \in WriterShape
    BY <1>2, <1>5, <2>2 DEF WriterShape
  <2> QED BY <1>2, <2>1, <2>3
<1>7. writers' = ws
  BY <1>1, <1>2, <1>3
<1> HIDE DEF w
<1>8. ws[n] = w /\ ws \in Seq(WriterShape) /\ Len(ws) = Len(writers)
  BY <1>2, <1>3, <1>6, ExceptSeq
<1> HIDE DEF ws, c, U, n
<1>9. OwnOf(ws, n) = <<Mark>> \o Append(c, v) /\ OwnOf(writers, n) = <<Mark>> \o c
  BY <1>1, <1>2, <1>3, <1>6, <1>8, OwnIs DEF c
<1>10. <<Mark>> \in Seq(AnyCell) /\ c \in Seq(AnyCell) /\ Join(<<Mark>>, c) \in Seq(AnyCell)
  <2>1. Mark \in AnyCell /\ PacketCell \subseteq AnyCell
    BY DEF AnyCell
  <2>2. <<Mark>> \in Seq(AnyCell) /\ c \in Seq(AnyCell)
    BY <1>2, <2>1, SeqMonotonic
  <2> DEFINE z == <<Mark>>
  <2>3. z \in Seq(AnyCell)
    BY <2>2
  <2> HIDE DEF z
  <2>4. Join(z, c) \in Seq(AnyCell)
    BY <2>2, <2>3, JoinIs
  <2> QED BY <2>2, <2>4 DEF z
<1>11. send_buff' = Join(U, OwnOf(ws, n))
  <2> DEFINE z == <<Mark>>
  <2>1. z \in Seq(AnyCell) /\ c \in Seq(AnyCell) /\ Join(z, c) \in Seq(AnyCell)
    BY <1>10
  <2>2. OwnOf(ws, n) = Join(z, Append(c, v)) /\ OwnOf(writers, n) = Join(z, c)
    BY <1>9 DEF Join
  <2> HIDE DEF z
  <2>3. Append(Join(z, c), v) = Join(z, Append(c, v))
    BY <1>4, <2>1, JoinAppend
  <2>4. Append(Join(U, Join(z, c)), v) = Join(U, Append(Join(z, c), v))
    BY <1>2, <1>4, <2>1, JoinAppend
  <2> QED BY <1>1, <1>2, <2>2, <2>3, <2>4
<1>12. Len(Append(c, v)) < Limit(n)
  <2>1. Limit(n) \in Nat /\ MaxItems + 1 <= Limit(n)
    BY <1>2, Limits
  <2>2. Len(c) < MaxItems
    BY <1>1 DEF c
  <2> QED BY <1>2, <1>5, <2>1, <2>2, PacketConstants
<1>13. w.length = Len(w.cells) /\ Len(w.cells) < Limit(Top) /\ (w.flushed => Top = 1)
  BY <1>1, <1>5, <1>6, <1>12 DEF n
<1>14. writers' = [writers EXCEPT ![Top] = w]
  BY <1>7 DEF ws, n
<1>15. send_buff' = Join(Upto(done, writers, Top - 1), OwnOf(writers', Top))
  BY <1>7, <1>11 DEF U, n
<1> QED BY <1>1, <1>6, <1>13, <1>14, <1>15, TopChanged

\* The writers behind flush().
LEMMA FlushedIs ==
  ASSUME PacketInv, flush
  PROVE  /\ Top > 0 /\ ~Inner.flushed /\ done' = done
         /\ send_buff' = [send_buff EXCEPT ![Inner.head + 1] = Len(Inner.cells)]
         /\ writers' \in Seq(WriterShape) /\ Len(writers') = Top
         /\ writers'[Top].head = Inner.head /\ writers'[Top].flushed
         /\ writers'[Top].length = Inner.length /\ writers'[Top].cells = Inner.cells
         /\ \A j \in 1..Top - 1 : j # Top - 1 => writers'[j] = writers[j]
         /\ Top > 1 =>
              /\ writers'[Top - 1].head = writers[Top - 1].head
              /\ writers'[Top - 1].flushed = writers[Top - 1].flushed
              /\ writers'[Top - 1].length = writers[Top - 1].length + (Len(Inner.cells) + 1)
              /\ writers'[Top - 1].cells = writers[Top - 1].cells \o Framed(Inner.cells)
<1> DEFINE n == Top
           x == Inner
           c == Inner.cells
           w == [x EXCEPT !.flushed = TRUE]
           o(y) == [y EXCEPT !.length = @ + (x.length + 1), !.cells = @ \o Framed(c),
                             !.inside = Append(@, c)]
           new(j) == CASE j = n -> w [] j = n - 1 -> o(writers[j]) [] OTHER -> writers[j]
           ws == [j \in 1..n |-> new(j)]
<1>1. /\ Top > 0 /\ ~Inner.flushed /\ done' = done
      /\ send_buff' = [send_buff EXCEPT ![Inner.head + 1] = Inner.length]
      /\ writers' = ws
  BY DEF flush, Flush
<1>2. /\ n \in Nat /\ n \in 1..n /\ n > 0 /\ x \in WriterShape /\ c \in Seq(PacketCell) /\ x.length = Len(c)
      /\ Len(c) \in Nat /\ writers \in Seq(WriterShape) /\ Len(writers) = n /\ c = x.cells
  BY <1>1, InnerIs, PacketTypes
<1>3. w \in WriterShape /\ w.head = x.head /\ w.flushed /\ w.length = x.length /\ w.cells = x.cells
  BY <1>2 DEF WriterShape
<1>4. ASSUME NEW y \in WriterShape
      PROVE  /\ o(y) \in WriterShape /\ o(y).head = y.head /\ o(y).flushed = y.flushed
             /\ o(y).length = y.length + (Len(c) + 1) /\ o(y).cells = y.cells \o Framed(c)
  <2>1. y.cells \in Seq(PacketCell) /\ y.inside \in Seq(Seq(PacketCell)) /\ y.length \in Nat
    BY DEF WriterShape
  <2>2. Framed(c) \in Seq(PacketCell)
    BY <1>2, FramedIs
  <2>3. y.cells \o Framed(c) \in Seq(PacketCell)
    BY <2>1, <2>2, ConcatProperties
  <2>4. Append(y.inside, c) \in Seq(Seq(PacketCell))
    BY <1>2, <2>1, AppendProperties
  <2>5. y.length + (x.length + 1) \in Nat
    BY <1>2, <2>1
  <2>6. o(y) \in WriterShape
    BY <2>3, <2>4, <2>5 DEF WriterShape
  <2>7. /\ o(y).head = y.head /\ o(y).flushed = y.flushed
        /\ o(y).length = y.length + (x.length + 1) /\ o(y).cells = y.cells \o Framed(c)
    BY DEF WriterShape
  <2> QED BY <1>2, <2>6, <2>7
<1> HIDE DEF n, x, c, w, o
<1>5. \A j \in 1..n : writers[j] \in WriterShape
  BY <1>2, ElementOfSeq
<1>6. \A j \in 1..n : new(j) \in WriterShape
  <2> TAKE j \in 1..n
  <2>1. writers[j] \in WriterShape
    BY <1>5
  <2>2. o(writers[j]) \in WriterShape
    BY <1>4, <2>1
  <2> QED BY <1>3, <2>1, <2>2
<1>7. new(n) = w
  <2>1. n # n - 1
    BY <1>2
  <2> QED BY <2>1
<1>8. \A j \in 1..n - 1 : j # n - 1 => new(j) = writers[j]
  <2> TAKE j \in 1..n - 1
  <2>1. j # n
    BY <1>2
  <2> QED BY <2>1
<1>9. ASSUME n > 1 PROVE new(n - 1) = o(writers[n - 1]) /\ n - 1 \in 1..n
  <2>1. n - 1 # n /\ n - 1 \in 1..n
    BY <1>2, <1>9
  <2> QED BY <2>1
<1> HIDE DEF new
<1>10. ws \in [1..n -> WriterShape] /\ \A j \in 1..n : ws[j] = new(j)
  BY <1>6
<1>11. \A j \in 1..n - 1 : j \in 1..n
  BY <1>2
<1> HIDE DEF ws
<1>12. ws \in Seq(WriterShape) /\ Len(ws) = n
  BY <1>2, <1>10, FunctionIsSeq
<1>13. ws[n] = w /\ \A j \in 1..n - 1 : j # n - 1 => ws[j] = writers[j]
  BY <1>2, <1>7, <1>8, <1>10, <1>11
<1>14. ASSUME n > 1
       PROVE  /\ ws[n - 1].head = writers[n - 1].head
              /\ ws[n - 1].flushed = writers[n - 1].flushed
              /\ ws[n - 1].length = writers[n - 1].length + (Len(c) + 1)
              /\ ws[n - 1].cells = writers[n - 1].cells \o Framed(c)
  <2>1. ws[n - 1] = o(writers[n - 1]) /\ writers[n - 1] \in WriterShape
    BY <1>5, <1>9, <1>10, <1>14
  <2> QED BY <1>4, <2>1
<1> QED BY <1>1, <1>2, <1>3, <1>12, <1>13, <1>14 DEF n, x, c

LEMMA FlushStep ==
  ASSUME PacketInv, flush
  PROVE  PacketInv'
<1> DEFINE n == Top
           d == done
           c == Inner.cells
           ws == writers'
           U == Upto(d, writers, n - 1)
<1>1. /\ n > 0 /\ ~Inner.flushed /\ done' = d
      /\ send_buff' = [send_buff EXCEPT ![Inner.head + 1] = Len(c)]
      /\ ws \in Seq(WriterShape) /\ Len(ws) = n
      /\ ws[n].head = Inner.head /\ ws[n].flushed
      /\ ws[n].length = Inner.length /\ ws[n].cells = c
      /\ \A j \in 1..n - 1 : j # n - 1 => ws[j] = writers[j]
      /\ n > 1 =>
           /\ ws[n - 1].head = writers[n - 1].head
           /\ ws[n - 1].flushed = writers[n - 1].flushed
           /\ ws[n - 1].length = writers[n - 1].length + (Len(c) + 1)
           /\ ws[n - 1].cells = writers[n - 1].cells \o Framed(c)
  BY FlushedIs
<1>2. /\ n \in 1..n /\ n \in 1..Len(ws) /\ n \in 1..MaxDepth /\ n - 1 \in Nat /\ c \in Seq(PacketCell)
      /\ Inner.length = Len(c) /\ Inner.head = Len(U) /\ Len(c) \in Nat
      /\ U \in Seq(AnyCell) /\ Len(c) < Limit(n)
      /\ send_buff = Join(U, OwnOf(writers, n)) /\ writers[n] = Inner
  <2>1. Top \in 1..Len(writers) /\ Len(writers) = Top
    BY <1>1, InnerIs, PacketTypes
  <2> QED BY <1>1, <2>1, InnerIs
<1>3. /\ writers \in Seq(WriterShape) /\ d \in Seq(DoneShape)
      /\ n \in Nat /\ n <= MaxDepth /\ Len(writers) = n
      /\ Nested(writers) /\ Placed(d, writers) /\ Fits(d)
  BY PacketTypes
<1>4. OwnOf(writers, n) = <<Mark>> \o c
  BY <1>1, <1>2, <1>3, OwnIs
<1>5. send_buff' = Join(U, Framed(c))
  <2>1. [Join(U, <<Mark>> \o c) EXCEPT ![Len(U) + 1] = Len(c)] = Join(U, Framed(c))
    BY <1>2, PatchMark
  <2> HIDE DEF U, c
  <2> QED BY <1>1, <1>2, <1>4, <2>1
<1>6. CASE n = 1
  <2> DEFINE w == ws[n]
  <2>1. w \in WriterShape
    BY <1>1, <1>2, ElementOfSeq
  <2>2. ws = [writers EXCEPT ![n] = w]
    <3> DEFINE vs == [writers EXCEPT ![n] = w]
    <3>1. vs \in Seq(WriterShape) /\ Len(vs) = n /\ vs[n] = w
      BY <1>1, <1>2, <1>3, <2>1, ExceptSeq
    <3> HIDE DEF vs
    <3>2. \A j \in 1..Len(ws) : ws[j] = vs[j]
      BY <1>1, <1>6, <3>1
    <3>3. ws = vs
      BY <1>1, <3>1, <3>2, SeqEqual
    <3> QED BY <3>3 DEF vs
  <2>3. OwnOf(ws, n) = Framed(c)
    BY <1>1, <1>2, <1>6, OwnIs
  <2>4. /\ w.head = Inner.head /\ w.length = Len(w.cells) /\ Len(w.cells) < Limit(Top)
        /\ (w.flushed => Top = 1)
    BY <1>1, <1>2, <1>6
  <2>5. writers' = [writers EXCEPT ![Top] = w] /\ done' = done
    BY <1>1, <2>2
  <2>6. send_buff' = Join(Upto(done, writers, Top - 1), OwnOf(writers', Top))
    BY <1>5, <2>3
  <2>7. Top > 0 /\ ~Inner.flushed
    BY <1>1
  <2> HIDE DEF w, n, d, c, ws, U
  <2> QED BY <2>1, <2>4, <2>5, <2>6, <2>7, TopChanged
<1>7. CASE n # 1
  <2> DEFINE m == n - 1
             k == n - 2
             around == writers[m].cells
             V == Upto(d, writers, k)
             g == around \o Framed(c)
  <2>1. /\ m \in 1..n /\ m \in Nat /\ k \in Nat /\ n > 1 /\ m # 0 /\ k = m - 1 /\ m <= Len(writers)
        /\ m \in 1..Len(writers) /\ m \in 1..Len(ws) /\ k <= Len(writers) /\ k <= Len(ws)
        /\ m <= Len(ws) /\ n <= Len(ws) /\ m < n /\ m + 1 = n /\ m \in 1..MaxDepth - 1
        /\ n # 0 /\ n # 1
    BY <1>1, <1>2, <1>3, <1>7, PacketConstants
  <2>2. around \in Seq(PacketCell) /\ Len(around) \in Nat
    BY <1>3, <2>1, WriterIs
  <2>3. /\ writers[m].length = Len(around) /\ ~writers[m].flushed
        /\ Len(around) < MaxItems
    <3>1. ~writers[m + 1].flushed
      BY <1>1, <1>2, <2>1
    <3> HIDE DEF m
    <3> QED BY <1>3, <2>1, <3>1 DEF Nested
  <2>4. ws[m].head = writers[m].head /\ ~ws[m].flushed
        /\ ws[m].length = Len(around) + (Len(c) + 1) /\ ws[m].cells = g
    BY <1>1, <2>1, <2>3
  <2>5. /\ V \in Seq(AnyCell) /\ Len(V) \in Nat /\ U = Join(V, <<Mark>> \o around)
        /\ writers[m].head = Len(V)
    <3>1. V \in Seq(AnyCell) /\ Len(V) \in Nat
      BY <1>3, <2>1, UptoStep
    <3>2. Upto(d, writers, m) = Join(Upto(d, writers, m - 1), OwnOf(writers, m))
      BY <1>3, <2>1, UptoStep
    <3>3. OwnOf(writers, m) = <<Mark>> \o around
      BY <1>3, <2>1, <2>3, OwnIs
    <3>4. writers[m].head = Len(Upto(d, writers, m - 1))
      BY <1>3, <2>1, <2>3 DEF Placed
    <3> QED BY <2>1, <3>1, <3>2, <3>3, <3>4
  <2>6. Framed(c) \in Seq(PacketCell) /\ Framed(c) \in Seq(AnyCell) /\ Len(Framed(c)) = Len(c) + 1
    BY <1>2, FramedIs
  <2>7. g \in Seq(PacketCell) /\ Len(g) = Len(around) + (Len(c) + 1)
    <3> DEFINE f == Framed(c)
    <3> HIDE DEF f
    <3>1. around \o f \in Seq(PacketCell) /\ Len(around \o f) = Len(around) + Len(f)
      BY <2>2, <2>6, ConcatProperties DEF f
    <3> QED BY <2>6, <3>1 DEF f
  <2>8. <<Mark>> \o g \in Seq(AnyCell) /\ Len(<<Mark>> \o g) = Len(g) + 1
    BY <2>7, MarkedIs
  <2>9. <<Mark>> \o around \in Seq(AnyCell) /\ Len(<<Mark>> \o around) = Len(around) + 1
    BY <2>2, MarkedIs
  <2>10. Join(U, Framed(c)) = Join(V, <<Mark>> \o g)
    <3> DEFINE z == <<Mark>>
               f == Framed(c)
    <3>1. z \in Seq(AnyCell) /\ around \in Seq(AnyCell) /\ f \in Seq(AnyCell)
      <4>1. Mark \in AnyCell /\ PacketCell \subseteq AnyCell
        BY DEF AnyCell
      <4>2. around \in Seq(AnyCell)
        BY <2>2, <4>1, SeqMonotonic
      <4> QED BY <2>6, <4>1, <4>2
    <3>2. <<Mark>> \o g = Join(z, Join(around, f)) /\ <<Mark>> \o around = Join(z, around)
      BY DEF Join
    <3> HIDE DEF z, f, around
    <3>3. Join(z, around) \in Seq(AnyCell) /\ Join(Join(z, around), f) = Join(z, Join(around, f))
      BY <3>1, Regroup
    <3>4. Join(Join(V, Join(z, around)), f) = Join(V, Join(Join(z, around), f))
      BY <2>5, <3>1, <3>3, Regroup
    <3> QED BY <2>5, <3>2, <3>3, <3>4 DEF f
  <2> HIDE DEF m, k, around, g, V, U, d, c, n, ws
  <2>11. \A i \in 1..k : i \in 1..n - 1 /\ i # n - 1
    BY <1>3, <2>1 DEF m
  <2>12. \A i \in 1..k : ws[i] = writers[i]
    BY <1>1, <2>11
  <2>13. /\ \A i \in 0..k : Upto(d, ws, i) = Upto(d, writers, i)
         /\ \A j \in 1..k :
              /\ ~ws[j].flushed \/ j = 1 => ws[j].head = Len(Upto(d, ws, j - 1))
              /\ ws[j].flushed /\ j > 1 =>
                   Len(Upto(d, ws, j - 2)) + 1 <= ws[j].head /\ ws[j].head < Len(Upto(d, ws, j - 1))
    BY <1>1, <1>3, <2>1, <2>12, OuterKept
  <2>14. Upto(d, ws, k) = V
    <3>1. k \in 0..k
      BY <2>1
    <3> QED BY <2>13, <3>1 DEF V
  <2>15. Upto(d, ws, m) = Join(V, <<Mark>> \o g)
    <3>1. Upto(d, ws, m) = Join(Upto(d, ws, m - 1), OwnOf(ws, m))
      BY <1>1, <1>3, <2>1, UptoStep
    <3>2. OwnOf(ws, m) = <<Mark>> \o g
      BY <1>1, <2>1, <2>4, OwnIs
    <3> QED BY <2>1, <2>14, <3>1, <3>2
  <2>16. Upto(d, ws, n) = Upto(d, ws, m) /\ Upto(d, ws, m) \in Seq(AnyCell)
    <3>1. Upto(d, ws, n) = Join(Upto(d, ws, n - 1), OwnOf(ws, n))
      BY <1>1, <1>3, <2>1, UptoStep
    <3>2. OwnOf(ws, n) = <<>>
      BY <1>1, <1>2, <2>1, OwnIs
    <3>3. Upto(d, ws, m) \in Seq(AnyCell)
      BY <1>1, <1>3, <2>1, UptoStep
    <3>4. Join(Upto(d, ws, m), <<>>) = Upto(d, ws, m)
      BY <3>3, JoinIs
    <3> QED BY <3>1, <3>2, <3>3, <3>4 DEF m
  <2>17. Len(Upto(d, ws, m)) = Len(V) + (Len(g) + 1)
    <3> DEFINE z == <<Mark>> \o g
    <3>1. z \in Seq(AnyCell) /\ Len(z) = Len(g) + 1
      BY <2>8
    <3> HIDE DEF z
    <3>2. Len(Join(V, z)) = Len(V) + Len(z)
      BY <2>5, <3>1, JoinIs
    <3> QED BY <2>15, <3>1, <3>2 DEF z
  <2>18. Len(U) = Len(V) + (Len(around) + 1)
    <3> DEFINE z == <<Mark>> \o around
    <3>1. z \in Seq(AnyCell) /\ Len(z) = Len(around) + 1
      BY <2>9
    <3> HIDE DEF z
    <3>2. Len(Join(V, z)) = Len(V) + Len(z)
      BY <2>5, <3>1, JoinIs
    <3> QED BY <2>5, <3>1, <3>2 DEF z
  <2>19. Nested(ws)
    <3> SUFFICES ASSUME NEW j \in 1..n
                 PROVE  /\ ws[j].length = Len(ws[j].cells) /\ Len(ws[j].cells) < Limit(j)
                        /\ j < n => ~ws[j].flushed
                        /\ j < n /\ ~ws[j + 1].flushed => Len(ws[j].cells) < MaxItems
      BY <1>1 DEF Nested
    <3>1. CASE j = n
      BY <1>1, <1>2, <1>3, <3>1
    <3>2. CASE j = m
      <4>1. Limit(m) = Limit(m + 1) + MaxItems + 1 /\ Limit(n) \in Nat
        BY <1>2, <2>1, Limits
      <4>2. Len(g) < Limit(m)
        BY <1>2, <2>1, <2>2, <2>3, <2>7, <4>1, PacketConstants
      <4>3. ws[m].length = Len(ws[m].cells)
        BY <2>4, <2>7
      <4>4. ws[m + 1].flushed
        BY <1>1, <2>1
      <4> QED BY <2>4, <3>2, <4>2, <4>3, <4>4
    <3>3. CASE j # n /\ j # m
      <4>1. j \in 1..k /\ j \in 1..Len(writers) /\ j < n /\ (j + 1 \in 1..k \/ j + 1 = m)
        BY <1>3, <2>1, <3>3
      <4>2. /\ writers[j].length = Len(writers[j].cells) /\ Len(writers[j].cells) < Limit(j)
            /\ ~writers[j].flushed
            /\ ~writers[j + 1].flushed => Len(writers[j].cells) < MaxItems
        BY <1>3, <4>1 DEF Nested
      <4>3. ws[j] = writers[j]
        BY <2>12, <4>1
      <4>4. ~ws[j + 1].flushed => ~writers[j + 1].flushed
        BY <2>3, <2>12, <4>1
      <4> QED BY <4>2, <4>3, <4>4
    <3> QED BY <3>1, <3>2, <3>3
  <2>20. Placed(d, ws)
    <3> SUFFICES ASSUME NEW j \in 1..n
                 PROVE  /\ ~ws[j].flushed \/ j = 1 => ws[j].head = Len(Upto(d, ws, j - 1))
                        /\ ws[j].flushed /\ j > 1 =>
                             Len(Upto(d, ws, j - 2)) + 1 <= ws[j].head /\ ws[j].head < Len(Upto(d, ws, j - 1))
      BY <1>1 DEF Placed
    <3>1. CASE j = n
      <4>1. ws[n].head = Len(V) + (Len(around) + 1)
        BY <1>1, <1>2, <2>18
      <4>2. Len(V) + 1 <= ws[n].head /\ ws[n].head < Len(V) + (Len(g) + 1)
        BY <1>2, <2>2, <2>5, <2>7, <4>1
      <4>3. Len(V) + 1 <= ws[n].head /\ ws[n].head < Len(Upto(d, ws, m))
        BY <2>17, <4>2
      <4> QED BY <1>1, <2>1, <2>14, <3>1, <4>3 DEF m, k
    <3>2. CASE j = m
      BY <2>1, <2>4, <2>5, <2>14, <3>2
    <3>3. CASE j # n /\ j # m
      <4>1. j \in 1..k
        BY <1>3, <2>1, <3>3
      <4> QED BY <2>13, <4>1
    <3> QED BY <3>1, <3>2, <3>3
  <2>21. send_buff' = Upto(d, ws, n) /\ send_buff' \in Seq(AnyCell)
    BY <1>5, <2>10, <2>15, <2>16
  <2>22. writers' \in Seq(WriterShape) /\ Len(writers') <= MaxDepth /\ done' \in Seq(DoneShape)
    BY <1>1, <1>3 DEF ws
  <2>23. send_buff' = Upto(done', writers', Len(writers')) /\ send_buff' \in Seq(AnyCell)
    BY <1>1, <2>21 DEF ws
  <2>24. Nested(writers') /\ Placed(done', writers') /\ Fits(done')
    BY <1>1, <1>3, <2>19, <2>20 DEF ws
  <2> QED BY <2>22, <2>23, <2>24, NewInv
<1> QED BY <1>6, <1>7

\* What is behind is taken back.
LEMMA TakeBack ==
  ASSUME NEW S, NEW x \in Seq(S), NEW y \in Seq(S)
  PROVE  SubSeq(Join(x, y), 1, Len(x)) = x
<1> DEFINE j == Join(x, y)
           s == SubSeq(j, 1, Len(x))
<1>1. /\ j \in Seq(S) /\ Len(j) = Len(x) + Len(y) /\ Len(x) \in Nat /\ Len(y) \in Nat
      /\ \A i \in 1..Len(x) : j[i] = x[i]
  BY JoinIs
<1> HIDE DEF j
<1>2. Len(x) <= Len(j)
  BY <1>1
<1>3. s \in Seq(S) /\ Len(s) = Len(x) /\ \A i \in 1..Len(x) : s[i] = j[i]
  BY <1>1, <1>2, Halves
<1> HIDE DEF s
<1>4. s = x
  BY <1>1, <1>3, SeqEqual
<1> QED BY <1>4 DEF s, j

LEMMA FrontIs ==
  ASSUME NEW S, NEW s \in Seq(S), s # <<>>
  PROVE  /\ Front(s) \in Seq(S) /\ Len(Front(s)) = Len(s) - 1 /\ Len(s) - 1 \in Nat
         /\ \A i \in 1..Len(s) - 1 : Front(s)[i] = s[i]
<1>1. Len(s) \in Nat /\ Len(s) # 0
  BY EmptySeq, LenProperties
<1> DEFINE m == Len(s) - 1
<1>2. m \in Nat /\ m <= Len(s)
  BY <1>1
<1>3. Front(s) = SubSeq(s, 1, m)
  BY DEF Front
<1> HIDE DEF m
<1>4. SubSeq(s, 1, m) \in Seq(S) /\ Len(SubSeq(s, 1, m)) = m
      /\ \A i \in 1..m : SubSeq(s, 1, m)[i] = s[i]
  BY <1>2, Halves
<1> QED BY <1>2, <1>3, <1>4 DEF m

\* The innermost writer is gone, and the packet is not complete.
LEMMA Popped ==
  ASSUME PacketInv, Top > 0, writers' = Front(writers), done' = done,
         send_buff' = Upto(done, writers, Top - 1)
  PROVE  PacketInv'
<1> DEFINE n == Top - 1
           d == done
           ws == Front(writers)
<1>1. /\ writers \in Seq(WriterShape) /\ d \in Seq(DoneShape)
      /\ Top \in Nat /\ Top <= MaxDepth /\ Len(writers) = Top
      /\ Nested(writers) /\ Placed(d, writers) /\ Fits(d)
  BY PacketTypes
<1>2. writers # <<>>
  BY <1>1, EmptySeq
<1>3. ws \in Seq(WriterShape) /\ Len(ws) = n /\ n \in Nat /\ \A i \in 1..n : ws[i] = writers[i]
  BY <1>1, <1>2, FrontIs
<1>4. n <= MaxDepth /\ n <= Len(writers) /\ n <= Len(ws) /\ n \in 0..n
  <2> HIDE DEF ws
  <2> QED BY <1>1, <1>3, PacketConstants
<1>5. send_buff' = Upto(d, writers, n)
  OBVIOUS
<1>6. writers' = ws /\ done' = d
  OBVIOUS
<1>7. \A j \in 1..n : j \in 1..Len(writers) /\ j < Len(writers) /\ (j < n => j + 1 \in 1..n)
  BY <1>1
<1> HIDE DEF n, ws, d
<1>8. /\ \A i \in 0..n : Upto(d, ws, i) = Upto(d, writers, i)
      /\ \A j \in 1..n :
           /\ ~ws[j].flushed \/ j = 1 => ws[j].head = Len(Upto(d, ws, j - 1))
           /\ ws[j].flushed /\ j > 1 =>
                Len(Upto(d, ws, j - 2)) + 1 <= ws[j].head /\ ws[j].head < Len(Upto(d, ws, j - 1))
  BY <1>1, <1>3, <1>4, OuterKept
<1>9. Placed(d, ws)
  BY <1>3, <1>8 DEF Placed
<1>10. Nested(ws)
  <2> SUFFICES ASSUME NEW j \in 1..n
               PROVE  /\ ws[j].length = Len(ws[j].cells) /\ Len(ws[j].cells) < Limit(j)
                      /\ j < n => ~ws[j].flushed
                      /\ j < n /\ ~ws[j + 1].flushed => Len(ws[j].cells) < MaxItems
    BY <1>3 DEF Nested
  <2>1. /\ writers[j].length = Len(writers[j].cells) /\ Len(writers[j].cells) < Limit(j)
        /\ ~writers[j].flushed
        /\ ~writers[j + 1].flushed => Len(writers[j].cells) < MaxItems
    BY <1>1, <1>7 DEF Nested
  <2>2. ws[j] = writers[j] /\ (j < n => ws[j + 1] = writers[j + 1])
    BY <1>3, <1>7
  <2> QED BY <2>1, <2>2
<1>11. send_buff' = Upto(d, ws, n) /\ Upto(d, ws, n) \in Seq(AnyCell)
  <2>1. Upto(d, ws, n) \in Seq(AnyCell)
    BY <1>1, <1>3, <1>4, UptoStep
  <2> QED BY <1>4, <1>5, <1>8, <2>1
<1>12. writers' \in Seq(WriterShape) /\ Len(writers') <= MaxDepth /\ done' \in Seq(DoneShape)
       /\ send_buff' \in Seq(AnyCell)
  BY <1>1, <1>3, <1>4, <1>6, <1>11
<1>13. send_buff' = Upto(done', writers', Len(writers'))
  BY <1>3, <1>6, <1>11
<1>14. Nested(writers') /\ Placed(done', writers') /\ Fits(done')
  BY <1>1, <1>6, <1>9, <1>10
<1> QED BY <1>12, <1>13, <1>14, NewInv

\* One more packet sent.
LEMMA FramesAppend ==
  ASSUME NEW d \in Seq(DoneShape), NEW p \in DoneShape
  PROVE  FlattenSeq(Frames(Append(d, p), Len(d) + 1))
           = Join(FlattenSeq(Frames(d, Len(d))), Framed(p.cells))
<1> DEFINE e == Append(d, p)
           n == Len(d)
           f == Frames(d, n)
           g == Frames(e, n + 1)
           x == Framed(p.cells)
           a == Append(f, x)
<1>1. e \in Seq(DoneShape) /\ Len(e) = n + 1 /\ e[n + 1] = p /\ \A i \in 1..n : e[i] = d[i]
  BY AppendProperties
<1>2. n \in Nat /\ n <= n /\ n + 1 \in Nat /\ n + 1 <= Len(e) /\ n + 1 \in 1..n + 1
  <2>1. n \in Nat
    BY LenProperties
  <2> HIDE DEF e
  <2> QED BY <1>1, <2>1
<1> HIDE DEF e, n
<1>3. f \in Seq(Seq(AnyCell)) /\ Len(f) = n /\ \A i \in 1..n : f[i] = Framed(d[i].cells)
  BY <1>2, FramesSeq DEF n
<1>4. g \in Seq(Seq(AnyCell)) /\ Len(g) = n + 1 /\ \A i \in 1..n + 1 : g[i] = Framed(e[i].cells)
  BY <1>1, <1>2, FramesSeq
<1>5. x \in Seq(AnyCell)
  <2>1. p.cells \in Seq(PacketCell)
    BY DEF DoneShape
  <2> QED BY <2>1, FramedIs
<1> HIDE DEF f, g
<1>6. a \in Seq(Seq(AnyCell)) /\ Len(a) = n + 1 /\ a[n + 1] = x /\ \A i \in 1..n : a[i] = f[i]
  <2> HIDE DEF x
  <2> QED BY <1>3, <1>5, AppendProperties
<1> HIDE DEF a
<1>7. \A i \in 1..Len(a) : a[i] = g[i]
  <2> TAKE i \in 1..Len(a)
  <2>1. i \in 1..n + 1 /\ (i = n + 1 \/ i \in 1..n)
    BY <1>2, <1>6
  <2>2. CASE i = n + 1
    BY <1>1, <1>2, <1>4, <1>6, <2>2
  <2>3. CASE i \in 1..n
    BY <1>1, <1>3, <1>4, <1>6, <2>1, <2>3
  <2> QED BY <2>1, <2>2, <2>3
<1>8. a = g
  BY <1>4, <1>6, <1>7, SeqEqual
<1>9. FlattenSeq(a) = Join(FlattenSeq(f), x)
  <2> HIDE DEF x
  <2> QED BY <1>3, <1>5, FlattenAppend DEF a, Join
<1> QED BY <1>8, <1>9 DEF f, g, x, e, n

LEMMA DestroyStep ==
  ASSUME PacketInv, Destroy
  PROVE  PacketInv'
<1> DEFINE c == Inner.cells
           U == Upto(done, writers, Top - 1)
           own == OwnOf(writers, Top)
           p == [cells |-> Inner.cells, inside |-> Inner.inside]
           cut == Len(send_buff) > Inner.head /\ send_buff[Inner.head + 1] = Mark
<1>1. /\ Top > 0 /\ writers' = Front(writers)
      /\ send_buff' = IF cut THEN SubSeq(send_buff, 1, Len(send_buff) - 1 - Inner.length)
                      ELSE send_buff
      /\ done' = IF Inner.flushed /\ Top = 1 THEN Append(done, p) ELSE done
  BY DEF Destroy
<1>2. /\ Top \in 1..Len(writers) /\ Top - 1 \in Nat /\ Inner = writers[Top] /\ c \in Seq(PacketCell)
      /\ Inner.length = Len(c) /\ U \in Seq(AnyCell) /\ send_buff = Join(U, own)
      /\ Inner.flushed \in BOOLEAN /\ Inner.inside \in Seq(Seq(PacketCell))
      /\ (~Inner.flushed \/ Top = 1 => Inner.head = Len(U)) /\ Len(c) < Limit(Top)
      /\ Top \in 1..MaxDepth /\ Len(c) \in Nat
  BY <1>1, InnerIs
<1>3. /\ writers \in Seq(WriterShape) /\ done \in Seq(DoneShape) /\ Top \in Nat
      /\ Len(writers) = Top /\ Nested(writers) /\ Placed(done, writers) /\ Fits(done)
      /\ send_buff \in Seq(AnyCell)
  BY PacketTypes
<1>4. own \in Seq(AnyCell) /\ (~Inner.flushed => own = <<Mark>> \o c)
      /\ (Inner.flushed /\ Top = 1 => own = Framed(c))
      /\ (Inner.flushed /\ Top # 1 => own = <<>>)
  BY <1>2, <1>3, OwnIs
<1>5. CASE ~Inner.flushed
  <2>1. Len(own) = Len(c) + 1 /\ own[1] = Mark /\ Len(c) \in Nat
    BY <1>2, <1>4, <1>5, MarkedIs
  <2> HIDE DEF own, U, c
  <2>2. 1 \in 1..Len(own)
    BY <2>1
  <2>3. Len(send_buff) = Len(U) + Len(own) /\ Len(U) \in Nat
    BY <1>2, <1>4, JoinIs
  <2>4. send_buff[Len(U) + 1] = Mark
    BY <1>2, <1>4, <2>1, <2>2, JoinAt
  <2>5. cut
    BY <1>2, <1>5, <2>1, <2>3, <2>4
  <2>6. Len(send_buff) - 1 - Inner.length = Len(U)
    BY <1>2, <2>1, <2>3
  <2>7. send_buff' = U
    <3>1. send_buff' = SubSeq(send_buff, 1, Len(U))
      BY <1>1, <2>5, <2>6
    <3>2. SubSeq(Join(U, own), 1, Len(U)) = U
      BY <1>2, <1>4, TakeBack
    <3> QED BY <1>2, <3>1, <3>2
  <2>8. done' = done
    BY <1>1, <1>5
  <2> QED BY <1>1, <2>7, <2>8, Popped DEF U
<1>6. CASE Inner.flushed /\ Top = 1
  <2> DEFINE B == FlattenSeq(Frames(done, Len(done)))
  <2>1. own = Framed(c) /\ Inner.head = Len(U)
    BY <1>2, <1>4, <1>6
  <2>2. U = B
    <3>1. Top - 1 = 0 /\ 0 \in Nat /\ 0 <= Len(writers)
      BY <1>3, <1>6
    <3>2. Upto(done, writers, 0) = B
      BY <1>3, <3>1, UptoStep
    <3> QED BY <3>1, <3>2
  <2>3. Len(own) = Len(c) + 1 /\ own[1] = Len(c) /\ 1 \in 1..Len(own)
    <3>1. Len(Framed(c)) = Len(c) + 1 /\ Framed(c)[1] = Len(c)
      BY <1>2, FramedIs
    <3> HIDE DEF c, own
    <3> QED BY <1>2, <2>1, <3>1
  <2>4. p \in DoneShape /\ p.cells = c
    BY <1>2 DEF DoneShape
  <2> HIDE DEF own, U, c, B
  <2>5. send_buff[Len(U) + 1] = Len(c)
    <3>1. U \in Seq(AnyCell) /\ own \in Seq(AnyCell) /\ 1 \in 1..Len(own)
      BY <1>2, <1>4, <2>3
    <3>2. Join(U, own)[Len(U) + 1] = own[1]
      BY <3>1, JoinAt
    <3> QED BY <1>2, <2>3, <3>2
  <2>6. Len(c) # Mark
    BY <1>2, PacketConstants
  <2>7. send_buff' = send_buff /\ done' = Append(done, p)
    BY <1>1, <1>6, <2>1, <2>5, <2>6
  <2> HIDE DEF p, cut
  <2>8. done' \in Seq(DoneShape) /\ Len(done') = Len(done) + 1 /\ done'[Len(done) + 1] = p
        /\ \A i \in 1..Len(done) : done'[i] = done[i]
    BY <1>3, <2>4, <2>7, AppendProperties
  <2>9. writers' \in Seq(WriterShape) /\ Len(writers') = 0
    <3>1. writers # <<>>
      BY <1>2, <1>3, EmptySeq
    <3>2. Front(writers) \in Seq(WriterShape) /\ Len(Front(writers)) = Len(writers) - 1
      BY <1>3, <3>1, FrontIs
    <3> QED BY <1>1, <1>3, <1>6, <3>2
  <2>10. send_buff' = Upto(done', writers', Len(writers'))
    <3>1. Upto(done', writers', 0) = FlattenSeq(Frames(done', Len(done')))
      <4>1. 0 \in Nat /\ 0 <= Len(writers')
        BY <2>9
      <4> QED BY <2>8, <2>9, <4>1, UptoStep
    <3>2. FlattenSeq(Frames(Append(done, p), Len(done) + 1)) = Join(B, Framed(c))
      BY <1>3, <2>4, FramesAppend DEF B
    <3> QED BY <1>2, <2>1, <2>2, <2>7, <2>8, <2>9, <3>1, <3>2
  <2>11. Nested(writers') /\ Placed(done', writers')
    BY <2>9 DEF Nested, Placed
  <2>12. Fits(done')
    <3> SUFFICES ASSUME NEW i \in 1..Len(done') PROVE Len(done'[i].cells) < Width
      BY DEF Fits
    <3>1. Len(done) \in Nat
      BY <1>3, LenProperties
    <3>2. CASE i = Len(done) + 1
      <4>1. Limit(Top) <= Width /\ Limit(Top) \in Nat
        BY <1>2, Limits
      <4> QED BY <1>2, <2>4, <2>8, <3>2, <4>1, PacketConstants
    <3>3. CASE i # Len(done) + 1
      <4>1. i \in 1..Len(done)
        BY <2>8, <3>1, <3>3
      <4> QED BY <1>3, <2>8, <4>1 DEF Fits
    <3> QED BY <3>2, <3>3
  <2>13. send_buff' \in Seq(AnyCell) /\ Len(writers') <= MaxDepth
    BY <1>3, <2>7, <2>9, PacketConstants
  <2> QED BY <2>8, <2>9, <2>10, <2>11, <2>12, <2>13, NewInv
<1>7. CASE Inner.flushed /\ Top # 1
  <2> DEFINE m == Top - 1
             V == Upto(done, writers, m - 1)
             around == writers[m].cells
             z == <<Mark>> \o around
  <2>1. own = <<>> /\ done' = done
    BY <1>1, <1>4, <1>7
  <2>2. send_buff = U
    BY <1>2, <2>1, JoinIs
  <2>3. m \in Nat /\ m \in 1..Len(writers) /\ m <= Len(writers) /\ m # 0 /\ m < Len(writers) /\ Top > 1
        /\ m - 1 \in Nat /\ m - 1 <= Len(writers) /\ Top - 2 = m - 1
    BY <1>2, <1>3, <1>7
  <2>4. ~writers[m].flushed
    BY <1>3, <2>3 DEF Nested
  <2>5. U = Join(V, z) /\ V \in Seq(AnyCell)
    <3>1. Upto(done, writers, m) = Join(Upto(done, writers, m - 1), OwnOf(writers, m))
      BY <1>3, <2>3, UptoStep
    <3>2. Upto(done, writers, m - 1) \in Seq(AnyCell)
      BY <1>3, <2>3, UptoStep
    <3>3. OwnOf(writers, m) = z
      BY <1>3, <2>3, <2>4, OwnIs
    <3> QED BY <3>1, <3>2, <3>3
  <2>6. Len(V) + 1 <= Inner.head /\ Inner.head < Len(U) /\ Inner.head \in Nat
    <3>1. Inner.head \in Nat
      BY <1>1, InnerIs
    <3> QED BY <1>2, <1>3, <1>7, <2>3, <3>1 DEF Placed
  <2>7. around \in Seq(PacketCell)
    BY <1>3, <2>3, WriterIs
  <2>8. z \in Seq(AnyCell) /\ Len(z) = Len(around) + 1 /\ Len(around) \in Nat /\ \A i \in 1..Len(around) : z[i + 1] = around[i]
    BY <2>7, MarkedIs
  <2> HIDE DEF m, V, around, z, U
  <2>9. Len(U) = Len(V) + Len(z) /\ Len(V) \in Nat
    BY <2>5, <2>8, JoinIs
  <2> DEFINE i == Inner.head - Len(V)
  <2>10. i \in 1..Len(around) /\ i + 1 \in 1..Len(z) /\ Len(V) + (i + 1) = Inner.head + 1
    BY <2>6, <2>8, <2>9
  <2> HIDE DEF i
  <2>11. send_buff[Inner.head + 1] = around[i]
    <3> DEFINE h == i + 1
    <3>0. h \in 1..Len(z) /\ z \in Seq(AnyCell) /\ V \in Seq(AnyCell)
      BY <2>5, <2>8, <2>10
    <3> HIDE DEF h
    <3>1. Join(V, z)[Len(V) + h] = z[h]
      BY <3>0, JoinAt
    <3> USE DEF h
    <3> QED BY <2>2, <2>5, <2>8, <2>10, <3>1
  <2>12. around[i] # Mark
    BY <2>7, <2>10, NoMark
  <2>13. send_buff' = send_buff
    BY <1>1, <2>11, <2>12
  <2>14. send_buff' = Upto(done, writers, Top - 1)
    BY <2>2, <2>13 DEF U
  <2> QED BY <1>1, <2>1, <2>14, Popped
<1> QED BY <1>2, <1>5, <1>6, <1>7

LEMMA PacketInvInit ==
  ASSUME PacketInit
  PROVE  PacketInv
<1>1. send_buff = <<>> /\ writers = <<>> /\ done = <<>>
  BY DEF PacketInit
<1>2. /\ send_buff \in Seq(AnyCell) /\ writers \in Seq(WriterShape) /\ done \in Seq(DoneShape)
      /\ Len(writers) = 0 /\ Len(done) = 0
  BY <1>1, EmptySeq
<1>3. 0 \in Nat /\ 0 <= Len(writers) /\ 0 <= Len(done) /\ Top = 0 /\ 0 <= MaxDepth
  BY <1>2, PacketConstants DEF Top
<1>4. Upto(done, writers, 0) = FlattenSeq(Frames(done, Len(done)))
  BY <1>2, <1>3, UptoStep
<1>5. Frames(done, 0) \in Seq(Seq(AnyCell)) /\ Len(Frames(done, 0)) = 0
  BY <1>2, <1>3, FramesSeq
<1>6. Frames(done, 0) = <<>>
  BY <1>5, EmptySeq
<1>7. FlattenSeq(<<>>) = <<>>
  BY <1>5, FlattenType
<1>8. send_buff = Upto(done, writers, Top)
  BY <1>1, <1>2, <1>3, <1>4, <1>6, <1>7
<1>9. Nested(writers) /\ Placed(done, writers) /\ Fits(done)
  BY <1>2 DEF Nested, Placed, Fits
<1> QED BY <1>2, <1>3, <1>8, <1>9 DEF PacketInv, PacketShape

LEMMA PacketInvNext ==
  ASSUME PacketInv, [PacketNext]_packetVars
  PROVE  PacketInv'
<1>1. CASE UNCHANGED packetVars
  <2>1. send_buff' = send_buff /\ writers' = writers /\ done' = done
    BY <1>1 DEF packetVars
  <2> QED BY <2>1 DEF PacketInv, PacketShape, Top
<1>2. CASE Open
  BY <1>2, OpenStep
<1>3. CASE OpenInside
  BY <1>3, OpenInsideStep
<1>4. CASE flush
  BY <1>4, FlushStep
<1>5. CASE Destroy
  BY <1>5, DestroyStep
<1>6. CASE \E v \in Value : Put(v)
  BY <1>6, PutStep
<1> QED BY <1>1, <1>2, <1>3, <1>4, <1>5, <1>6 DEF PacketNext

LEMMA PacketInvHolds == PacketSpec => []PacketInv
<1>1. PacketInit => PacketInv
  BY PacketInvInit
<1>2. PacketInv /\ [PacketNext]_packetVars => PacketInv'
  BY PacketInvNext
<1> QED BY <1>1, <1>2, PTL DEF PacketSpec

\* send_buff_ holds exactly the packets that were sent and what the writers in
\* use have written, at any depth of packets inside packets: flush() fills in
\* every length, and ~writer() takes back what was not flushed and nothing else.
THEOREM ExactHolds == PacketSpec => []Exact
<1>1. ASSUME PacketInv PROVE Exact
  <2>1. send_buff = Upto(done, writers, Top)
    BY <1>1 DEF PacketInv
  <2>2. Sent(Len(done)) = FlattenSeq(Frames(done, Len(done)))
    BY DEF Sent, Frames
  <2>3. send_buff = FlattenSeq(Frames(done, Len(done))) \o FlattenSeq(Owned(writers, Top))
    BY <2>1 DEF Upto, Join
  <2> QED BY <2>2, <2>3 DEF Exact, Owned, OwnOf
<1> QED BY <1>1, PacketInvHolds, PTL

-----------------------------------------------------------------------------
(* What the peer reads                                                     *)

\* The first n of some packets, each with its length in front, and their cells.
FramedAll(s, n) == [i \in 1..n |-> Framed(s[i])]
InFront(s, n) == FlattenSeq(FramedAll(s, n))

LEMMA FramedAllIs ==
  ASSUME NEW s \in Seq(Seq(PacketCell)), NEW n \in Nat, n <= Len(s)
  PROVE  /\ FramedAll(s, n) \in Seq(Seq(PacketCell)) /\ Len(FramedAll(s, n)) = n
         /\ \A i \in 1..n : FramedAll(s, n)[i] = Framed(s[i]) /\ s[i] \in Seq(PacketCell)
<1> DEFINE T == Seq(PacketCell)
           f == FramedAll(s, n)
<1>1. \A i \in 1..n : s[i] \in T
  <2> TAKE i \in 1..n
  <2>1. Len(s) \in Nat
    BY LenProperties
  <2>2. i \in 1..Len(s)
    BY <2>1
  <2> QED BY <2>2, ElementOfSeq
<1>2. \A i \in 1..n : Framed(s[i]) \in T
  BY <1>1, FramedIs
<1>3. f \in [1..n -> T] /\ \A i \in 1..n : f[i] = Framed(s[i])
  BY <1>2 DEF FramedAll
<1> HIDE DEF T, f
<1>4. f \in Seq(T) /\ Len(f) = n
  BY <1>3, FunctionIsSeq
<1> QED BY <1>1, <1>3, <1>4 DEF f, T

\* The first n - 1 are the first of the first n, and so on.
LEMMA FramedSplit ==
  ASSUME NEW s \in Seq(Seq(PacketCell)), NEW n \in Nat, n <= Len(s), NEW k \in Nat, k <= n
  PROVE  \E t \in Seq(Seq(PacketCell)) : FramedAll(s, n) = FramedAll(s, k) \o t
<1> DEFINE T == Seq(PacketCell)
           f == FramedAll(s, n)
           g == FramedAll(s, k)
           h == SubSeq(f, 1, k)
           t == SubSeq(f, k + 1, n)
<1>1. f \in Seq(T) /\ Len(f) = n /\ \A i \in 1..n : f[i] = Framed(s[i])
  BY FramedAllIs
<1>2. g \in Seq(T) /\ Len(g) = k /\ \A i \in 1..k : g[i] = Framed(s[i])
  <2>1. k <= Len(s)
    <3>1. Len(s) \in Nat
      BY LenProperties
    <3> QED BY <3>1
  <2> QED BY <2>1, FramedAllIs
<1> HIDE DEF f, g, T
<1>3. /\ h \in Seq(T) /\ Len(h) = k /\ \A i \in 1..k : h[i] = f[i]
      /\ t \in Seq(T)
  BY <1>1, Halves
<1>4. k \in 0..Len(f)
  BY <1>1
<1>5. f = h \o t
  BY <1>1, <1>4, TwoParts
<1> HIDE DEF h, t
<1>6. \A i \in 1..Len(h) : h[i] = g[i] /\ Len(h) = Len(g)
  <2> TAKE i \in 1..Len(h)
  <2>1. i \in 1..k /\ i \in 1..n
    BY <1>3
  <2> QED BY <1>1, <1>2, <1>3, <2>1
<1>7. h = g
  BY <1>2, <1>3, <1>6, SeqEqual
<1> QED BY <1>3, <1>5, <1>7 DEF f, g, T

LEMMA InFrontIs ==
  ASSUME NEW s \in Seq(Seq(PacketCell)), NEW n \in Nat, n <= Len(s)
  PROVE  /\ InFront(s, n) \in Seq(PacketCell) /\ Len(InFront(s, n)) \in Nat
         /\ n = 0 => InFront(s, n) = <<>>
         /\ n # 0 => /\ InFront(s, n) = Join(InFront(s, n - 1), Framed(s[n]))
                     /\ Len(InFront(s, n)) = Len(InFront(s, n - 1)) + Len(s[n]) + 1
                     /\ Len(InFront(s, n - 1)) \in Nat /\ Len(s[n]) \in Nat
<1> DEFINE T == Seq(PacketCell)
           f == FramedAll(s, n)
<1>1. f \in Seq(T) /\ Len(f) = n /\ \A i \in 1..n : f[i] = Framed(s[i]) /\ s[i] \in T
  BY FramedAllIs
<1>2. InFront(s, n) \in T /\ Len(InFront(s, n)) \in Nat
  <2>1. FlattenSeq(f) \in T
    BY <1>1, FlattenType
  <2> QED BY <2>1, LenProperties DEF InFront
<1>3. ASSUME n = 0 PROVE InFront(s, n) = <<>>
  <2>1. f = <<>>
    BY <1>1, <1>3, EmptySeq
  <2> QED BY <1>1, <2>1, FlattenType DEF InFront
<1>4. ASSUME n # 0
      PROVE  /\ InFront(s, n) = Join(InFront(s, n - 1), Framed(s[n]))
             /\ Len(InFront(s, n)) = Len(InFront(s, n - 1)) + Len(s[n]) + 1
             /\ Len(InFront(s, n - 1)) \in Nat /\ Len(s[n]) \in Nat
  <2> DEFINE m == n - 1
             g == FramedAll(s, m)
             x == Framed(s[n])
             a == Append(g, x)
  <2>1. m \in Nat /\ m <= Len(s) /\ n \in 1..n /\ m + 1 = n
    <3>1. Len(s) \in Nat
      BY LenProperties
    <3> QED BY <1>4, <3>1
  <2> HIDE DEF m
  <2>2. g \in Seq(T) /\ Len(g) = m /\ \A i \in 1..m : g[i] = Framed(s[i])
    BY <2>1, FramedAllIs
  <2>3. s[n] \in T
    BY <1>1, <2>1
  <2>4. x \in T /\ Len(x) = Len(s[n]) + 1 /\ Len(s[n]) \in Nat
    BY <2>3, FramedIs
  <2> HIDE DEF g, x, f
  <2>5. a \in Seq(T) /\ Len(a) = m + 1 /\ a[m + 1] = x /\ \A i \in 1..m : a[i] = g[i]
    <3> HIDE DEF T
    <3> QED BY <2>2, <2>4, AppendProperties
  <2> HIDE DEF a
  <2>6. \A i \in 1..Len(a) : a[i] = f[i]
    <3> TAKE i \in 1..Len(a)
    <3>1. i \in 1..n /\ (i = n \/ i \in 1..m)
      BY <2>1, <2>5
    <3> QED BY <1>1, <2>1, <2>2, <2>5, <3>1 DEF x
  <2>7. a = f
    <3> HIDE DEF T
    <3> QED BY <1>1, <2>1, <2>5, <2>6, SeqEqual
  <2>8. FlattenSeq(a) = Join(FlattenSeq(g), x) /\ FlattenSeq(g) \in T
    BY <2>2, <2>4, FlattenAppend, FlattenType DEF a, Join
  <2>9. Len(Join(FlattenSeq(g), x)) = Len(FlattenSeq(g)) + Len(x) /\ Len(FlattenSeq(g)) \in Nat
    BY <2>4, <2>8, JoinIs
  <2>10. InFront(s, n) = Join(InFront(s, m), x) /\ InFront(s, m) = FlattenSeq(g)
    BY <2>7, <2>8 DEF InFront, f, g
  <2>11. Len(InFront(s, n)) = Len(InFront(s, m)) + Len(s[n]) + 1 /\ Len(InFront(s, m)) \in Nat
    BY <2>4, <2>9, <2>10
  <2> QED BY <2>4, <2>10, <2>11 DEF m, x
<1> QED BY <1>2, <1>3, <1>4

\* The k-th of the packets at the front of a packet.
LEMMA InsideAt ==
  ASSUME NEW s \in Seq(Seq(PacketCell)), NEW c \in Seq(PacketCell),
         IsPrefix(InFront(s, Len(s)), c), NEW k \in 1..Len(s)
  PROVE  /\ Len(InFront(s, k - 1)) \in Nat /\ Len(s[k]) \in Nat
         /\ Len(InFront(s, k)) = Len(InFront(s, k - 1)) + Len(s[k]) + 1
         /\ Len(InFront(s, k)) <= Len(c) /\ Len(c) \in Nat
         /\ c[Len(InFront(s, k - 1)) + 1] = Len(s[k])
         /\ Len(s[k]) # 0 => c[Len(InFront(s, k - 1)) + 2] = s[k][1]
<1> DEFINE n == Len(s)
           T == Seq(PacketCell)
           A == InFront(s, k - 1)
           B == InFront(s, k)
           E == InFront(s, n)
           x == s[k]
<1>1. n \in Nat /\ n <= n /\ k \in Nat /\ k # 0 /\ k <= n /\ k - 1 \in Nat /\ k - 1 <= n
  BY LenProperties
<1>2. x \in T
  BY ElementOfSeq
<1> HIDE DEF n
<1>3. E \in T /\ B \in T /\ A \in T
  BY <1>1, InFrontIs DEF n
<1>4. B = Join(A, Framed(x)) /\ Len(B) = Len(A) + Len(x) + 1 /\ Len(A) \in Nat /\ Len(x) \in Nat
  BY <1>1, InFrontIs DEF n
<1>5. PICK t \in Seq(T) : FramedAll(s, n) = FramedAll(s, k) \o t
  BY <1>1, FramedSplit DEF n
<1>6. E = Join(B, FlattenSeq(t)) /\ FlattenSeq(t) \in T
  <2>1. FramedAll(s, k) \in Seq(T)
    BY <1>1, FramedAllIs DEF n
  <2>2. FlattenSeq(FramedAll(s, k) \o t) = FlattenSeq(FramedAll(s, k)) \o FlattenSeq(t)
    BY <1>5, <2>1, FlattenConcat
  <2>3. FlattenSeq(t) \in T
    BY <1>5, FlattenType
  <2> QED BY <1>5, <2>2, <2>3 DEF InFront, Join
<1>7. Len(E) <= Len(c) /\ \A i \in 1..Len(E) : E[i] = c[i]
  <2>1. IsPrefix(E, c)
    BY DEF n
  <2> HIDE DEF E
  <2> QED BY <1>3, <2>1, PrefixIs
<1>8. /\ Len(Framed(x)) = Len(x) + 1 /\ Framed(x)[1] = Len(x) /\ Framed(x) \in T
      /\ \A i \in 1..Len(x) : Framed(x)[i + 1] = x[i]
  BY <1>2, FramedIs
<1> DEFINE y == Framed(x)
           z == FlattenSeq(t)
<1> HIDE DEF A, B, E, x, y, z, T
<1>9. Len(E) = Len(B) + Len(z) /\ Len(B) \in Nat /\ Len(z) \in Nat /\ \A i \in 1..Len(B) : E[i] = B[i]
  BY <1>3, <1>6, JoinIs DEF T, z
<1>10. \A i \in 1..Len(y) : B[Len(A) + i] = y[i]
  <2>1. A \in T /\ y \in T /\ B = Join(A, y)
    BY <1>3, <1>4, <1>8 DEF y
  <2> QED BY <2>1, JoinAt DEF T
<1>11. Len(c) \in Nat /\ Len(B) <= Len(c)
  <2>1. Len(c) \in Nat
    BY LenProperties
  <2> QED BY <1>7, <1>9, <2>1
<1>12. \A i \in 1..Len(y) : c[Len(A) + i] = y[i]
  <2> TAKE i \in 1..Len(y)
  <2>1. Len(A) + i \in 1..Len(B) /\ Len(A) + i \in 1..Len(E)
    BY <1>4, <1>8, <1>9 DEF y
  <2> QED BY <1>7, <1>9, <1>10, <2>1
<1>13. c[Len(A) + 1] = Len(x)
  <2>1. 1 \in 1..Len(y)
    BY <1>4, <1>8 DEF y
  <2> QED BY <1>8, <1>12, <2>1 DEF y
<1>14. ASSUME Len(x) # 0 PROVE c[Len(A) + 2] = x[1]
  <2>1. 2 \in 1..Len(y) /\ 1 \in 1..Len(x) /\ 1 + 1 = 2
    BY <1>4, <1>8, <1>14 DEF y
  <2>2. y[1 + 1] = x[1]
    BY <1>8, <2>1 DEF y
  <2> QED BY <1>12, <2>1, <2>2
<1> QED BY <1>4, <1>11, <1>13, <1>14 DEF A, B, x

LEMMA BehindIs ==
  ASSUME NEW S, NEW x \in Seq(S), NEW y \in Seq(S)
  PROVE  SubSeq(Join(x, y), Len(x) + 1, Len(Join(x, y))) = y
<1> DEFINE j == Join(x, y)
           m == Len(x)
           n == Len(j)
           s == SubSeq(j, m + 1, n)
<1>1. j \in Seq(S) /\ n = m + Len(y) /\ m \in Nat /\ Len(y) \in Nat
  BY JoinIs
<1>2. \A i \in 1..Len(y) : j[m + i] = y[i]
  BY JoinAt
<1> HIDE DEF j, m
<1>3. n \in Nat /\ m <= n /\ n - m = Len(y)
  BY <1>1
<1> HIDE DEF n
<1>4. s \in Seq(S) /\ Len(s) = n - m /\ \A i \in 1..n - m : s[i] = j[m + i]
  BY <1>1, <1>3, Halves DEF n
<1> HIDE DEF s
<1>5. s = y
  BY <1>2, <1>3, <1>4, SeqEqual
<1> QED BY <1>5 DEF s, j, m, n

\* The i-th packet sent and what is behind it.
LEMMA BuffIs ==
  ASSUME PacketInv, writers = <<>>, NEW i \in 1..Len(done)
  PROVE  /\ done[i].cells \in Seq(PacketCell) /\ done[i].inside \in Seq(Seq(PacketCell))
         /\ Len(done[i].cells) < Width
         /\ \E z \in Seq(AnyCell) :
              SubSeq(send_buff, Len(Sent(i - 1)) + 1, Len(send_buff))
                = Join(Framed(done[i].cells), z)
<1> DEFINE n == Len(done)
           d == done
           T == Seq(AnyCell)
           f == Frames(d, n)
           m == i - 1
           g == Frames(d, m)
           h == SubSeq(f, 1, m)
           t == SubSeq(f, m + 1, n)
<1>1. d \in Seq(DoneShape) /\ Fits(d) /\ send_buff = Upto(d, writers, 0) /\ writers \in Seq(WriterShape)
  <2>1. Top = 0
    BY EmptySeq DEF Top
  <2> QED BY <2>1, PacketTypes
<1>2. n \in Nat /\ n <= n /\ m \in Nat /\ m <= n /\ m + 1 = i /\ i \in 1..n /\ 1 \in 1..n - m /\ m + 1 <= n
  <2>1. n \in Nat
    BY <1>1, LenProperties
  <2> QED BY <2>1
<1>3. send_buff = FlattenSeq(f)
  <2>1. 0 \in Nat /\ 0 <= Len(writers)
    <3>1. Len(writers) \in Nat
      BY <1>1, LenProperties
    <3> QED BY <3>1
  <2> QED BY <1>1, <2>1, UptoStep
<1>4. /\ f \in Seq(T) /\ Len(f) = n
      /\ \A k \in 1..n : f[k] = Framed(d[k].cells) /\ d[k].cells \in Seq(PacketCell)
                         /\ d[k].inside \in Seq(Seq(PacketCell))
  BY <1>1, <1>2, FramesSeq
<1>5. g \in Seq(T) /\ Len(g) = m /\ \A k \in 1..m : g[k] = Framed(d[k].cells)
  BY <1>1, <1>2, FramesSeq
<1>6. Sent(i - 1) = FlattenSeq(g)
  BY DEF Sent, Frames
<1> HIDE DEF n, m, f, g, T
<1>7. /\ h \in Seq(T) /\ Len(h) = m /\ \A k \in 1..m : h[k] = f[k]
      /\ t \in Seq(T) /\ Len(t) = n - m /\ \A k \in 1..n - m : t[k] = f[m + k]
  BY <1>2, <1>4, Halves
<1>8. f = h \o t
  <2>1. m \in 0..Len(f)
    BY <1>2, <1>4
  <2> QED BY <1>4, <2>1, TwoParts
<1> HIDE DEF h, t
<1>9. h = g
  <2>1. \A k \in 1..Len(h) : h[k] = g[k]
    <3> TAKE k \in 1..Len(h)
    <3>1. k \in 1..m /\ k \in 1..n
      BY <1>2, <1>7
    <3> QED BY <1>4, <1>5, <1>7, <3>1
  <2> QED BY <1>5, <1>7, <2>1, SeqEqual
<1>10. t # <<>> /\ t[1] = Framed(d[i].cells)
  <2>1. Len(t) # 0
    BY <1>2, <1>7
  <2>2. t # <<>>
    BY <2>1, EmptySeq
  <2>3. t[1] = f[i]
    BY <1>2, <1>7
  <2> QED BY <1>2, <1>4, <2>2, <2>3
<1>11. Tail(t) \in Seq(T) /\ FlattenSeq(t) = Head(t) \o FlattenSeq(Tail(t)) /\ Head(t) = t[1]
  <2>1. Head(t) = t[1]
    OBVIOUS
  <2>2. t \in Seq(Seq(AnyCell)) /\ t # <<>>
    BY <1>7, <1>10 DEF T
  <2>3. Tail(t) \in Seq(Seq(AnyCell)) /\ FlattenSeq(t) = Head(t) \o FlattenSeq(Tail(t))
    BY <2>2, FlattenFirst
  <2> QED BY <2>1, <2>3 DEF T
<1> DEFINE z == FlattenSeq(Tail(t))
           x == FlattenSeq(g)
           y == FlattenSeq(t)
<1>12. z \in T /\ x \in T /\ y \in T
  BY <1>5, <1>7, <1>11, FlattenType DEF T
<1>13. y = Join(Framed(d[i].cells), z)
  BY <1>10, <1>11 DEF Join
<1>14. send_buff = Join(x, y)
  BY <1>3, <1>5, <1>7, <1>8, <1>9, FlattenConcat DEF T, Join
<1> HIDE DEF x, y, z
<1>15. SubSeq(Join(x, y), Len(x) + 1, Len(Join(x, y))) = y
  BY <1>12, BehindIs DEF T
<1>16. SubSeq(send_buff, Len(Sent(i - 1)) + 1, Len(send_buff)) = Join(Framed(d[i].cells), z)
  BY <1>6, <1>13, <1>14, <1>15 DEF x
<1>17. Len(d[i].cells) < Width
  BY <1>1, <1>2 DEF Fits, n
<1> HIDE DEF d
<1>18. d[i].cells \in Seq(PacketCell) /\ d[i].inside \in Seq(Seq(PacketCell)) /\ z \in Seq(AnyCell)
  BY <1>2, <1>4, <1>12 DEF T
<1> QED BY <1>16, <1>17, <1>18 DEF d

\* A packet at the front of recv_buff_.
LEMMA FrontCells ==
  ASSUME NEW c \in Seq(PacketCell), NEW z \in Seq(AnyCell), NEW buff, buff = Join(Framed(c), z)
  PROVE  /\ buff \in Seq(AnyCell) /\ Len(c) \in Nat /\ Len(buff) \in Nat /\ Len(c) + 1 <= Len(buff)
         /\ buff[1] = Len(c) /\ \A i \in 1..Len(c) : buff[i + 1] = c[i]
<1> DEFINE x == Framed(c)
<1>1. /\ x \in Seq(AnyCell) /\ Len(x) = Len(c) + 1 /\ x[1] = Len(c)
      /\ \A i \in 1..Len(c) : x[i + 1] = c[i]
  BY FramedIs
<1>2. Len(c) \in Nat
  BY LenProperties
<1>3. buff = Join(x, z)
  OBVIOUS
<1> HIDE DEF x
<1>4. x \in Seq(AnyCell)
  BY <1>1
<1>5. /\ Join(x, z) \in Seq(AnyCell) /\ Len(Join(x, z)) = Len(x) + Len(z) /\ Len(z) \in Nat
      /\ \A i \in 1..Len(x) : Join(x, z)[i] = x[i]
  BY <1>4, JoinIs
<1>6. 1 \in 1..Len(x) /\ \A i \in 1..Len(c) : i + 1 \in 1..Len(x)
  BY <1>1, <1>2
<1>7. Len(buff) \in Nat /\ Len(c) + 1 <= Len(buff)
  BY <1>1, <1>2, <1>3, <1>5
<1>8. buff[1] = Len(c) /\ \A i \in 1..Len(c) : buff[i + 1] = c[i]
  BY <1>1, <1>3, <1>5, <1>6
<1> QED BY <1>2, <1>3, <1>5, <1>7, <1>8

LEMMA Below ==
  ASSUME NEW a \in Nat, NEW w \in Nat, a < w
  PROVE  a % w = a
  OBVIOUS

LEMMA PartOfCells ==
  \A q \in Seq(AnyCell) : \A m \in Nat : \A n \in Nat :
    m + n <= Len(q) =>
      /\ SubSeq(q, m + 1, m + n) \in Seq(AnyCell)
      /\ Len(SubSeq(q, m + 1, m + n)) = n
      /\ \A i \in 1..n : SubSeq(q, m + 1, m + n)[i] = q[m + i]
  BY PartOf

\* connection::send of what is left of the packet at the front.
LEMMA SendsRest ==
  ASSUME NEW c \in Seq(PacketCell), NEW z \in Seq(AnyCell), NEW buff, buff = Join(Framed(c), z),
         Len(c) < Width, NEW t \in 1..Len(c) + 1,
         NEW r, r.length = Len(c), r.tail = t
  PROVE  send(buff, r) = Framed(SubSeq(c, t, Len(c)))
<1> DEFINE L == Len(c)
           n == L + 1 - t
           m == t - 1
           u == SubSeq(buff, t + 1, t + n)
           v == SubSeq(c, t, L)
<1>1. /\ buff \in Seq(AnyCell) /\ L \in Nat /\ Len(buff) \in Nat /\ L + 1 <= Len(buff)
      /\ \A i \in 1..L : buff[i + 1] = c[i]
  BY FrontCells
<1>2. Width \in Nat /\ L < Width
  BY PacketConstants
<1> HIDE DEF L
<1>3. /\ n \in Nat /\ n < Width /\ t \in Nat /\ m \in Nat /\ m + 1 = t /\ m <= L /\ L - m = n
      /\ t + n = L + 1 /\ ~(n < 0) /\ ~(t + n > Len(buff)) /\ t + n <= Len(buff)
      /\ \A i \in 1..n : m + i \in 1..L /\ t + i = (m + i) + 1
  BY <1>1, <1>2 DEF L
<1> HIDE DEF n, m
<1>4. u \in Seq(AnyCell) /\ Len(u) = n /\ \A i \in 1..n : u[i] = buff[t + i]
  <2>1. buff \in Seq(AnyCell) /\ t \in Nat /\ n \in Nat /\ t + n <= Len(buff)
    BY <1>1, <1>3
  <2>2. /\ SubSeq(buff, t + 1, t + n) \in Seq(AnyCell) /\ Len(SubSeq(buff, t + 1, t + n)) = n
        /\ \A i \in 1..n : SubSeq(buff, t + 1, t + n)[i] = buff[t + i]
    BY <2>1, PartOfCells
  <2> QED BY <2>2
<1>5. v \in Seq(PacketCell) /\ Len(v) = n /\ \A i \in 1..n : v[i] = c[m + i]
  <2>1. SubSeq(c, m + 1, L) \in Seq(PacketCell) /\ Len(SubSeq(c, m + 1, L)) = L - m
        /\ \A i \in 1..L - m : SubSeq(c, m + 1, L)[i] = c[m + i]
    BY <1>1, <1>3, Halves DEF L
  <2> QED BY <1>3, <2>1
<1> HIDE DEF u, v
<1>6. v \in Seq(AnyCell)
  <2>1. PacketCell \subseteq AnyCell
    BY DEF AnyCell
  <2> QED BY <1>5, <2>1, SeqMonotonic
<1>7. u = v
  <2>1. \A i \in 1..Len(u) : u[i] = v[i]
    <3> TAKE i \in 1..Len(u)
    <3>1. i \in 1..n
      BY <1>4
    <3>2. buff[t + i] = c[m + i]
      BY <1>1, <1>3, <3>1
    <3> QED BY <1>4, <1>5, <3>1, <3>2
  <2> QED BY <1>4, <1>5, <1>6, <2>1, SeqEqual
<1>8. n % Width = n
  BY <1>2, <1>3, Below
<1>9. r.length + 1 - r.tail = n /\ r.tail = t
  BY DEF n, L
<1>10. send(buff, r) = <<n % Width>> \o u
  <2>1. (IF n < 0 \/ t + n > Len(buff) THEN Len(buff) - t ELSE n) = n
    BY <1>3
  <2> QED BY <1>9, <2>1 DEF send, u
<1> QED BY <1>5, <1>7, <1>8, <1>10 DEF Framed, v, L

LEMMA LessWraps ==
  ASSUME NEW w \in Nat, NEW l \in Nat, l < w, NEW t \in 1..w - 1
  PROVE  (l - t) % w # l
<1>1. CASE l - t >= 0
  <2>1. l - t \in Nat /\ l - t < w /\ l - t # l
    BY <1>1
  <2> QED BY <2>1, Below
<1>2. CASE l - t < 0
  <2>1. l - t + w \in Nat /\ l - t + w < w /\ l - t + w # l /\ w > 0 /\ l - t \in Int
    BY <1>2
  <2>2. (l - t) % w = l - t + w
    BY <2>1
  <2> QED BY <2>1, <2>2
<1> QED BY <1>1, <1>2

\* connection::send of a packet inside another: its length is not sent.
LEMMA SendsOther ==
  ASSUME NEW buff \in Seq(AnyCell), NEW t \in 1..Width - 1, t + 1 <= Len(buff),
         NEW x \in Seq(PacketCell), Len(x) < Width,
         NEW r, r.length = Len(x), r.tail = t + 1
  PROVE  send(buff, r) # Framed(x)
<1> DEFINE l == Len(x)
           n == l - t
           k == IF n < 0 \/ t + 1 + n > Len(buff) THEN Len(buff) - (t + 1) ELSE n
           u == SubSeq(buff, t + 1 + 1, t + 1 + k)
           a == n % Width
<1>1. l \in Nat /\ Len(buff) \in Nat /\ Width \in Nat /\ l < Width
  BY LenProperties, PacketConstants
<1>2. r.length + 1 - r.tail = n /\ r.tail = t + 1
  <2> HIDE DEF l
  <2>1. r.length = l
    BY DEF l
  <2> QED BY <1>1, <2>1
<1>3. send(buff, r) = <<a>> \o u
  BY <1>2 DEF send
<1>4. a # l
  BY <1>1, LessWraps
<1> HIDE DEF l, a
<1>5. u \in Seq(AnyCell)
  <2> DEFINE m == t + 1
  <2>1. m \in Nat /\ k \in Nat /\ m + k <= Len(buff)
    <3>1. ASSUME NEW e \in Nat, NEW s \in Nat, s <= e, NEW y \in Int
          PROVE  LET j == IF y < 0 \/ s + y > e THEN e - s ELSE y
                 IN  j \in Nat /\ s + j <= e
      BY <3>1
    <3>2. n \in Int /\ m \in Nat /\ m <= Len(buff)
      BY <1>1
    <3> HIDE DEF n, m
    <3>3. k = IF n < 0 \/ m + n > Len(buff) THEN Len(buff) - m ELSE n
      BY DEF m
    <3> QED BY <1>1, <3>1, <3>2, <3>3
  <2> HIDE DEF m, k
  <2>2. SubSeq(buff, m + 1, m + k) \in Seq(AnyCell)
    BY <2>1, PartOf
  <2> QED BY <2>2 DEF m
<1> HIDE DEF u
<1>6. (<<a>> \o u)[1] = a
  <2> DEFINE S == AnyCell \cup {a}
  <2>1. u \in Seq(S) /\ a \in S
    BY <1>5, SeqMonotonic
  <2> HIDE DEF S
  <2> QED BY <2>1, ConsIs
<1>7. Framed(x)[1] = l
  BY FramedIs DEF l
<1> QED BY <1>3, <1>4, <1>6, <1>7

\* The reader behind the first n packets inside.
Stand(s, L, n) == [head |-> 0, tail |-> 1 + Len(InFront(s, n)), length |-> L]

LEMMA StandIs ==
  ASSUME NEW c \in Seq(PacketCell), NEW z \in Seq(AnyCell), NEW buff, buff = Join(Framed(c), z),
         NEW s \in Seq(Seq(PacketCell)), IsPrefix(InFront(s, Len(s)), c)
  PROVE  /\ Reader(buff) = Stand(s, Len(c), 0)
         /\ \A k \in 1..Len(s) : Skip(buff, Stand(s, Len(c), k - 1)) = Stand(s, Len(c), k)
<1>1. /\ Len(c) \in Nat /\ buff[1] = Len(c) /\ \A i \in 1..Len(c) : buff[i + 1] = c[i]
  BY FrontCells
<1>2. Reader(buff) = Stand(s, Len(c), 0)
  <2>1. Len(InFront(s, 0)) = 0
    <3>1. 0 \in Nat /\ 0 <= Len(s)
      <4>1. Len(s) \in Nat
        BY LenProperties
      <4> QED BY <4>1
    <3> QED BY <3>1, InFrontIs, EmptySeq
  <2> QED BY <1>1, <2>1 DEF Reader, Stand
<1>3. ASSUME NEW k \in 1..Len(s)
      PROVE  Skip(buff, Stand(s, Len(c), k - 1)) = Stand(s, Len(c), k)
  <2> DEFINE g == Len(InFront(s, k - 1))
             h == Len(InFront(s, k))
             l == Len(s[k])
             L == Len(c)
  <2>1. g \in Nat /\ l \in Nat /\ h = g + l + 1 /\ h <= L /\ c[g + 1] = l
    BY InsideAt
  <2>2. Stand(s, L, k - 1) = [head |-> 0, tail |-> 1 + g, length |-> L]
        /\ Stand(s, L, k) = [head |-> 0, tail |-> 1 + h, length |-> L]
    BY DEF Stand
  <2> HIDE DEF g, h, l, L
  <2>3. g + 1 \in 1..L /\ 1 + g = g + 1
    BY <1>1, <2>1 DEF L
  <2>4. buff[(1 + g) + 1] = l
    BY <1>1, <2>1, <2>3 DEF L
  <2>5. (1 + g) + l + 1 = 1 + h
    BY <2>1
  <2>6. Skip(buff, Stand(s, L, k - 1)) = Stand(s, L, k)
    <3> DEFINE t == 1 + g
    <3>1. buff[t + 1] = l /\ t + l + 1 = 1 + h
      BY <2>4, <2>5
    <3>2. Stand(s, L, k - 1) = [head |-> 0, tail |-> t, length |-> L]
      BY <2>2
    <3> HIDE DEF t
    <3>3. Skip(buff, Stand(s, L, k - 1)) = [head |-> 0, tail |-> t + l + 1, length |-> L]
      BY <3>1, <3>2 DEF Skip
    <3> QED BY <2>2, <3>1, <3>3
  <2> QED BY <2>6 DEF L
<1> QED BY <1>2, <1>3

LEMMA AfterIs ==
  ASSUME NEW c \in Seq(PacketCell), NEW z \in Seq(AnyCell), NEW buff, buff = Join(Framed(c), z),
         NEW s \in Seq(Seq(PacketCell)), IsPrefix(InFront(s, Len(s)), c), NEW n \in 0..Len(s)
  PROVE  After(buff, n) = Stand(s, Len(c), n)
<1> DEFINE L == Len(c)
           R == CHOOSE f : f = [k \in 0..n |-> IF k = 0 THEN Reader(buff) ELSE Skip(buff, f[k - 1])]
           g == [k \in 0..n |-> Stand(s, L, k)]
<1>1. After(buff, n) = R[n]
  BY DEF After
<1>2. Reader(buff) = Stand(s, L, 0) /\ \A k \in 1..Len(s) : Skip(buff, Stand(s, L, k - 1)) = Stand(s, L, k)
  BY StandIs
<1>3. n \in Nat /\ 0 \in Nat /\ n \in 0..n /\ 0 \in 0..n
      /\ \A k \in 0..n : k # 0 => k \in 1..Len(s) /\ k - 1 \in 0..n
  <2>1. Len(s) \in Nat
    BY LenProperties
  <2> QED BY <2>1
<1> HIDE DEF L
<1>4. g = [k \in 0..n |-> IF k = 0 THEN Reader(buff) ELSE Skip(buff, g[k - 1])]
  <2>1. ASSUME NEW k \in 0..n
        PROVE  Stand(s, L, k) = IF k = 0 THEN Reader(buff) ELSE Skip(buff, g[k - 1])
    <3>1. CASE k = 0
      BY <1>2, <3>1
    <3>2. CASE k # 0
      <4>1. g[k - 1] = Stand(s, L, k - 1)
        BY <1>3, <3>2
      <4>2. Skip(buff, Stand(s, L, k - 1)) = Stand(s, L, k)
        BY <1>2, <1>3, <3>2
      <4> HIDE DEF g
      <4> QED BY <3>2, <4>1, <4>2
    <3> QED BY <3>1, <3>2
  <2> QED BY <2>1
<1> HIDE DEF g
<1>5. R = [k \in 0..n |-> IF k = 0 THEN Reader(buff) ELSE Skip(buff, R[k - 1])]
  BY <1>4
<1> HIDE DEF R
<1>6. \A k \in 0..n : R[k] = IF k = 0 THEN Reader(buff) ELSE Skip(buff, R[k - 1])
  BY <1>5
<1> DEFINE d == [k \in 0..n |-> R[k] = Stand(s, L, k)]
           Yes == {TRUE}
<1>7. d[0] \in Yes
  BY <1>2, <1>3, <1>6
<1>8. ASSUME NEW k \in 0 + 1..n, d[k - 1] \in Yes PROVE d[k] \in Yes
  <2>1. k \in 0..n /\ k # 0 /\ k - 1 \in 0..n /\ k \in 1..Len(s)
    BY <1>3
  <2>2. R[k - 1] = Stand(s, L, k - 1)
    BY <1>8, <2>1
  <2>3. R[k] = Skip(buff, R[k - 1])
    BY <1>6, <2>1
  <2>4. R[k] = Stand(s, L, k)
    BY <1>2, <2>1, <2>2, <2>3
  <2> QED BY <2>1, <2>4
<1>9. \A k \in 0..n : d[k] \in Yes
  <2> HIDE DEF d, Yes
  <2> QED BY <1>3, <1>7, <1>8, Stays
<1>10. R[n] = Stand(s, L, n)
  BY <1>3, <1>9
<1> QED BY <1>1, <1>10 DEF L

\* What the peer reads of the k-th packet inside, and of the packet.
ReadsInside(buff, c, s, k) ==
  LET r == Enter(buff, After(buff, k - 1))
      rest == After(buff, k)
  IN  /\ r.length = Len(s[k])
      /\ s[k] # <<>> => Get(buff, r) = s[k][1]
      /\ send(buff, rest) = Framed(SubSeq(c, rest.tail, Len(c)))
      /\ send(buff, r) # Framed(s[k])

ReadsPacket(buff, p) ==
  /\ Reader(buff).length = Len(p.cells)
  /\ p.inside = <<>> /\ p.cells # <<>> => Get(buff, Reader(buff)) = p.cells[1]
  /\ send(buff, Reader(buff)) = Framed(p.cells)
  /\ First(p) => \A k \in 1..Len(p.inside) : ReadsInside(buff, p.cells, p.inside, k)

LEMMA InsideIsRead ==
  ASSUME NEW c \in Seq(PacketCell), NEW z \in Seq(AnyCell), NEW buff, buff = Join(Framed(c), z),
         Len(c) < Width, NEW s \in Seq(Seq(PacketCell)), IsPrefix(InFront(s, Len(s)), c),
         NEW k \in 1..Len(s)
  PROVE  ReadsInside(buff, c, s, k)
<1> DEFINE before == After(buff, k - 1)
           r == Enter(buff, before)
           rest == After(buff, k)
           g == Len(InFront(s, k - 1))
           h == Len(InFront(s, k))
           x == s[k]
           L == Len(c)
<1>1. g \in Nat /\ Len(x) \in Nat /\ h = g + Len(x) + 1 /\ h <= L /\ c[g + 1] = Len(x) /\ L \in Nat
      /\ (Len(x) # 0 => c[g + 2] = x[1])
  BY InsideAt
<1>2. /\ buff \in Seq(AnyCell) /\ Len(buff) \in Nat /\ L + 1 <= Len(buff)
      /\ \A i \in 1..L : buff[i + 1] = c[i]
  BY FrontCells
<1>3. k - 1 \in 0..Len(s) /\ k \in 0..Len(s)
  <2>1. Len(s) \in Nat
    BY LenProperties
  <2> QED BY <2>1
<1>4. before = [head |-> 0, tail |-> 1 + g, length |-> L]
      /\ rest = [head |-> 0, tail |-> 1 + h, length |-> L]
  <2>1. After(buff, k - 1) = Stand(s, L, k - 1)
    BY <1>3, AfterIs
  <2>2. After(buff, k) = Stand(s, L, k)
    BY <1>3, AfterIs
  <2> QED BY <2>1, <2>2 DEF Stand
<1> HIDE DEF before, rest
<1>5. x \in Seq(PacketCell)
  BY ElementOfSeq
<1>6. Width \in Nat /\ L < Width
  BY PacketConstants
<1> HIDE DEF g, h, x
<1>7. g + 1 \in 1..L /\ h \in Nat /\ 1 + h \in 1..L + 1 /\ Len(x) < Width /\ 1 + g \in 1..Width - 1
      /\ (1 + g) + 1 <= Len(buff) /\ (Len(x) # 0 => g + 2 \in 1..L)
  <2>1. ASSUME NEW a \in Nat, NEW l \in Nat, NEW n \in Nat, NEW w \in Nat, NEW e \in Nat,
               a + l + 1 <= n, n < w, n + 1 <= e
        PROVE  /\ a + 1 \in 1..n /\ a + l + 1 \in Nat /\ 1 + (a + l + 1) \in 1..n + 1
               /\ l < w /\ 1 + a \in 1..w - 1 /\ (1 + a) + 1 <= e /\ (l # 0 => a + 2 \in 1..n)
    BY <2>1
  <2> DEFINE l == Len(x)
             e == Len(buff)
             w == Width
  <2>2. g \in Nat /\ l \in Nat /\ L \in Nat /\ w \in Nat /\ e \in Nat
        /\ g + l + 1 <= L /\ L < w /\ L + 1 <= e /\ h = g + l + 1
    BY <1>1, <1>2, <1>6
  <2> HIDE DEF L, l, e, w
  <2>3. /\ g + 1 \in 1..L /\ g + l + 1 \in Nat /\ 1 + (g + l + 1) \in 1..L + 1
        /\ l < w /\ 1 + g \in 1..w - 1 /\ (1 + g) + 1 <= e /\ (l # 0 => g + 2 \in 1..L)
    BY <2>1, <2>2
  <2> QED BY <2>2, <2>3 DEF l, e, w
<1>8. buff[(1 + g) + 1] = Len(x)
  <2>1. buff[(g + 1) + 1] = c[g + 1]
    BY <1>2, <1>7
  <2>2. (1 + g) + 1 = (g + 1) + 1
    BY <1>1
  <2> QED BY <1>1, <2>1, <2>2
<1>9. r.length = Len(x) /\ r.tail = (1 + g) + 1
  BY <1>4, <1>8 DEF Enter
<1> HIDE DEF r
<1>10. ASSUME x # <<>> PROVE Get(buff, r) = x[1]
  <2>1. Len(x) # 0
    BY <1>5, <1>10, EmptySeq
  <2>2. buff[(g + 2) + 1] = c[g + 2]
    BY <1>2, <1>7, <2>1
  <2>3. r.tail + 1 = (g + 2) + 1
    BY <1>1, <1>9
  <2> QED BY <1>1, <2>1, <2>2, <2>3 DEF Get
<1>11. send(buff, rest) = Framed(SubSeq(c, rest.tail, L))
  <2> DEFINE t == 1 + h
  <2>1. t \in 1..Len(c) + 1 /\ rest.length = Len(c) /\ rest.tail = t
    BY <1>4, <1>7
  <2> HIDE DEF t, L
  <2>2. send(buff, rest) = Framed(SubSeq(c, t, Len(c)))
    BY <2>1, SendsRest
  <2> QED BY <2>1, <2>2 DEF L
<1>12. send(buff, r) # Framed(x)
  <2> DEFINE t == 1 + g
  <2>1. t \in 1..Width - 1 /\ t + 1 <= Len(buff) /\ Len(x) < Width /\ r.length = Len(x) /\ r.tail = t + 1
    BY <1>7, <1>9
  <2> HIDE DEF t
  <2> QED BY <1>2, <1>5, <2>1, SendsOther
<1> QED BY <1>9, <1>10, <1>11, <1>12 DEF x, r, rest, before, ReadsInside

LEMMA PacketIsRead ==
  ASSUME PacketInv, writers = <<>>, NEW i \in 1..Len(done),
         NEW p, p = done[i],
         NEW buff, buff = SubSeq(send_buff, Len(Sent(i - 1)) + 1, Len(send_buff))
  PROVE  ReadsPacket(buff, p)
<1> DEFINE c == p.cells
           s == p.inside
<1>1. c \in Seq(PacketCell) /\ s \in Seq(Seq(PacketCell)) /\ Len(c) < Width
  BY BuffIs
<1>2. PICK z \in Seq(AnyCell) : buff = Join(Framed(c), z)
  BY BuffIs
<1> HIDE DEF c, s
<1>3. /\ Len(c) \in Nat /\ buff[1] = Len(c) /\ \A j \in 1..Len(c) : buff[j + 1] = c[j]
  BY <1>1, <1>2, FrontCells
<1>4. Reader(buff).length = Len(c) /\ Reader(buff).tail = 1
  BY <1>3 DEF Reader
<1>5. ASSUME c # <<>> PROVE Get(buff, Reader(buff)) = c[1]
  <2>1. Len(c) # 0
    BY <1>1, <1>5, EmptySeq
  <2>2. 1 \in 1..Len(c)
    BY <1>3, <2>1
  <2>3. buff[1 + 1] = c[1]
    BY <1>3, <2>2
  <2> QED BY <1>4, <2>3 DEF Get
<1>6. send(buff, Reader(buff)) = Framed(c)
  <2> DEFINE t == 1
             r == Reader(buff)
  <2>1. t \in 1..Len(c) + 1
    BY <1>3
  <2>2. r.length = Len(c) /\ r.tail = t
    BY <1>4
  <2> HIDE DEF t, r
  <2>3. send(buff, r) = Framed(SubSeq(c, t, Len(c)))
    BY <1>1, <1>2, <2>1, <2>2, SendsRest
  <2>4. SubSeq(c, 1, Len(c)) = c
    BY <1>1, SubSeqFull
  <2> QED BY <2>3, <2>4 DEF t, r
<1>7. ASSUME First(p), NEW k \in 1..Len(s) PROVE ReadsInside(buff, c, s, k)
  <2>1. IsPrefix(InFront(s, Len(s)), c)
    BY <1>7 DEF First, InFront, FramedAll, s, c
  <2> QED BY <1>1, <1>2, <2>1, InsideIsRead
<1> QED BY <1>4, <1>5, <1>6, <1>7 DEF c, s, ReadsPacket

\* The peer reads every packet as it was written: its length, the packets at
\* its front one after the other, each with its values, and the first value
\* behind them.  connection::send passes on what is left of a packet, and never
\* a packet inside another: for lengths that a uint32 holds, the length it sends
\* is never the packet's.
THEOREM PeerReadsHolds == PacketSpec => []PeerReads
<1>1. ASSUME PacketInv PROVE PeerReads
  <2>1. ASSUME writers = <<>>, NEW i \in 1..Len(done)
        PROVE  ReadsPacket(SubSeq(send_buff, Len(Sent(i - 1)) + 1, Len(send_buff)), done[i])
    BY <1>1, <2>1, PacketIsRead
  <2> QED BY <2>1 DEF PeerReads, ReadsPacket, ReadsInside
<1> QED BY <1>1, PacketInvHolds, PTL
=============================================================================
