------------------------- MODULE CircleBufferProofs -------------------------
(***************************************************************************)
(* Proofs about the ring for every size: CircleBuffer, where it is a       *)
(* send_buff_ and packets are written, and PacketStream, where it is a     *)
(* recv_buff_ and packets are read.                                        *)
(*                                                                         *)
(*   Sound      the ring is well formed and a writer's bytes are its last: *)
(*              enough for the refinement of ByteQueue                     *)
(*   Near       tail_ is in the array or just below zero: what write       *)
(*              allows its chunks is then right (WriteSafe)                *)
(*   Words      in a program of words, where words begin (WordsSafe)       *)
(*   StreamInv  no byte is lost (Conserved), what was delivered are the    *)
(*              first packets sent and what is left is less than a packet  *)
(*              (InStep), or over UDP the beginning of one (Datagrams)     *)
(*                                                                         *)
(* First come numbers modulo n and powers of two, then what every member   *)
(* function of the ring does to its contents, then the chunks of write,    *)
(* then the steps of CircleBuffer.  For PacketStream follow recursive      *)
(* functions, FlattenSeq, the bytes of a length, which tell it, what read  *)
(* returns, and the steps.  LeastNat stands for induction: of the numbers  *)
(* a statement fails for, look at the least.  Join is \o under a name of   *)
(* its own, so that a lemma about it can be cited.                         *)
(***************************************************************************)
EXTENDS CircleBuffer, PacketStream, SequenceTheorems, WellFoundedInduction, TLAPS

-----------------------------------------------------------------------------
(* Arithmetic modulo n                                                     *)

LEMMA DivMod ==
  ASSUME NEW n \in Nat \ {0}, NEW x \in Int
  PROVE  /\ x = n * (x \div n) + (x % n)
         /\ x \div n \in Int /\ x % n \in 0..n - 1 /\ x % n \in Int
OBVIOUS

LEMMA ModIs ==
  ASSUME NEW n \in Nat \ {0}, NEW x \in Int, NEW k \in Int, NEW r \in 0..n - 1,
         x = n * k + r
  PROVE  x % n = r
OBVIOUS

LEMMA ModSmall ==
  ASSUME NEW n \in Nat \ {0}, NEW x \in 0..n - 1
  PROVE  x % n = x
OBVIOUS

\* A multiple of n more or less makes no difference.
LEMMA ModShift ==
  ASSUME NEW n \in Nat \ {0}, NEW x \in Int, NEW y \in Int, NEW k \in Int,
         y = x + n * k
  PROVE  y % n = x % n
<1> DEFINE d == x \div n
           r == x % n
<1>1. x = n * d + r /\ d \in Int /\ r \in 0..n - 1
  BY DivMod
<1> HIDE DEF d, r
<1>2. y = n * (d + k) + r /\ d + k \in Int
  BY <1>1
<1>3. y % n = r
  BY <1>1, <1>2, ModIs
<1> QED BY <1>3 DEF r

LEMMA ModWrap ==
  ASSUME NEW n \in Nat \ {0}, NEW x \in Int
  PROVE  (x + n) % n = x % n /\ (x - n) % n = x % n
<1> DEFINE u == x + n
           v == x - n
           j == 1
           k == 0 - 1
<1>1. /\ u \in Int /\ v \in Int /\ j \in Int /\ k \in Int
      /\ u = x + n * j /\ v = x + n * k
  OBVIOUS
<1> HIDE DEF u, v, j, k
<1>2. u % n = x % n
  BY <1>1, ModShift
<1>3. v % n = x % n
  BY <1>1, ModShift
<1> QED BY <1>2, <1>3 DEF u, v

\* A term may be reduced before it is added or subtracted.
LEMMA ModAdd ==
  ASSUME NEW n \in Nat \ {0}, NEW x \in Int, NEW y \in Int
  PROVE  /\ ((x % n) + y) % n = (x + y) % n
         /\ (y + (x % n)) % n = (y + x) % n
         /\ (y - (x % n)) % n = (y - x) % n
<1> DEFINE d == x \div n
           r == x % n
<1>1. x = n * d + r /\ d \in Int /\ r \in Int
  BY DivMod
<1> HIDE DEF d, r
<1> DEFINE u == r + y
           v == x + y
           w == y - r
           z == y - x
<1>2. v = u + n * d /\ w = z + n * d
  BY <1>1
<1>3. u \in Int /\ v \in Int /\ w \in Int /\ z \in Int
  BY <1>1
<1>4. y + r = u /\ y + x = v
  BY <1>1
<1> HIDE DEF u, v, w, z
<1>5. v % n = u % n
  BY <1>1, <1>2, <1>3, ModShift
<1>6. w % n = z % n
  BY <1>1, <1>2, <1>3, ModShift
<1> QED BY <1>4, <1>5, <1>6 DEF r, u, v, w, z

\* A number that was reduced modulo a multiple of n.
LEMMA ModTwice ==
  ASSUME NEW n \in Nat \ {0}, NEW m \in Nat \ {0}, m % n = 0, NEW x \in Int
  PROVE  (x % m) % n = x % n
<1> DEFINE d == x \div m
           r == x % m
           e == m \div n
<1>1. x = m * d + r /\ d \in Int /\ r \in Int
  BY DivMod
<1>2. m = n * e /\ e \in Int
  BY DivMod
<1> HIDE DEF d, r, e
<1>3. x = r + n * (e * d) /\ e * d \in Int
  BY <1>1, <1>2
<1>4. x % n = r % n
  BY <1>1, <1>3, ModShift
<1> QED BY <1>4 DEF r

\* Every set of naturals that is not empty has a least element.
LEMMA LeastNat ==
  ASSUME NEW T, T \subseteq Nat, T # {}
  PROVE  \E x \in T : \A y \in T : x <= y
<1> DEFINE R == OpToRel(<, Nat)
<1>1. \A m, n \in Nat : m < n => <<m, n>> \in R
  BY DEF OpToRel
<1>2. IsWellFoundedOn(R, Nat)
  BY NatLessThanWellFounded
<1> HIDE DEF R
<1>3. PICK x \in T : \A y \in T : ~(<<y, x>> \in R)
  BY <1>2, WFMin
<1>4. \A y \in T : x <= y
  <2> TAKE y \in T
  <2>1. x \in Nat /\ y \in Nat /\ ~(<<y, x>> \in R)
    BY <1>3
  <2>2. ~(y < x)
    BY <1>1, <2>1
  <2> QED BY <2>1, <2>2
<1> QED BY <1>4

-----------------------------------------------------------------------------
(* Powers of two                                                           *)

LEMMA MultMod ==
  ASSUME NEW n \in Nat \ {0}, NEW m \in Int
  PROVE  m % n = 0 <=> \E k \in Int : m = n * k
<1>1. ASSUME m % n = 0 PROVE \E k \in Int : m = n * k
  <2>1. m = n * (m \div n) + 0 /\ m \div n \in Int
    BY <1>1, DivMod
  <2>2. m = n * (m \div n)
    BY <2>1
  <2> QED BY <2>1, <2>2
<1>2. ASSUME NEW k \in Int, m = n * k PROVE m % n = 0
  <2>1. m = n * k + 0 /\ 0 \in 0..n - 1
    BY <1>2
  <2> QED BY <2>1, ModIs
<1> QED BY <1>1, <1>2

LEMMA EvenOdd ==
  ASSUME NEW x \in Int
  PROVE  /\ x % 2 = 0 => \E h \in Int : x = 2 * h
         /\ x % 2 # 0 => \E h \in Int : x = 2 * h + 1
OBVIOUS

\* Four times a power of two is one.
LEMMA PowerTimes4 ==
  ASSUME NEW n \in Nat \ {0}, IsPowerOf2(n)
  PROVE  IsPowerOf2(4 * n)
<1>half. ASSUME NEW d \in Nat \ {0}, d % 2 # 0, NEW y \in Int, (2 * y) % d = 0
         PROVE  y % d = 0
  <2>1. PICK k \in Int : 2 * y = d * k
    BY <1>half, MultMod
  <2>2. PICK h \in Int : d = 2 * h + 1
    BY <1>half, EvenOdd
  <2>3. k % 2 = 0
    <3> SUFFICES ASSUME k % 2 # 0 PROVE FALSE
      OBVIOUS
    <3>1. PICK g \in Int : k = 2 * g + 1
      BY EvenOdd
    <3>2. d * k = 2 * (2 * (h * g) + h + g) + 1
      BY <2>2, <3>1
    <3>3. h * g \in Int
      OBVIOUS
    <3> QED BY <2>1, <3>2, <3>3
  <2>4. PICK g \in Int : k = 2 * g
    BY <2>3, EvenOdd
  <2>5. d * k = 2 * (d * g) /\ d * g \in Int
    BY <2>4
  <2>6. y = d * g
    BY <2>1, <2>5
  <2> QED BY <2>6, MultMod
<1> SUFFICES ASSUME NEW d \in 1..(4 * n), (4 * n) % d = 0, d % 2 # 0 PROVE d = 1
  BY DEF IsPowerOf2
<1>1. (2 * (2 * n)) % d = 0 /\ d \in Nat \ {0} /\ 2 * n \in Int
  OBVIOUS
<1>2. n % d = 0
  <2> DEFINE y == 2 * n
  <2>1. y \in Int /\ n \in Int /\ (2 * y) % d = 0
    BY <1>1
  <2> HIDE DEF y
  <2>2. y % d = 0
    BY <1>1, <2>1, <1>half
  <2>3. (2 * n) % d = 0
    BY <2>2 DEF y
  <2> QED BY <1>1, <2>1, <2>3, <1>half
<1>3. d <= n
  <2>1. PICK k \in Int : n = d * k
    BY <1>2, MultMod
  <2>2. k >= 1
    BY <2>1
  <2> QED BY <2>1, <2>2
<1> QED BY <1>2, <1>3 DEF IsPowerOf2

\* The smaller of two powers of two divides the larger.
LEMMA PowersDivide ==
  ASSUME NEW m \in Nat \ {0}, NEW n \in 1..m, IsPowerOf2(m), IsPowerOf2(n)
  PROVE  m % n = 0
<1> DEFINE T == {x \in Nat \ {0} : IsPowerOf2(x) /\
                   \E y \in 1..x : IsPowerOf2(y) /\ x % y # 0}
<1> SUFFICES ASSUME T # {} PROVE FALSE
  OBVIOUS
<1>1. PICK x \in T : \A z \in T : x <= z
  BY LeastNat
<1>2. PICK y \in 1..x : IsPowerOf2(y) /\ x % y # 0
  OBVIOUS
<1>3. x \in Nat \ {0} /\ y \in Nat \ {0} /\ IsPowerOf2(x)
  OBVIOUS
<1> HIDE DEF T
<1>half. ASSUME NEW p \in Nat \ {0}, IsPowerOf2(p), p # 1
         PROVE  \E h \in 1..p - 1 : p = 2 * h /\ IsPowerOf2(h)
  <2>1. p % p = 0
    <3>1. p = p * 1
      OBVIOUS
    <3> QED BY <3>1, MultMod
  <2>2. p % 2 = 0
    BY <1>half, <2>1 DEF IsPowerOf2
  <2>3. PICK h \in Int : p = 2 * h
    BY <2>2, EvenOdd
  <2>4. h \in 1..p - 1
    BY <2>3
  <2>5. ASSUME NEW d \in 1..h, h % d = 0 PROVE d = 1 \/ d % 2 = 0
    <3>1. PICK k \in Int : h = d * k
      <4>1. d \in Nat \ {0} /\ h \in Int
        OBVIOUS
      <4> QED BY <2>5, <4>1, MultMod
    <3>2. p = d * (2 * k) /\ 2 * k \in Int
      BY <2>3, <3>1
    <3>3. p % d = 0 /\ d \in 1..p
      BY <2>4, <3>2, MultMod
    <3> QED BY <1>half, <3>3 DEF IsPowerOf2
  <2>6. IsPowerOf2(h)
    BY <2>5 DEF IsPowerOf2
  <2> QED BY <2>3, <2>4, <2>6
<1>4. y # 1
  <2> SUFFICES ASSUME y = 1 PROVE FALSE
    OBVIOUS
  <2>1. x % 1 = 0
    BY <1>3
  <2> QED BY <1>2, <2>1
<1>5. x # 1
  BY <1>2, <1>3, <1>4
<1>6. PICK hx \in 1..x - 1 : x = 2 * hx /\ IsPowerOf2(hx)
  BY <1>3, <1>5, <1>half
<1>7. PICK hy \in 1..y - 1 : y = 2 * hy /\ IsPowerOf2(hy)
  BY <1>2, <1>3, <1>4, <1>half
<1>8. hx \in Nat \ {0} /\ hy \in 1..hx
  BY <1>2, <1>6, <1>7
<1>9. hx % hy = 0
  <2>1. hx \notin T
    BY <1>1, <1>3, <1>6
  <2> QED BY <1>6, <1>7, <1>8, <2>1 DEF T
<1>10. PICK k \in Int : hx = hy * k
  <2>1. hy \in Nat \ {0} /\ hx \in Int
    BY <1>8
  <2> QED BY <1>9, <2>1, MultMod
<1>11. x = y * k
  BY <1>6, <1>7, <1>8, <1>10
<1>12. x % y = 0
  BY <1>3, <1>11, MultMod
<1> QED BY <1>2, <1>12

-----------------------------------------------------------------------------
(* The ring                                                                *)

Cell == (0..Values - 1) \cup {Mark, Junk} \cup Byte

RingShape ==
  [size : Nat \ {0}, head : Nat, tail : Nat,
   mem : UNION {[0..n - 1 -> Cell] : n \in Nat}]

\* head_ points into the array; tail_ is any size_t.
Ring(r) ==
  /\ r \in RingShape
  /\ r.size <= MaxSize /\ IsPowerOf2(r.size)
  /\ r.head \in 0..r.size - 1 /\ r.tail \in 0..SizeT - 1
  /\ r.mem \in [0..r.size - 1 -> Cell]

LEMMA RingFacts ==
  ASSUME NEW r, Ring(r)
  PROVE  /\ r.size \in Nat \ {0} /\ r.size \in 1..MaxSize /\ 2 * r.size < SizeT
         /\ r.head \in Nat /\ r.head < r.size /\ r.head \in Int
         /\ r.tail \in Nat /\ r.tail \in Int
         /\ SizeT \in Nat \ {0} /\ SizeT % r.size = 0
         /\ get_count(r) \in Nat /\ get_count(r) <= r.size - 1
         /\ get_count(r) \in 0..r.size - 1
<1> USE CircleConstants
<1>1. /\ r.size \in Nat \ {0} /\ r.size <= MaxSize /\ IsPowerOf2(r.size)
      /\ r.head \in 0..r.size - 1 /\ r.tail \in 0..SizeT - 1
  BY DEF Ring, RingShape
<1>2. 2 * r.size < SizeT /\ SizeT \in Nat \ {0} /\ r.size \in 1..SizeT
  BY <1>1
<1>3. SizeT % r.size = 0
  BY <1>1, <1>2, PowersDivide
<1>4. r.tail - r.head \in Int
  BY <1>1
<1>5. get_count(r) \in 0..r.size - 1
  BY <1>1, <1>4, DivMod DEF get_count, count_between
<1> QED BY <1>1, <1>2, <1>3, <1>5

\* The conversion to int keeps every position in the array.
LEMMA AsIntSmall ==
  ASSUME NEW n \in 0..MaxSize
  PROVE  AsInt(n) = n
<1> USE CircleConstants
<1>1. n \in 0..SizeT - 1 /\ 2 * n < SizeT /\ SizeT \in Nat \ {0}
  OBVIOUS
<1>2. n % SizeT = n
  BY <1>1, ModSmall
<1> QED BY <1>1, <1>2 DEF AsInt

\* continguious_count() is what lies before the end of the array.
LEMMA ContinguiousCount ==
  ASSUME NEW r, Ring(r)
  PROVE  continguious_count(r.head, r.tail, r.size)
           = IF get_count(r) < r.size - r.head THEN get_count(r)
             ELSE r.size - r.head
<1> DEFINE s == r.size
           h == r.head
           t == r.tail
           e == s - h
<1>1. /\ s \in Nat \ {0} /\ s <= MaxSize /\ h \in Nat /\ h < s /\ t \in Int
      /\ MaxSize \in Nat
  BY RingFacts, CircleConstants
<1> HIDE DEF s, h, t
<1>2. e \in 0..MaxSize
  BY <1>1
<1>3. AsInt(e) = e
  BY <1>2, AsIntSmall
<1>4. (t + e) % s = (t - h) % s
  <2> DEFINE x == t - h
  <2>1. t + e = x + s /\ x \in Int
    BY <1>1
  <2> HIDE DEF x, e
  <2>2. (x + s) % s = x % s
    BY <1>1, <2>1, ModWrap
  <2> QED BY <2>1, <2>2 DEF x
<1>5. continguious_count(h, t, s)
        = IF (t - h) % s < e THEN (t - h) % s ELSE e
  <2> HIDE DEF e
  <2> QED BY <1>3, <1>4 DEF continguious_count, e
<1> QED BY <1>5 DEF get_count, count_between, s, h, t

\* Where the live bytes lie.
LEMMA ContentsSeq ==
  ASSUME NEW r, Ring(r)
  PROVE  /\ Contents(r) \in Seq(Cell) /\ Len(Contents(r)) = get_count(r)
         /\ \A i \in 1..get_count(r) :
              /\ (r.head + i - 1) % r.size \in 0..r.size - 1
              /\ Contents(r)[i] = r.mem[(r.head + i - 1) % r.size]
<1> DEFINE n == get_count(r)
<1>1. /\ n \in Nat /\ r.size \in Nat \ {0} /\ r.head \in Int
      /\ r.mem \in [0..r.size - 1 -> Cell]
  BY RingFacts DEF Ring
<1>2. Contents(r) = [i \in 1..n |-> r.mem[(r.head + i - 1) % r.size]]
  BY DEF Contents
<1> HIDE DEF n
<1>3. \A i \in 1..n : (r.head + i - 1) % r.size \in 0..r.size - 1
  <2> TAKE i \in 1..n
  <2>1. r.head + i - 1 \in Int
    BY <1>1
  <2> QED BY <1>1, <2>1, DivMod
<1>4. \A i \in 1..n : r.mem[(r.head + i - 1) % r.size] \in Cell
  BY <1>1, <1>3
<1>5. Contents(r) \in [1..n -> Cell]
  BY <1>2, <1>4
<1>6. Contents(r) \in Seq(Cell) /\ Len(Contents(r)) = n
  BY <1>1, <1>5, SeqDef, LenProperties
<1> QED BY <1>2, <1>3, <1>6 DEF n

\* How to show what a ring holds.
LEMMA ContentsIs ==
  ASSUME NEW r, Ring(r), NEW q \in Seq(Cell), Len(q) = get_count(r),
         \A i \in 1..Len(q) : q[i] = r.mem[(r.head + i - 1) % r.size]
  PROVE  Contents(r) = q
<1> DEFINE C == Contents(r)
<1>1. /\ C \in Seq(Cell) /\ Len(C) = get_count(r)
      /\ \A i \in 1..get_count(r) : C[i] = r.mem[(r.head + i - 1) % r.size]
  BY ContentsSeq
<1> HIDE DEF C
<1>2. \A i \in 1..Len(C) : C[i] = q[i]
  BY <1>1
<1>3. C = q
  BY <1>1, <1>2, SeqEqual
<1> QED BY <1>3 DEF C

\* The cell of the i-th live byte is the only one of its number.
LEMMA CellNumber ==
  ASSUME NEW n \in Nat \ {0}, NEW h \in Int, NEW k \in 0..n - 1
  PROVE  (((h + k) % n) - h) % n = k
<1> DEFINE x == h + k
           m == 0 - h
           y == x % n
<1>1. x \in Int /\ m \in Int /\ x + m = k /\ y \in Int
  BY DivMod
<1>2. y - h = y + m
  BY <1>1
<1>3. (y + m) % n = (x + m) % n
  <2> HIDE DEF x, m
  <2> QED BY <1>1, ModAdd
<1>4. k % n = k
  BY ModSmall
<1> QED BY <1>1, <1>2, <1>3, <1>4

LEMMA ForgetRing ==
  ASSUME NEW r, Ring(r)
  PROVE  /\ Ring(Forget(r)) /\ Contents(Forget(r)) = Contents(r)
         /\ get_count(Forget(r)) = get_count(r)
         /\ Forget(r).size = r.size /\ Forget(r).tail = r.tail
<1> DEFINE n == get_count(r)
           m == [i \in 0..r.size - 1 |->
                   IF (i - r.head) % r.size < n THEN r.mem[i] ELSE Junk]
           f == Forget(r)
<1>1. /\ r \in RingShape /\ r.mem \in [0..r.size - 1 -> Cell]
      /\ r.size \in Nat \ {0} /\ n \in Nat /\ r.head \in Int /\ n <= r.size - 1
  BY RingFacts DEF Ring
<1>2. f = [r EXCEPT !.mem = m]
  BY DEF Forget
<1>3. m \in [0..r.size - 1 -> Cell]
  BY <1>1 DEF Cell
<1>4. \A i \in 1..n : m[(r.head + i - 1) % r.size] = r.mem[(r.head + i - 1) % r.size]
  <2> SUFFICES ASSUME NEW i \in 1..n
               PROVE  m[(r.head + i - 1) % r.size] = r.mem[(r.head + i - 1) % r.size]
    OBVIOUS
  <2> DEFINE k == i - 1
             c == (r.head + k) % r.size
  <2>1. k \in 0..r.size - 1 /\ r.head + i - 1 = r.head + k /\ k < n /\ r.head + k \in Int
    BY <1>1
  <2>2. c \in 0..r.size - 1
    <3> HIDE DEF k
    <3> QED BY <1>1, <2>1, DivMod
  <2>3. (c - r.head) % r.size = k
    <3> HIDE DEF k
    <3> QED BY <1>1, <2>1, CellNumber
  <2> HIDE DEF k, c
  <2>4. m[c] = r.mem[c]
    BY <2>1, <2>2, <2>3
  <2> QED BY <2>1, <2>4 DEF c
<1> HIDE DEF m, f, n
<1>5. f \in RingShape
  <2>1. m \in UNION {[0..k - 1 -> Cell] : k \in Nat}
    BY <1>1, <1>3
  <2> QED BY <1>1, <1>2, <2>1 DEF RingShape
<1>6. /\ f.mem = m /\ f.size = r.size /\ f.head = r.head /\ f.tail = r.tail
  BY <1>1, <1>2 DEF RingShape
<1>7. Ring(f)
  BY <1>3, <1>5, <1>6 DEF Ring
<1>8. get_count(f) = n
  BY <1>6 DEF get_count, n
<1>9. /\ Contents(r) \in Seq(Cell) /\ Len(Contents(r)) = n
      /\ \A i \in 1..n : Contents(r)[i] = r.mem[(r.head + i - 1) % r.size]
  BY ContentsSeq DEF n
<1> DEFINE C == Contents(r)
<1> HIDE DEF C
<1>10. \A i \in 1..Len(C) : C[i] = f.mem[(f.head + i - 1) % f.size]
  BY <1>4, <1>6, <1>9 DEF C
<1>11. Contents(f) = C
  BY <1>7, <1>8, <1>9, <1>10, ContentsIs DEF C
<1> QED BY <1>6, <1>7, <1>8, <1>11 DEF C, f, n

\* remove(n) takes the oldest n bytes.
LEMMA RemoveRing ==
  ASSUME NEW r, Ring(r), NEW n \in 0..get_count(r)
  PROVE  /\ Ring(remove(r, n)) /\ get_count(remove(r, n)) = get_count(r) - n
         /\ remove(r, n).size = r.size /\ remove(r, n).tail = r.tail
         /\ \A i \in 1..get_count(r) - n : Contents(remove(r, n))[i] = Contents(r)[n + i]
<1> DEFINE s == r.size
           h == r.head
           t == r.tail
           c == get_count(r)
           g == (h + n) % s
           f == remove(r, n)
<1>1. /\ r \in RingShape /\ s \in Nat \ {0} /\ h \in Int /\ t \in Int
      /\ c \in Nat /\ c <= s - 1 /\ h + n \in Int /\ t - h \in Int /\ n \in Int
      /\ c \in Int
  BY RingFacts DEF Ring
<1>2. f = [r EXCEPT !.head = g]
  BY <1>1 DEF remove, RingShape
<1>3. g \in 0..s - 1 /\ g \in Nat
  <2> DEFINE x == h + n
  <2> HIDE DEF s, x
  <2>1. x % s \in 0..s - 1
    BY <1>1, DivMod DEF x
  <2> QED BY <1>1, <2>1 DEF x
<1>4. c = (t - h) % s
  BY DEF get_count, count_between
<1> HIDE DEF g, f, c, s, h, t
<1>5. /\ f \in RingShape /\ f.size = r.size /\ f.head = g /\ f.tail = r.tail
      /\ f.mem = r.mem
  BY <1>1, <1>2, <1>3 DEF RingShape
<1>6. Ring(f)
  BY <1>3, <1>5 DEF Ring, s
<1>7. (t - g) % s = c - n
  <2>1. (t - g) % s = (t - (h + n)) % s
    BY <1>1, ModAdd DEF g
  <2> DEFINE x == t - h
             y == 0 - n
  <2>2. t - (h + n) = x + y /\ x \in Int /\ y \in Int /\ c + y = c - n
    BY <1>1
  <2> HIDE DEF x, y
  <2>3. (c + y) % s = (x + y) % s
    BY <1>1, <1>4, <2>2, ModAdd DEF x
  <2>4. c - n \in 0..s - 1
    BY <1>1 DEF c
  <2>5. (c - n) % s = c - n
    BY <1>1, <2>4, ModSmall
  <2> QED BY <2>1, <2>2, <2>3, <2>5
<1>8. get_count(f) = c - n
  BY <1>5, <1>7 DEF get_count, count_between, s, t
<1>9. ASSUME NEW i \in 1..c - n PROVE Contents(f)[i] = Contents(r)[n + i]
  <2>1. Contents(f)[i] = r.mem[(g + i - 1) % s]
    BY <1>5, <1>6, <1>8, ContentsSeq DEF s
  <2>2. n + i \in 1..c
    BY <1>1 DEF c
  <2>3. Contents(r)[n + i] = r.mem[(h + (n + i) - 1) % s]
    BY <2>2, ContentsSeq DEF s, h, c
  <2> DEFINE x == h + n
             y == i - 1
  <2>4. g + i - 1 = g + y /\ h + (n + i) - 1 = x + y /\ x \in Int /\ y \in Int
    BY <1>1, <1>3
  <2>5. (g + y) % s = (x + y) % s
    <3> HIDE DEF y
    <3> QED BY <1>1, <2>4, ModAdd DEF g
  <2> QED BY <2>1, <2>3, <2>4, <2>5
<1> QED BY <1>5, <1>6, <1>8, <1>9 DEF f, c

\* remove_from_back(n) takes the newest, also when tail_ goes below zero.
LEMMA RemoveBackRing ==
  ASSUME NEW r, Ring(r), NEW n \in 0..get_count(r)
  PROVE  /\ Ring(remove_from_back(r, n))
         /\ get_count(remove_from_back(r, n)) = get_count(r) - n
         /\ \A i \in 1..get_count(r) - n :
              Contents(remove_from_back(r, n))[i] = Contents(r)[i]
         /\ remove_from_back(r, n).size = r.size
         /\ remove_from_back(r, n).tail = (r.tail - n) % SizeT
<1> DEFINE s == r.size
           h == r.head
           t == r.tail
           c == get_count(r)
           u == (t - n) % SizeT
           f == remove_from_back(r, n)
<1>1. /\ r \in RingShape /\ s \in Nat \ {0} /\ h \in Int /\ t \in Int
      /\ c \in Nat /\ c <= s - 1 /\ t - n \in Int /\ t - h \in Int /\ n \in Int
      /\ c \in Int /\ SizeT \in Nat \ {0} /\ SizeT % s = 0
  BY RingFacts DEF Ring
<1>2. f = [r EXCEPT !.tail = u]
  BY <1>1 DEF remove_from_back, RingShape
<1>3. u \in 0..SizeT - 1 /\ u \in Nat
  <2> DEFINE x == t - n
  <2> HIDE DEF x
  <2>1. x % SizeT \in 0..SizeT - 1
    BY <1>1, DivMod DEF x
  <2> QED BY <1>1, <2>1 DEF x
<1>4. c = (t - h) % s
  BY DEF get_count, count_between
<1> HIDE DEF u, f, c, s, h, t
<1>5. /\ f \in RingShape /\ f.size = r.size /\ f.head = r.head /\ f.tail = u
      /\ f.mem = r.mem
  BY <1>1, <1>2, <1>3 DEF RingShape
<1>6. Ring(f)
  BY <1>3, <1>5 DEF Ring
<1>7. (u - h) % s = c - n
  <2> DEFINE m == 0 - h
             x == t - n
             y == 0 - n
             z == t - h
  <2>1. /\ u - h = u + m /\ x + m = z + y /\ m \in Int /\ y \in Int /\ x \in Int
        /\ z \in Int /\ c + y = c - n /\ u \in Int
    BY <1>1, <1>3
  <2> HIDE DEF m, x, y, z
  <2>2. u % s = x % s
    BY <1>1, <2>1, ModTwice DEF u, x
  <2>3. (u + m) % s = ((u % s) + m) % s
    <3>1. s \in Nat \ {0} /\ u \in Int /\ m \in Int
      BY <1>1, <2>1
    <3> QED BY <3>1, ModAdd
  <2>4. ((x % s) + m) % s = (x + m) % s
    <3>1. s \in Nat \ {0} /\ x \in Int /\ m \in Int
      BY <1>1, <2>1
    <3> QED BY <3>1, ModAdd
  <2>5. (c + y) % s = (z + y) % s
    <3>1. c = z % s
      BY <1>4 DEF z
    <3>2. ((z % s) + y) % s = (z + y) % s
      <4>1. s \in Nat \ {0} /\ z \in Int /\ y \in Int
        BY <1>1, <2>1
      <4> QED BY <4>1, ModAdd
    <3> QED BY <3>1, <3>2
  <2>6. c - n \in 0..s - 1
    BY <1>1 DEF c
  <2>7. (c - n) % s = c - n
    BY <1>1, <2>6, ModSmall
  <2> QED BY <2>1, <2>2, <2>3, <2>4, <2>5, <2>7
<1>8. get_count(f) = c - n
  BY <1>5, <1>7 DEF get_count, count_between, s, h
<1>9. ASSUME NEW i \in 1..c - n PROVE Contents(f)[i] = Contents(r)[i]
  <2>1. i \in 1..c
    BY <1>1 DEF c
  <2> QED BY <1>5, <1>6, <1>8, <2>1, ContentsSeq DEF c
<1> QED BY <1>5, <1>6, <1>8, <1>9 DEF f, c, u, t

LEMMA ResetRing ==
  ASSUME NEW r, Ring(r)
  PROVE  /\ Ring(reset(r)) /\ get_count(reset(r)) = 0
         /\ reset(r).size = r.size /\ reset(r).tail = 0
<1> DEFINE f == reset(r)
<1>1. /\ r \in RingShape /\ r.size \in Nat \ {0} /\ SizeT \in Nat \ {0}
  BY RingFacts DEF Ring
<1>2. f = [r EXCEPT !.head = 0, !.tail = 0]
  BY DEF reset
<1>3. /\ f \in RingShape /\ f.size = r.size /\ f.head = 0 /\ f.tail = 0
      /\ f.mem = r.mem
  <2>1. 0 \in Nat
    OBVIOUS
  <2>2. f \in RingShape
    BY <1>1, <1>2, <2>1, Zenon DEF RingShape
  <2>3. f.size = r.size /\ f.head = 0 /\ f.tail = 0 /\ f.mem = r.mem
    BY <1>1, <1>2 DEF RingShape
  <2> QED BY <2>2, <2>3
<1> HIDE DEF f
<1>4. Ring(f)
  BY <1>1, <1>3 DEF Ring
<1>5. get_count(f) = 0
  <2>1. 0 - 0 = 0 /\ 0 \in 0..r.size - 1
    BY <1>1
  <2>2. 0 % r.size = 0
    BY <1>1, <2>1, ModSmall
  <2> QED BY <1>3, <2>1, <2>2 DEF get_count, count_between
<1> QED BY <1>3, <1>4, <1>5 DEF f

LEMMA NewRing ==
  Ring(New) /\ get_count(New) = 0 /\ New.size = DefaultSize /\ New.tail = 0
<1> USE CircleConstants
<1> DEFINE m == NewMem(DefaultSize)
<1>1. m \in [0..DefaultSize - 1 -> Cell]
  BY DEF NewMem, Cell
<1> HIDE DEF m
<1>2. m \in UNION {[0..k - 1 -> Cell] : k \in Nat}
  BY <1>1
<1>3. New = [size |-> DefaultSize, head |-> 0, tail |-> 0, mem |-> m]
  BY DEF New, m
<1>4. New \in RingShape
  BY <1>2, <1>3 DEF RingShape
<1>5. New.size = DefaultSize /\ New.head = 0 /\ New.tail = 0 /\ New.mem = m
  BY <1>3
<1>6. 0 \in 0..DefaultSize - 1 /\ 0 \in 0..SizeT - 1 /\ DefaultSize <= MaxSize
  OBVIOUS
<1>7. Ring(New)
  BY <1>1, <1>4, <1>5, <1>6 DEF Ring
<1>8. 0 % DefaultSize = 0 /\ 0 - 0 = 0
  BY <1>6, ModSmall
<1> QED BY <1>5, <1>7, <1>8 DEF get_count, count_between

\* expand() keeps the bytes, wherever they lay, and puts them at the front.
LEMMA ExpandRing ==
  ASSUME NEW r, Ring(r), CanExpand(r)
  PROVE  /\ Ring(expand(r)) /\ Contents(expand(r)) = Contents(r)
         /\ get_count(expand(r)) = get_count(r) /\ expand(r).size = 4 * r.size
         /\ expand(r).head = 0 /\ expand(r).tail = get_count(r)
<1> USE CircleConstants
<1> DEFINE s == r.size
           h == r.head
           c == get_count(r)
           first == MinOf(continguious_count(h, r.tail, s), c)
           rest == (h + first) % s
           m == [i \in 0..4 * s - 1 |->
                   CASE i < first -> r.mem[h + i]
                     [] i >= first /\ i < c -> r.mem[rest + i - first]
                     [] OTHER -> Junk]
           f == expand(r)
<1>1. /\ s \in Nat \ {0} /\ h \in Nat /\ h < s /\ c \in Nat /\ c <= s - 1
      /\ r.mem \in [0..s - 1 -> Cell] /\ IsPowerOf2(s) /\ 4 * s < MaxSize
      /\ 4 * s \in Nat \ {0}
  BY RingFacts DEF Ring, CanExpand
<1>2. f = [size |-> 4 * s, head |-> 0, tail |-> c, mem |-> m]
  BY DEF expand
<1>3. first = IF c < s - h THEN c ELSE s - h
  <2>1. continguious_count(h, r.tail, s) = IF c < s - h THEN c ELSE s - h
    BY ContinguiousCount
  <2> HIDE DEF h, s, c
  <2> QED BY <1>1, <2>1 DEF MinOf
<1> HIDE DEF first, f
<1>4. first \in Nat /\ first <= c /\ first <= s - h
  <2> HIDE DEF s, h, c
  <2> QED BY <1>1, <1>3
<1>5. ASSUME first < c PROVE first = s - h /\ rest = 0
  <2> HIDE DEF s, h, c
  <2>1. first = s - h
    BY <1>1, <1>3, <1>5
  <2>2. h + first = 0 + s
    BY <1>1, <2>1
  <2>3. (0 + s) % s = 0 % s /\ 0 % s = 0
    BY <1>1, ModWrap, ModSmall
  <2> QED BY <2>1, <2>2, <2>3 DEF rest
<1> HIDE DEF rest
<1>6. ASSUME NEW i \in 0..c - 1
      PROVE  (h + i) % s \in 0..s - 1 /\ m[i] = r.mem[(h + i) % s]
  <2> HIDE DEF s, h, c
  <2>1. i \in 0..4 * s - 1 /\ i < c /\ i \in Nat
    BY <1>1
  <2>2. CASE i < first
    <3>1. h + i \in 0..s - 1
      BY <1>1, <1>4, <2>1, <2>2
    <3>2. (h + i) % s = h + i
      BY <1>1, <3>1, ModSmall
    <3>3. m[i] = r.mem[h + i]
      <4>1. ~(i >= first /\ i < c)
        BY <1>4, <2>1, <2>2
      <4> QED BY <2>1, <2>2, <4>1
    <3> QED BY <3>1, <3>2, <3>3
  <2>3. CASE ~(i < first)
    <3>1. first < c /\ i >= first
      BY <1>1, <1>4, <2>1, <2>3
    <3>2. first = s - h /\ rest = 0
      BY <1>5, <3>1
    <3> DEFINE j == i - first
    <3>3. j \in 0..s - 1 /\ h + i = j + s /\ rest + i - first = j
      BY <1>1, <1>4, <2>1, <2>3, <3>2
    <3>4. m[i] = r.mem[rest + i - first]
      BY <2>1, <2>3, <3>1
    <3> HIDE DEF j
    <3>5. (j + s) % s = j % s /\ j % s = j
      BY <1>1, <3>3, ModWrap, ModSmall
    <3> QED BY <3>3, <3>4, <3>5
  <2> QED BY <2>2, <2>3
<1>7. m \in [0..4 * s - 1 -> Cell]
  <2> HIDE DEF s, h, c
  <2> SUFFICES ASSUME NEW i \in 0..4 * s - 1 PROVE m[i] \in Cell
    OBVIOUS
  <2>1. CASE i < c
    <3>1. i \in 0..c - 1
      BY <1>1, <2>1
    <3> QED BY <1>1, <1>6, <3>1
  <2>2. CASE ~(i < c)
    <3>1. ~(i < first) /\ ~(i >= first /\ i < c)
      BY <1>1, <1>4, <2>2
    <3>2. m[i] = Junk
      BY <3>1
    <3> QED BY <3>2 DEF Cell
  <2> QED BY <2>1, <2>2
<1> HIDE DEF m
<1>8. /\ f.size = 4 * s /\ f.head = 0 /\ f.tail = c /\ f.mem = m
  BY <1>2
<1>9. f \in RingShape
  <2>1. m \in UNION {[0..k - 1 -> Cell] : k \in Nat}
    BY <1>1, <1>7
  <2> HIDE DEF s, c
  <2> QED BY <1>1, <1>2, <2>1 DEF RingShape
<1>10. Ring(f)
  <2> HIDE DEF s, c
  <2>1. IsPowerOf2(4 * s)
    BY <1>1, PowerTimes4
  <2>2. 0 \in 0..4 * s - 1 /\ c \in 0..SizeT - 1 /\ 4 * s <= MaxSize
    BY <1>1
  <2> QED BY <1>7, <1>8, <1>9, <2>1, <2>2 DEF Ring
<1>11. get_count(f) = c
  <2> HIDE DEF s, c
  <2>1. c - 0 = c /\ c \in 0..4 * s - 1
    BY <1>1
  <2>2. c % (4 * s) = c
    BY <1>1, <2>1, ModSmall
  <2> QED BY <1>8, <2>1, <2>2 DEF get_count, count_between
<1> DEFINE C == Contents(r)
<1>12. /\ C \in Seq(Cell) /\ Len(C) = c
       /\ \A i \in 1..c : C[i] = r.mem[(h + i - 1) % s]
  BY ContentsSeq
<1> HIDE DEF C, s, h, c
<1>13. ASSUME NEW i \in 1..Len(C) PROVE C[i] = f.mem[(f.head + i - 1) % f.size]
  <2> DEFINE k == i - 1
  <2>1. i \in 1..c /\ k \in 0..c - 1 /\ h + i - 1 = h + k /\ 0 + i - 1 = k
        /\ k \in 0..4 * s - 1
    BY <1>1, <1>12
  <2> HIDE DEF k
  <2>2. k % (4 * s) = k
    BY <1>1, <2>1, ModSmall
  <2>3. m[k] = r.mem[(h + k) % s]
    BY <1>6, <2>1
  <2> QED BY <1>8, <1>12, <2>1, <2>2, <2>3
<1>14. Contents(f) = C
  BY <1>10, <1>11, <1>12, <1>13, ContentsIs
<1> QED BY <1>8, <1>10, <1>11, <1>14 DEF f, C, s, c

-----------------------------------------------------------------------------
(* Growing                                                                 *)

Larger(r) == IF CanExpand(r) THEN expand(r) ELSE r

\* Expanding again and again is well defined.
LEMMA GrowthExists ==
  ASSUME NEW r
  PROVE  \E g : g = [k \in 0..MaxSize |->
                       IF k = 0 THEN r
                       ELSE IF CanExpand(g[k - 1]) THEN expand(g[k - 1]) ELSE g[k - 1]]
<1> USE CircleConstants
<1> DEFINE P(g, n) == g = [k \in 0..n |-> IF k = 0 THEN r ELSE Larger(g[k - 1])]
           T == {n \in 0..MaxSize : ~ \E g : P(g, n)}
<1>1. T = {}
  <2> SUFFICES ASSUME T # {} PROVE FALSE
    OBVIOUS
  <2>1. T \subseteq Nat
    OBVIOUS
  <2>2. PICK n \in T : \A y \in T : n <= y
    <3> HIDE DEF T
    <3> QED BY <2>1, LeastNat
  <2>3. n \in Nat /\ n <= MaxSize /\ ~ \E g : P(g, n)
    OBVIOUS
  <2>4. CASE n = 0
    <3> DEFINE g == [k \in 0..0 |-> r]
    <3>1. P(g, 0)
      OBVIOUS
    <3> QED BY <2>3, <2>4, <3>1
  <2>5. CASE n # 0
    <3>1. n - 1 \in 0..MaxSize /\ n - 1 \notin T
      <4> HIDE DEF T
      <4>1. n - 1 \in 0..MaxSize /\ ~(n <= n - 1)
        BY <2>3, <2>5
      <4> QED BY <2>2, <4>1
    <3>2. PICK g : P(g, n - 1)
      BY <3>1
    <3> DEFINE h == [k \in 0..n |-> IF k = n THEN Larger(g[n - 1]) ELSE g[k]]
    <3>3. \A k \in 0..n - 1 : h[k] = g[k]
      BY <2>3
    <3>4. h[n] = Larger(g[n - 1])
      BY <2>3
    <3>5. \A k \in 0..n : h[k] = IF k = 0 THEN r ELSE Larger(h[k - 1])
      <4> SUFFICES ASSUME NEW k \in 0..n
                   PROVE  h[k] = IF k = 0 THEN r ELSE Larger(h[k - 1])
        OBVIOUS
      <4> HIDE DEF h
      <4>1. CASE k = n
        <5>1. n - 1 \in 0..n - 1
          BY <2>3, <2>5
        <5>2. h[n - 1] = g[n - 1]
          BY <3>3, <5>1
        <5> QED BY <2>5, <3>4, <4>1, <5>2
      <4>2. CASE k # n
        <5>1. k \in 0..n - 1 /\ (k # 0 => k - 1 \in 0..n - 1)
          BY <2>3, <4>2
        <5>2. g[k] = IF k = 0 THEN r ELSE Larger(g[k - 1])
          <6>1. g = [j \in 0..n - 1 |-> IF j = 0 THEN r ELSE Larger(g[j - 1])]
            BY <3>2
          <6> QED BY <5>1, <6>1
        <5> QED BY <3>3, <5>1, <5>2
      <4> QED BY <4>1, <4>2
    <3>6. h = [k \in 0..n |-> IF k = 0 THEN r ELSE Larger(h[k - 1])]
      <4>1. h = [k \in 0..n |-> h[k]]
        OBVIOUS
      <4> HIDE DEF h
      <4> QED BY <3>5, <4>1
    <3> QED BY <2>3, <3>6
  <2> QED BY <2>4, <2>5
<1>2. MaxSize \in 0..MaxSize
  OBVIOUS
<1>3. \E g : P(g, MaxSize)
  BY <1>1, <1>2
<1> QED BY <1>3 DEF Larger

\* Growing keeps the bytes, and stops.
LEMMA GrowSpaceRing ==
  ASSUME NEW r, Ring(r), NEW n \in Nat
  PROVE  LET g == GrowSpace(r, n)
         IN  /\ Ring(g) /\ Contents(g) = Contents(r) /\ get_count(g) = get_count(r)
             /\ g = r \/ (g.size >= 4 * r.size /\ g.head = 0 /\ g.tail = get_count(r))
             /\ HasSpace(r, n) => g = r
<1> USE CircleConstants
<1> DEFINE F == CHOOSE f : f = [k \in 0..MaxSize |->
                       IF k = 0 THEN r
                       ELSE IF CanExpand(f[k - 1]) THEN expand(f[k - 1]) ELSE f[k - 1]]
           Stops(k) == HasSpace(F[k], n) \/ ~CanExpand(F[k])
           K == CHOOSE k \in 0..MaxSize : Stops(k) /\ \A j \in 0..k - 1 : ~Stops(j)
<1>1. GrowSpace(r, n) = F[K]
  BY DEF GrowSpace, Grow
<1>2. F = [k \in 0..MaxSize |-> IF k = 0 THEN r ELSE Larger(F[k - 1])]
  BY GrowthExists DEF Larger
<1> HIDE DEF F
<1>3. F[0] = r
  BY <1>2
<1>4. \A k \in 1..MaxSize : F[k] = Larger(F[k - 1])
  BY <1>2
<1> DEFINE Fine(k) == /\ Ring(F[k]) /\ Contents(F[k]) = Contents(r)
                      /\ get_count(F[k]) = get_count(r)
                      /\ \/ F[k] = r
                         \/ F[k].size >= 4 * r.size /\ F[k].head = 0
                            /\ F[k].tail = get_count(r)
                      /\ F[k].size > k \/ ~CanExpand(F[k])
           T == {k \in 0..MaxSize : ~Fine(k)}
<1>5. T = {}
  <2> SUFFICES ASSUME T # {} PROVE FALSE
    OBVIOUS
  <2>1. PICK k \in T : \A y \in T : k <= y
    <3>1. T \subseteq Nat
      OBVIOUS
    <3> HIDE DEF T
    <3> QED BY <3>1, LeastNat
  <2>2. k \in Nat /\ k <= MaxSize /\ ~Fine(k)
    OBVIOUS
  <2>3. CASE k = 0
    <3>1. r.size > 0
      BY RingFacts
    <3> QED BY <1>3, <2>2, <2>3, <3>1
  <2>4. CASE k # 0
    <3> DEFINE x == F[k - 1]
    <3>1. k - 1 \in 0..MaxSize /\ k - 1 \notin T /\ k \in 1..MaxSize
      BY <2>1, <2>2, <2>4
    <3>2. Fine(k - 1)
      BY <3>1
    <3>3. F[k] = Larger(x)
      BY <1>4, <3>1
    <3> HIDE DEF x
    <3>4. /\ Ring(x) /\ Contents(x) = Contents(r) /\ get_count(x) = get_count(r)
          /\ x = r \/ (x.size >= 4 * r.size /\ x.head = 0 /\ x.tail = get_count(r))
          /\ x.size > k - 1 \/ ~CanExpand(x)
      BY <3>2 DEF x
    <3>5. CASE CanExpand(x)
      <4>1. F[k] = expand(x)
        BY <3>3, <3>5 DEF Larger
      <4>2. /\ Ring(F[k]) /\ Contents(F[k]) = Contents(r)
            /\ get_count(F[k]) = get_count(r) /\ F[k].size = 4 * x.size
            /\ F[k].head = 0 /\ F[k].tail = get_count(r)
        BY <3>4, <3>5, <4>1, ExpandRing
      <4>3. x.size \in Nat \ {0} /\ r.size \in Nat
        BY <3>4, RingFacts
      <4>4. F[k].size >= 4 * r.size /\ F[k].size > k
        BY <2>2, <3>4, <3>5, <4>2, <4>3
      <4> QED BY <2>2, <4>2, <4>4
    <3>6. CASE ~CanExpand(x)
      <4>1. F[k] = x
        BY <3>3, <3>6 DEF Larger
      <4> QED BY <2>2, <3>4, <3>6, <4>1
    <3> QED BY <3>5, <3>6
  <2> QED BY <2>3, <2>4
<1>6. \A k \in 0..MaxSize : Fine(k)
  BY <1>5
<1> HIDE DEF T, Fine
<1>7. K \in 0..MaxSize /\ Stops(K) /\ \A j \in 0..K - 1 : ~Stops(j)
  <2> DEFINE S == {k \in 0..MaxSize : Stops(k)}
  <2>1. MaxSize \in S
    <3>1. MaxSize \in 0..MaxSize
      OBVIOUS
    <3>2. Ring(F[MaxSize]) /\ (F[MaxSize].size > MaxSize \/ ~CanExpand(F[MaxSize]))
      BY <1>6, <3>1 DEF Fine
    <3>3. F[MaxSize].size <= MaxSize /\ F[MaxSize].size \in Nat
      BY <3>2, RingFacts DEF Ring
    <3> QED BY <3>1, <3>2, <3>3
  <2>2. S \subseteq Nat
    OBVIOUS
  <2>3. PICK k \in S : \A y \in S : k <= y
    <3> HIDE DEF S
    <3> QED BY <2>1, <2>2, LeastNat
  <2>4. k \in 0..MaxSize /\ Stops(k)
    OBVIOUS
  <2>5. ASSUME NEW j \in 0..k - 1 PROVE ~Stops(j)
    <3>1. j \in 0..MaxSize /\ ~(k <= j)
      BY <2>4
    <3> QED BY <2>3, <3>1
  <2> HIDE DEF Stops, S
  <2>6. \E y \in 0..MaxSize : Stops(y) /\ \A j \in 0..y - 1 : ~Stops(j)
    BY <2>4, <2>5
  <2> QED BY <2>6
<1> HIDE DEF K
<1>8. Fine(K)
  BY <1>6, <1>7
<1>9. HasSpace(r, n) => K = 0
  <2> SUFFICES ASSUME HasSpace(r, n), K # 0 PROVE FALSE
    OBVIOUS
  <2>1. 0 \in 0..K - 1
    BY <1>7
  <2>2. ~Stops(0)
    BY <1>7, <2>1
  <2> QED BY <1>3, <2>2
<1> QED BY <1>1, <1>3, <1>8, <1>9 DEF Fine

-----------------------------------------------------------------------------
(* The chunks of write(data, count, offset)                                *)

CopyRec(g, n, c, A) ==
  g = [r \in 0..n |-> IF r = 0 \/ c[r] <= 0 THEN {} ELSE A[r] \cup g[r - c[r]]]

\* The recursion of Copies is well defined: every call has fewer bytes left.
LEMMA CopiesExist ==
  ASSUME NEW n \in Nat, NEW c, NEW A, \A r \in 0..n : c[r] \in Int /\ c[r] <= r
  PROVE  \E g : CopyRec(g, n, c, A)
<1> DEFINE Val(g, r) == IF r = 0 \/ c[r] <= 0 THEN {} ELSE A[r] \cup g[r - c[r]]
           P(g, m) == g = [r \in 0..m |-> Val(g, r)]
           T == {m \in 0..n : ~ \E g : P(g, m)}
<1>1. T = {}
  <2> SUFFICES ASSUME T # {} PROVE FALSE
    OBVIOUS
  <2>1. PICK m \in T : \A y \in T : m <= y
    <3>1. T \subseteq Nat
      OBVIOUS
    <3> HIDE DEF T
    <3> QED BY <3>1, LeastNat
  <2>2. m \in Nat /\ m <= n /\ ~ \E g : P(g, m)
    OBVIOUS
  <2>3. CASE m = 0
    <3> DEFINE g == [r \in 0..0 |-> {}]
    <3>1. P(g, 0)
      OBVIOUS
    <3> QED BY <2>2, <2>3, <3>1
  <2>4. CASE m # 0
    <3>1. m - 1 \in 0..n /\ m - 1 \notin T
      <4> HIDE DEF T
      <4>1. m - 1 \in 0..n /\ ~(m <= m - 1)
        BY <2>2, <2>4
      <4> QED BY <2>1, <4>1
    <3>2. PICK g : P(g, m - 1)
      BY <3>1
    <3> DEFINE h == [r \in 0..m |-> IF r = m THEN Val(g, m) ELSE g[r]]
    <3>3. \A r \in 0..m - 1 : h[r] = g[r]
      BY <2>2
    <3>4. h[m] = Val(g, m)
      BY <2>2
    <3>5. h = [r \in 0..m |-> h[r]]
      OBVIOUS
    <3> HIDE DEF h
    <3>6. \A r \in 0..m - 1 : g[r] = Val(g, r)
      BY <3>2
    <3>7. \A r \in 0..m : h[r] = Val(h, r)
      <4> SUFFICES ASSUME NEW r \in 0..m PROVE h[r] = Val(h, r)
        OBVIOUS
      <4>1. c[r] \in Int /\ c[r] <= r
        BY <2>2
      <4>2. h[r] = Val(g, r)
        <5>1. CASE r = m
          BY <3>4, <5>1
        <5>2. CASE r # m
          <6>1. r \in 0..m - 1
            BY <2>2, <5>2
          <6> QED BY <3>3, <3>6, <6>1
        <5> QED BY <5>1, <5>2
      <4>3. Val(g, r) = Val(h, r)
        <5>1. CASE r = 0 \/ c[r] <= 0
          BY <5>1
        <5>2. CASE ~(r = 0 \/ c[r] <= 0)
          <6>1. r - c[r] \in 0..m - 1
            BY <2>2, <4>1, <5>2
          <6>2. h[r - c[r]] = g[r - c[r]]
            BY <3>3, <6>1
          <6> QED BY <6>2
        <5> QED BY <5>1, <5>2
      <4> QED BY <4>2, <4>3
    <3>8. P(h, m)
      <4> HIDE DEF Val
      <4> QED BY <3>5, <3>7
    <3> QED BY <2>2, <3>8
  <2> QED BY <2>3, <2>4
<1>2. n \in 0..n
  OBVIOUS
<1>3. \E g : P(g, n)
  BY <1>1, <1>2
<1> QED BY <1>3 DEF CopyRec

\* And so is that of Recurs.
LEMMA RecursExist ==
  ASSUME NEW n \in Nat, NEW c, \A r \in 0..n : c[r] \in Int /\ c[r] <= r
  PROVE  \E g : g = [r \in 0..n |-> r > 0 /\ (c[r] <= 0 \/ g[r - c[r]])]
<1> DEFINE Val(g, r) == r > 0 /\ (c[r] <= 0 \/ g[r - c[r]])
           P(g, m) == g = [r \in 0..m |-> Val(g, r)]
           T == {m \in 0..n : ~ \E g : P(g, m)}
<1>1. T = {}
  <2> SUFFICES ASSUME T # {} PROVE FALSE
    OBVIOUS
  <2>1. PICK m \in T : \A y \in T : m <= y
    <3>1. T \subseteq Nat
      OBVIOUS
    <3> HIDE DEF T
    <3> QED BY <3>1, LeastNat
  <2>2. m \in Nat /\ m <= n /\ ~ \E g : P(g, m)
    OBVIOUS
  <2>3. CASE m = 0
    <3> DEFINE g == [r \in 0..0 |-> FALSE]
    <3>1. P(g, 0)
      <4>1. \A r \in 0..0 : ~(r > 0)
        OBVIOUS
      <4>2. \A r \in 0..0 : Val(g, r) = FALSE
        BY <4>1
      <4> HIDE DEF Val
      <4> QED BY <4>2
    <3> QED BY <2>2, <2>3, <3>1
  <2>4. CASE m # 0
    <3>1. m - 1 \in 0..n /\ m - 1 \notin T
      <4> HIDE DEF T
      <4>1. m - 1 \in 0..n /\ ~(m <= m - 1)
        BY <2>2, <2>4
      <4> QED BY <2>1, <4>1
    <3>2. PICK g : P(g, m - 1)
      BY <3>1
    <3> DEFINE h == [r \in 0..m |-> IF r = m THEN Val(g, m) ELSE g[r]]
    <3>3. \A r \in 0..m - 1 : h[r] = g[r]
      BY <2>2
    <3>4. h[m] = Val(g, m)
      <4> HIDE DEF Val
      <4> QED BY <2>2
    <3>5. h = [r \in 0..m |-> h[r]]
      <4> HIDE DEF Val
      <4> QED OBVIOUS
    <3> HIDE DEF h
    <3>6. \A r \in 0..m - 1 : g[r] = Val(g, r)
      <4> HIDE DEF Val
      <4> QED BY <3>2
    <3>7. \A r \in 0..m : h[r] = Val(h, r)
      <4> SUFFICES ASSUME NEW r \in 0..m PROVE h[r] = Val(h, r)
        OBVIOUS
      <4>1. c[r] \in Int /\ c[r] <= r
        BY <2>2
      <4>2. h[r] = Val(g, r)
        <5> HIDE DEF Val
        <5>1. CASE r = m
          BY <3>4, <5>1
        <5>2. CASE r # m
          <6>1. r \in 0..m - 1
            BY <2>2, <5>2
          <6> QED BY <3>3, <3>6, <6>1
        <5> QED BY <5>1, <5>2
      <4>3. Val(g, r) = Val(h, r)
        <5>1. CASE r = 0 \/ c[r] <= 0
          BY <5>1
        <5>2. CASE ~(r = 0 \/ c[r] <= 0)
          <6>1. r - c[r] \in 0..m - 1
            BY <2>2, <4>1, <5>2
          <6>2. h[r - c[r]] = g[r - c[r]]
            BY <3>3, <6>1
          <6> QED BY <6>2
        <5> QED BY <5>1, <5>2
      <4> QED BY <4>2, <4>3
    <3>8. P(h, m)
      <4> HIDE DEF Val
      <4> QED BY <3>5, <3>7
    <3> QED BY <2>2, <3>8
  <2> QED BY <2>3, <2>4
<1>2. n \in 0..n
  OBVIOUS
<1>3. \E g : P(g, n)
  BY <1>1, <1>2
<1> QED BY <1>3

LEMMA ChunkType ==
  ASSUME NEW b0, Ring(b0), NEW offset \in Nat, NEW n \in Nat, NEW r \in 0..n
  PROVE  /\ ChunkPos(b0, offset, n, r) \in 0..b0.size - 1
         /\ ChunkLen(b0, offset, n, r) \in Int /\ ChunkLen(b0, offset, n, r) <= r
<1> DEFINE s == b0.size
           t == b0.tail
           x == b0.head + offset + n - r
           p == x % s
           e == AsInt(s - 1 - t)
<1>1. /\ s \in Nat \ {0} /\ t \in Int /\ x \in Int /\ s - 1 - t \in Int
      /\ SizeT \in Nat \ {0}
  BY RingFacts
<1> HIDE DEF s, t, x
<1>2. p \in 0..s - 1 /\ p \in Int
  BY <1>1, DivMod
<1>3. e \in Int
  <2> DEFINE y == s - 1 - t
  <2>1. y \in Int
    BY <1>1
  <2> HIDE DEF y
  <2>2. y % SizeT \in Int
    BY <1>1, <2>1, DivMod
  <2>3. AsInt(y) \in Int
    BY <1>1, <2>2 DEF AsInt
  <2> QED BY <2>3 DEF y
<1> HIDE DEF p, e
<1>4. e + p \in Int
  BY <1>2, <1>3
<1>5. (e + p) % s \in Int
  BY <1>1, <1>4, DivMod
<1>6. continguious_space(p, t, s) = IF (e + p) % s <= e THEN (e + p) % s ELSE e + 1
  BY DEF continguious_space, e
<1>7. continguious_space(p, t, s) \in Int
  BY <1>3, <1>5, <1>6
<1>8. ChunkPos(b0, offset, n, r) = p
  BY DEF ChunkPos, p, x, s
<1>9. ChunkLen(b0, offset, n, r) = MinOf(continguious_space(p, t, s), r)
  BY <1>8 DEF ChunkLen, s, t
<1>10. MinOf(continguious_space(p, t, s), r) \in Int
       /\ MinOf(continguious_space(p, t, s), r) <= r
  <2> DEFINE z == continguious_space(p, t, s)
  <2> HIDE DEF z
  <2>1. z \in Int
    BY <1>7 DEF z
  <2>2. MinOf(z, r) \in Int /\ MinOf(z, r) <= r
    BY <2>1 DEF MinOf
  <2> QED BY <2>2 DEF z
<1> QED BY <1>2, <1>8, <1>9, <1>10 DEF s

\* What the r last of n bytes are copied to.
Chunk(b0, offset, n, r) ==
  {<<ChunkPos(b0, offset, n, r) + k, n - r + k + 1>> :
     k \in 0..ChunkLen(b0, offset, n, r) - 1}
CopiesBy(G, b0, offset, n) ==
  /\ Copies(b0, offset, n) = G[n]
  /\ \A r \in 0..n : G[r] = IF r = 0 \/ ChunkLen(b0, offset, n, r) <= 0 THEN {}
                            ELSE Chunk(b0, offset, n, r)
                                 \cup G[r - ChunkLen(b0, offset, n, r)]

LEMMA CopiesUnfold ==
  ASSUME NEW b0, Ring(b0), NEW offset \in Nat, NEW n \in Nat
  PROVE  \E G : CopiesBy(G, b0, offset, n)
<1> DEFINE len(r) == ChunkLen(b0, offset, n, r)
           chunk(r) == {<<ChunkPos(b0, offset, n, r) + k, n - r + k + 1>> :
                          k \in 0..len(r) - 1}
           c == [r \in 0..n |-> len(r)]
           A == [r \in 0..n |-> chunk(r)]
           F == CHOOSE f : f = [r \in 0..n |-> IF r = 0 \/ len(r) <= 0 THEN {}
                                               ELSE chunk(r) \cup f[r - len(r)]]
<1>1. Copies(b0, offset, n) = F[n]
  BY DEF Copies
<1>2. \A r \in 0..n : len(r) \in Int /\ len(r) <= r
  BY ChunkType
<1>3. \E f : f = [r \in 0..n |-> IF r = 0 \/ len(r) <= 0 THEN {}
                                 ELSE chunk(r) \cup f[r - len(r)]]
  <2> HIDE DEF len, chunk
  <2>1. \A r \in 0..n : c[r] = len(r) /\ A[r] = chunk(r)
    OBVIOUS
  <2> HIDE DEF c, A
  <2>2. \A r \in 0..n : c[r] \in Int /\ c[r] <= r
    BY <1>2, <2>1
  <2>3. PICK g : CopyRec(g, n, c, A)
    BY <2>2, CopiesExist
  <2>4. g = [r \in 0..n |-> IF r = 0 \/ len(r) <= 0 THEN {}
                            ELSE chunk(r) \cup g[r - len(r)]]
    BY <2>1, <2>3 DEF CopyRec
  <2> QED BY <2>4
<1>4. F = [r \in 0..n |-> IF r = 0 \/ len(r) <= 0 THEN {}
                          ELSE chunk(r) \cup F[r - len(r)]]
  <2> HIDE DEF len, chunk
  <2> QED BY <1>3
<1> HIDE DEF F
<1>5. \A r \in 0..n : F[r] = IF r = 0 \/ len(r) <= 0 THEN {}
                             ELSE chunk(r) \cup F[r - len(r)]
  <2> HIDE DEF len, chunk
  <2> QED BY <1>4
<1>6. \A r \in 0..n : chunk(r) = Chunk(b0, offset, n, r)
  BY DEF Chunk
<1>7. CopiesBy(F, b0, offset, n)
  <2> HIDE DEF chunk
  <2> QED BY <1>1, <1>5, <1>6 DEF CopiesBy
<1> QED BY <1>7

LEMMA RecursUnfold ==
  ASSUME NEW b0, Ring(b0), NEW offset \in Nat, NEW n \in Nat
  PROVE  \E G : /\ Recurs(b0, offset, n) = G[n]
                /\ \A r \in 0..n :
                     G[r] = (r > 0 /\ (ChunkLen(b0, offset, n, r) <= 0
                                       \/ G[r - ChunkLen(b0, offset, n, r)]))
<1> DEFINE len(r) == ChunkLen(b0, offset, n, r)
           c == [r \in 0..n |-> len(r)]
           F == CHOOSE f : f = [r \in 0..n |-> r > 0 /\ (len(r) <= 0 \/ f[r - len(r)])]
<1>1. Recurs(b0, offset, n) = F[n]
  BY DEF Recurs
<1>2. \A r \in 0..n : len(r) \in Int /\ len(r) <= r
  BY ChunkType
<1>3. \E f : f = [r \in 0..n |-> r > 0 /\ (len(r) <= 0 \/ f[r - len(r)])]
  <2> HIDE DEF len
  <2>1. \A r \in 0..n : c[r] = len(r)
    OBVIOUS
  <2> HIDE DEF c
  <2>2. \A r \in 0..n : c[r] \in Int /\ c[r] <= r
    BY <1>2, <2>1
  <2>3. PICK g : g = [r \in 0..n |-> r > 0 /\ (c[r] <= 0 \/ g[r - c[r]])]
    BY <2>2, RecursExist
  <2>4. g = [r \in 0..n |-> r > 0 /\ (len(r) <= 0 \/ g[r - len(r)])]
    BY <2>1, <2>3
  <2> QED BY <2>4
<1>4. F = [r \in 0..n |-> r > 0 /\ (len(r) <= 0 \/ F[r - len(r)])]
  <2> HIDE DEF len
  <2> QED BY <1>3
<1> HIDE DEF F
<1>5. \A r \in 0..n : F[r] = (r > 0 /\ (len(r) <= 0 \/ F[r - len(r)]))
  <2> HIDE DEF len
  <2> QED BY <1>4
<1> QED BY <1>1, <1>5

\* Every one of n bytes and the cell it belongs in.
InTheirCells(r, offset, n) == {<<(r.head + offset + i - 1) % r.size, i>> : i \in 1..n}

\* Chunks that neither recur nor overrun copy every byte to its cell.
LEMMA CopiesExact ==
  ASSUME NEW b0, Ring(b0), NEW offset \in Nat, NEW n \in Nat,
         ~Recurs(b0, offset, n), ~Overruns(b0, offset, n)
  PROVE  Copies(b0, offset, n) = InTheirCells(b0, offset, n)
<1> DEFINE s == b0.size
           h == b0.head + offset
           cell(i) == <<(b0.head + offset + i - 1) % b0.size, i>>
           len(r) == ChunkLen(b0, offset, n, r)
           pos(r) == ChunkPos(b0, offset, n, r)
           chunk(r) == {<<pos(r) + k, n - r + k + 1>> : k \in 0..len(r) - 1}
<1>0. PICK G : CopiesBy(G, b0, offset, n)
  BY CopiesUnfold
<1>1. /\ Copies(b0, offset, n) = G[n]
      /\ \A r \in 0..n : G[r] = IF r = 0 \/ len(r) <= 0 THEN {}
                                ELSE chunk(r) \cup G[r - len(r)]
  <2>1. \A r \in 0..n : chunk(r) = Chunk(b0, offset, n, r)
    BY DEF Chunk
  <2> HIDE DEF chunk
  <2> QED BY <1>0, <2>1 DEF CopiesBy
<1>2. PICK R : /\ Recurs(b0, offset, n) = R[n]
               /\ \A r \in 0..n : R[r] = (r > 0 /\ (len(r) <= 0 \/ R[r - len(r)]))
  BY RecursUnfold
<1>3. \A c \in G[n] : ~(c[1] >= s)
  BY <1>1 DEF Overruns
<1>4. ~R[n]
  BY <1>2
<1>5. /\ s \in Nat \ {0} /\ h \in Int /\ b0.head \in Int
  BY RingFacts
<1>6. \A r \in 0..n : pos(r) \in 0..s - 1 /\ len(r) \in Int /\ len(r) <= r
  BY ChunkType
<1>7. \A r \in 0..n : pos(r) = (h + n - r) % s
  BY DEF ChunkPos
<1> DEFINE Rest(r) == {cell(i) : i \in (n - r + 1)..n}
           Right(r) == ~R[r] /\ (\A c \in G[r] : ~(c[1] >= s)) => G[r] = Rest(r)
           T == {r \in 0..n : ~Right(r)}
<1>8. T = {}
  <2> SUFFICES ASSUME T # {} PROVE FALSE
    OBVIOUS
  <2>1. PICK r \in T : \A y \in T : r <= y
    <3>1. T \subseteq Nat
      OBVIOUS
    <3> HIDE DEF T
    <3> QED BY <3>1, LeastNat
  <2>2. r \in 0..n /\ r \in Nat /\ ~Right(r)
    OBVIOUS
  <2>3. ~R[r] /\ (\A c \in G[r] : ~(c[1] >= s)) /\ G[r] # Rest(r)
    BY <2>2
  <2> HIDE DEF Rest
  <2>4. CASE r = 0
    <3>1. G[0] = {}
      BY <1>1, <2>2, <2>4
    <3>2. Rest(0) = {}
      BY DEF Rest
    <3> QED BY <2>3, <2>4, <3>1, <3>2
  <2>5. CASE r # 0
    <3> DEFINE l == len(r)
               p == pos(r)
               q == r - l
    <3>1. /\ R[r] = (r > 0 /\ (l <= 0 \/ R[q]))
          /\ G[r] = IF r = 0 \/ l <= 0 THEN {} ELSE chunk(r) \cup G[q]
          /\ p \in 0..s - 1 /\ l \in Int /\ l <= r /\ p = (h + n - r) % s
      BY <1>1, <1>2, <1>6, <1>7, <2>2
    <3>2. l > 0 /\ ~R[q] /\ G[r] = chunk(r) \cup G[q]
      <4> HIDE DEF chunk, l, q, len
      <4>1. r > 0
        BY <2>2, <2>5
      <4>2. ~(l <= 0) /\ ~R[q]
        BY <2>3, <3>1, <4>1
      <4> QED BY <2>5, <3>1, <4>2
    <3>3. q \in 0..n /\ q < r /\ q \in Nat
      <4> HIDE DEF l, len
      <4> QED BY <2>2, <3>1, <3>2
    <3>4. Right(q)
      <4> HIDE DEF q, Right
      <4>1. q \notin T
        <5> HIDE DEF T
        <5> QED BY <2>1, <2>2, <3>3
      <4> QED BY <3>3, <4>1
    <3>5. G[q] = Rest(q)
      <4> HIDE DEF q, l, chunk, s
      <4>1. \A c \in G[q] : ~(c[1] >= s)
        BY <2>3, <3>2
      <4> QED BY <3>2, <3>4, <4>1
    <3>6. ASSUME NEW k \in 0..l - 1
          PROVE  <<p + k, n - r + k + 1>> = cell(n - r + k + 1)
      <4> DEFINE e == <<p + k, n - r + k + 1>>
                 x == h + n - r
                 d == x \div s
      <4>1. e \in chunk(r) /\ e[1] = p + k
        OBVIOUS
      <4>2. ~(p + k >= s)
        <5> HIDE DEF chunk, p, l
        <5> QED BY <2>3, <3>2, <4>1
      <4> HIDE DEF p, l, s, h
      <4>3. x \in Int /\ k \in Nat
        BY <1>5, <2>2
      <4>4. x = s * d + p /\ d \in Int
        <5> HIDE DEF x
        <5>1. x = s * (x \div s) + (x % s) /\ x \div s \in Int
          BY <1>5, <4>3, DivMod
        <5>2. p = x % s
          BY <3>1 DEF x
        <5> QED BY <5>1, <5>2
      <4> HIDE DEF d, x
      <4>5. x + k = s * d + (p + k) /\ p + k \in 0..s - 1 /\ x + k \in Int
        BY <1>5, <3>1, <4>2, <4>3, <4>4
      <4>6. (x + k) % s = p + k
        BY <1>5, <4>4, <4>5, ModIs
      <4>7. b0.head + offset + (n - r + k + 1) - 1 = x + k
        BY <1>5, <2>2, <4>3 DEF x, h
      <4> QED BY <4>6, <4>7 DEF s
    <3>7. chunk(r) = {cell(i) : i \in (n - r + 1)..(n - r + l)}
      <4>1. ASSUME NEW e \in chunk(r)
            PROVE  e \in {cell(i) : i \in (n - r + 1)..(n - r + l)}
        <5>1. PICK k \in 0..l - 1 : e = <<p + k, n - r + k + 1>>
          OBVIOUS
        <5>2. e = cell(n - r + k + 1)
          BY <3>6, <5>1
        <5>3. n - r + k + 1 \in (n - r + 1)..(n - r + l)
          <6> HIDE DEF l
          <6> QED BY <2>2, <3>1
        <5> HIDE DEF cell
        <5> QED BY <5>2, <5>3
      <4>2. ASSUME NEW i \in (n - r + 1)..(n - r + l) PROVE cell(i) \in chunk(r)
        <5> DEFINE k == i - (n - r + 1)
        <5>1. k \in 0..l - 1 /\ n - r + k + 1 = i
          <6> HIDE DEF l
          <6> QED BY <2>2, <3>1
        <5> HIDE DEF k
        <5>2. <<p + k, n - r + k + 1>> = cell(i)
          <6> HIDE DEF cell, p, l
          <6> QED BY <3>6, <5>1
        <5>3. <<p + k, n - r + k + 1>> \in chunk(r)
          <6> HIDE DEF p
          <6> QED BY <5>1 DEF p
        <5> QED BY <5>2, <5>3
      <4> HIDE DEF cell, chunk, l
      <4> QED BY <4>1, <4>2
    <3>8. G[r] = Rest(r)
      <4> HIDE DEF l, q, chunk, cell, len
      <4>1. \A i : i \in (n - r + 1)..n <=>
                 \/ i \in (n - r + 1)..(n - r + l) \/ i \in (n - q + 1)..n
        <5>1. n - q = n - r + l
          BY <2>2, <3>1 DEF q
        <5> QED BY <2>2, <3>1, <3>2, <3>3, <5>1
      <4>2. Rest(r) = {cell(i) : i \in (n - r + 1)..(n - r + l)} \cup Rest(q)
        BY <4>1 DEF Rest
      <4> QED BY <3>2, <3>5, <3>7, <4>2
    <3> QED BY <2>3, <3>8
  <2> QED BY <2>4, <2>5
<1>9. Right(n)
  BY <1>8
<1>10. G[n] = Rest(n)
  <2> HIDE DEF Rest
  <2> QED BY <1>3, <1>4, <1>9
<1>11. n - n + 1 = 1
  OBVIOUS
<1>12. G[n] = InTheirCells(b0, offset, n)
  BY <1>10, <1>11 DEF InTheirCells
<1> QED BY <1>1, <1>12

\* A write that neither recurs nor overruns changes the cells of its bytes and
\* no other.
LEMMA CopyRing ==
  ASSUME NEW r, Ring(r), NEW offset \in Nat, NEW data \in Seq(Cell),
         offset + Len(data) <= r.size,
         ~Recurs(r, offset, Len(data)), ~Overruns(r, offset, Len(data))
  PROVE  LET f == copy(r, offset, data)
         IN  /\ Ring(f) /\ f.size = r.size /\ f.head = r.head /\ f.tail = r.tail
             /\ \A k \in 0..r.size - 1 :
                  f.mem[(r.head + k) % r.size]
                    = IF k - offset + 1 \in 1..Len(data) THEN data[k - offset + 1]
                      ELSE r.mem[(r.head + k) % r.size]
<1> DEFINE n == Len(data)
           s == r.size
           h == r.head
           S == Copies(r, offset, n)
           At(i) == {c \in S : c[1] = i}
           val(i) == IF At(i) = {} THEN r.mem[i] ELSE data[(CHOOSE c \in At(i) : TRUE)[2]]
           m == [i \in 0..s - 1 |-> val(i)]
           f == copy(r, offset, data)
           cell(i) == (h + offset + i - 1) % s
<1>1. /\ n \in Nat /\ s \in Nat \ {0} /\ h \in Int /\ r.mem \in [0..s - 1 -> Cell]
      /\ r \in RingShape /\ \A i \in 1..n : data[i] \in Cell
  BY RingFacts, LenProperties, ElementOfSeq DEF Ring
<1>2. S = {<<cell(i), i>> : i \in 1..n}
  <2>1. n \in Nat /\ ~Recurs(r, offset, n) /\ ~Overruns(r, offset, n)
    BY <1>1
  <2> HIDE DEF n
  <2>2. S = InTheirCells(r, offset, n)
    BY <2>1, CopiesExact
  <2> QED BY <2>2 DEF InTheirCells
<1>3. f = [r EXCEPT !.mem = m]
  BY DEF copy
<1> HIDE DEF S, f, n, s, h
<1>4. ASSUME NEW i \in 1..n, NEW k \in 0..s - 1
      PROVE  cell(i) = (h + k) % s <=> k = offset + i - 1
  <2> DEFINE j == offset + i - 1
  <2>1. j \in 0..s - 1 /\ h + offset + i - 1 = h + j
    BY <1>1 DEF n, s
  <2> HIDE DEF j
  <2>2. (((h + j) % s) - h) % s = j
    BY <1>1, <2>1, CellNumber
  <2>3. (((h + k) % s) - h) % s = k
    BY <1>1, CellNumber
  <2>4. cell(i) = (h + j) % s
    BY <2>1
  <2> HIDE DEF cell
  <2> QED BY <2>2, <2>3, <2>4 DEF j
<1> HIDE DEF cell
<1>5. ASSUME NEW i \in 1..n PROVE cell(i) \in 0..s - 1 /\ val(cell(i)) = data[i]
  <2> DEFINE j == offset + i - 1
  <2>1. j \in 0..s - 1 /\ h + offset + i - 1 = h + j /\ h + j \in Int
    BY <1>1 DEF n, s
  <2> HIDE DEF j
  <2>2. cell(i) = (h + j) % s
    BY <2>1 DEF cell
  <2>3. cell(i) \in 0..s - 1
    BY <1>1, <2>1, <2>2, DivMod
  <2>4. <<cell(i), i>> \in At(cell(i))
    BY <1>2
  <2>5. PICK c \in At(cell(i)) : c = CHOOSE d \in At(cell(i)) : TRUE
    BY <2>4
  <2>6. PICK l \in 1..n : c = <<cell(l), l>> /\ cell(l) = cell(i)
    BY <1>2, <2>5
  <2>7. j = offset + l - 1
    BY <1>4, <2>1, <2>2, <2>6
  <2>8. l = i
    BY <1>1, <2>7 DEF j
  <2>9. c[2] = i
    BY <2>6, <2>8
  <2> HIDE DEF At
  <2>10. val(cell(i)) = data[c[2]]
    BY <2>4, <2>5
  <2> QED BY <2>3, <2>9, <2>10
<1>6. ASSUME NEW x \in 0..s - 1, \A i \in 1..n : cell(i) # x
      PROVE  val(x) = r.mem[x]
  <2>1. At(x) = {}
    BY <1>2, <1>6
  <2> QED BY <2>1
<1>7. \A x \in 0..s - 1 : val(x) \in Cell
  <2> TAKE x \in 0..s - 1
  <2>1. CASE \E i \in 1..n : cell(i) = x
    <3> HIDE DEF val
    <3> QED BY <1>1, <1>5, <2>1
  <2>2. CASE \A i \in 1..n : cell(i) # x
    <3> HIDE DEF val
    <3> QED BY <1>1, <1>6, <2>2
  <2> QED BY <2>1, <2>2
<1> HIDE DEF val
<1>8. m \in [0..s - 1 -> Cell]
  BY <1>7
<1>9. \A x \in 0..s - 1 : m[x] = val(x)
  OBVIOUS
<1> HIDE DEF m
<1>10. f \in RingShape
  <2>1. m \in UNION {[0..k - 1 -> Cell] : k \in Nat}
    BY <1>1, <1>8
  <2> QED BY <1>1, <1>3, <2>1 DEF RingShape
<1>11. /\ f.mem = m /\ f.size = r.size /\ f.head = r.head /\ f.tail = r.tail
  BY <1>1, <1>3 DEF RingShape
<1>12. Ring(f)
  BY <1>8, <1>10, <1>11 DEF Ring, s
<1>13. ASSUME NEW k \in 0..s - 1
       PROVE  m[(h + k) % s] = IF k - offset + 1 \in 1..n THEN data[k - offset + 1]
                               ELSE r.mem[(h + k) % s]
  <2> DEFINE x == (h + k) % s
             i == k - offset + 1
  <2>1. x \in 0..s - 1
    <3>1. h + k \in Int
      BY <1>1
    <3> QED BY <1>1, <3>1, DivMod
  <2>2. k = offset + i - 1
    OBVIOUS
  <2> HIDE DEF i
  <2>3. CASE i \in 1..n
    <3>1. cell(i) = x
      BY <1>4, <2>2, <2>3
    <3> HIDE DEF x
    <3>2. m[x] = data[i]
      BY <1>5, <1>9, <2>1, <2>3, <3>1
    <3> QED BY <2>3, <3>2 DEF x, i
  <2>4. CASE i \notin 1..n
    <3>1. \A j \in 1..n : cell(j) # x
      <4> SUFFICES ASSUME NEW j \in 1..n, cell(j) = x PROVE FALSE
        OBVIOUS
      <4>1. k = offset + j - 1
        BY <1>4
      <4>2. j = i
        BY <1>1, <4>1 DEF i
      <4> QED BY <2>4, <4>2
    <3> HIDE DEF x
    <3>2. m[x] = r.mem[x]
      BY <1>6, <1>9, <2>1, <3>1
    <3> QED BY <2>4, <3>2 DEF x, i
  <2> QED BY <2>3, <2>4
<1> QED BY <1>11, <1>12, <1>13 DEF f, n, s, h

-----------------------------------------------------------------------------
(* Appending                                                               *)

\* One cell always stays free.
LEMMA SpaceIs ==
  ASSUME NEW r, Ring(r)
  PROVE  Space(r) = r.size - 1 - get_count(r)
<1> DEFINE s == r.size
           h == r.head
           t == r.tail
           d == t - h
           c == d % s
           y == 0 - 1
<1>1. s \in Nat \ {0} /\ h \in Int /\ t \in Int /\ d \in Int /\ y \in Int
  BY RingFacts
<1>2. get_count(r) = c
  BY DEF get_count, count_between
<1>3. Space(r) = (y - d) % s
  <2>1. h - (t + 1) = y - d
    <3> HIDE DEF h, t
    <3> QED BY <1>1
  <2> QED BY <2>1 DEF Space, count_between
<1> HIDE DEF s, h, t, d, y
<1>4. (y - c) % s = (y - d) % s
  BY <1>1, ModAdd
<1>5. c \in 0..s - 1 /\ c \in Int
  BY <1>1, DivMod
<1> HIDE DEF c
<1> DEFINE x == y - c
           z == s - 1 - c
<1>6. x \in Int /\ z \in 0..s - 1 /\ x + s = z
  BY <1>1, <1>5 DEF y
<1> HIDE DEF x, z
<1>7. (x + s) % s = x % s /\ z % s = z
  BY <1>1, <1>6, ModWrap, ModSmall
<1>8. Space(r) = z
  BY <1>3, <1>4, <1>6, <1>7 DEF x
<1> QED BY <1>2, <1>8 DEF z, s

\* written(n) counts n more bytes.
LEMMA WrittenRing ==
  ASSUME NEW r, Ring(r), NEW n \in Nat, get_count(r) + n <= r.size - 1
  PROVE  /\ Ring(written(r, n)) /\ get_count(written(r, n)) = get_count(r) + n
         /\ written(r, n).size = r.size /\ written(r, n).head = r.head
         /\ written(r, n).mem = r.mem
         /\ written(r, n).tail = (r.tail + n) % r.size
<1> DEFINE s == r.size
           h == r.head
           t == r.tail
           x == t + n
           u == (x % SizeT) % s
           f == written(r, n)
<1>1. /\ r \in RingShape /\ s \in Nat \ {0} /\ h \in Int /\ t \in Int
      /\ x \in Int /\ SizeT \in Nat \ {0} /\ SizeT % s = 0
      /\ 2 * s < SizeT
  BY RingFacts DEF Ring
<1>2. f = [r EXCEPT !.tail = u]
  BY <1>1 DEF written, RingShape
<1> HIDE DEF f, s, h, t, x
<1>3. u = x % s
  BY <1>1, ModTwice
<1>4. u \in 0..s - 1
  BY <1>1, <1>3, DivMod
<1> HIDE DEF u
<1>5. u \in Nat /\ u \in 0..SizeT - 1 /\ u \in Int
  BY <1>1, <1>4
<1>6. /\ f \in RingShape /\ f.size = r.size /\ f.head = r.head /\ f.tail = u
      /\ f.mem = r.mem
  BY <1>1, <1>2, <1>5 DEF RingShape
<1>7. Ring(f)
  BY <1>5, <1>6 DEF Ring
<1>8. (u - h) % s = get_count(r) + n
  <2> DEFINE m == 0 - h
             d == t - h
             c == d % s
  <2>1. m \in Int /\ d \in Int /\ x + m = d + n /\ u - h = u + m /\ n \in Int
    BY <1>1, <1>5 DEF x
  <2> HIDE DEF m, d
  <2>2. (u + m) % s = (x + m) % s
    BY <1>1, <1>3, <2>1, ModAdd
  <2>3. (c + n) % s = (d + n) % s
    <3>1. s \in Nat \ {0} /\ d \in Int /\ n \in Int
      BY <1>1, <2>1
    <3> QED BY <3>1, ModAdd
  <2>4. get_count(r) = c /\ c \in Int /\ c + n \in 0..s - 1
    <3>1. get_count(r) = c
      BY DEF get_count, count_between, d, t, h, s
    <3>2. c \in 0..s - 1
      BY <1>1, <2>1, DivMod
    <3> HIDE DEF c
    <3> QED BY <1>1, <3>1, <3>2 DEF s
  <2> HIDE DEF c
  <2>5. (c + n) % s = c + n
    BY <1>1, <2>4, ModSmall
  <2> QED BY <2>1, <2>2, <2>3, <2>4, <2>5
<1>9. get_count(f) = get_count(r) + n
  BY <1>6, <1>8 DEF get_count, count_between, s, h
<1> QED BY <1>3, <1>6, <1>7, <1>9 DEF f, x, s, t

\* write(data, count, -1) puts the bytes behind the others.
LEMMA AppendRing ==
  ASSUME NEW r, Ring(r), NEW data \in Seq(Cell), HasSpace(r, Len(data)),
         ~Recurs(written(r, Len(data)), get_count(r), Len(data)),
         ~Overruns(written(r, Len(data)), get_count(r), Len(data))
  PROVE  /\ Ring(append(r, data)) /\ Contents(append(r, data)) = Contents(r) \o data
         /\ get_count(append(r, data)) = get_count(r) + Len(data)
         /\ append(r, data).size = r.size
         /\ append(r, data).tail = (r.tail + Len(data)) % r.size
<1> DEFINE n == Len(data)
           c == get_count(r)
           w == written(r, n)
           f == append(r, data)
           q == Contents(r)
<1>1. /\ n \in Nat /\ c \in Nat /\ r.size \in Nat \ {0} /\ r.head \in Int
  BY RingFacts, LenProperties
<1>2. c + n <= r.size - 1
  <2> HIDE DEF n, c
  <2>1. n <= r.size - 1 - c
    BY SpaceIs DEF HasSpace, n, c
  <2> QED BY <1>1, <2>1
<1>3. /\ Ring(w) /\ get_count(w) = c + n /\ w.size = r.size /\ w.head = r.head
      /\ w.mem = r.mem /\ w.tail = (r.tail + n) % r.size
  BY <1>1, <1>2, WrittenRing
<1>4. f = copy(w, c, data)
  BY DEF append
<1>5. c + Len(data) <= w.size /\ ~Recurs(w, c, Len(data)) /\ ~Overruns(w, c, Len(data))
  BY <1>1, <1>2, <1>3
<1> HIDE DEF w, f, q, c
<1>6. /\ Ring(f) /\ f.size = w.size /\ f.head = w.head /\ f.tail = w.tail
      /\ \A k \in 0..w.size - 1 :
           f.mem[(w.head + k) % w.size]
             = IF k - c + 1 \in 1..Len(data) THEN data[k - c + 1]
               ELSE w.mem[(w.head + k) % w.size]
  BY <1>1, <1>3, <1>4, <1>5, CopyRing
<1>7. get_count(f) = c + n
  BY <1>3, <1>6 DEF get_count
<1>8. /\ q \in Seq(Cell) /\ Len(q) = c
      /\ \A i \in 1..c : q[i] = r.mem[(r.head + i - 1) % r.size]
  BY ContentsSeq DEF q, c
<1> HIDE DEF n
<1>9. /\ q \o data \in Seq(Cell) /\ Len(q \o data) = c + n
      /\ \A i \in 1..c + n : (q \o data)[i] = IF i <= c THEN q[i] ELSE data[i - c]
  BY <1>1, <1>8, ConcatProperties DEF n
<1>10. ASSUME NEW i \in 1..c + n PROVE (q \o data)[i] = f.mem[(f.head + i - 1) % f.size]
  <2> DEFINE k == i - 1
  <2>1. k \in 0..r.size - 1 /\ r.head + i - 1 = r.head + k /\ k - c + 1 = i - c
        /\ i \in Nat
    BY <1>1, <1>2
  <2> HIDE DEF k
  <2>2. f.mem[(r.head + k) % r.size]
          = IF i - c \in 1..n THEN data[i - c] ELSE r.mem[(r.head + k) % r.size]
    BY <1>3, <1>6, <2>1 DEF n
  <2>3. f.head = r.head /\ f.size = r.size
    BY <1>3, <1>6
  <2>4. CASE i <= c
    <3>1. i \in 1..c /\ i - c \notin 1..n
      BY <1>1, <2>1, <2>4
    <3>2. (q \o data)[i] = q[i]
      BY <1>9, <2>4
    <3> QED BY <1>8, <2>1, <2>2, <2>3, <3>1, <3>2
  <2>5. CASE ~(i <= c)
    <3>1. i - c \in 1..n
      BY <1>1, <2>1, <2>5
    <3>2. (q \o data)[i] = data[i - c]
      BY <1>9, <2>5
    <3> QED BY <2>1, <2>2, <2>3, <3>1, <3>2
  <2> QED BY <2>4, <2>5
<1> DEFINE p == q \o data
<1> HIDE DEF p
<1>11. p \in Seq(Cell) /\ Len(p) = get_count(f)
       /\ \A i \in 1..Len(p) : p[i] = f.mem[(f.head + i - 1) % f.size]
  BY <1>7, <1>9, <1>10 DEF p
<1>12. Contents(f) = p
  BY <1>6, <1>11, ContentsIs
<1> QED BY <1>3, <1>6, <1>7, <1>12 DEF f, p, q, c, n

-----------------------------------------------------------------------------
(* The inductive invariant                                                 *)

Writer == [used : BOOLEAN, head : Nat, length : Nat]

\* The bytes of a writer whose buffer was not reset are the last ones.
Behind(c, w) == w.used /\ c > w.head => c = w.head + Word + w.length

Sound ==
  /\ Ring(b) /\ writer \in Writer /\ sizes \in Programs
  /\ next \in 0..Values - 1
  /\ damage = "none" => Behind(get_count(b), writer)

LEMMA FreshSeq ==
  ASSUME NEW from \in Int, NEW n \in Nat
  PROVE  Fresh(from, n) \in Seq(Cell) /\ Len(Fresh(from, n)) = n
<1> USE CircleBufferConstants
<1> DEFINE f == Fresh(from, n)
<1>1. f \in [1..n -> Cell]
  <2>1. ASSUME NEW i \in 1..n PROVE (from + i - 1) % Values \in Cell
    <3>1. from + i - 1 \in Int
      OBVIOUS
    <3>2. (from + i - 1) % Values \in 0..Values - 1
      BY <3>1, DivMod
    <3> QED BY <3>2 DEF Cell
  <2> QED BY <2>1 DEF Fresh
<1> HIDE DEF f
<1>2. f \in Seq(Cell) /\ Len(f) = n
  BY <1>1, SeqDef, LenProperties
<1> QED BY <1>2 DEF f

LEMMA MarksSeq ==
  /\ [i \in 1..Word |-> Mark] \in Seq(Cell) /\ Len([i \in 1..Word |-> Mark]) = Word
<1> USE CircleBufferConstants
<1> DEFINE f == [i \in 1..Word |-> Mark]
<1>1. f \in [1..Word -> Cell]
  BY DEF Cell
<1> HIDE DEF f
<1>2. f \in Seq(Cell) /\ Len(f) = Word
  BY <1>1, SeqDef, LenProperties
<1> QED BY <1>2 DEF f

LEMMA Undamaged ==
  ASSUME NEW r, NEW offset, NEW n, DamageOf(r, offset, n) = "none"
  PROVE  ~Recurs(r, offset, n) /\ ~Overruns(r, offset, n)
BY DEF DamageOf

\* write(data, count, -1): it puts the bytes, throws or damages the memory.
LEMMA AppendStep ==
  ASSUME Sound, damage = "none", NEW data \in Seq(Cell), NEW w \in Writer,
         w.used => get_count(b) + Len(data) = w.head + Word + w.length,
         AppendBytes(data, w), UNCHANGED sizes
  PROVE  Sound' /\ (IsQueue!Put \/ UNCHANGED <<Contents(b), io>>)
<1> USE CircleBufferConstants
<1> DEFINE n == Len(data)
           g == GrowSpace(b, n)
<1>1. n \in Nat
  BY LenProperties
<1>2. Ring(b) /\ writer \in Writer /\ sizes \in Programs /\ next \in 0..Values - 1
      /\ Behind(get_count(b), writer)
  BY DEF Sound
<1>3. /\ Ring(g) /\ Contents(g) = Contents(b) /\ get_count(g) = get_count(b)
  BY <1>1, <1>2, GrowSpaceRing
<1>4. CASE HasSpace(g, n)
  <2>1. /\ damage' = DamageOf(written(g, n), get_count(g), n)
        /\ IF damage' = "none"
           THEN b' = append(g, data) /\ io' = Call("put", data)
           ELSE UNCHANGED <<b, io>>
        /\ writer' = w
        /\ next' = (next + n) % Values
    BY <1>4 DEF AppendBytes
  <2>2. next' \in 0..Values - 1
    <3> HIDE DEF n
    <3>1. next + n \in Int
      BY <1>1, <1>2
    <3>2. (next + n) % Values \in 0..Values - 1
      BY <3>1, DivMod
    <3> QED BY <2>1, <3>2
  <2>3. CASE damage' = "none"
    <3>1. b' = append(g, data) /\ io' = Call("put", data)
      BY <2>1, <2>3
    <3>2. /\ ~Recurs(written(g, n), get_count(g), n)
          /\ ~Overruns(written(g, n), get_count(g), n)
      BY <2>1, <2>3, Undamaged
    <3>3. /\ Ring(b') /\ Contents(b') = Contents(b) \o data
          /\ get_count(b') = get_count(b) + n
      <4> HIDE DEF g
      <4> QED BY <1>3, <1>4, <3>1, <3>2, AppendRing
    <3>4. Behind(get_count(b'), writer')
      BY <2>1, <3>3 DEF Behind
    <3>5. io'.op = "put" /\ io'.data = data
      BY <3>1 DEF Call
    <3>6. Sound'
      BY <1>2, <2>1, <2>2, <3>3, <3>4 DEF Sound
    <3>7. IsQueue!Put
      BY <3>3, <3>5 DEF IsQueue!Put
    <3> QED BY <3>6, <3>7
  <2>4. CASE damage' # "none"
    <3>1. b' = b /\ io' = io
      BY <2>1, <2>4
    <3>2. Sound'
      BY <1>2, <2>1, <2>2, <2>4, <3>1 DEF Sound
    <3> QED BY <3>1, <3>2
  <2> QED BY <2>3, <2>4
<1>5. CASE ~HasSpace(g, n)
  <2>1. b' = g /\ UNCHANGED <<writer, io, next, damage>>
    BY <1>5 DEF AppendBytes
  <2> HIDE DEF g
  <2>2. Ring(b') /\ Contents(b') = Contents(b) /\ get_count(b') = get_count(b)
    BY <1>3, <2>1
  <2>3. Sound'
    BY <1>2, <2>1, <2>2 DEF Sound
  <2> QED BY <2>1, <2>2, <2>3
<1> QED BY <1>4, <1>5

LEMMA OpenStep ==
  ASSUME Sound, damage = "none", Open, UNCHANGED sizes
  PROVE  Sound' /\ (IsQueue!Put \/ UNCHANGED <<Contents(b), io>>)
<1> USE CircleBufferConstants
<1> DEFINE data == [i \in 1..Word |-> Mark]
           w == [used |-> TRUE, head |-> get_count(b), length |-> 0]
<1>1. data \in Seq(Cell) /\ Len(data) = Word
  BY MarksSeq
<1>2. get_count(b) \in Nat
  BY RingFacts DEF Sound
<1>3. w \in Writer
  BY <1>2 DEF Writer
<1>4. get_count(b) + Len(data) = w.head + Word + w.length
  BY <1>1, <1>2
<1>5. AppendBytes(data, w)
  BY DEF Open
<1> HIDE DEF data, w
<1> QED BY <1>1, <1>3, <1>4, <1>5, AppendStep

LEMMA WriteStep ==
  ASSUME Sound, damage = "none", NEW n \in sizes, Write(n), UNCHANGED sizes
  PROVE  Sound' /\ (IsQueue!Put \/ UNCHANGED <<Contents(b), io>>)
<1> USE CircleBufferConstants
<1> DEFINE data == Fresh(next, n)
           w == [writer EXCEPT !.length = @ + n]
<1>1. n \in Nat /\ next \in Int /\ writer \in Writer
  BY DEF Sound
<1>2. data \in Seq(Cell) /\ Len(data) = n
  BY <1>1, FreshSeq
<1>3. w \in Writer /\ w.used = writer.used /\ w.head = writer.head
      /\ w.length = writer.length + n
  <2>1. writer.length + n \in Nat
    BY <1>1 DEF Writer
  <2> QED BY <1>1, <2>1 DEF Writer
<1>4. get_count(b) \in Nat /\ writer.head \in Nat /\ writer.length \in Nat
  BY <1>1, RingFacts DEF Sound, Writer
<1>5. get_count(b) = writer.head + Word + writer.length
  BY <1>4 DEF Sound, Behind, Write
<1>6. get_count(b) + Len(data) = w.head + Word + w.length
  <2> HIDE DEF data, w
  <2> QED BY <1>1, <1>2, <1>3, <1>4, <1>5
<1>7. AppendBytes(data, w)
  BY DEF Write
<1> HIDE DEF data, w
<1> QED BY <1>2, <1>3, <1>6, <1>7, AppendStep

\* flush() replaces the header of the packet, nothing else.
LEMMA FlushStep ==
  ASSUME Sound, damage = "none", Flush, UNCHANGED sizes
  PROVE  Sound' /\ (IsQueue!Replace \/ UNCHANGED <<Contents(b), io>>)
<1> USE CircleBufferConstants
<1> DEFINE data == Fresh(next - writer.length - Word, Word)
           k == writer.head
           c == get_count(b)
<1>1. /\ Ring(b) /\ writer \in Writer /\ sizes \in Programs
      /\ next \in 0..Values - 1 /\ k \in Nat /\ writer.length \in Nat
      /\ c \in Nat /\ c <= b.size - 1 /\ b.size \in Nat \ {0}
  BY RingFacts DEF Sound, Writer
<1>2. data \in Seq(Cell) /\ Len(data) = Word
  <2>1. next - writer.length - Word \in Int
    BY <1>1
  <2> QED BY <2>1, FreshSeq
<1>3. /\ k + Word <= c
      /\ damage' = DamageOf(b, k, Word)
      /\ IF damage' = "none"
         THEN b' = copy(b, k, data) /\ io' = CallAt("replace", k, data)
         ELSE UNCHANGED <<b, io>>
      /\ writer' = NoWriter /\ next' = next
  BY DEF Flush
<1>4. NoWriter \in Writer /\ ~NoWriter.used
  BY DEF NoWriter, Writer
<1>5. \A x : Behind(x, writer')
  BY <1>3, <1>4 DEF Behind
<1> HIDE DEF data
<1>6. CASE damage' = "none"
  <2>1. b' = copy(b, k, data) /\ io' = CallAt("replace", k, data)
    BY <1>3, <1>6
  <2>2. /\ ~Recurs(b, k, Len(data)) /\ ~Overruns(b, k, Len(data))
    BY <1>2, <1>3, <1>6, Undamaged
  <2>3. k + Len(data) <= b.size
    BY <1>1, <1>2, <1>3
  <2>4. /\ Ring(b') /\ b'.size = b.size /\ b'.head = b.head /\ b'.tail = b.tail
        /\ \A i \in 0..b.size - 1 :
             b'.mem[(b.head + i) % b.size]
               = IF i - k + 1 \in 1..Len(data) THEN data[i - k + 1]
                 ELSE b.mem[(b.head + i) % b.size]
    <3> DEFINE f == copy(b, k, data)
    <3> HIDE DEF k
    <3>1. /\ Ring(f) /\ f.size = b.size /\ f.head = b.head /\ f.tail = b.tail
          /\ \A i \in 0..b.size - 1 :
               f.mem[(b.head + i) % b.size]
                 = IF i - k + 1 \in 1..Len(data) THEN data[i - k + 1]
                   ELSE b.mem[(b.head + i) % b.size]
      BY <1>1, <1>2, <2>2, <2>3, CopyRing
    <3>2. b' = f
      BY <2>1
    <3> HIDE DEF f
    <3> QED BY <3>1, <3>2
  <2>5. get_count(b') = c
    BY <2>4 DEF get_count
  <2> DEFINE q == Contents(b)
             p == Contents(b')
  <2>6. /\ q \in Seq(Cell) /\ Len(q) = c
        /\ \A i \in 1..c : q[i] = b.mem[(b.head + i - 1) % b.size]
    BY <1>1, ContentsSeq
  <2>7. /\ p \in Seq(Cell) /\ Len(p) = c
        /\ \A i \in 1..c : p[i] = b'.mem[(b.head + i - 1) % b.size]
    BY <2>4, <2>5, ContentsSeq
  <2> HIDE DEF p, q, c, k
  <2>8. ASSUME NEW i \in 1..Len(q)
        PROVE  p[i] = IF i - k \in 1..Len(data) THEN data[i - k] ELSE q[i]
    <3> DEFINE j == i - 1
    <3>1. /\ i \in 1..c /\ j \in 0..b.size - 1 /\ j - k + 1 = i - k
          /\ b.head + i - 1 = b.head + j
      <4>1. b.head \in Int
        BY <1>1, RingFacts
      <4> QED BY <1>1, <2>6, <4>1
    <3> HIDE DEF j
    <3>2. b'.mem[(b.head + j) % b.size]
            = IF i - k \in 1..Len(data) THEN data[i - k]
              ELSE b.mem[(b.head + j) % b.size]
      BY <2>4, <3>1
    <3> QED BY <2>6, <2>7, <3>1, <3>2
  <2>9. p = [i \in 1..Len(q) |-> IF i - k \in 1..Len(data) THEN data[i - k] ELSE q[i]]
    <3>1. p = [i \in 1..Len(q) |-> p[i]]
      <4>1. p \in [1..Len(p) -> Cell]
        BY <2>7, LenProperties
      <4> QED BY <2>6, <2>7, <4>1
    <3> QED BY <2>8, <3>1
  <2>10. io'.op = "replace" /\ io'.at = k /\ io'.data = data
    BY <2>1 DEF CallAt
  <2>11. k + Len(data) <= Len(q)
    BY <1>1, <1>2, <1>3, <2>6
  <2>12. IsQueue!Replace
    BY <2>9, <2>10, <2>11 DEF IsQueue!Replace, p, q
  <2>13. Sound'
    BY <1>1, <1>3, <1>4, <1>5, <2>4 DEF Sound
  <2> QED BY <2>12, <2>13
<1>7. CASE damage' # "none"
  <2>1. b' = b /\ io' = io
    BY <1>3, <1>7
  <2>2. Sound'
    BY <1>1, <1>3, <1>4, <1>7, <2>1 DEF Sound
  <2> QED BY <2>1, <2>2
<1> QED BY <1>6, <1>7

\* The destructor takes back what its writer put, or nothing.
LEMMA DestroyStep ==
  ASSUME Sound, damage = "none", Destroy, UNCHANGED sizes
  PROVE  Sound' /\ (IsQueue!Unput \/ UNCHANGED <<Contents(b), io>>)
<1> USE CircleBufferConstants
<1> DEFINE n == Word + writer.length
           c == get_count(b)
           Back == c > writer.head /\ read(b, writer.head, Word) = [i \in 1..Word |-> Mark]
<1>1. /\ Ring(b) /\ writer \in Writer /\ sizes \in Programs
      /\ next \in 0..Values - 1 /\ writer.head \in Nat /\ writer.length \in Nat
      /\ c \in Nat /\ n \in Nat /\ Behind(c, writer)
  BY RingFacts DEF Sound, Writer
<1>2. /\ writer.used /\ writer' = NoWriter /\ damage' = damage
      /\ IF Back
         THEN /\ b' = Forget(remove_from_back(b, n))
              /\ io' = Call("unput", SubSeq(Contents(b), c - n + 1, c))
              /\ next' = (next - n) % Values
         ELSE UNCHANGED <<b, io, next>>
  BY DEF Destroy, TakeBack
<1>3. NoWriter \in Writer /\ ~NoWriter.used
  BY DEF NoWriter, Writer
<1>4. \A x : Behind(x, writer')
  BY <1>2, <1>3 DEF Behind
<1>5. CASE Back
  <2> DEFINE q == Contents(b)
             p == Contents(b')
             data == SubSeq(q, c - n + 1, c)
             f == remove_from_back(b, n)
  <2>1. /\ b' = Forget(f) /\ io' = Call("unput", data) /\ next' = (next - n) % Values
    BY <1>2, <1>5
  <2>2. n \in 0..c
    <3>1. c = writer.head + Word + writer.length
      BY <1>1, <1>2, <1>5 DEF Behind
    <3> HIDE DEF c
    <3> QED BY <1>1, <3>1
  <2>3. /\ Ring(f) /\ get_count(f) = c - n
        /\ \A i \in 1..c - n : Contents(f)[i] = q[i]
    <3> HIDE DEF n
    <3> QED BY <1>1, <2>2, RemoveBackRing
  <2>4. /\ Ring(b') /\ p = Contents(f)
    <3> HIDE DEF f
    <3> QED BY <2>1, <2>3, ForgetRing
  <2>5. next' \in 0..Values - 1
    <3>1. next - n \in Int
      BY <1>1
    <3> HIDE DEF n
    <3>2. (next - n) % Values \in 0..Values - 1
      BY <3>1, DivMod
    <3> QED BY <2>1, <3>2
  <2>6. q \in Seq(Cell) /\ Len(q) = c
    BY <1>1, ContentsSeq
  <2>7. p \in Seq(Cell) /\ Len(p) = c - n
    <3> HIDE DEF f, p
    <3> QED BY <2>3, <2>4, ContentsSeq
  <2> HIDE DEF f, n, c, q, p
  <2>8. /\ data \in Seq(Cell) /\ Len(data) = n
        /\ \A i \in 1..n : data[i] = q[c - n + i]
    <3> DEFINE l == c - n + 1
    <3>1. l \in Int /\ c \in Int /\ c - l + 1 = n /\ (l <= c \/ n = 0)
      BY <1>1, <2>2
    <3>2. \A i \in l..c : q[i] \in Cell
      <4> TAKE i \in l..c
      <4>1. i \in 1..Len(q)
        BY <1>1, <2>2, <2>6
      <4> QED BY <2>6, <4>1, ElementOfSeq
    <3>3. \A i \in 1..n : l + i - 1 = c - n + i
      BY <1>1
    <3> HIDE DEF l
    <3>4. /\ SubSeq(q, l, c) \in Seq(Cell)
          /\ Len(SubSeq(q, l, c)) = IF l <= c THEN c - l + 1 ELSE 0
          /\ \A i \in 1..c - l + 1 : SubSeq(q, l, c)[i] = q[l + i - 1]
      BY <3>1, <3>2, SubSeqProperties
    <3>5. data = SubSeq(q, l, c)
      BY DEF l
    <3> HIDE DEF data
    <3>6. Len(data) = n
      BY <3>1, <3>4, <3>5
    <3> QED BY <3>1, <3>3, <3>4, <3>5, <3>6
  <2> HIDE DEF data
  <2>9. q = p \o data
    <3> DEFINE z == p \o data
    <3>1. /\ z \in Seq(Cell) /\ Len(z) = Len(p) + Len(data)
          /\ \A i \in 1..Len(p) + Len(data) :
               z[i] = IF i <= Len(p) THEN p[i] ELSE data[i - Len(p)]
      <4>1. p \in Seq(Cell) /\ data \in Seq(Cell)
        BY <2>7, <2>8
      <4> QED BY <4>1, ConcatProperties
    <3> HIDE DEF z
    <3>2. Len(z) = c
      BY <1>1, <2>7, <2>8, <3>1
    <3>3. ASSUME NEW i \in 1..Len(q) PROVE q[i] = z[i]
      <4>0. i \in 1..c /\ i \in 1..Len(p) + Len(data)
        BY <2>6, <3>1, <3>2
      <4>1. CASE i <= c - n
        <5>1. i \in 1..c - n
          BY <1>1, <2>2, <4>0, <4>1
        <5>2. p[i] = q[i]
          BY <2>3, <2>4, <5>1
        <5> QED BY <2>7, <3>1, <4>0, <4>1, <5>2
      <4>2. CASE ~(i <= c - n)
        <5> DEFINE j == i - (c - n)
        <5>1. j \in 1..n /\ c - n + j = i
          BY <1>1, <2>2, <4>0, <4>2
        <5> HIDE DEF j
        <5>2. data[j] = q[i]
          BY <2>8, <5>1
        <5> QED BY <2>7, <3>1, <4>0, <4>2, <5>2 DEF j
      <4> QED BY <4>1, <4>2
    <3>4. q = z
      BY <2>6, <3>1, <3>2, <3>3, SeqEqual
    <3> QED BY <3>4 DEF z
  <2>10. io'.op = "unput" /\ io'.data = data
    BY <2>1 DEF Call
  <2>11. IsQueue!Unput
    BY <2>9, <2>10 DEF IsQueue!Unput, p, q
  <2>12. Sound'
    BY <1>1, <1>2, <1>3, <1>4, <2>4, <2>5 DEF Sound
  <2> QED BY <2>11, <2>12
<1>6. CASE ~Back
  <2>1. b' = b /\ io' = io /\ next' = next
    BY <1>2, <1>6
  <2>2. Sound'
    BY <1>1, <1>2, <1>3, <1>4, <2>1 DEF Sound
  <2> QED BY <2>1, <2>2
<1> QED BY <1>5, <1>6

\* What socket_.send takes from get_start() on are the oldest bytes.
LEMMA SendStep ==
  ASSUME Sound, damage = "none", NEW n \in 1..get_count(b), Send(n), UNCHANGED sizes
  PROVE  Sound' /\ IsQueue!Get
<1> DEFINE c == get_count(b)
           q == Contents(b)
           p == Contents(b')
           data == [i \in 1..n |-> b.mem[b.head + i - 1]]
           f == remove(b, n)
<1>1. /\ Ring(b) /\ c \in Nat /\ b.size \in Nat \ {0} /\ b.head \in Nat
      /\ b.head < b.size /\ n \in Nat /\ n \in 0..c
      /\ b.mem \in [0..b.size - 1 -> Cell]
  BY RingFacts DEF Sound, Ring
<1>2. /\ ~writer.used /\ n <= continguious_count(b.head, b.tail, b.size)
      /\ b' = Forget(f) /\ io' = Call("get", data)
      /\ UNCHANGED <<writer, next, damage>>
  BY DEF Send, Same
<1>3. n <= b.size - b.head
  <2>1. continguious_count(b.head, b.tail, b.size)
          = IF c < b.size - b.head THEN c ELSE b.size - b.head
    BY <1>1, ContinguiousCount
  <2> HIDE DEF c
  <2> QED BY <1>1, <1>2, <2>1
<1>4. /\ Ring(f) /\ get_count(f) = c - n
      /\ \A i \in 1..c - n : Contents(f)[i] = q[n + i]
  BY <1>1, RemoveRing
<1>5. Ring(b') /\ p = Contents(f)
  <2> HIDE DEF f
  <2> QED BY <1>2, <1>4, ForgetRing
<1>6. /\ q \in Seq(Cell) /\ Len(q) = c
      /\ \A i \in 1..c : q[i] = b.mem[(b.head + i - 1) % b.size]
  BY <1>1, ContentsSeq
<1>7. p \in Seq(Cell) /\ Len(p) = c - n
  <2> HIDE DEF f, p
  <2> QED BY <1>4, <1>5, ContentsSeq
<1> HIDE DEF f, q, p, c
<1>8. ASSUME NEW i \in 1..n PROVE b.mem[b.head + i - 1] = q[i]
  <2> DEFINE x == b.head + i - 1
  <2>1. x \in 0..b.size - 1 /\ i \in 1..c
    BY <1>1, <1>3
  <2>2. x % b.size = x
    <3> HIDE DEF x
    <3> QED BY <1>1, <2>1, ModSmall
  <2> QED BY <1>6, <2>1, <2>2
<1>9. data \in Seq(Cell) /\ Len(data) = n /\ \A i \in 1..n : data[i] = q[i]
  <2>1. \A i \in 1..n : data[i] = q[i]
    BY <1>8
  <2>2. \A i \in 1..n : q[i] \in Cell
    <3> TAKE i \in 1..n
    <3>1. i \in 1..Len(q)
      BY <1>1, <1>6
    <3> QED BY <1>6, <3>1, ElementOfSeq
  <2>3. data = [i \in 1..n |-> data[i]]
    OBVIOUS
  <2> HIDE DEF data
  <2>4. data \in [1..n -> Cell]
    BY <2>1, <2>2, <2>3
  <2> QED BY <1>1, <2>1, <2>4, SeqDef, LenProperties
<1> HIDE DEF data
<1>10. q = data \o p
  <2> DEFINE z == data \o p
  <2>1. /\ z \in Seq(Cell) /\ Len(z) = Len(data) + Len(p)
        /\ \A i \in 1..Len(data) + Len(p) :
             z[i] = IF i <= Len(data) THEN data[i] ELSE p[i - Len(data)]
    <3>1. p \in Seq(Cell) /\ data \in Seq(Cell)
      BY <1>7, <1>9
    <3> QED BY <3>1, ConcatProperties
  <2> HIDE DEF z
  <2>2. Len(z) = c
    BY <1>1, <1>7, <1>9, <2>1
  <2>3. ASSUME NEW i \in 1..Len(q) PROVE q[i] = z[i]
    <3>0. i \in 1..c /\ i \in 1..Len(data) + Len(p)
      BY <1>6, <2>1, <2>2
    <3>1. CASE i <= n
      <4>1. i \in 1..n
        BY <1>1, <3>0, <3>1
      <4>2. data[i] = q[i]
        BY <1>9, <4>1
      <4> QED BY <1>9, <2>1, <3>0, <3>1, <4>2
    <3>2. CASE ~(i <= n)
      <4> DEFINE j == i - n
      <4>1. j \in 1..c - n /\ n + j = i
        BY <1>1, <3>0, <3>2
      <4> HIDE DEF j
      <4>2. p[j] = q[i]
        BY <1>4, <1>5, <4>1
      <4> QED BY <1>9, <2>1, <3>0, <3>2, <4>2 DEF j
    <3> QED BY <3>1, <3>2
  <2>4. q = z
    BY <1>6, <2>1, <2>2, <2>3, SeqEqual
  <2> QED BY <2>4 DEF z
<1>11. io'.op = "get" /\ io'.data = data
  BY <1>2 DEF Call
<1>12. IsQueue!Get
  BY <1>10, <1>11 DEF IsQueue!Get, p, q
<1>13. Sound'
  BY <1>2, <1>5 DEF Sound, Behind
<1> QED BY <1>12, <1>13

LEMMA ResetStep ==
  ASSUME Sound, damage = "none", Reset, UNCHANGED sizes
  PROVE  Sound' /\ IsQueue!Clear
<1> DEFINE f == reset(b)
<1>1. /\ b' = Forget(f) /\ io' = Call("clear", <<>>)
      /\ UNCHANGED <<writer, next, damage>>
  BY DEF Reset, Same
<1>2. Ring(f) /\ get_count(f) = 0
  BY ResetRing DEF Sound
<1> HIDE DEF f
<1>3. Ring(b') /\ get_count(b') = 0
  BY <1>1, <1>2, ForgetRing
<1>4. Contents(b') = <<>>
  <2> DEFINE p == Contents(b')
  <2>1. p \in Seq(Cell) /\ Len(p) = 0
    BY <1>3, ContentsSeq
  <2> HIDE DEF p
  <2>2. p = <<>>
    BY <2>1, EmptySeq
  <2> QED BY <2>2 DEF p
<1>5. io'.op = "clear"
  BY <1>1 DEF Call
<1>6. IsQueue!Clear
  BY <1>4, <1>5 DEF IsQueue!Clear
<1>7. writer \in Writer /\ ~(0 > writer.head)
  <2>1. writer \in Writer
    BY DEF Sound
  <2> QED BY <2>1 DEF Writer
<1>8. Sound'
  BY <1>1, <1>3, <1>7 DEF Sound, Behind
<1> QED BY <1>6, <1>8

LEMMA SoundInit == Init => Sound /\ IsQueue!Init
<1> USE CircleBufferConstants
<1> SUFFICES ASSUME Init PROVE Sound /\ IsQueue!Init
  OBVIOUS
<1>1. /\ b = New /\ writer = NoWriter /\ io = Call("new", <<>>)
      /\ sizes \in Programs /\ next = 0 /\ damage = "none"
  BY DEF Init
<1>2. Ring(b) /\ get_count(b) = 0
  BY <1>1, NewRing
<1>3. NoWriter \in Writer /\ ~NoWriter.used
  BY DEF NoWriter, Writer
<1>4. 0 \in 0..Values - 1
  OBVIOUS
<1>5. Sound
  BY <1>1, <1>2, <1>3, <1>4 DEF Sound, Behind
<1>6. Contents(b) = <<>>
  <2> DEFINE p == Contents(b)
  <2>1. p \in Seq(Cell) /\ Len(p) = 0
    BY <1>2, ContentsSeq
  <2> HIDE DEF p
  <2>2. p = <<>>
    BY <2>1, EmptySeq
  <2> QED BY <2>2 DEF p
<1> QED BY <1>1, <1>5, <1>6 DEF IsQueue!Init, Call

LEMMA SoundNext ==
  Sound /\ [Next]_vars => Sound' /\ [IsQueue!Next]_<<Contents(b), io>>
<1> SUFFICES ASSUME Sound, [Next]_vars
             PROVE  Sound' /\ [IsQueue!Next]_<<Contents(b), io>>
  OBVIOUS
<1>1. CASE UNCHANGED vars
  BY <1>1 DEF vars, Sound
<1>2. CASE Next
  <2>1. damage = "none" /\ UNCHANGED sizes
    BY <1>2 DEF Next
  <2>2. CASE Open
    BY <2>1, <2>2, OpenStep DEF IsQueue!Next
  <2>3. CASE Flush
    BY <2>1, <2>3, FlushStep DEF IsQueue!Next
  <2>4. CASE Destroy
    BY <2>1, <2>4, DestroyStep DEF IsQueue!Next
  <2>5. CASE Reset
    BY <2>1, <2>5, ResetStep DEF IsQueue!Next
  <2>6. ASSUME NEW n \in sizes, Write(n)
        PROVE  Sound' /\ [IsQueue!Next]_<<Contents(b), io>>
    BY <2>1, <2>6, WriteStep DEF IsQueue!Next
  <2>7. ASSUME NEW n \in 1..get_count(b), Send(n)
        PROVE  Sound' /\ [IsQueue!Next]_<<Contents(b), io>>
    BY <2>1, <2>7, SendStep DEF IsQueue!Next
  <2> QED BY <1>2, <2>2, <2>3, <2>4, <2>5, <2>6, <2>7 DEF Next
<1> QED BY <1>1, <1>2

\* For every size of the ring, every size of the values and every order of
\* appends, patches, partial sends, destroyed writers and resets: the ring is a
\* queue of bytes.  What circle's head_, tail_, chunks and expand() do never
\* loses, changes, repeats or moves a byte, as long as no write recurred or
\* wrote behind the array.
THEOREM RefinesByteQueueHolds == Spec => RefinesByteQueue
<1>1. Init => Sound /\ IsQueue!Init
  BY SoundInit
<1>2. Sound /\ [Next]_vars => Sound' /\ [IsQueue!Next]_<<Contents(b), io>>
  BY SoundNext
<1> QED BY <1>1, <1>2, PTL DEF Spec, RefinesByteQueue, IsQueue!Spec
-----------------------------------------------------------------------------
(* When a write recurs or writes behind the array                          *)

\* tail_ is in the array or was taken below zero by less than the size.
TailNear(r) == r.tail < r.size \/ r.tail > SizeT - r.size

LEMMA NegMod ==
  ASSUME NEW n \in Nat \ {0}, NEW y \in 1..n
  PROVE  (0 - y) % n = 0 <=> y = n
<1> DEFINE x == 0 - y
           k == 0 - 1
           z == n - y
<1>1. x \in Int /\ k \in Int /\ x = n * k + z
  OBVIOUS
<1>2. z \in 0..n - 1
  OBVIOUS
<1> HIDE DEF x, k, z
<1>3. x % n = z
  BY <1>1, <1>2, ModIs
<1> QED BY <1>3 DEF x, z

\* The difference of size_t's converted to int is right, also if tail_ wrapped.
LEMMA EndOf ==
  ASSUME NEW r, Ring(r), TailNear(r), NEW p \in Int
  PROVE  LET e == AsInt(r.size - 1 - r.tail)
         IN  /\ e \in Nat /\ (e + p) % r.size = (p - r.tail - 1) % r.size
             /\ r.tail < r.size => e = r.size - 1 - r.tail
<1> DEFINE s == r.size
           t == r.tail
           y == s - 1 - t
           e == AsInt(y)
<1>1. /\ s \in Nat \ {0} /\ t \in Nat /\ y \in Int /\ SizeT \in Nat \ {0}
      /\ 2 * s < SizeT /\ SizeT % s = 0 /\ t \in 0..SizeT - 1
  BY RingFacts DEF Ring
<1>2. t < s \/ t > SizeT - s
  BY DEF TailNear
<1> HIDE DEF s, t, y, e
<1>3. PICK d \in Int : SizeT = s * d
  <2>1. SizeT \in Int
    BY <1>1
  <2> QED BY <1>1, <2>1, MultMod
<1>3a. SizeT >= 4 * s
  <2>1. d > 2
    <3> SUFFICES ASSUME d <= 2 PROVE FALSE
      OBVIOUS
    <3>1. s * d <= s * 2
      BY <1>1
    <3> QED BY <1>1, <1>3, <3>1
  <2>2. d # 3
    <3> SUFFICES ASSUME d = 3 PROVE FALSE
      OBVIOUS
    <3>1. SizeT = 3 * s /\ SizeT \in Int /\ 3 \in Nat \ {0} /\ 3 \in 1..SizeT
      BY <1>1, <1>3
    <3>2. SizeT % 3 = 0
      BY <1>1, <3>1
    <3> QED BY <3>1, <3>2, CircleConstants DEF IsPowerOf2
  <2>3. d >= 4
    BY <2>1, <2>2
  <2>4. s * d >= s * 4
    BY <1>1, <2>3
  <2> QED BY <1>1, <1>3, <2>4
<1>4. /\ e \in Nat /\ (t < s => e = y)
      /\ \E k \in Int : e = y + s * k
  <2>1. CASE t < s
    <3>1. y \in 0..SizeT - 1 /\ 2 * y < SizeT
      BY <1>1, <2>1 DEF y
    <3>2. y % SizeT = y
      BY <1>1, <3>1, ModSmall
    <3>3. e = y
      BY <3>1, <3>2 DEF e, AsInt
    <3>4. y = y + s * 0 /\ 0 \in Int
      BY <1>1
    <3> QED BY <3>1, <3>3, <3>4
  <2>2. CASE ~(t < s)
    <3> DEFINE z == y + SizeT
    <3>1. z \in 0..SizeT - 1 /\ 2 * z < SizeT
      BY <1>1, <1>2, <1>3a, <2>2 DEF y
    <3>2. (y + SizeT) % SizeT = y % SizeT /\ z % SizeT = z
      <4>1. (y + SizeT) % SizeT = y % SizeT
        BY <1>1, ModWrap
      <4> HIDE DEF z
      <4>2. z % SizeT = z
        BY <1>1, <3>1, ModSmall
      <4> QED BY <4>1, <4>2
    <3>3. y % SizeT = z
      BY <3>2
    <3> HIDE DEF z
    <3>4. e = z
      BY <3>1, <3>3 DEF e, AsInt
    <3>5. e = y + s * d
      BY <1>3, <3>4 DEF z
    <3> QED BY <2>2, <3>1, <3>4, <3>5
  <2> QED BY <2>1, <2>2
<1>5. PICK k \in Int : e = y + s * k
  BY <1>4
<1> DEFINE u == e + p
           v == p - t - 1
           j == k + 1
<1>6. u \in Int /\ v \in Int /\ j \in Int /\ u = v + s * j
  <2>1. s * k \in Int /\ s * (k + 1) = s * k + s
    BY <1>1
  <2> QED BY <1>1, <1>4, <1>5, <2>1 DEF y
<1> HIDE DEF u, v, j
<1>7. u % s = v % s
  BY <1>1, <1>6, ModShift
<1> QED BY <1>4, <1>7 DEF u, v, e, y, s, t

\* The x last of n bytes have no room for a chunk only if their position is
\* right behind the free cell.
LEMMA EmptyChunk ==
  ASSUME NEW r, Ring(r), TailNear(r), NEW offset \in Nat, NEW n \in Nat, NEW x \in 1..n
  PROVE  ChunkLen(r, offset, n, x) <= 0
           <=> (offset + n - x - get_count(r) - 1) % r.size = 0
<1> DEFINE s == r.size
           t == r.tail
           h == r.head
           a == h + offset + n - x
           p == a % s
           e == AsInt(s - 1 - t)
           f == (e + p) % s
           c == get_count(r)
           w == offset + n - x - c - 1
<1>1. /\ s \in Nat \ {0} /\ t \in Nat /\ h \in Nat /\ a \in Int /\ c \in Nat /\ x \in Int
      /\ w \in Int
  BY RingFacts
<1>2. c = (t - h) % s
  BY DEF get_count, count_between
<1> HIDE DEF s, t, h, a, c, w
<1>3. p \in Int /\ p \in 0..s - 1
  BY <1>1, DivMod
<1> HIDE DEF p
<1>4. e \in Nat /\ f = (p - t - 1) % s
  BY <1>3, EndOf DEF s, t
<1>5. (p - t - 1) % s = w % s
  <2> DEFINE y == 0 - (t + 1)
             d == t - h
             g == offset + n - x - 1
  <2>1. /\ y \in Int /\ d \in Int /\ g \in Int /\ p - t - 1 = p + y
        /\ a + y = g - d /\ g - c = w
    BY <1>1, <1>3 DEF a, w
  <2> HIDE DEF y, d, g
  <2>2. (p + y) % s = (a + y) % s
    BY <1>1, <2>1, ModAdd DEF p
  <2>3. (g - (d % s)) % s = (g - d) % s
    BY <1>1, <2>1, ModAdd
  <2>4. c = d % s
    BY <1>2 DEF d
  <2> QED BY <2>1, <2>2, <2>3, <2>4
<1>6. ChunkLen(r, offset, n, x) = MinOf(IF f <= e THEN f ELSE e + 1, x)
  <2>1. ChunkPos(r, offset, n, x) = p
    BY DEF ChunkPos, p, a, s, h
  <2>2. continguious_space(p, t, s) = IF f <= e THEN f ELSE e + 1
    BY DEF continguious_space, e, f
  <2> QED BY <2>1, <2>2 DEF ChunkLen, s, t
<1>7. f \in Nat
  <2>1. w % s \in 0..s - 1
    BY <1>1, DivMod
  <2> HIDE DEF f
  <2>2. f = w % s
    BY <1>4, <1>5
  <2> QED BY <1>1, <2>1, <2>2
<1> HIDE DEF f, e
<1>8. ChunkLen(r, offset, n, x) <= 0 <=> f = 0
  BY <1>1, <1>4, <1>6, <1>7 DEF MinOf
<1> QED BY <1>4, <1>5, <1>8 DEF w, c, s

\* Chunks with room never recur for ever.
LEMMA NeverRecurs ==
  ASSUME NEW r, Ring(r), NEW offset \in Nat, NEW n \in Nat,
         \A x \in 1..n : ChunkLen(r, offset, n, x) > 0
  PROVE  ~Recurs(r, offset, n)
<1> DEFINE len(x) == ChunkLen(r, offset, n, x)
<1>1. PICK R : /\ Recurs(r, offset, n) = R[n]
               /\ \A x \in 0..n : R[x] = (x > 0 /\ (len(x) <= 0 \/ R[x - len(x)]))
  BY RecursUnfold
<1>2. \A x \in 0..n : len(x) \in Int /\ len(x) <= x
  BY ChunkType
<1>3. \A x \in 1..n : len(x) > 0
  OBVIOUS
<1> HIDE DEF len
<1> DEFINE T == {x \in 0..n : R[x]}
<1>4. T = {}
  <2> SUFFICES ASSUME T # {} PROVE FALSE
    OBVIOUS
  <2>1. PICK x \in T : \A y \in T : x <= y
    <3>1. T \subseteq Nat
      OBVIOUS
    <3> HIDE DEF T
    <3> QED BY <3>1, LeastNat
  <2>2. x \in 0..n /\ R[x] /\ x \in Nat
    OBVIOUS
  <2>3. x > 0 /\ (len(x) <= 0 \/ R[x - len(x)])
    BY <1>1, <2>2
  <2>4. len(x) \in Int /\ len(x) <= x /\ len(x) > 0
    BY <1>2, <1>3, <2>2, <2>3
  <2>5. x - len(x) \in 0..n /\ ~(x <= x - len(x))
    BY <2>2, <2>4
  <2>6. x - len(x) \in T
    BY <2>3, <2>4, <2>5
  <2> HIDE DEF T
  <2> QED BY <2>1, <2>5, <2>6
<1>5. n \in 0..n
  OBVIOUS
<1> QED BY <1>1, <1>4, <1>5

\* An empty first chunk does.
LEMMA RecursAtOnce ==
  ASSUME NEW r, Ring(r), NEW offset \in Nat, NEW n \in Nat \ {0},
         ChunkLen(r, offset, n, n) <= 0
  PROVE  Recurs(r, offset, n)
<1> DEFINE len(x) == ChunkLen(r, offset, n, x)
<1>1. PICK R : /\ Recurs(r, offset, n) = R[n]
               /\ \A x \in 0..n : R[x] = (x > 0 /\ (len(x) <= 0 \/ R[x - len(x)]))
  BY RecursUnfold
<1>2. n \in 0..n /\ n > 0 /\ len(n) <= 0
  OBVIOUS
<1> HIDE DEF len
<1> QED BY <1>1, <1>2

\* A write that does not cross the end stays within the array.
LEMMA OverrunCrosses ==
  ASSUME NEW r, Ring(r), NEW offset \in Nat, NEW n \in Nat, ~Crosses(r, offset, n)
  PROVE  ~Overruns(r, offset, n)
<1> DEFINE s == r.size
           h == r.head + offset
           p0 == h % s
           len(x) == ChunkLen(r, offset, n, x)
           pos(x) == ChunkPos(r, offset, n, x)
<1>0. PICK G : CopiesBy(G, r, offset, n)
  BY CopiesUnfold
<1>1. s \in Nat \ {0} /\ h \in Int /\ p0 \in 0..s - 1 /\ p0 + n <= s
  <2>1. s \in Nat \ {0} /\ h \in Int
    BY RingFacts
  <2>2. ~(p0 + n > s)
    BY DEF Crosses
  <2> HIDE DEF s, h
  <2>3. p0 \in 0..s - 1
    BY <2>1, DivMod
  <2> HIDE DEF p0
  <2> QED BY <2>1, <2>2, <2>3
<1>2. \A x \in 0..n : len(x) \in Int /\ len(x) <= x
  BY ChunkType
<1>3. ASSUME NEW x \in 1..n PROVE pos(x) = p0 + n - x
  <2> DEFINE i == n - x
             z == p0 + i
  <2>1. pos(x) = (h + n - x) % s
    BY DEF ChunkPos
  <2> HIDE DEF s, h
  <2>2. (p0 + i) % s = (h + i) % s
    <3>1. i \in Int
      OBVIOUS
    <3> HIDE DEF i
    <3> QED BY <1>1, <3>1, ModAdd
  <2> HIDE DEF p0
  <2>3. h + n - x = h + i /\ z \in 0..s - 1 /\ z = p0 + n - x
    BY <1>1
  <2> HIDE DEF z
  <2>4. z % s = z
    BY <1>1, <2>3, ModSmall
  <2> QED BY <2>1, <2>2, <2>3, <2>4 DEF z
<1> HIDE DEF s, h, p0, len, pos
<1>4. \A x \in 0..n : G[x] = IF x = 0 \/ len(x) <= 0 THEN {}
                             ELSE Chunk(r, offset, n, x) \cup G[x - len(x)]
  BY <1>0 DEF CopiesBy, len
<1>5. ASSUME NEW x \in 1..n, NEW c \in Chunk(r, offset, n, x) PROVE c[1] \in Int /\ c[1] < s
  <2>1. PICK k \in 0..len(x) - 1 : c = <<pos(x) + k, n - x + k + 1>>
    BY DEF Chunk, len, pos
  <2>2. c[1] = pos(x) + k
    BY <2>1
  <2>3. len(x) \in Int /\ len(x) <= x
    BY <1>2
  <2>4. pos(x) + k \in Int /\ pos(x) + k < s
    BY <1>1, <1>3, <2>3
  <2> QED BY <2>2, <2>4
<1> DEFINE In(x) == \A c \in G[x] : c[1] \in Int /\ c[1] < s
           T == {x \in 0..n : ~In(x)}
<1>6. T = {}
  <2> SUFFICES ASSUME T # {} PROVE FALSE
    OBVIOUS
  <2>1. PICK x \in T : \A y \in T : x <= y
    <3>1. T \subseteq Nat
      OBVIOUS
    <3> HIDE DEF T
    <3> QED BY <3>1, LeastNat
  <2>2. x \in 0..n /\ x \in Nat /\ ~In(x)
    OBVIOUS
  <2>3. ~(x = 0 \/ len(x) <= 0)
    BY <1>4, <2>2
  <2>4. len(x) \in Int /\ len(x) <= x /\ len(x) > 0 /\ x \in 1..n
    BY <1>2, <2>2, <2>3
  <2>5. x - len(x) \in 0..n /\ ~(x <= x - len(x))
    BY <2>2, <2>4
  <2>6. In(x - len(x))
    <3> HIDE DEF In
    <3>1. x - len(x) \notin T
      <4> HIDE DEF T
      <4> QED BY <2>1, <2>5
    <3> QED BY <2>5, <3>1
  <2>7. G[x] = Chunk(r, offset, n, x) \cup G[x - len(x)]
    BY <1>4, <2>2, <2>3
  <2> QED BY <1>5, <2>2, <2>4, <2>6, <2>7
<1>7. n \in 0..n
  OBVIOUS
<1>8. In(n)
  BY <1>6, <1>7
<1>9. \A c \in Copies(r, offset, n) : c[1] \in Int /\ c[1] < s
  BY <1>0, <1>8 DEF CopiesBy
<1>10. \A c \in Copies(r, offset, n) : ~(c[1] >= s)
  BY <1>1, <1>9
<1> QED BY <1>10 DEF Overruns, s

\* A patch of bytes that are there is copied as it should be unless it crosses
\* the end or starts with the oldest byte of a full ring.
LEMMA PatchSafe ==
  ASSUME NEW r, Ring(r), TailNear(r), NEW k \in Nat, NEW n \in Nat \ {0},
         k + n <= get_count(r), ~Crosses(r, k, n),
         ~(k = 0 /\ get_count(r) = r.size - 1)
  PROVE  ~Recurs(r, k, n) /\ ~Overruns(r, k, n)
<1> DEFINE s == r.size
           c == get_count(r)
<1>1. s \in Nat \ {0} /\ c \in Nat /\ c <= s - 1
  BY RingFacts
<1>2. ASSUME NEW x \in 1..n PROVE ChunkLen(r, k, n, x) > 0
  <2> DEFINE y == c + 1 - k - n + x
             l == ChunkLen(r, k, n, x)
  <2>1. l <= 0 <=> (k + n - x - c - 1) % s = 0
    BY EmptyChunk
  <2>2. l \in Int
    <3>1. x \in 0..n
      OBVIOUS
    <3> QED BY <3>1, ChunkType
  <2> HIDE DEF s, c, l
  <2>3. y \in 1..s /\ y # s /\ k + n - x - c - 1 = 0 - y
    BY <1>1 DEF s, c
  <2> HIDE DEF y
  <2>4. (0 - y) % s # 0
    BY <1>1, <2>3, NegMod
  <2>5. ~(l <= 0)
    BY <2>1, <2>3, <2>4
  <2>6. l > 0
    BY <2>2, <2>5
  <2> QED BY <2>6 DEF l
<1>3. ~Recurs(r, k, n)
  BY <1>2, NeverRecurs
<1>4. ~Overruns(r, k, n)
  BY OverrunCrosses
<1> QED BY <1>3, <1>4

\* Behind the bytes of a ring with space: w is the ring after written(n).
LEMMA AppendRecurs ==
  ASSUME NEW r, Ring(r), NEW n \in Nat \ {0}, HasSpace(r, n)
  PROVE  LET w == written(r, n)
         IN  /\ Ring(w) /\ w.size = r.size /\ w.head = r.head /\ w.tail < w.size
             /\ w.tail = (r.tail + n) % r.size /\ n <= r.size - 1 - get_count(r)
             /\ Recurs(w, get_count(r), n) <=> n = r.size - 1
<1> DEFINE s == r.size
           c == get_count(r)
           w == written(r, n)
<1>1. s \in Nat \ {0} /\ c \in Nat /\ c <= s - 1 /\ r.tail + n \in Int
  BY RingFacts
<1>2. n <= s - 1 - c
  BY SpaceIs DEF HasSpace
<1>3. /\ Ring(w) /\ get_count(w) = c + n /\ w.size = s /\ w.head = r.head
      /\ w.tail = (r.tail + n) % s
  <2>1. c + n <= s - 1
    <3> HIDE DEF c, s
    <3> QED BY <1>1, <1>2
  <2> QED BY <2>1, WrittenRing
<1> HIDE DEF w, s, c
<1>4. w.tail < w.size
  <2> DEFINE x == r.tail + n
  <2> HIDE DEF x
  <2>1. x \in Int
    BY <1>1 DEF x
  <2>2. x % s \in 0..s - 1
    BY <1>1, <2>1, DivMod
  <2> QED BY <1>1, <1>3, <2>2 DEF x
<1>5. TailNear(w)
  BY <1>4 DEF TailNear
<1>6. ASSUME NEW x \in 1..n
      PROVE  ChunkLen(w, c, n, x) \in Int /\ (ChunkLen(w, c, n, x) <= 0 <=> x = s - 1)
  <2> DEFINE y == x + 1
             l == ChunkLen(w, c, n, x)
  <2>1. l <= 0 <=> (c + n - x - get_count(w) - 1) % w.size = 0
    BY <1>1, <1>3, <1>5, EmptyChunk
  <2>2. l \in Int
    <3>1. x \in 0..n
      OBVIOUS
    <3> QED BY <1>1, <1>3, <3>1, ChunkType
  <2> HIDE DEF l
  <2>3. y \in 1..s /\ c + n - x - get_count(w) - 1 = 0 - y
    BY <1>1, <1>2, <1>3
  <2> HIDE DEF y
  <2>4. (0 - y) % s = 0 <=> y = s
    BY <1>1, <2>3, NegMod
  <2>5. y = s <=> x = s - 1
    BY <1>1 DEF y
  <2> QED BY <1>3, <2>1, <2>2, <2>3, <2>4, <2>5 DEF l
<1>7. ASSUME n = s - 1 PROVE Recurs(w, c, n)
  <2>0. n \in 1..n
    OBVIOUS
  <2>1. ChunkLen(w, c, n, n) <= 0
    BY <1>6, <1>7, <2>0
  <2> QED BY <1>1, <1>3, <2>1, RecursAtOnce
<1>8. ASSUME n # s - 1 PROVE ~Recurs(w, c, n)
  <2>1. ASSUME NEW x \in 1..n PROVE ChunkLen(w, c, n, x) > 0
    <3>1. x # s - 1
      BY <1>1, <1>2, <1>8
    <3> QED BY <1>6, <3>1
  <2> QED BY <1>1, <1>3, <2>1, NeverRecurs
<1> QED BY <1>2, <1>3, <1>4, <1>7, <1>8 DEF w, s, c

\* The next byte goes to the cell of tail_.
LEMMA TailCell ==
  ASSUME NEW r, Ring(r)
  PROVE  (r.head + get_count(r)) % r.size = r.tail % r.size
<1> DEFINE d == r.tail - r.head
           a == r.head
           s == r.size
<1>1. s \in Nat \ {0} /\ d \in Int /\ a \in Int /\ a + d = r.tail
  BY RingFacts
<1>2. get_count(r) = d % s
  BY DEF get_count, count_between
<1> HIDE DEF d, a, s
<1>3. (a + (d % s)) % s = (a + d) % s
  BY <1>1, ModAdd
<1> QED BY <1>1, <1>2, <1>3 DEF a, s

\* A small append that crosses the end is copied in one chunk, over the end.
LEMMA AppendOverruns ==
  ASSUME NEW r, Ring(r), NEW n \in Nat \ {0}, HasSpace(r, n),
         Crosses(written(r, n), get_count(r), n), 2 * n < r.size
  PROVE  Overruns(written(r, n), get_count(r), n)
<1> DEFINE s == r.size
           c == get_count(r)
           w == written(r, n)
           t == w.tail
           h == r.head + c
           p == h % s
<1>1. /\ s \in Nat \ {0} /\ c \in Nat /\ h \in Int /\ r.head \in Nat /\ r.tail \in Nat
  BY RingFacts
<1>2. /\ Ring(w) /\ w.size = s /\ w.head = r.head /\ w.tail < w.size
      /\ w.tail = (r.tail + n) % s /\ n <= s - 1 - c
  BY AppendRecurs
<1>3. p + n > s
  BY <1>2 DEF Crosses
<1>5. 2 * n < s /\ t \in Nat
  BY <1>2, RingFacts
<1> HIDE DEF s, c, w, h
<1>6. p \in 0..s - 1
  BY <1>1, DivMod
<1>7. p = r.tail % s
  BY TailCell DEF p, h, s, c
<1>8. t = p + n - s
  <2> DEFINE z == p + n - s
             y == p + n
             u == r.tail
  <2>1. u \in Int /\ n \in Int
    BY <1>1
  <2> HIDE DEF u, t
  <2>2. ((u % s) + n) % s = (u + n) % s
    <3>1. s \in Nat \ {0} /\ u \in Int /\ n \in Int
      BY <1>1, <2>1
    <3> QED BY <3>1, ModAdd
  <2>3. t = (p + n) % s
    BY <1>2, <1>7, <2>2 DEF t, u
  <2> HIDE DEF p
  <2>4. z \in 0..s - 1 /\ y \in Int /\ y - s = z
    BY <1>1, <1>2, <1>3, <1>6
  <2> HIDE DEF z
  <2>5. y % s = z
    <3> HIDE DEF y
    <3>1. (y - s) % s = y % s /\ z % s = z
      BY <1>1, <2>4, ModWrap, ModSmall
    <3> QED BY <2>4, <3>1
  <2> QED BY <2>3, <2>5 DEF z
<1>9. ChunkPos(w, c, n, n) = p
  <2>1. w.head + c + n - n = h
    BY <1>1, <1>2 DEF h
  <2> QED BY <1>2, <2>1 DEF ChunkPos
<1> HIDE DEF p, t
<1>10. continguious_space(p, t, s) = s - n - 1
  <2> DEFINE y == s - 1 - t
             z == s - n - 1
             a == y + p
  <2>1. /\ y \in 0..MaxSize /\ z \in 0..s - 1 /\ z <= y /\ a \in Int
        /\ a - s = z
    <3>1. s <= MaxSize /\ MaxSize \in Nat
      BY CircleConstants DEF Ring, s
    <3> QED BY <1>1, <1>2, <1>5, <1>6, <1>8, <3>1 DEF t
  <2>2. AsInt(y) = y
    <3> HIDE DEF y
    <3> QED BY <2>1, AsIntSmall
  <2>3. a % s = z
    <3> HIDE DEF a, z
    <3>1. (a - s) % s = a % s /\ z % s = z
      BY <1>1, <2>1, ModWrap, ModSmall
    <3> QED BY <2>1, <3>1
  <2>4. continguious_space(p, t, s)
          = IF (AsInt(y) + p) % s <= AsInt(y) THEN (AsInt(y) + p) % s ELSE AsInt(y) + 1
    BY DEF continguious_space
  <2> HIDE DEF y, z
  <2> QED BY <2>1, <2>2, <2>3, <2>4 DEF z
<1>11. ChunkLen(w, c, n, n) = n
  <2> DEFINE z == s - n - 1
  <2>1. z >= n /\ z \in Nat
    BY <1>1, <1>5
  <2> HIDE DEF z
  <2>2. ChunkLen(w, c, n, n) = MinOf(z, n)
    BY <1>2, <1>9, <1>10 DEF ChunkLen, z, t
  <2> QED BY <2>1, <2>2 DEF MinOf
<1>12. PICK G : CopiesBy(G, w, c, n)
  BY <1>1, <1>2, CopiesUnfold
<1>13. G[n] = Chunk(w, c, n, n) \cup G[n - n] /\ Copies(w, c, n) = G[n]
  <2>1. n \in 0..n /\ ~(n = 0 \/ n <= 0)
    OBVIOUS
  <2> QED BY <1>11, <1>12, <2>1 DEF CopiesBy
<1>14. PICK e \in Chunk(w, c, n, n) : e[1] = p + (n - 1)
  <2>1. n - 1 \in 0..n - 1
    OBVIOUS
  <2>2. Chunk(w, c, n, n) = {<<p + k, n - n + k + 1>> : k \in 0..n - 1}
    BY <1>9, <1>11 DEF Chunk
  <2> DEFINE j == n - 1
             a == <<p + j, n - n + j + 1>>
  <2>3. a[1] = p + (n - 1)
    OBVIOUS
  <2>4. a \in Chunk(w, c, n, n)
    <3> HIDE DEF j
    <3> QED BY <2>1, <2>2 DEF j
  <2> HIDE DEF a
  <2> QED BY <2>3, <2>4
<1>15. e \in Copies(w, c, n)
  BY <1>13, <1>14
<1>16. e[1] >= s
  BY <1>1, <1>3, <1>6, <1>14
<1> QED BY <1>2, <1>15, <1>16 DEF Overruns, w, c

-----------------------------------------------------------------------------
(* tail_ stays near the array                                              *)

\* remove_from_back() leaves tail_ unreduced, the next write reduces it before
\* a destructor can take it further.
Near ==
  /\ TailNear(b) /\ b.size >= DefaultSize
  /\ damage = "none" /\ writer.used => b.tail < b.size

LEMMA AppendNear ==
  ASSUME Sound, Near, damage = "none", NEW data \in Seq(Cell), NEW w \in Writer,
         AppendBytes(data, w)
  PROVE  Near'
<1> USE CircleConstants
<1> DEFINE n == Len(data)
           g == GrowSpace(b, n)
<1>1. n \in Nat /\ Ring(b) /\ b.size \in Nat /\ TailNear(b) /\ b.size >= DefaultSize
  BY LenProperties, RingFacts DEF Sound, Near
<1>2. /\ Ring(g) /\ get_count(g) = get_count(b)
      /\ g = b \/ (g.size >= 4 * b.size /\ g.head = 0 /\ g.tail = get_count(b))
  BY <1>1, GrowSpaceRing
<1>3. g.size \in Nat \ {0} /\ get_count(g) < g.size
  <2> HIDE DEF g
  <2> QED BY <1>2, RingFacts
<1>4. CASE HasSpace(g, n)
  <2>1. /\ damage' = DamageOf(written(g, n), get_count(g), n)
        /\ IF damage' = "none"
           THEN b' = append(g, data) /\ io' = Call("put", data)
           ELSE UNCHANGED <<b, io>>
    BY <1>4 DEF AppendBytes
  <2>2. CASE damage' = "none"
    <3> HIDE DEF g
    <3>1. /\ ~Recurs(written(g, n), get_count(g), n)
          /\ ~Overruns(written(g, n), get_count(g), n)
      BY <2>1, <2>2, Undamaged
    <3>2. b'.size = g.size /\ b'.tail = (g.tail + n) % g.size
      BY <1>2, <1>4, <2>1, <2>2, <3>1, AppendRing
    <3>3. g.tail + n \in Int
      BY <1>1, <1>2, RingFacts
    <3> DEFINE x == g.tail + n
    <3> HIDE DEF x
    <3>4. x % g.size \in 0..g.size - 1
      BY <1>3, <3>3, DivMod DEF x
    <3>5. b'.tail < b'.size /\ b'.size >= DefaultSize
      BY <1>1, <1>2, <1>3, <3>2, <3>4 DEF x
    <3> QED BY <3>5 DEF Near, TailNear
  <2>3. CASE damage' # "none"
    <3>1. b' = b
      BY <2>1, <2>3
    <3> QED BY <1>1, <2>3, <3>1 DEF Near
  <2> QED BY <2>2, <2>3
<1>5. CASE ~HasSpace(g, n)
  <2>1. b' = g /\ UNCHANGED <<writer, damage>>
    BY <1>5 DEF AppendBytes
  <2> HIDE DEF g
  <2>2. CASE g = b
    BY <2>1, <2>2 DEF Near
  <2>3. CASE g # b
    <3>1. g.tail < g.size /\ g.size >= DefaultSize
      BY <1>1, <1>2, <1>3, <2>3
    <3> QED BY <2>1, <3>1 DEF Near, TailNear
  <2> QED BY <2>2, <2>3
<1> QED BY <1>4, <1>5

\* What the other operations do to the array and to tail_.
LEMMA FlushPlace ==
  ASSUME Sound, damage = "none", Flush
  PROVE  b'.size = b.size /\ b'.tail = b.tail /\ writer' = NoWriter /\ ~writer'.used
<1> USE CircleBufferConstants
<1> DEFINE data == Fresh(next - writer.length - Word, Word)
           k == writer.head
           f == copy(b, k, data)
<1>1. /\ Ring(b) /\ b.size \in Nat \ {0} /\ get_count(b) \in Nat
      /\ get_count(b) <= b.size - 1 /\ k \in Nat
      /\ next - writer.length - Word \in Int
  BY RingFacts DEF Sound, Writer
<1>2. data \in Seq(Cell) /\ Len(data) = Word
  BY <1>1, FreshSeq
<1>3. /\ k + Word <= get_count(b)
      /\ damage' = DamageOf(b, k, Word)
      /\ IF damage' = "none" THEN b' = f /\ io' = CallAt("replace", k, data)
         ELSE UNCHANGED <<b, io>>
      /\ writer' = NoWriter
  BY DEF Flush
<1>4. ~writer'.used
  BY <1>3 DEF NoWriter
<1>5. CASE damage' = "none"
  <2> HIDE DEF data
  <2>1. ~Recurs(b, k, Len(data)) /\ ~Overruns(b, k, Len(data))
    BY <1>2, <1>3, <1>5, Undamaged
  <2>2. k + Len(data) <= b.size /\ b' = f
    BY <1>1, <1>2, <1>3, <1>5
  <2> HIDE DEF k
  <2>3. f.size = b.size /\ f.tail = b.tail
    BY <1>1, <1>2, <2>1, <2>2, CopyRing
  <2> HIDE DEF f
  <2> QED BY <1>3, <1>4, <2>2, <2>3
<1>6. CASE damage' # "none"
  BY <1>3, <1>4, <1>6
<1> QED BY <1>5, <1>6

LEMMA DestroyPlace ==
  ASSUME Sound, damage = "none", Destroy
  PROVE  /\ writer.used /\ writer' = NoWriter /\ ~writer'.used /\ damage' = damage
         /\ b' # b => /\ Word + writer.length \in 0..get_count(b)
                      /\ Word + writer.length \in Nat /\ b'.size = b.size
                      /\ b'.tail = (b.tail - (Word + writer.length)) % SizeT
<1> USE CircleBufferConstants
<1> DEFINE n == Word + writer.length
           c == get_count(b)
           f == remove_from_back(b, n)
<1>1. /\ writer.used /\ writer' = NoWriter /\ damage' = damage
      /\ b' # b => c > writer.head /\ b' = Forget(f)
  BY DEF Destroy, TakeBack
<1>2. ~writer'.used
  BY <1>1 DEF NoWriter
<1>3. ASSUME b' # b
      PROVE  /\ n \in 0..c /\ n \in Nat /\ b'.size = b.size
             /\ b'.tail = (b.tail - n) % SizeT
  <2>1. c = writer.head + Word + writer.length
    BY <1>1, <1>3 DEF Sound, Behind
  <2>2. /\ Ring(b) /\ c \in Nat /\ writer.head \in Nat /\ writer.length \in Nat
    BY RingFacts DEF Sound, Writer
  <2>3. n \in 0..c /\ n \in Nat
    <3> HIDE DEF c
    <3> QED BY <2>1, <2>2
  <2>4. Ring(f) /\ f.size = b.size /\ f.tail = (b.tail - n) % SizeT
    <3> HIDE DEF n
    <3> QED BY <2>2, <2>3, RemoveBackRing
  <2> HIDE DEF f, n, c
  <2>5. b'.size = b.size /\ b'.tail = (b.tail - n) % SizeT
    BY <1>1, <1>3, <2>4, ForgetRing
  <2> QED BY <2>3, <2>5
<1> QED BY <1>1, <1>2, <1>3

LEMMA ResetPlace ==
  ASSUME Sound, Reset
  PROVE  b'.size = b.size /\ b'.tail = 0 /\ UNCHANGED <<writer, damage>>
<1> DEFINE f == reset(b)
<1>1. b' = Forget(f) /\ UNCHANGED <<writer, damage>>
  BY DEF Reset, Same
<1>2. Ring(f) /\ f.size = b.size /\ f.tail = 0
  BY ResetRing DEF Sound
<1> HIDE DEF f
<1> QED BY <1>1, <1>2, ForgetRing

LEMMA SendPlace ==
  ASSUME Sound, NEW n \in 1..get_count(b), Send(n)
  PROVE  b'.size = b.size /\ b'.tail = b.tail /\ UNCHANGED <<writer, damage>>
<1> DEFINE f == remove(b, n)
<1>1. b' = Forget(f) /\ UNCHANGED <<writer, damage>>
  BY DEF Send, Same
<1>2. Ring(b) /\ n \in 0..get_count(b)
  BY RingFacts DEF Sound
<1>3. Ring(f) /\ f.size = b.size /\ f.tail = b.tail
  BY <1>2, RemoveRing
<1> HIDE DEF f
<1> QED BY <1>1, <1>3, ForgetRing

LEMMA NearNext ==
  ASSUME Sound, Near, [Next]_vars
  PROVE  Near'
<1> USE CircleConstants, CircleBufferConstants
<1>0. /\ Ring(b) /\ b.size \in Nat \ {0} /\ TailNear(b) /\ b.size >= DefaultSize
      /\ get_count(b) \in Nat /\ get_count(b) <= b.size - 1
      /\ b.tail \in Nat /\ b.tail < SizeT /\ 2 * b.size < SizeT
      /\ writer \in Writer /\ writer.length \in Nat /\ writer.head \in Nat
      /\ next \in Int /\ SizeT \in Nat \ {0}
  BY RingFacts DEF Sound, Near, Writer, Ring
<1>1. CASE UNCHANGED vars
  BY <1>1 DEF vars, Near
<1>2. CASE Next
  <2>1. damage = "none"
    BY <1>2 DEF Next
  <2>2. CASE Open
    <3> DEFINE data == [i \in 1..Word |-> Mark]
               w == [used |-> TRUE, head |-> get_count(b), length |-> 0]
    <3>1. data \in Seq(Cell)
      BY MarksSeq
    <3>2. w \in Writer
      BY <1>0 DEF Writer
    <3>3. AppendBytes(data, w)
      BY <2>2 DEF Open
    <3> HIDE DEF data, w
    <3> QED BY <2>1, <3>1, <3>2, <3>3, AppendNear
  <2>3. CASE Flush
    BY <1>0, <2>1, <2>3, FlushPlace DEF Near, TailNear
  <2>4. CASE Destroy
    <3> DEFINE n == Word + writer.length
    <3>1. ~writer'.used
      BY <2>1, <2>4, DestroyPlace
    <3>2. CASE b' = b
      BY <1>0, <3>1, <3>2 DEF Near, TailNear
    <3>3. CASE b' # b
      <4>1. /\ writer.used /\ n \in 0..get_count(b) /\ n \in Nat
            /\ b'.size = b.size /\ b'.tail = (b.tail - n) % SizeT
        BY <2>1, <2>4, <3>3, DestroyPlace
      <4>2. b.tail < b.size
        BY <2>1, <4>1 DEF Near
      <4> DEFINE x == b.tail - n
      <4>3. x \in Int /\ x < b.size /\ x > 0 - b.size
        <5> HIDE DEF n
        <5> QED BY <1>0, <4>1, <4>2
      <4> HIDE DEF x, n
      <4>4. CASE x >= 0
        <5>1. x \in 0..SizeT - 1
          BY <1>0, <4>3, <4>4
        <5>2. x % SizeT = x
          BY <1>0, <5>1, ModSmall
        <5>3. b'.tail < b'.size
          BY <4>1, <4>3, <5>2 DEF x
        <5> QED BY <1>0, <3>1, <4>1, <5>3 DEF Near, TailNear
      <4>5. CASE ~(x >= 0)
        <5> DEFINE y == x + SizeT
        <5>1. y \in 0..SizeT - 1 /\ y > SizeT - b.size
          BY <1>0, <4>3, <4>5
        <5>2. (x + SizeT) % SizeT = x % SizeT
          BY <1>0, <4>3, ModWrap
        <5>3. y % SizeT = y
          <6> HIDE DEF y
          <6> QED BY <1>0, <5>1, ModSmall
        <5>4. b'.tail = y
          BY <4>1, <5>2, <5>3 DEF x
        <5>5. b'.tail > SizeT - b'.size
          BY <4>1, <5>1, <5>4
        <5> QED BY <1>0, <3>1, <4>1, <5>5 DEF Near, TailNear
      <4> QED BY <4>4, <4>5
    <3> QED BY <3>2, <3>3
  <2>5. CASE Reset
    <3>1. b'.size = b.size /\ b'.tail = 0
      BY <2>5, ResetPlace
    <3>2. b'.tail < b'.size
      BY <1>0, <3>1
    <3> QED BY <1>0, <3>1, <3>2 DEF Near, TailNear
  <2>6. ASSUME NEW n \in sizes, Write(n) PROVE Near'
    <3> DEFINE data == Fresh(next, n)
               w == [writer EXCEPT !.length = @ + n]
    <3>1. n \in Nat
      BY DEF Sound
    <3>2. data \in Seq(Cell)
      BY <1>0, <3>1, FreshSeq
    <3>3. w \in Writer
      <4>1. writer.length + n \in Nat
        BY <1>0, <3>1
      <4> QED BY <1>0, <4>1 DEF Writer
    <3>4. AppendBytes(data, w)
      BY <2>6 DEF Write
    <3> HIDE DEF data, w
    <3> QED BY <2>1, <3>2, <3>3, <3>4, AppendNear
  <2>7. ASSUME NEW n \in 1..get_count(b), Send(n) PROVE Near'
    <3>1. b'.size = b.size /\ b'.tail = b.tail /\ UNCHANGED <<writer, damage>>
      BY <2>7, SendPlace
    <3> QED BY <3>1 DEF Near, TailNear
  <2> QED BY <1>2, <2>2, <2>3, <2>4, <2>5, <2>6, <2>7 DEF Next
<1> QED BY <1>1, <1>2

LEMMA NearInit == Init => Near
<1> USE CircleConstants
<1>1. Init => b = New /\ writer = NoWriter
  BY DEF Init
<1>2. New.size = DefaultSize /\ New.tail = 0
  BY NewRing
<1> QED BY <1>1, <1>2 DEF Near, TailNear, NoWriter

LEMMA SafeIf ==
  ASSUME NEW r, NEW offset, NEW n, ~Recurs(r, offset, n), ~Overruns(r, offset, n)
  PROVE  DamageOf(r, offset, n) = "none"
BY DEF DamageOf

LEMMA WriteSafeNow ==
  ASSUME Sound, Near
  PROVE  WriteSafe
<1> USE CircleBufferConstants
<1> SUFFICES ASSUME NEW n \in sizes
             PROVE  /\ \A k \in 0..get_count(b) - n :
                         Unsafe(b, k, n) => Crosses(b, k, n) \/ get_count(b) = b.size - 1
                    /\ LET g == GrowSpace(b, n)
                           w == written(g, n)
                           k == get_count(g)
                       IN  HasSpace(g, n) =>
                             /\ Recurs(w, k, n) <=> n = g.size - 1
                             /\ Overruns(w, k, n) => Crosses(w, k, n)
                             /\ Crosses(w, k, n) /\ 2 * n < g.size => Overruns(w, k, n)
  BY DEF WriteSafe
<1>1. n \in Nat \ {0} /\ Ring(b) /\ TailNear(b) /\ get_count(b) \in Nat
  BY RingFacts DEF Sound, Near
<1>2. ASSUME NEW k \in 0..get_count(b) - n,
             ~Crosses(b, k, n), get_count(b) # b.size - 1
      PROVE  ~Unsafe(b, k, n)
  <2>1. k \in Nat /\ k + n <= get_count(b)
    BY <1>1
  <2>2. ~Recurs(b, k, n) /\ ~Overruns(b, k, n)
    BY <1>1, <1>2, <2>1, PatchSafe
  <2> QED BY <2>2, SafeIf DEF Unsafe
<1> DEFINE g == GrowSpace(b, n)
           w == written(g, n)
           k == get_count(g)
<1>3. Ring(g)
  BY <1>1, GrowSpaceRing
<1>4. ASSUME HasSpace(g, n)
      PROVE  /\ Recurs(w, k, n) <=> n = g.size - 1
             /\ Overruns(w, k, n) => Crosses(w, k, n)
             /\ Crosses(w, k, n) /\ 2 * n < g.size => Overruns(w, k, n)
  <2> HIDE DEF g
  <2>1. k \in Nat
    BY <1>3, RingFacts
  <2>2. Ring(w) /\ (Recurs(w, k, n) <=> n = g.size - 1)
    BY <1>1, <1>3, <1>4, AppendRecurs
  <2>3. Crosses(w, k, n) /\ 2 * n < g.size => Overruns(w, k, n)
    BY <1>1, <1>3, <1>4, AppendOverruns
  <2> HIDE DEF w, k
  <2>4. Overruns(w, k, n) => Crosses(w, k, n)
    BY <1>1, <2>1, <2>2, OverrunCrosses
  <2> QED BY <2>2, <2>3, <2>4
<1> QED BY <1>2, <1>4

\* For every ring and every program: what get_continguious_space() allows the
\* chunks of write() is right, but for the two cases WriteSafe names: a write
\* across the end of the array, and one that fills an empty ring.
THEOREM WriteSafeHolds == Spec => []WriteSafe
<1>1. Init => Sound /\ Near
  BY SoundInit, NearInit
<1>2. Sound /\ Near /\ [Next]_vars => Sound' /\ Near'
  BY SoundNext, NearNext
<1>3. Sound /\ Near => WriteSafe
  BY WriteSafeNow
<1> QED BY <1>1, <1>2, <1>3, PTL DEF Spec

-----------------------------------------------------------------------------
(* A ring of words                                                         *)

\* Multiples of w.
LEMMA Multiples ==
  ASSUME NEW w \in Nat \ {0}, NEW x \in Int, NEW y \in Int, x % w = 0, y % w = 0
  PROVE  (x + y) % w = 0 /\ (x - y) % w = 0
<1>1. PICK i \in Int : x = w * i
  BY MultMod
<1>2. PICK j \in Int : y = w * j
  BY MultMod
<1> DEFINE u == x + y
           v == x - y
           k == i + j
           l == i - j
<1>3. u \in Int /\ v \in Int /\ k \in Int /\ l \in Int /\ u = w * k /\ v = w * l
  BY <1>1, <1>2
<1> HIDE DEF u, v, k, l
<1>4. u % w = 0 /\ v % w = 0
  BY <1>3, MultMod
<1> QED BY <1>4 DEF u, v

LEMMA MultipleOfMultiple ==
  ASSUME NEW w \in Nat \ {0}, NEW x \in Nat \ {0}, NEW y \in Int,
         x % w = 0, y % x = 0
  PROVE  y % w = 0
<1>1. x \in Int /\ w \in Int
  OBVIOUS
<1>2. PICK i \in Int : x = w * i
  BY <1>1, MultMod
<1>3. PICK j \in Int : y = x * j
  BY MultMod
<1> DEFINE k == i * j
<1>4. k \in Int /\ y = w * k
  BY <1>2, <1>3
<1> HIDE DEF k
<1> QED BY <1>4, MultMod

\* A word at a multiple of its size ends before the array does.
LEMMA WordFits ==
  ASSUME NEW w \in Nat \ {0}, NEW s \in Nat \ {0}, NEW p \in 0..s - 1,
         s % w = 0, p % w = 0
  PROVE  p + w <= s
<1>1. p \in Int /\ s \in Int
  OBVIOUS
<1>2. PICK i \in Int : p = w * i
  BY <1>1, MultMod
<1>3. PICK j \in Int : s = w * j
  BY <1>1, MultMod
<1>4. i < j
  <2> SUFFICES ASSUME ~(i < j) PROVE FALSE
    OBVIOUS
  <2>1. w * i >= w * j
    OBVIOUS
  <2> QED BY <1>2, <1>3, <2>1
<1>5. w * (i + 1) <= w * j /\ w * (i + 1) = w * i + w
  <2>1. i + 1 <= j
    BY <1>4
  <2> QED BY <2>1
<1> QED BY <1>2, <1>3, <1>5

\* The packet header is a word of more than one byte, and the array of a new
\* ring is made of words.
WordSizes == Word > 1 /\ DefaultSize % Word = 0

\* While the program writes words only: the bytes of a writer are words, and
\* those of a ring that was never expanded start and end at words.
Words ==
  sizes = {Word} =>
    /\ damage = "none" => /\ writer.length % Word = 0
                          /\ b.size = DefaultSize => b.tail % Word = 0
    /\ damage # "none" => b.size > DefaultSize

LEMMA WordFacts ==
  ASSUME WordSizes
  PROVE  /\ Word \in Nat \ {0} /\ Word > 1 /\ DefaultSize \in Nat \ {0}
         /\ DefaultSize % Word = 0 /\ SizeT \in Nat \ {0} /\ SizeT % Word = 0
         /\ Word < DefaultSize - 1 \/ Word = DefaultSize
         /\ Word % Word = 0 /\ 0 % Word = 0
<1> USE CircleConstants, CircleBufferConstants
<1>1. /\ Word \in Nat \ {0} /\ Word > 1 /\ DefaultSize \in Nat \ {0}
      /\ DefaultSize % Word = 0 /\ SizeT \in Nat \ {0} /\ DefaultSize \in 1..SizeT
  BY DEF WordSizes
<1>2. SizeT % DefaultSize = 0
  BY <1>1, PowersDivide
<1>3. SizeT % Word = 0
  <2>1. SizeT \in Int
    BY <1>1
  <2> QED BY <1>1, <1>2, <2>1, MultipleOfMultiple
<1>4. PICK j \in Int : DefaultSize = Word * j
  <2>1. DefaultSize \in Int
    BY <1>1
  <2> QED BY <1>1, <2>1, MultMod
<1>5. Word < DefaultSize - 1 \/ Word = DefaultSize
  <2>1. CASE j <= 0
    <3>1. Word * j <= 0
      BY <1>1, <2>1
    <3> QED BY <1>1, <1>4, <3>1
  <2>2. CASE j = 1
    BY <1>1, <1>4, <2>2
  <2>3. CASE j >= 2
    <3>1. Word * j >= Word * 2
      BY <1>1, <2>3
    <3> QED BY <1>1, <1>4, <3>1
  <2> QED BY <2>1, <2>2, <2>3
<1>6. Word % Word = 0 /\ 0 % Word = 0
  <2>1. Word \in Int /\ 0 \in Int /\ Word = Word * 1 /\ 0 = Word * 0
    BY <1>1
  <2> QED BY <1>1, <2>1, MultMod
<1> QED BY <1>1, <1>3, <1>5, <1>6

\* A word appended to a ring that was never expanded is copied as it should be.
LEMMA WordAppend ==
  ASSUME WordSizes, Sound, b.size = DefaultSize, b.tail % Word = 0,
         HasSpace(GrowSpace(b, Word), Word)
  PROVE  LET g == GrowSpace(b, Word)
         IN  DamageOf(written(g, Word), get_count(g), Word) = "none"
<1> DEFINE g == GrowSpace(b, Word)
           w == written(g, Word)
           c == get_count(g)
           s == g.size
<1>1. /\ Word \in Nat \ {0} /\ Word > 1 /\ DefaultSize \in Nat \ {0}
      /\ DefaultSize % Word = 0 /\ (Word < DefaultSize - 1 \/ Word = DefaultSize)
  BY WordFacts
<1>2. Ring(b)
  BY DEF Sound
<1>3. /\ Ring(g) /\ c = get_count(b)
      /\ g = b \/ (s >= 4 * b.size /\ g.head = 0)
  BY <1>1, <1>2, GrowSpaceRing
<1>4. HasSpace(g, Word)
  OBVIOUS
<1> HIDE DEF g
<1>5. /\ Ring(w) /\ w.size = s /\ w.head = g.head /\ Word <= s - 1 - c
      /\ Recurs(w, c, Word) <=> Word = s - 1
  BY <1>1, <1>3, <1>4, AppendRecurs
<1>6. s \in Nat \ {0} /\ c \in Nat /\ c <= s - 1 /\ g.head \in Nat /\ g.tail \in Nat
  BY <1>3, RingFacts
<1>7. ~Recurs(w, c, Word)
  <2>1. Word # s - 1
    <3>1. CASE g = b
      BY <1>1, <1>5, <1>6, <3>1
    <3>2. CASE s >= 4 * b.size
      BY <1>1, <1>6, <3>2
    <3> QED BY <1>3, <3>1, <3>2
  <2> QED BY <1>5, <2>1
<1>8. ~Crosses(w, c, Word)
  <2> SUFFICES ((g.head + c) % s) + Word <= s
    <3>1. (g.head + c) % s \in Int
      <4>1. g.head + c \in Int
        BY <1>6
      <4> QED BY <1>6, <4>1, DivMod
    <3> QED BY <1>1, <1>5, <1>6, <3>1 DEF Crosses
  <2>1. CASE g = b
    <3> DEFINE t == b.tail
               p == t % s
    <3>1. (g.head + c) % s = p
      BY <1>2, <1>3, <2>1, TailCell
    <3>2. s = DefaultSize /\ t \in Int /\ t % Word = 0
      BY <1>6, <2>1
    <3> HIDE DEF t
    <3>3. p % Word = 0 /\ p \in 0..s - 1
      <4>1. p % Word = t % Word
        BY <1>1, <1>6, <3>2, ModTwice
      <4>2. p \in 0..s - 1
        BY <1>6, <3>2, DivMod
      <4> QED BY <3>2, <4>1, <4>2
    <3> HIDE DEF p, s
    <3>4. p + Word <= s
      BY <1>1, <1>6, <3>2, <3>3, WordFits
    <3> QED BY <3>1, <3>4
  <2>2. CASE s >= 4 * b.size /\ g.head = 0
    <3>1. 0 + c = c /\ c \in 0..s - 1
      BY <1>6
    <3> HIDE DEF c, s
    <3>2. c % s = c
      BY <1>6, <3>1, ModSmall
    <3> QED BY <1>1, <1>5, <1>6, <2>2, <3>1, <3>2
  <2> QED BY <1>3, <2>1, <2>2
<1> HIDE DEF w, c
<1>9. ~Overruns(w, c, Word)
  BY <1>1, <1>5, <1>6, <1>8, OverrunCrosses
<1>10. DamageOf(w, c, Word) = "none"
  BY <1>7, <1>9, SafeIf
<1> QED BY <1>10 DEF g, w, c

LEMMA AppendWords ==
  ASSUME WordSizes, Sound, Near, Words, damage = "none", sizes = {Word}, sizes' = sizes,
         NEW data \in Seq(Cell), Len(data) = Word, NEW w, w.length % Word = 0,
         AppendBytes(data, w)
  PROVE  Words'
<1> DEFINE g == GrowSpace(b, Word)
<1>1. /\ Word \in Nat \ {0} /\ DefaultSize \in Nat \ {0} /\ DefaultSize % Word = 0
      /\ Word % Word = 0
  BY WordFacts
<1>2. /\ Ring(b) /\ b.size \in Nat \ {0} /\ b.size >= DefaultSize
      /\ writer.length % Word = 0 /\ (b.size = DefaultSize => b.tail % Word = 0)
  BY RingFacts DEF Sound, Near, Words
<1>3. Ring(g) /\ (g = b \/ g.size >= 4 * b.size)
  BY <1>1, <1>2, GrowSpaceRing
<1>4. /\ g.size \in Nat \ {0} /\ g.tail \in Nat
      /\ g.size = DefaultSize => g = b
  <2> HIDE DEF g
  <2>1. g.size \in Nat \ {0} /\ g.tail \in Nat
    BY <1>3, RingFacts
  <2> QED BY <1>1, <1>2, <1>3, <2>1
<1>5. CASE HasSpace(g, Word)
  <2>1. /\ damage' = DamageOf(written(g, Word), get_count(g), Word)
        /\ IF damage' = "none"
           THEN b' = append(g, data) /\ io' = Call("put", data)
           ELSE UNCHANGED <<b, io>>
        /\ writer' = w
    BY <1>5 DEF AppendBytes
  <2>2. CASE damage' = "none"
    <3>1. /\ ~Recurs(written(g, Word), get_count(g), Word)
          /\ ~Overruns(written(g, Word), get_count(g), Word)
      BY <2>1, <2>2, Undamaged
    <3> HIDE DEF g
    <3>2. b'.size = g.size /\ b'.tail = (g.tail + Word) % g.size
      BY <1>3, <1>5, <2>1, <2>2, <3>1, AppendRing
    <3>3. ASSUME b'.size = DefaultSize PROVE b'.tail % Word = 0
      <4> DEFINE x == g.tail
                 y == x + Word
      <4>0. g = b /\ b.size = DefaultSize
        BY <1>4, <3>2, <3>3
      <4>1. x % Word = 0 /\ x \in Int /\ Word \in Int /\ y \in Int
        <5>1. x \in Int /\ Word \in Int
          BY <1>1, <1>4
        <5>2. x % Word = 0
          BY <1>2, <4>0
        <5> QED BY <5>1, <5>2
      <4> HIDE DEF x
      <4>2. y % Word = 0
        BY <1>1, <4>1, Multiples
      <4> HIDE DEF y
      <4>3. (y % DefaultSize) % Word = y % Word
        BY <1>1, <4>1, ModTwice
      <4> QED BY <3>2, <3>3, <4>2, <4>3 DEF x, y
    <3> QED BY <2>1, <2>2, <3>3 DEF Words
  <2>3. CASE damage' # "none"
    <3>1. b.size # DefaultSize
      BY <1>2, <1>5, <2>1, <2>3, WordAppend
    <3>2. b' = b
      BY <2>1, <2>3
    <3>3. b'.size > DefaultSize
      BY <1>1, <1>2, <3>1, <3>2
    <3> QED BY <2>3, <3>3 DEF Words
  <2> QED BY <2>2, <2>3
<1>6. CASE ~HasSpace(g, Word)
  <2>1. b' = g /\ writer' = writer /\ damage' = damage
    BY <1>6 DEF AppendBytes
  <2> HIDE DEF g
  <2>2. b'.size = DefaultSize => b'.tail % Word = 0
    BY <1>2, <1>4, <2>1
  <2> QED BY <1>2, <2>1, <2>2 DEF Words
<1> QED BY <1>5, <1>6

\* The header of a packet of words is patched as it should be.
LEMMA FlushWords ==
  ASSUME WordSizes, Sound, Near, Words, damage = "none", sizes = {Word}, sizes' = sizes,
         Flush
  PROVE  Words'
<1> DEFINE k == writer.head
           c == get_count(b)
           s == b.size
           t == b.tail
           l == writer.length
<1>1. /\ Word \in Nat \ {0} /\ Word > 1 /\ DefaultSize \in Nat \ {0}
      /\ DefaultSize % Word = 0 /\ Word % Word = 0 /\ 0 % Word = 0
  BY WordFacts
<1>2. /\ Ring(b) /\ TailNear(b) /\ s \in Nat \ {0} /\ s >= DefaultSize /\ c \in Nat
      /\ t \in Int /\ k \in Nat /\ l \in Nat /\ b.head \in Nat
      /\ l % Word = 0 /\ (s = DefaultSize => t % Word = 0)
  BY RingFacts DEF Sound, Near, Words, Writer
<1>3. s = b'.size /\ t = b'.tail /\ writer' = NoWriter
  BY FlushPlace
<1>4. k + Word <= c /\ damage' = DamageOf(b, k, Word) /\ c = k + Word + l
  <2>1. k + Word <= c /\ damage' = DamageOf(b, k, Word) /\ writer.used
    BY DEF Flush
  <2>2. c > k
    <3> HIDE DEF c, k
    <3> QED BY <1>1, <1>2, <2>1
  <2> QED BY <2>1, <2>2 DEF Sound, Behind
<1>5. writer'.length % Word = 0
  BY <1>1, <1>3 DEF NoWriter
<1>6. ASSUME s = DefaultSize PROVE DamageOf(b, k, Word) = "none"
  <2> DEFINE d == Word + l
             y == t - d
             p == y % s
             a == b.head + k
  <2>0. Word \in Int /\ l \in Int /\ DefaultSize \in Int
    BY <1>1, <1>2
  <2>1. d \in Int /\ d % Word = 0
    <3>1. l % Word = 0
      BY <1>2
    <3> HIDE DEF l
    <3>2. (Word + l) % Word = 0
      BY <1>1, <2>0, <3>1, Multiples
    <3> QED BY <2>0, <3>2
  <2>2. y \in Int /\ y % Word = 0
    <3>1. t \in Int /\ t % Word = 0
      BY <1>2, <1>6
    <3> HIDE DEF d, t
    <3>2. (t - d) % Word = 0
      BY <1>1, <2>1, <3>1, Multiples
    <3> QED BY <2>1, <3>1, <3>2
  <2>3. a % s = p
    <3> DEFINE u == b.head + c
               v == 0 - d
    <3>1. /\ u \in Int /\ v \in Int /\ a \in Int /\ a = u + v /\ y = t + v
      BY <1>1, <1>2, <1>4
    <3>2. u % s = t % s
      BY <1>2, TailCell
    <3> HIDE DEF u, v, a, y, t, s
    <3>3. ((u % s) + v) % s = (u + v) % s
      BY <1>2, <3>1, ModAdd
    <3>4. ((t % s) + v) % s = (t + v) % s
      BY <1>2, <3>1, ModAdd
    <3> QED BY <3>1, <3>2, <3>3, <3>4
  <2>4. p \in 0..s - 1 /\ p % Word = 0
    <3> HIDE DEF y, s
    <3>1. p \in 0..s - 1
      BY <1>2, <2>2, DivMod
    <3>2. p % Word = y % Word
      BY <1>1, <1>2, <1>6, <2>2, ModTwice
    <3> QED BY <2>2, <3>1, <3>2
  <2>5. ~Crosses(b, k, Word)
    <3>1. p + Word <= s
      <4> HIDE DEF p, s
      <4> QED BY <1>1, <1>2, <1>6, <2>4, WordFits
    <3>2. ~(p + Word > s)
      <4> HIDE DEF p, s
      <4> QED BY <1>1, <1>2, <2>4, <3>1
    <3> QED BY <2>3, <3>2 DEF Crosses
  <2>6. ~(k = 0 /\ c = s - 1)
    <3> SUFFICES ASSUME k = 0, c = s - 1 PROVE FALSE
      OBVIOUS
    <3> DEFINE one == DefaultSize - d
    <3>1. one = 1
      <4> HIDE DEF k, c, s, l
      <4> QED BY <1>1, <1>2, <1>4, <1>6
    <3>2. one % Word = 0
      <4> HIDE DEF d
      <4> QED BY <1>1, <2>0, <2>1, Multiples
    <3>3. 1 \in 0..Word - 1
      BY <1>1
    <3>4. 1 % Word = 1
      BY <1>1, <3>3, ModSmall
    <3> QED BY <3>1, <3>2, <3>4
  <2> HIDE DEF k
  <2>7. ~Recurs(b, k, Word) /\ ~Overruns(b, k, Word)
    BY <1>1, <1>2, <1>4, <2>5, <2>6, PatchSafe
  <2> QED BY <2>7, SafeIf
<1>7. damage' # "none" => s > DefaultSize
  BY <1>1, <1>2, <1>4, <1>6
<1> QED BY <1>2, <1>3, <1>5, <1>7 DEF Words

LEMMA WordsNext ==
  ASSUME WordSizes, Sound, Near, Words, [Next]_vars
  PROVE  Words'
<1>1. CASE UNCHANGED vars
  BY <1>1 DEF vars, Words
<1>2. CASE Next
  <2>0. damage = "none" /\ sizes' = sizes
    BY <1>2 DEF Next
  <2> SUFFICES ASSUME sizes = {Word} PROVE Words'
    BY <2>0 DEF Words
  <2>1. /\ Word \in Nat \ {0} /\ SizeT \in Nat \ {0} /\ SizeT % Word = 0
        /\ Word % Word = 0 /\ 0 % Word = 0 /\ Word \in Int
    BY WordFacts
  <2>2. /\ writer.length % Word = 0 /\ (b.size = DefaultSize => b.tail % Word = 0)
        /\ writer \in Writer /\ writer.length \in Nat /\ next \in Int /\ b.tail \in Int
    BY <2>0, RingFacts, CircleBufferConstants DEF Words, Sound, Writer
  <2>3. CASE Open
    <3> DEFINE data == [i \in 1..Word |-> Mark]
               w == [used |-> TRUE, head |-> get_count(b), length |-> 0]
    <3>1. data \in Seq(Cell) /\ Len(data) = Word
      BY MarksSeq
    <3>2. w.length % Word = 0
      BY <2>1
    <3>3. AppendBytes(data, w)
      BY <2>3 DEF Open
    <3> HIDE DEF data, w
    <3> QED BY <2>0, <3>1, <3>2, <3>3, AppendWords
  <2>4. CASE Flush
    BY <2>0, <2>4, FlushWords
  <2>5. CASE Destroy
    <3> DEFINE n == Word + writer.length
               x == b.tail - n
    <3>1. writer' = NoWriter /\ damage' = damage
      BY <2>0, <2>5, DestroyPlace
    <3>2. writer'.length % Word = 0
      BY <2>1, <3>1 DEF NoWriter
    <3>3. ASSUME b'.size = DefaultSize PROVE b'.tail % Word = 0
      <4>1. CASE b' = b
        BY <2>2, <3>3, <4>1
      <4>2. CASE b' # b
        <5>1. b'.size = b.size /\ b'.tail = x % SizeT
          BY <2>0, <2>5, <4>2, DestroyPlace
        <5>2. writer.length \in Int
          BY <2>2
        <5>3. n % Word = 0 /\ n \in Int
          BY <2>1, <2>2, <5>2, Multiples
        <5>4. b.tail % Word = 0
          BY <2>2, <3>3, <5>1
        <5> HIDE DEF n
        <5>5. x % Word = 0 /\ x \in Int
          BY <2>1, <2>2, <5>3, <5>4, Multiples
        <5> HIDE DEF x
        <5>6. (x % SizeT) % Word = x % Word
          BY <2>1, <5>5, ModTwice
        <5> QED BY <5>1, <5>5, <5>6
      <4> QED BY <4>1, <4>2
    <3> QED BY <2>0, <3>1, <3>2, <3>3 DEF Words
  <2>6. CASE Reset
    <3>1. b'.tail = 0 /\ UNCHANGED <<writer, damage>>
      BY <2>6, ResetPlace
    <3> QED BY <2>0, <2>1, <2>2, <3>1 DEF Words
  <2>7. ASSUME NEW n \in sizes, Write(n) PROVE Words'
    <3> DEFINE data == Fresh(next, Word)
               w == [writer EXCEPT !.length = @ + Word]
    <3>1. n = Word
      OBVIOUS
    <3>2. data \in Seq(Cell) /\ Len(data) = Word
      BY <2>1, <2>2, FreshSeq
    <3>3. w.length = writer.length + Word
      BY <2>2 DEF Writer
    <3>4. (writer.length + Word) % Word = 0
      <4>1. writer.length \in Int
        BY <2>2
      <4> QED BY <2>1, <2>2, <4>1, Multiples
    <3>5. AppendBytes(data, w)
      BY <2>7, <3>1 DEF Write
    <3>6. w.length % Word = 0
      BY <3>3, <3>4
    <3> HIDE DEF data, w
    <3> QED BY <2>0, <3>2, <3>5, <3>6, AppendWords
  <2>8. ASSUME NEW n \in 1..get_count(b), Send(n) PROVE Words'
    <3>1. b'.size = b.size /\ b'.tail = b.tail /\ UNCHANGED <<writer, damage>>
      BY <2>8, SendPlace
    <3> QED BY <2>0, <2>2, <3>1 DEF Words
  <2> QED BY <1>2, <2>3, <2>4, <2>5, <2>6, <2>7, <2>8 DEF Next
<1> QED BY <1>1, <1>2

LEMMA WordsInit == WordSizes /\ Init => Words
<1> SUFFICES ASSUME WordSizes, Init PROVE Words
  OBVIOUS
<1>1. b = New /\ writer = NoWriter /\ damage = "none"
  BY DEF Init
<1>2. New.tail = 0 /\ 0 % Word = 0
  BY NewRing, WordFacts
<1> QED BY <1>1, <1>2 DEF Words, NoWriter

\* For every ring whose first array is made of words, every size of a word but
\* a single byte and any order of partial sends, resets and thrown writers: a
\* program that writes words only, as client and server do, never writes behind
\* the array of a send_buff_ that was never expanded, nor recurs in write().
THEOREM WordsSafeHolds ==
  ASSUME WordSizes
  PROVE  Spec => []WordsSafe
<1>1. Init => Sound /\ Near /\ Words
  BY SoundInit, NearInit, WordsInit
<1>2. Sound /\ Near /\ Words /\ [Next]_vars => Sound' /\ Near' /\ Words'
  BY SoundNext, NearNext, WordsNext
<1>3. Words => WordsSafe
  BY DEF Words, WordsSafe
<1> QED BY <1>1, <1>2, <1>3, PTL DEF Spec

-----------------------------------------------------------------------------
(* Recursive functions and sequences                                       *)

\* Induction: what every step of a recursive function keeps holds throughout.
LEMMA Stays ==
  ASSUME NEW S, NEW m \in Nat, NEW n \in Nat, NEW f,
         f[m] \in S, \A k \in m + 1..n : f[k - 1] \in S => f[k] \in S
  PROVE  \A k \in m..n : f[k] \in S
<1> DEFINE T == {k \in m..n : f[k] \notin S}
<1>1. T = {}
  <2> SUFFICES ASSUME T # {} PROVE FALSE
    OBVIOUS
  <2>1. T \subseteq Nat
    OBVIOUS
  <2>2. PICK k \in T : \A y \in T : k <= y
    <3> HIDE DEF T
    <3> QED BY <2>1, LeastNat
  <2>3. k \in m..n /\ f[k] \notin S
    OBVIOUS
  <2>4. k # m
    BY <2>3
  <2>5. k \in m + 1..n /\ k - 1 \in m..n /\ ~(k <= k - 1)
    BY <2>3, <2>4
  <2>6. k - 1 \notin T
    <3> HIDE DEF T
    <3> QED BY <2>2, <2>5
  <2>7. f[k - 1] \in S
    BY <2>5, <2>6
  <2> QED BY <2>3, <2>5, <2>7
<1> QED BY <1>1

\* g is defined over m..n by its first value and its steps.
Solves(g, S, m, n, x, step) ==
  /\ g \in [m..n -> S]
  /\ \A k \in m..n : g[k] = IF k = m THEN x ELSE step[k][g[k - 1]]

\* A recursive definition whose steps stay in a set has a solution.
LEMMA Iterates ==
  ASSUME NEW S, NEW m \in Nat, NEW n \in Nat, m <= n, NEW x \in S,
         NEW step \in [m..n -> [S -> S]]
  PROVE  \E g : Solves(g, S, m, n, x, step)
<1> DEFINE P(g, j) == /\ g \in [m..j -> S]
                      /\ \A k \in m..j : g[k] = IF k = m THEN x ELSE step[k][g[k - 1]]
           T == {j \in m..n : ~ \E g : P(g, j)}
<1>1. T = {}
  <2> SUFFICES ASSUME T # {} PROVE FALSE
    OBVIOUS
  <2>1. T \subseteq Nat
    OBVIOUS
  <2>2. PICK j \in T : \A y \in T : j <= y
    <3> HIDE DEF T
    <3> QED BY <2>1, LeastNat
  <2>3. j \in m..n /\ ~ \E g : P(g, j)
    OBVIOUS
  <2>4. CASE j = m
    <3> DEFINE g == [k \in m..m |-> x]
    <3>1. P(g, m)
      OBVIOUS
    <3> QED BY <2>3, <2>4, <3>1
  <2>5. CASE j # m
    <3>1. j - 1 \in m..n /\ ~(j <= j - 1)
      BY <2>3, <2>5
    <3>2. j - 1 \notin T
      <4> HIDE DEF T
      <4> QED BY <2>2, <3>1
    <3>3. PICK g : P(g, j - 1)
      BY <3>1, <3>2
    <3> DEFINE v == step[j][g[j - 1]]
               h == [k \in m..j |-> IF k = j THEN v ELSE g[k]]
    <3>4. g[j - 1] \in S /\ v \in S
      <4>1. j - 1 \in m..j - 1 /\ j \in m..n
        BY <2>3, <3>1
      <4>2. g[j - 1] \in S
        BY <3>3, <4>1
      <4> QED BY <4>1, <4>2
    <3>5. \A k \in m..j : k # j => k \in m..j - 1
      BY <2>3
    <3>6. h \in [m..j -> S]
      <4> HIDE DEF v
      <4> QED BY <3>3, <3>4, <3>5
    <3>7. h[j] = v /\ \A k \in m..j - 1 : h[k] = g[k]
      <4>1. j \in m..j /\ \A k \in m..j - 1 : k \in m..j /\ k # j
        BY <2>3
      <4> HIDE DEF v
      <4> QED BY <4>1
    <3> HIDE DEF h
    <3>8. ASSUME NEW k \in m..j
          PROVE  h[k] = IF k = m THEN x ELSE step[k][h[k - 1]]
      <4>1. CASE k = j
        <5>1. j - 1 \in m..j - 1
          BY <2>3, <2>5
        <5>2. h[j - 1] = g[j - 1]
          BY <3>7, <5>1
        <5> QED BY <2>5, <3>7, <4>1, <5>2
      <4>2. CASE k # j
        <5>1. k \in m..j - 1 /\ (k # m => k - 1 \in m..j - 1)
          BY <2>3, <4>2
        <5>2. h[k] = g[k] /\ (k # m => h[k - 1] = g[k - 1])
          BY <3>7, <5>1
        <5>3. g[k] = IF k = m THEN x ELSE step[k][g[k - 1]]
          BY <3>3, <5>1
        <5> QED BY <5>2, <5>3
      <4> QED BY <4>1, <4>2
    <3>9. P(h, j)
      BY <3>6, <3>8
    <3> QED BY <2>3, <3>9
  <2> QED BY <2>4, <2>5
<1>2. n \in m..n
  OBVIOUS
<1>3. \E g : P(g, n)
  BY <1>1, <1>2
<1> QED BY <1>3 DEF Solves

\* A function on 1..n is a sequence.
LEMMA FunctionIsSeq ==
  ASSUME NEW S, NEW n \in Nat, NEW f \in [1..n -> S]
  PROVE  f \in Seq(S) /\ Len(f) = n /\ DOMAIN f = 1..n
<1>1. f \in Seq(S)
  BY SeqDef
<1>2. DOMAIN f = 1..n
  OBVIOUS
<1>3. DOMAIN f = 1..Len(f) /\ Len(f) \in Nat
  BY <1>1, LenProperties
<1> QED BY <1>1, <1>2, <1>3

\* Part of a sequence.
LEMMA PartOf ==
  ASSUME NEW S, NEW q \in Seq(S), NEW m \in Nat, NEW n \in Nat, m + n <= Len(q)
  PROVE  /\ SubSeq(q, m + 1, m + n) \in Seq(S)
         /\ Len(SubSeq(q, m + 1, m + n)) = n
         /\ \A i \in 1..n : SubSeq(q, m + 1, m + n)[i] = q[m + i]
<1> DEFINE l == m + 1
           u == m + n
<1>1. l \in Int /\ u \in Int /\ u - l + 1 = n /\ (l <= u <=> n # 0)
  OBVIOUS
<1>2. \A i \in l..u : q[i] \in S
  <2> TAKE i \in l..u
  <2>1. i \in 1..Len(q)
    BY LenProperties
  <2> QED BY <2>1, ElementOfSeq
<1>3. \A i \in 1..n : l + i - 1 = m + i
  OBVIOUS
<1> HIDE DEF l, u
<1>4. /\ SubSeq(q, l, u) \in Seq(S)
      /\ Len(SubSeq(q, l, u)) = IF l <= u THEN u - l + 1 ELSE 0
      /\ \A i \in 1..u - l + 1 : SubSeq(q, l, u)[i] = q[l + i - 1]
  BY <1>1, <1>2, SubSeqProperties
<1>5. /\ Len(SubSeq(q, l, u)) = n
      /\ \A i \in 1..n : SubSeq(q, l, u)[i] = q[m + i]
  BY <1>1, <1>3, <1>4
<1> QED BY <1>4, <1>5 DEF l, u

\* The first m elements of a sequence, and the others.
LEMMA Halves ==
  ASSUME NEW S, NEW q \in Seq(S), NEW m \in Nat, NEW n \in Nat, Len(q) = n, m <= n
  PROVE  /\ SubSeq(q, 1, m) \in Seq(S) /\ Len(SubSeq(q, 1, m)) = m
         /\ \A i \in 1..m : SubSeq(q, 1, m)[i] = q[i]
         /\ SubSeq(q, m + 1, n) \in Seq(S) /\ Len(SubSeq(q, m + 1, n)) = n - m
         /\ \A i \in 1..n - m : SubSeq(q, m + 1, n)[i] = q[m + i]
<1> DEFINE o == 0
           j == n - m
<1>1. o \in Nat /\ o + m <= Len(q) /\ o + 1 = 1 /\ o + m = m /\ \A i \in 1..m : o + i = i
  OBVIOUS
<1>2. j \in Nat /\ m + j <= Len(q) /\ m + j = n
  OBVIOUS
<1> HIDE DEF o, j
<1>3. /\ SubSeq(q, o + 1, o + m) \in Seq(S) /\ Len(SubSeq(q, o + 1, o + m)) = m
      /\ \A i \in 1..m : SubSeq(q, o + 1, o + m)[i] = q[o + i]
  BY <1>1, PartOf
<1>4. /\ SubSeq(q, m + 1, m + j) \in Seq(S) /\ Len(SubSeq(q, m + 1, m + j)) = j
      /\ \A i \in 1..j : SubSeq(q, m + 1, m + j)[i] = q[m + i]
  BY <1>2, PartOf
<1>5. /\ SubSeq(q, 1, m) \in Seq(S) /\ Len(SubSeq(q, 1, m)) = m
      /\ \A i \in 1..m : SubSeq(q, 1, m)[i] = q[i]
  BY <1>1, <1>3
<1>6. /\ SubSeq(q, m + 1, n) \in Seq(S) /\ Len(SubSeq(q, m + 1, n)) = j
      /\ \A i \in 1..j : SubSeq(q, m + 1, n)[i] = q[m + i]
  BY <1>2, <1>4
<1> QED BY <1>5, <1>6 DEF j

\* A sequence is its first k elements and the others.
LEMMA TwoParts ==
  ASSUME NEW S, NEW q \in Seq(S), NEW k \in 0..Len(q)
  PROVE  q = SubSeq(q, 1, k) \o SubSeq(q, k + 1, Len(q))
<1>1. Len(q) \in Nat
  BY LenProperties
<1>2. 1 \in 1..Len(q) + 1 /\ k \in 1 - 1..Len(q) /\ Len(q) \in k..Len(q)
  BY <1>1
<1>3. SubSeq(q, 1, k) \o SubSeq(q, k + 1, Len(q)) = SubSeq(q, 1, Len(q))
  BY <1>2, ConcatAdjacentSubSeq
<1> QED BY <1>3, SubSeqFull

\* FlattenSeq as a function of the number of sequences put together.
Flat(F, S, s) ==
  /\ F \in [1..Len(s) -> Seq(S)]
  /\ \A i \in 1..Len(s) : F[i] = IF i = 1 THEN s[1] ELSE F[i - 1] \o s[i]

LEMMA FlattenIs ==
  ASSUME NEW S, NEW s \in Seq(Seq(S)), s # <<>>
  PROVE  \E F : Flat(F, S, s) /\ FlattenSeq(s) = F[Len(s)]
<1> DEFINE n == Len(s)
           F == CHOOSE f : f = [i \in 1..n |-> IF i = 1 THEN s[i] ELSE f[i - 1] \o s[i]]
           T == Seq(S)
<1>1. n \in Nat /\ n # 0 /\ n \in Nat \ {0}
  BY EmptySeq, LenProperties
<1>2. FlattenSeq(s) = F[n]
  BY <1>1 DEF FlattenSeq
<1>3. \A i \in 1..n : s[i] \in T
  BY ElementOfSeq
<1> DEFINE step == [i \in 1..n |-> [x \in T |-> x \o s[i]]]
<1>4. step \in [1..n -> [T -> T]]
  <2>1. \A i \in 1..n : \A x \in T : x \o s[i] \in T
    BY <1>3, ConcatProperties
  <2> HIDE DEF T, n
  <2> QED BY <2>1
<1>5. \A i \in 1..n : \A x \in T : step[i][x] = x \o s[i]
  OBVIOUS
<1>6. 1 \in Nat /\ 1 <= n /\ s[1] \in T
  BY <1>1, <1>3
<1> HIDE DEF step, T
<1>7. PICK g : Solves(g, T, 1, n, s[1], step)
  <2> HIDE DEF n
  <2> QED BY <1>1, <1>4, <1>6, Iterates
<1>8. g \in [1..n -> T] /\ \A i \in 1..n : g[i] = IF i = 1 THEN s[1] ELSE g[i - 1] \o s[i]
  <2>1. g \in [1..n -> T]
        /\ \A i \in 1..n : g[i] = IF i = 1 THEN s[1] ELSE step[i][g[i - 1]]
    <3> HIDE DEF n
    <3> QED BY <1>7 DEF Solves
  <2>2. ASSUME NEW i \in 1..n, i # 1 PROVE step[i][g[i - 1]] = g[i - 1] \o s[i]
    <3>1. i - 1 \in 1..n
      BY <1>1, <2>2
    <3>2. g[i - 1] \in T
      BY <2>1, <3>1
    <3> QED BY <1>5, <3>2
  <2> QED BY <2>1, <2>2
<1>9. g = [i \in 1..n |-> IF i = 1 THEN s[i] ELSE g[i - 1] \o s[i]]
  <2>1. g = [i \in 1..n |-> g[i]]
    BY <1>8
  <2>2. \A i \in 1..n : g[i] = IF i = 1 THEN s[i] ELSE g[i - 1] \o s[i]
    BY <1>8
  <2> HIDE DEF n
  <2> QED BY <2>1, <2>2
<1>10. F = [i \in 1..n |-> IF i = 1 THEN s[i] ELSE F[i - 1] \o s[i]]
  <2> HIDE DEF n
  <2> QED BY <1>9
<1> HIDE DEF F
<1>11. \A i \in 1..n : F[i] = IF i = 1 THEN s[1] ELSE F[i - 1] \o s[i]
  BY <1>10
<1>12. \A i \in 1..n : F[i] \in T
  <2> SUFFICES \A i \in 1..n : F[i] \in T
    OBVIOUS
  <2>1. F[1] \in T
    BY <1>1, <1>6, <1>11
  <2>2. ASSUME NEW k \in 1 + 1..n, F[k - 1] \in T PROVE F[k] \in T
    <3>1. k \in 1..n /\ k # 1
      BY <1>1
    <3>2. F[k] = F[k - 1] \o s[k] /\ s[k] \in T
      BY <1>3, <1>11, <3>1
    <3> QED BY <2>2, <3>2, ConcatProperties DEF T
  <2> HIDE DEF n
  <2> QED BY <1>1, <2>1, <2>2, Stays
<1>13. F \in [1..n -> T]
  <2>1. F = [i \in 1..n |-> F[i]]
    BY <1>10
  <2> HIDE DEF n
  <2> QED BY <1>12, <2>1
<1>14. Flat(F, S, s)
  BY <1>11, <1>13 DEF Flat, T
<1> QED BY <1>2, <1>14

LEMMA FlattenType ==
  ASSUME NEW S, NEW s \in Seq(Seq(S))
  PROVE  FlattenSeq(s) \in Seq(S) /\ FlattenSeq(<<>>) = <<>>
<1>1. FlattenSeq(<<>>) = <<>>
  BY EmptySeq DEF FlattenSeq
<1>2. CASE s = <<>>
  BY <1>1, <1>2, EmptySeq
<1>3. CASE s # <<>>
  <2>1. PICK F : Flat(F, S, s) /\ FlattenSeq(s) = F[Len(s)]
    BY <1>3, FlattenIs
  <2>2. Len(s) \in Nat \ {0}
    BY <1>3, EmptySeq
  <2>3. Len(s) \in 1..Len(s)
    BY <2>2
  <2>4. F[Len(s)] \in Seq(S)
    BY <2>1, <2>3 DEF Flat
  <2> QED BY <1>1, <2>1, <2>4
<1> QED BY <1>2, <1>3

\* Two functions that put the same sequences together agree.
LEMMA FlatAgree ==
  ASSUME NEW S, NEW s \in Seq(Seq(S)), NEW t \in Seq(Seq(S)), Len(s) <= Len(t),
         \A i \in 1..Len(s) : t[i] = s[i],
         NEW F, Flat(F, S, s), NEW G, Flat(G, S, t)
  PROVE  \A i \in 1..Len(s) : F[i] = G[i]
<1> DEFINE n == Len(s)
           d == [i \in 1..n |-> F[i] = G[i]]
           Yes == {TRUE}
<1>1. n \in Nat /\ Len(t) \in Nat /\ \A i \in 1..n : i \in 1..Len(t)
  BY LenProperties
<1>2. \A i \in 1..n : F[i] = IF i = 1 THEN s[1] ELSE F[i - 1] \o s[i]
  BY DEF Flat
<1>3. \A i \in 1..n : G[i] = IF i = 1 THEN t[1] ELSE G[i - 1] \o t[i]
  BY <1>1 DEF Flat
<1>4. CASE n = 0
  BY <1>4
<1>5. CASE n # 0
  <2>1. d[1] \in Yes
    <3>1. 1 \in 1..n
      BY <1>1, <1>5
    <3>2. F[1] = s[1] /\ G[1] = t[1] /\ t[1] = s[1]
      BY <1>2, <1>3, <3>1
    <3> QED BY <3>1, <3>2
  <2>2. ASSUME NEW k \in 1 + 1..n, d[k - 1] \in Yes PROVE d[k] \in Yes
    <3>1. k \in 1..n /\ k # 1 /\ k - 1 \in 1..n
      BY <1>1
    <3>2. F[k - 1] = G[k - 1]
      BY <2>2, <3>1
    <3>3. F[k] = F[k - 1] \o s[k] /\ G[k] = G[k - 1] \o t[k] /\ t[k] = s[k]
      BY <1>2, <1>3, <3>1
    <3>4. F[k] = G[k]
      BY <3>2, <3>3
    <3> QED BY <3>1, <3>4
  <2>3. \A k \in 1..n : d[k] \in Yes
    <3> HIDE DEF n, d, Yes
    <3>1. 1 \in Nat
      OBVIOUS
    <3> QED BY <1>1, <2>1, <2>2, <3>1, Stays
  <2> QED BY <2>3
<1> QED BY <1>4, <1>5

\* One more sequence.
LEMMA FlattenAppend ==
  ASSUME NEW S, NEW s \in Seq(Seq(S)), NEW x \in Seq(S)
  PROVE  FlattenSeq(Append(s, x)) = FlattenSeq(s) \o x
<1> DEFINE t == Append(s, x)
           n == Len(s)
<1>1. /\ t \in Seq(Seq(S)) /\ t # <<>> /\ Len(t) = n + 1 /\ t[n + 1] = x
      /\ \A i \in 1..n : t[i] = s[i]
  BY AppendProperties
<1>2. n \in Nat /\ n + 1 \in 1..n + 1
  BY LenProperties
<1> HIDE DEF t
<1>3. PICK G : Flat(G, S, t) /\ FlattenSeq(t) = G[Len(t)]
  BY <1>1, FlattenIs
<1>4. G[n + 1] = IF n + 1 = 1 THEN t[1] ELSE G[n + 1 - 1] \o t[n + 1]
  <2>1. \A i \in 1..n + 1 : G[i] = IF i = 1 THEN t[1] ELSE G[i - 1] \o t[i]
    BY <1>1, <1>3 DEF Flat
  <2> HIDE DEF n
  <2> QED BY <1>2, <2>1
<1>5. CASE s = <<>>
  <2>1. n = 0 /\ FlattenSeq(s) = <<>>
    BY <1>5, EmptySeq, FlattenType
  <2>2. FlattenSeq(t) = x
    BY <1>1, <1>3, <1>4, <2>1
  <2>3. <<>> \o x = x
    BY ConcatEmptySeq
  <2> QED BY <2>1, <2>2, <2>3 DEF t
<1>6. CASE s # <<>>
  <2>1. n \in Nat \ {0} /\ n \in 1..n /\ n <= Len(t) /\ n + 1 # 1 /\ n + 1 - 1 = n
    BY <1>1, <1>2, <1>6, EmptySeq
  <2>2. PICK F : Flat(F, S, s) /\ FlattenSeq(s) = F[n]
    BY <1>6, FlattenIs
  <2>3. F[n] = G[n]
    BY <1>1, <1>3, <2>1, <2>2, FlatAgree
  <2>4. G[n + 1] = G[n] \o x
    BY <1>1, <1>4, <2>1
  <2> QED BY <1>1, <1>3, <2>2, <2>3, <2>4 DEF t
<1> QED BY <1>5, <1>6

Join(x, y) == x \o y

\* Putting sequences together is associative.
LEMMA Regroup ==
  ASSUME NEW S, NEW x \in Seq(S), NEW y \in Seq(S), NEW z \in Seq(S)
  PROVE  /\ Join(x, y) \in Seq(S) /\ Join(y, z) \in Seq(S)
         /\ Join(Join(x, y), z) \in Seq(S) /\ Join(Join(x, y), z) = Join(x, Join(y, z))
  BY ConcatAssociative, ConcatProperties DEF Join

LEMMA FlattenOne ==
  ASSUME NEW S, NEW x \in Seq(S)
  PROVE  <<x>> \in Seq(Seq(S)) /\ Len(<<x>>) = 1 /\ FlattenSeq(<<x>>) = x
<1> DEFINE e == <<>>
<1>1. e \in Seq(Seq(S)) /\ FlattenSeq(e) = <<>>
  BY EmptySeq, FlattenType
<1>2. Append(e, x) = <<x>>
  OBVIOUS
<1> HIDE DEF e
<1>3. FlattenSeq(Append(e, x)) = FlattenSeq(e) \o x
  BY <1>1, FlattenAppend
<1>4. <<>> \o x = x
  BY ConcatEmptySeq
<1>5. FlattenSeq(<<x>>) = x
  BY <1>1, <1>2, <1>3, <1>4
<1> QED BY <1>5

\* The parts of a sequence of sequences.
LEMMA FlattenConcat ==
  ASSUME NEW S, NEW s \in Seq(Seq(S)), NEW t \in Seq(Seq(S))
  PROVE  FlattenSeq(s \o t) = FlattenSeq(s) \o FlattenSeq(t)
<1> DEFINE n == Len(t)
           T == Seq(S)
           p(k) == SubSeq(t, 1, k)
           Good(k) == FlattenSeq(s \o p(k)) = FlattenSeq(s) \o FlattenSeq(p(k))
           d == [k \in 0..n |-> Good(k)]
           Yes == {TRUE}
<1>1. n \in Nat /\ 0 \in Nat /\ n \in 0..n /\ 0 \in 0..n
  BY LenProperties
<1>2. \A k \in 0..n : p(k) \in Seq(T) /\ \A i \in 1..k : t[i] \in T
  <2> TAKE k \in 0..n
  <2>1. k \in Nat /\ k <= n
    BY <1>1
  <2>2. p(k) \in Seq(T)
    BY <2>1, Halves
  <2>3. \A i \in 1..k : t[i] \in T
    <3> TAKE i \in 1..k
    <3>1. i \in 1..n
      BY <2>1
    <3> QED BY <3>1, ElementOfSeq
  <2> QED BY <2>2, <2>3
<1>3. Good(0)
  <2>1. p(0) = <<>>
    BY SubSeqEmpty
  <2>2. s \o <<>> = s /\ FlattenSeq(<<>>) = <<>> /\ FlattenSeq(s) \in Seq(S)
    BY ConcatEmptySeq, FlattenType
  <2>3. FlattenSeq(s) \o <<>> = FlattenSeq(s)
    BY <2>2, ConcatEmptySeq
  <2> HIDE DEF p
  <2> QED BY <2>1, <2>2, <2>3
<1>4. ASSUME NEW k \in 0 + 1..n, Good(k - 1) PROVE Good(k)
  <2> DEFINE u == p(k - 1)
             x == t[k]
  <2>1. k \in 1..n /\ k - 1 \in 0..n /\ k \in 0..n /\ 1 \in 1..Len(t) /\ k \in 1..Len(t)
    BY <1>1
  <2>2. u \in Seq(T) /\ x \in T
    BY <1>2, <2>1
  <2>3. p(k) = u \o <<x>>
    BY <2>1, SubSeqRecursiveSecond
  <2> HIDE DEF u, x
  <2>4. FlattenSeq(s \o u) = FlattenSeq(s) \o FlattenSeq(u)
    BY <1>4 DEF u
  <2> HIDE DEF p
  <2>5. p(k) = Append(u, x)
    BY <2>2, <2>3, AppendIsConcat
  <2>6. s \o u \in Seq(T) /\ Append(s \o u, x) = s \o Append(u, x)
    <3>1. s \o u \in Seq(T) /\ <<x>> \in Seq(T)
      BY <2>2, ConcatProperties
    <3>2. Append(s \o u, x) = (s \o u) \o <<x>> /\ Append(u, x) = u \o <<x>>
      BY <2>2, <3>1, AppendIsConcat
    <3>3. (s \o u) \o <<x>> = s \o (u \o <<x>>)
      <4> DEFINE o == <<x>>
      <4>1. o \in Seq(T)
        BY <3>1
      <4> HIDE DEF o, T
      <4>2. Join(Join(s, u), o) = Join(s, Join(u, o))
        BY <2>2, <4>1, Regroup DEF T
      <4> QED BY <4>2 DEF o, Join
    <3> QED BY <3>1, <3>2, <3>3
  <2>7. FlattenSeq(Append(s \o u, x)) = FlattenSeq(s \o u) \o x
    BY <2>2, <2>6, FlattenAppend
  <2>8. FlattenSeq(Append(u, x)) = FlattenSeq(u) \o x
    BY <2>2, FlattenAppend
  <2>9. FlattenSeq(s) \in Seq(S) /\ FlattenSeq(u) \in Seq(S)
    BY <2>2, FlattenType
  <2>10. (FlattenSeq(s) \o FlattenSeq(u)) \o x = FlattenSeq(s) \o (FlattenSeq(u) \o x)
    <3> DEFINE a == FlattenSeq(s)
               c == FlattenSeq(u)
    <3>1. a \in Seq(S) /\ c \in Seq(S) /\ x \in Seq(S)
      BY <2>2, <2>9
    <3> HIDE DEF a, c
    <3>2. Join(Join(a, c), x) = Join(a, Join(c, x))
      BY <3>1, Regroup
    <3> QED BY <3>2 DEF a, c, Join
  <2> QED BY <2>4, <2>5, <2>6, <2>7, <2>8, <2>10
<1> HIDE DEF Good
<1>5. \A k \in 0..n : d[k] = Good(k)
  OBVIOUS
<1>6. d[0] \in Yes
  BY <1>1, <1>3, <1>5
<1>7. ASSUME NEW k \in 0 + 1..n, d[k - 1] \in Yes PROVE d[k] \in Yes
  <2>1. k \in 0..n /\ k - 1 \in 0..n
    BY <1>1
  <2>2. Good(k - 1)
    BY <1>5, <1>7, <2>1
  <2>3. Good(k)
    BY <1>4, <2>2
  <2> QED BY <1>5, <2>1, <2>3
<1>8. \A k \in 0..n : d[k] \in Yes
  <2> HIDE DEF d, Yes, n
  <2> QED BY <1>1, <1>6, <1>7, Stays
<1>9. Good(n)
  BY <1>1, <1>5, <1>8
<1>10. SubSeq(t, 1, n) = t
  BY SubSeqFull
<1> QED BY <1>9, <1>10 DEF Good

LEMMA FlattenFirst ==
  ASSUME NEW S, NEW s \in Seq(Seq(S)), s # <<>>
  PROVE  /\ Head(s) \in Seq(S) /\ Tail(s) \in Seq(Seq(S))
         /\ FlattenSeq(s) = Head(s) \o FlattenSeq(Tail(s))
<1> DEFINE x == Head(s)
           t == Tail(s)
<1>1. x \in Seq(S) /\ t \in Seq(Seq(S)) /\ Len(t) = Len(s) - 1
      /\ \A i \in 1..Len(t) : t[i] = s[i + 1]
  BY HeadTailProperties
<1>2. Len(s) \in Nat \ {0} /\ x = s[1]
  BY EmptySeq
<1> HIDE DEF x, t
<1>3. <<x>> \in Seq(Seq(S)) /\ Len(<<x>>) = 1 /\ <<x>>[1] = x /\ FlattenSeq(<<x>>) = x
  BY <1>1, FlattenOne
<1> DEFINE o == <<x>>
           c == o \o t
<1>4. /\ c \in Seq(Seq(S)) /\ Len(c) = Len(o) + Len(t)
      /\ \A i \in 1..Len(o) + Len(t) : c[i] = IF i <= Len(o) THEN o[i] ELSE t[i - Len(o)]
  <2> HIDE DEF o
  <2>1. o \in Seq(Seq(S))
    BY <1>3 DEF o
  <2> QED BY <1>1, <2>1, ConcatProperties
<1>5. Len(c) = Len(s) /\ \A i \in 1..Len(c) : c[i] = s[i]
  <2>1. Len(o) = 1 /\ o[1] = x
    BY <1>3
  <2> HIDE DEF o, c
  <2>2. Len(c) = Len(s)
    BY <1>1, <1>2, <1>4, <2>1
  <2>3. ASSUME NEW i \in 1..Len(c) PROVE c[i] = s[i]
    <3>1. CASE i = 1
      BY <1>2, <1>4, <2>1, <2>2, <3>1
    <3>2. CASE i # 1
      <4>1. i - 1 \in 1..Len(t) /\ i - 1 + 1 = i /\ ~(i <= 1) /\ i \in 1..Len(o) + Len(t)
        BY <1>1, <1>2, <1>4, <2>2, <3>2
      <4>2. c[i] = t[i - 1]
        BY <1>4, <2>1, <4>1
      <4>3. t[i - 1] = s[i - 1 + 1]
        BY <1>1, <4>1
      <4> QED BY <4>1, <4>2, <4>3
    <3> QED BY <3>1, <3>2
  <2> QED BY <2>2, <2>3
<1>6. c = s
  <2> HIDE DEF c
  <2> QED BY <1>4, <1>5, SeqEqual
<1>7. FlattenSeq(c) = FlattenSeq(o) \o FlattenSeq(t)
  <2>1. o \in Seq(Seq(S))
    BY <1>3
  <2> HIDE DEF o
  <2> QED BY <1>1, <2>1, FlattenConcat
<1> HIDE DEF c
<1> QED BY <1>1, <1>3, <1>6, <1>7 DEF x, t

-----------------------------------------------------------------------------
(* A length as bytes                                                       *)

LEMMA PowerIs ==
  /\ Power[0] = 1 /\ \A k \in 1..LengthSize : Power[k] = Base * Power[k - 1]
  /\ \A k \in 0..LengthSize : Power[k] \in Nat \ {0}
<1> USE PacketStreamConstants
<1> DEFINE N == LengthSize
           T == Nat \ {0}
           step == [k \in 0..N |-> [y \in T |-> Base * y]]
<1>1. PICK g : Solves(g, T, 0, N, 1, step)
  <2>1. step \in [0..N -> [T -> T]]
    <3>1. \A y \in T : Base * y \in T
      BY SMT
    <3> HIDE DEF T
    <3> QED BY <3>1
  <2>2. 0 \in Nat /\ N \in Nat /\ 0 <= N /\ 1 \in T
    OBVIOUS
  <2> HIDE DEF step, N, T
  <2> HIDE PacketStreamConstants
  <2> QED BY <2>1, <2>2, Iterates
<1>2. g = [k \in 0..N |-> IF k = 0 THEN 1 ELSE Base * g[k - 1]]
  <2>1. ASSUME NEW k \in 0..N
        PROVE  g[k] = IF k = 0 THEN 1 ELSE Base * g[k - 1]
    <3>1. k # 0 => k - 1 \in 0..N
      OBVIOUS
    <3>2. k # 0 => step[k][g[k - 1]] = Base * g[k - 1]
      BY <1>1, <3>1 DEF Solves
    <3> QED BY <1>1, <3>2 DEF Solves
  <2> QED BY <1>1, <2>1 DEF Solves
<1>3. Power = CHOOSE f : f = [k \in 0..N |-> IF k = 0 THEN 1 ELSE Base * f[k - 1]]
  BY DEF Power
<1>4. Power = [k \in 0..N |-> IF k = 0 THEN 1 ELSE Base * Power[k - 1]]
  BY <1>2, <1>3
<1>5. Power[0] = 1 /\ \A k \in 1..N : Power[k] = Base * Power[k - 1]
  <2>1. 0 \in 0..N /\ \A k \in 1..N : k \in 0..N /\ k # 0
    OBVIOUS
  <2> QED BY <1>4, <2>1
<1>6. \A k \in 0..N : Power[k] \in T
  <2>1. Power[0] \in T
    BY <1>5
  <2>2. ASSUME NEW k \in 0 + 1..N, Power[k - 1] \in T PROVE Power[k] \in T
    <3>1. k \in 1..N
      OBVIOUS
    <3>2. \A y \in T : Base * y \in T
      BY SMT
    <3> HIDE DEF T
    <3> QED BY <1>5, <2>2, <3>1, <3>2
  <2>3. 0 \in Nat /\ N \in Nat
    OBVIOUS
  <2> HIDE DEF T, N
  <2> QED BY <2>1, <2>2, <2>3, Stays
<1> QED BY <1>5, <1>6

\* Dividing a number, and what is left.
LEMMA Divided ==
  ASSUME NEW m \in Nat \ {0}, NEW x \in Nat
  PROVE  /\ x \div m \in Nat /\ x = m * (x \div m) + (x % m) /\ x % m \in 0..m - 1
         /\ \A y \in Nat : x < m * y => x \div m < y
<1>1. /\ x = m * (x \div m) + (x % m) /\ x \div m \in Int /\ x % m \in 0..m - 1
  BY DivMod
<1> DEFINE d == x \div m
           r == x % m
<1> HIDE DEF d, r
<1>2. x = m * d + r /\ d \in Int /\ r \in 0..m - 1
  BY <1>1 DEF d, r
<1>3. d >= 0
  <2> SUFFICES ASSUME d < 0 PROVE FALSE
    BY <1>2
  <2>1. d <= 0 - 1 /\ m * d <= m * (0 - 1)
    BY <1>2, SMT
  <2> QED BY <1>2, <2>1
<1>4. ASSUME NEW y \in Nat, x < m * y PROVE d < y
  <2> SUFFICES ASSUME d >= y PROVE FALSE
    BY <1>2
  <2>1. m * d >= m * y
    BY <1>2, SMT
  <2>2. m * d \in Int /\ m * y \in Int
    BY <1>2
  <2> QED BY <1>2, <1>4, <2>1, <2>2
<1> QED BY <1>1, <1>2, <1>3, <1>4 DEF d

\* What is left of n after its first bytes.
Digits(R, n) ==
  /\ R \in [0..LengthSize -> Nat] /\ R[0] = n
  /\ \A i \in 1..LengthSize : R[i] = R[i - 1] \div Base

LEMMA BytesOf ==
  ASSUME NEW n \in Nat
  PROVE  \E R : Digits(R, n) /\ AsBytes(n) = [i \in 1..LengthSize |-> R[i - 1] % Base]
<1> USE PacketStreamConstants
<1> DEFINE N == LengthSize
           step == [k \in 0..N |-> [y \in Nat |-> y \div Base]]
           F == CHOOSE f : f = [i \in 0..N |-> IF i = 0 THEN n ELSE f[i - 1] \div Base]
<1>1. PICK g : Solves(g, Nat, 0, N, n, step)
  <2>1. step \in [0..N -> [Nat -> Nat]]
    <3>1. \A y \in Nat : y \div Base \in Nat
      BY Divided
    <3> QED BY <3>1
  <2>2. 0 \in Nat /\ N \in Nat /\ 0 <= N
    OBVIOUS
  <2> HIDE DEF step, N
  <2> HIDE PacketStreamConstants
  <2> QED BY <2>1, <2>2, Iterates
<1>2. g = [k \in 0..N |-> IF k = 0 THEN n ELSE g[k - 1] \div Base]
  <2>1. ASSUME NEW k \in 0..N
        PROVE  g[k] = IF k = 0 THEN n ELSE g[k - 1] \div Base
    <3>1. k # 0 => k - 1 \in 0..N
      OBVIOUS
    <3>2. k # 0 => step[k][g[k - 1]] = g[k - 1] \div Base
      BY <1>1, <3>1 DEF Solves
    <3> QED BY <1>1, <3>2 DEF Solves
  <2> QED BY <1>1, <2>1 DEF Solves
<1>3. F = [i \in 0..N |-> IF i = 0 THEN n ELSE F[i - 1] \div Base]
  BY <1>2
<1>4. AsBytes(n) = [i \in 1..N |-> F[i - 1] % Base]
  BY DEF AsBytes
<1> HIDE DEF F
<1>5. F[0] = n /\ \A i \in 1..N : F[i] = F[i - 1] \div Base
  <2>1. 0 \in 0..N /\ \A k \in 1..N : k \in 0..N /\ k # 0
    OBVIOUS
  <2> QED BY <1>3, <2>1
<1>6. \A k \in 0..N : F[k] \in Nat
  <2>1. F[0] \in Nat
    BY <1>5
  <2>2. ASSUME NEW k \in 0 + 1..N, F[k - 1] \in Nat PROVE F[k] \in Nat
    <3>1. k \in 1..N
      OBVIOUS
    <3>2. F[k] = F[k - 1] \div Base
      BY <1>5, <3>1
    <3> DEFINE x == F[k - 1]
    <3>3. x \in Nat
      BY <2>2
    <3> HIDE DEF x
    <3>4. x \div Base \in Nat
      BY <3>3, Divided
    <3> QED BY <3>2, <3>4 DEF x
  <2>3. 0 \in Nat /\ N \in Nat
    OBVIOUS
  <2> DEFINE T == Nat
  <2>4. F[0] \in T /\ \A k \in 0 + 1..N : F[k - 1] \in T => F[k] \in T
    BY <2>1, <2>2
  <2> HIDE DEF N, T
  <2>5. \A k \in 0..N : F[k] \in T
    BY <2>3, <2>4, Stays
  <2> QED BY <2>5 DEF T
<1>7. F \in [0..N -> Nat]
  BY <1>3, <1>6
<1>8. Digits(F, n)
  BY <1>5, <1>7 DEF Digits
<1> QED BY <1>4, <1>8

LEMMA AsBytesSeq ==
  ASSUME NEW n \in Nat
  PROVE  AsBytes(n) \in Seq(Byte) /\ Len(AsBytes(n)) = LengthSize
<1> USE PacketStreamConstants
<1>1. PICK R : Digits(R, n) /\ AsBytes(n) = [i \in 1..LengthSize |-> R[i - 1] % Base]
  BY BytesOf
<1>2. \A i \in 1..LengthSize : R[i - 1] % Base \in Byte
  <2> TAKE i \in 1..LengthSize
  <2>1. i - 1 \in 0..LengthSize
    OBVIOUS
  <2>2. R[i - 1] \in Nat
    BY <1>1, <2>1 DEF Digits
  <2> QED BY <2>2, Divided DEF Byte
<1>3. AsBytes(n) \in [1..LengthSize -> Byte]
  BY <1>1, <1>2
<1> QED BY <1>3, FunctionIsSeq

\* The digits run out.
LEMMA DigitsEnd ==
  ASSUME NEW n \in 0..Width - 1, NEW R, Digits(R, n)
  PROVE  R[LengthSize] = 0
<1> USE PacketStreamConstants
<1> DEFINE N == LengthSize
           h == [k \in 0..N |-> R[k] < Power[N - k]]
           Yes == {TRUE}
<1>1. \A k \in 0..N : R[k] \in Nat /\ N - k \in 0..N /\ Power[N - k] \in Nat
  <2> TAKE k \in 0..N
  <2>1. N - k \in 0..N
    OBVIOUS
  <2> QED BY <2>1, PowerIs DEF Digits
<1>2. h[0] \in Yes
  <2>1. R[0] = n /\ n < Width /\ Width = Power[N] /\ N - 0 = N /\ 0 \in 0..N
    <3>1. Power[N] \in Nat
      BY PowerIs
    <3> QED BY <3>1 DEF Digits, Width
  <2> QED BY <2>1
<1>3. ASSUME NEW k \in 0 + 1..N, h[k - 1] \in Yes PROVE h[k] \in Yes
  <2>1. /\ k \in 1..N /\ k - 1 \in 0..N /\ k \in 0..N /\ N - (k - 1) \in 1..N
        /\ N - (k - 1) - 1 = N - k
    OBVIOUS
  <2>2. R[k - 1] < Power[N - (k - 1)]
    BY <1>3, <2>1
  <2>3. Power[N - (k - 1)] = Base * Power[N - k]
    BY <2>1, PowerIs
  <2>4. R[k] = R[k - 1] \div Base /\ R[k - 1] \in Nat /\ Power[N - k] \in Nat
    BY <1>1, <2>1 DEF Digits
  <2>5. R[k] < Power[N - k]
    <3> DEFINE x == R[k - 1]
               y == Power[N - k]
    <3>1. x \in Nat /\ y \in Nat /\ x < Base * y /\ R[k] = x \div Base
      BY <2>2, <2>3, <2>4
    <3> HIDE DEF x, y
    <3>2. x \div Base < y
      BY <3>1, Divided
    <3> QED BY <3>1, <3>2 DEF y
  <2> QED BY <2>1, <2>5
<1>4. \A k \in 0..N : h[k] \in Yes
  <2>1. 0 \in Nat /\ N \in Nat
    OBVIOUS
  <2> HIDE DEF h, Yes, N
  <2> QED BY <1>2, <1>3, <2>1, Stays
<1>5. R[N] < Power[N - N]
  <2>1. N \in 0..N
    OBVIOUS
  <2>2. h[N] \in Yes
    BY <1>4, <2>1
  <2> QED BY <2>1, <2>2
<1>6. N - N = 0 /\ N \in 0..N
  OBVIOUS
<1>7. R[N] \in Nat /\ R[N] < 1
  BY <1>1, <1>5, <1>6, PowerIs
<1> QED BY <1>7

\* The bytes of a number tell what it is.
LEMMA BytesTell ==
  ASSUME NEW m \in 0..Width - 1, NEW n \in 0..Width - 1,
         \A i \in 1..LengthSize : AsBytes(m)[i] = AsBytes(n)[i]
  PROVE  m = n
<1> USE PacketStreamConstants
<1> DEFINE N == LengthSize
<1>0. m \in Nat /\ n \in Nat
  BY PowerIs DEF Width
<1>1. PICK R : Digits(R, m) /\ AsBytes(m) = [i \in 1..LengthSize |-> R[i - 1] % Base]
  BY <1>0, BytesOf
<1>2. PICK Q : Digits(Q, n) /\ AsBytes(n) = [i \in 1..LengthSize |-> Q[i - 1] % Base]
  BY <1>0, BytesOf
<1>3. \A i \in 1..N : R[i - 1] % Base = Q[i - 1] % Base
  BY <1>1, <1>2
<1>4. R[N] = 0 /\ Q[N] = 0
  BY <1>1, <1>2, DigitsEnd
<1> DEFINE h == [k \in 0..N |-> R[N - k] = Q[N - k]]
           Yes == {TRUE}
<1>5. h[0] \in Yes
  <2>1. N - 0 = N /\ 0 \in 0..N
    OBVIOUS
  <2> QED BY <1>4, <2>1
<1>6. ASSUME NEW k \in 0 + 1..N, h[k - 1] \in Yes PROVE h[k] \in Yes
  <2> DEFINE i == N - (k - 1)
  <2>1. k \in 0..N /\ k - 1 \in 0..N /\ i \in 1..N /\ i - 1 = N - k /\ i - 1 \in 0..N
    OBVIOUS
  <2>2. R[i] = Q[i]
    BY <1>6, <2>1
  <2> HIDE DEF i
  <2>3. R[i] = R[i - 1] \div Base /\ Q[i] = Q[i - 1] \div Base
        /\ R[i - 1] \in Nat /\ Q[i - 1] \in Nat
    BY <1>1, <1>2, <2>1 DEF Digits
  <2>4. R[i - 1] = Base * (R[i - 1] \div Base) + (R[i - 1] % Base)
    BY <2>3, Divided
  <2>5. Q[i - 1] = Base * (Q[i - 1] \div Base) + (Q[i - 1] % Base)
    BY <2>3, Divided
  <2>6. R[i - 1] % Base = Q[i - 1] % Base
    BY <1>3, <2>1
  <2>7. R[i - 1] = Q[i - 1]
    BY <2>2, <2>3, <2>4, <2>5, <2>6
  <2>8. R[N - k] = Q[N - k]
    BY <2>1, <2>7
  <2> QED BY <2>1, <2>8
<1>7. \A k \in 0..N : h[k] \in Yes
  <2>1. 0 \in Nat /\ N \in Nat
    OBVIOUS
  <2> HIDE DEF h, Yes, N
  <2> QED BY <1>5, <1>6, <2>1, Stays
<1>8. R[0] = Q[0]
  <2>1. N \in 0..N /\ N - N = 0
    OBVIOUS
  <2>2. h[N] \in Yes
    BY <1>7, <2>1
  <2> QED BY <2>1, <2>2
<1> QED BY <1>1, <1>2, <1>8 DEF Digits

-----------------------------------------------------------------------------
(* The ring as a recv_buff_                                                *)

\* remove(n) moves head_, whatever n is.
LEMMA RemoveAny ==
  ASSUME NEW r, Ring(r), NEW n \in Nat
  PROVE  LET f == remove(r, n)
         IN  /\ Ring(f) /\ f.size = r.size /\ f.tail = r.tail /\ f.mem = r.mem
             /\ f.head = (r.head + n) % r.size
<1> DEFINE s == r.size
           x == r.head + n
           g == x % s
           f == remove(r, n)
<1>1. r \in RingShape /\ s \in Nat \ {0} /\ x \in Int
  BY RingFacts DEF Ring
<1>2. f = [r EXCEPT !.head = g]
  BY <1>1 DEF remove, RingShape
<1> HIDE DEF x, s
<1>3. g \in 0..s - 1
  BY <1>1, DivMod
<1> HIDE DEF g, f
<1>4. g \in Nat
  BY <1>1, <1>3
<1>5. f \in RingShape /\ f.size = r.size /\ f.head = g /\ f.tail = r.tail /\ f.mem = r.mem
  BY <1>1, <1>2, <1>4 DEF RingShape
<1>6. Ring(f)
  BY <1>3, <1>5 DEF Ring, s
<1> QED BY <1>5, <1>6 DEF f, g, x, s

ReadRec(g, n, c, A) ==
  g = [x \in 0..n |-> IF x = 0 THEN <<>> ELSE Join(A[x], g[x - c[x]])]

\* The recursion of read is well defined: every call has fewer bytes left.
LEMMA ReadExists ==
  ASSUME NEW n \in Nat, NEW c, NEW A, \A x \in 1..n : c[x] \in Int /\ c[x] > 0 /\ c[x] <= x
  PROVE  \E g : ReadRec(g, n, c, A)
<1> DEFINE Val(g, x) == IF x = 0 THEN <<>> ELSE Join(A[x], g[x - c[x]])
           P(g, m) == g = [x \in 0..m |-> Val(g, x)]
           T == {m \in 0..n : ~ \E g : P(g, m)}
<1>1. T = {}
  <2> SUFFICES ASSUME T # {} PROVE FALSE
    OBVIOUS
  <2>1. PICK m \in T : \A y \in T : m <= y
    <3>1. T \subseteq Nat
      OBVIOUS
    <3> HIDE DEF T
    <3> QED BY <3>1, LeastNat
  <2>2. m \in Nat /\ m <= n /\ ~ \E g : P(g, m)
    OBVIOUS
  <2>3. CASE m = 0
    <3> DEFINE g == [x \in 0..0 |-> <<>>]
    <3>1. P(g, 0)
      OBVIOUS
    <3> QED BY <2>2, <2>3, <3>1
  <2>4. CASE m # 0
    <3>1. m - 1 \in 0..n /\ m - 1 \notin T
      <4> HIDE DEF T
      <4>1. m - 1 \in 0..n /\ ~(m <= m - 1)
        BY <2>2, <2>4
      <4> QED BY <2>1, <4>1
    <3>2. PICK g : P(g, m - 1)
      BY <3>1
    <3> DEFINE h == [x \in 0..m |-> IF x = m THEN Val(g, m) ELSE g[x]]
    <3>3. \A x \in 0..m - 1 : h[x] = g[x]
      BY <2>2
    <3>4. h[m] = Val(g, m)
      BY <2>2
    <3>5. h = [x \in 0..m |-> h[x]]
      OBVIOUS
    <3> HIDE DEF h
    <3>6. \A x \in 0..m - 1 : g[x] = Val(g, x)
      BY <3>2
    <3>7. \A x \in 0..m : h[x] = Val(h, x)
      <4> SUFFICES ASSUME NEW x \in 0..m PROVE h[x] = Val(h, x)
        OBVIOUS
      <4>2. h[x] = Val(g, x)
        <5>1. CASE x = m
          BY <3>4, <5>1
        <5>2. CASE x # m
          <6>1. x \in 0..m - 1
            BY <2>2, <5>2
          <6> QED BY <3>3, <3>6, <6>1
        <5> QED BY <5>1, <5>2
      <4>3. Val(g, x) = Val(h, x)
        <5>1. CASE x = 0
          BY <5>1
        <5>2. CASE x # 0
          <6>0. c[x] \in Int /\ c[x] > 0 /\ c[x] <= x
            BY <2>2, <5>2
          <6>1. x - c[x] \in 0..m - 1
            BY <2>2, <5>2, <6>0
          <6>2. h[x - c[x]] = g[x - c[x]]
            BY <3>3, <6>1
          <6> QED BY <6>2
        <5> QED BY <5>1, <5>2
      <4> QED BY <4>2, <4>3
    <3>8. P(h, m)
      <4> HIDE DEF Val
      <4> QED BY <3>5, <3>7
    <3> QED BY <2>2, <3>8
  <2> QED BY <2>3, <2>4
<1>2. n \in 0..n
  OBVIOUS
<1>3. \E g : P(g, n)
  BY <1>1, <1>2
<1> QED BY <1>3 DEF ReadRec

\* Where read goes on when x of n bytes are left, and how far in one go.
ReadPos(r, offset, n, x) == (r.head + offset + n - x) % r.size
ReadLen(r, offset, n, x) ==
  MinOf(continguious_count(ReadPos(r, offset, n, x), r.tail, r.size), x)

LEMMA ReadChunk ==
  ASSUME NEW r, Ring(r), NEW offset \in Nat, NEW n \in Nat, offset + n <= get_count(r),
         NEW x \in 1..n
  PROVE  LET p == ReadPos(r, offset, n, x)
             c == ReadLen(r, offset, n, x)
         IN  /\ p \in Nat /\ c \in Nat /\ c > 0 /\ c <= x /\ p + c <= r.size
             /\ \A k \in 1..c : p + k - 1 = (r.head + offset + n - x + k - 1) % r.size
<1> DEFINE m == offset + n - x
           f == remove(r, m)
           p == ReadPos(r, offset, n, x)
           c == ReadLen(r, offset, n, x)
           s == r.size
<1>1. /\ s \in Nat \ {0} /\ r.head \in Nat /\ r.head < s /\ get_count(r) \in Nat
  BY RingFacts
<1>2. m \in Nat /\ m \in 0..get_count(r) /\ get_count(r) - m >= x
  BY <1>1
<1>3. p = (r.head + m) % s
  <2>1. r.head + offset + n - x = r.head + m
    BY <1>1
  <2> QED BY <2>1 DEF ReadPos
<1> HIDE DEF m, p, s, c
<1>4. Ring(f) /\ f.size = s /\ f.tail = r.tail /\ f.head = p /\ get_count(f) = get_count(r) - m
  BY <1>2, <1>3, RemoveAny, RemoveRing DEF s
<1>5. continguious_count(p, r.tail, s)
        = IF get_count(f) < s - p THEN get_count(f) ELSE s - p
  <2> HIDE DEF f
  <2>1. continguious_count(f.head, f.tail, f.size)
          = IF get_count(f) < f.size - f.head THEN get_count(f) ELSE f.size - f.head
    BY <1>4, ContinguiousCount
  <2> QED BY <1>4, <2>1
<1>6. p \in Nat /\ p < s
  <2> HIDE DEF f
  <2>1. f.head \in Nat /\ f.head < f.size
    BY <1>4, RingFacts
  <2> QED BY <1>4, <2>1
<1>7. c = MinOf(continguious_count(p, r.tail, s), x)
  BY DEF c, p, s, ReadLen
<1>8. c \in Nat /\ c > 0 /\ c <= x /\ p + c <= s
  <2> DEFINE z == continguious_count(p, r.tail, s)
  <2>1. z \in Nat /\ z > 0 /\ p + z <= s
    <3> HIDE DEF f
    <3> QED BY <1>1, <1>2, <1>4, <1>5, <1>6
  <2> HIDE DEF z
  <2>2. c = MinOf(z, x)
    BY <1>7 DEF z
  <2> QED BY <1>1, <1>6, <2>1, <2>2 DEF MinOf
<1>9. ASSUME NEW k \in 1..c
      PROVE  p + k - 1 = (r.head + offset + n - x + k - 1) % r.size
  <2> DEFINE y == r.head + m
             j == k - 1
  <2>1. r.head + offset + n - x + k - 1 = y + j /\ y \in Int /\ j \in Int
        /\ p + k - 1 = p + j /\ p + j \in 0..s - 1
    BY <1>1, <1>2, <1>6, <1>8 DEF m
  <2>2. p = y % s
    BY <1>3
  <2> HIDE DEF y, j
  <2>3. ((y % s) + j) % s = (y + j) % s
    BY <1>1, <2>1, ModAdd
  <2>4. (p + j) % s = p + j
    BY <1>1, <2>1, ModSmall
  <2> QED BY <2>1, <2>2, <2>3, <2>4 DEF s
<1> QED BY <1>6, <1>8, <1>9 DEF p, c, s

\* read(data, n, offset) gives n of the live bytes.
LEMMA ReadIs ==
  ASSUME NEW r, Ring(r), NEW offset \in Nat, NEW n \in Nat, offset + n <= get_count(r)
  PROVE  /\ read(r, offset, n) \in Seq(Cell) /\ Len(read(r, offset, n)) = n
         /\ \A i \in 1..n : read(r, offset, n)[i] = Contents(r)[offset + i]
<1> DEFINE pos(x) == ReadPos(r, offset, n, x)
           len(x) == ReadLen(r, offset, n, x)
           chunk(x) == [k \in 1..len(x) |-> r.mem[pos(x) + k - 1]]
           c == [x \in 0..n |-> len(x)]
           A == [x \in 0..n |-> chunk(x)]
           F == CHOOSE f : f = [x \in 0..n |-> IF x = 0 THEN <<>>
                                               ELSE chunk(x) \o f[x - len(x)]]
<1>1. read(r, offset, n) = F[n]
  BY DEF read, ReadPos, ReadLen
<1>2. \A x \in 1..n : /\ pos(x) \in Nat /\ len(x) \in Nat /\ len(x) > 0 /\ len(x) <= x
                      /\ pos(x) + len(x) <= r.size
                      /\ \A k \in 1..len(x) : pos(x) + k - 1
                           = (r.head + offset + n - x + k - 1) % r.size
  BY ReadChunk
<1>3. \E f : f = [x \in 0..n |-> IF x = 0 THEN <<>> ELSE chunk(x) \o f[x - len(x)]]
  <2> HIDE DEF len, chunk
  <2>1. \A x \in 0..n : c[x] = len(x) /\ A[x] = chunk(x)
    OBVIOUS
  <2> HIDE DEF c, A
  <2>2. \A x \in 1..n : c[x] \in Int /\ c[x] > 0 /\ c[x] <= x
    BY <1>2, <2>1
  <2>3. PICK g : ReadRec(g, n, c, A)
    BY <2>2, ReadExists
  <2>4. g = [x \in 0..n |-> IF x = 0 THEN <<>> ELSE Join(chunk(x), g[x - len(x)])]
    BY <2>1, <2>3 DEF ReadRec
  <2> QED BY <2>4 DEF Join
<1>4. F = [x \in 0..n |-> IF x = 0 THEN <<>> ELSE chunk(x) \o F[x - len(x)]]
  <2> HIDE DEF len, chunk
  <2> QED BY <1>3
<1> HIDE DEF F
<1>5. /\ F[0] = <<>> /\ \A x \in 1..n : F[x] = chunk(x) \o F[x - len(x)]
  <2>1. 0 \in 0..n /\ \A x \in 1..n : x \in 0..n /\ x # 0
    OBVIOUS
  <2> HIDE DEF len, chunk
  <2> QED BY <1>4, <2>1
<1> DEFINE at(x, i) == r.mem[(r.head + offset + n - x + i - 1) % r.size]
           Good(x) == /\ F[x] \in Seq(Cell) /\ Len(F[x]) = x
                      /\ \A i \in 1..x : F[x][i] = at(x, i)
           T == {x \in 0..n : ~Good(x)}
<1>6. /\ r.size \in Nat \ {0} /\ r.head \in Nat /\ r.mem \in [0..r.size - 1 -> Cell]
  BY RingFacts DEF Ring
<1>7. ASSUME NEW x \in 1..n, Good(x - len(x)) PROVE Good(x)
  <2> DEFINE l == len(x)
             u == chunk(x)
             v == F[x - l]
  <2>1. /\ l \in Nat /\ l > 0 /\ l <= x /\ pos(x) \in Nat /\ pos(x) + l <= r.size
        /\ \A k \in 1..l : pos(x) + k - 1 = (r.head + offset + n - x + k - 1) % r.size
    BY <1>2
  <2>2. u \in Seq(Cell) /\ Len(u) = l /\ \A k \in 1..l : u[k] = at(x, k)
    <3> HIDE DEF len, pos
    <3> DEFINE p == pos(x)
    <3>1. \A k \in 1..l : p + k - 1 \in 0..r.size - 1
      <4>1. p \in Nat /\ l \in Nat /\ p + l <= r.size /\ r.size \in Nat
        BY <1>6, <2>1
      <4> HIDE DEF p, l
      <4> QED BY <4>1
    <3>2. u = [k \in 1..l |-> r.mem[p + k - 1]]
      OBVIOUS
    <3> HIDE DEF u, p, l
    <3>3. u \in [1..l -> Cell]
      BY <1>6, <3>1, <3>2
    <3>4. u \in Seq(Cell) /\ Len(u) = l
      BY <2>1, <3>3, FunctionIsSeq
    <3>5. ASSUME NEW k \in 1..l PROVE u[k] = at(x, k)
      <4>1. u[k] = r.mem[p + k - 1]
        BY <3>2
      <4>2. p + k - 1 = (r.head + offset + n - x + k - 1) % r.size
        BY <2>1 DEF p
      <4> QED BY <4>1, <4>2
    <3> HIDE DEF at
    <3> QED BY <3>4, <3>5
  <2>3. v \in Seq(Cell) /\ Len(v) = x - l /\ \A i \in 1..x - l : v[i] = at(x - l, i)
    BY <1>7
  <2>4. F[x] = u \o v
    BY <1>5
  <2>5. \A i \in 1..x - l : at(x - l, i) = at(x, l + i)
    <3> TAKE i \in 1..x - l
    <3>1. r.head + offset + n - (x - l) + i - 1 = r.head + offset + n - x + (l + i) - 1
      BY <1>6, <2>1
    <3> QED BY <3>1
  <2> HIDE DEF u, v, l, at
  <2>6. u \o v \in Seq(Cell) /\ Len(u \o v) = Len(u) + Len(v)
        /\ \A i \in 1..Len(u) + Len(v) :
             (u \o v)[i] = IF i <= Len(u) THEN u[i] ELSE v[i - Len(u)]
    BY <2>2, <2>3, ConcatProperties
  <2>7. Len(u) + Len(v) = x
    BY <2>1, <2>2, <2>3
  <2>8. ASSUME NEW i \in 1..x PROVE F[x][i] = at(x, i)
    <3>1. CASE i <= l
      <4>1. i \in 1..l
        BY <2>1, <3>1
      <4>2. (u \o v)[i] = u[i]
        BY <2>2, <2>6, <2>7, <3>1
      <4> QED BY <2>2, <2>4, <4>1, <4>2
    <3>2. CASE ~(i <= l)
      <4>1. i - l \in 1..x - l /\ l + (i - l) = i
        BY <2>1, <3>2
      <4>2. (u \o v)[i] = v[i - l]
        BY <2>2, <2>6, <2>7, <3>2
      <4>3. v[i - l] = at(x - l, i - l) /\ at(x - l, i - l) = at(x, l + (i - l))
        BY <2>3, <2>5, <4>1
      <4> QED BY <2>4, <4>1, <4>2, <4>3
    <3> QED BY <3>1, <3>2
  <2> QED BY <2>4, <2>6, <2>7, <2>8
<1>8. Good(0)
  BY <1>5, EmptySeq
<1> HIDE DEF Good, len, pos, chunk
<1>9. T = {}
  <2> SUFFICES ASSUME T # {} PROVE FALSE
    OBVIOUS
  <2>1. PICK x \in T : \A y \in T : x <= y
    <3>1. T \subseteq Nat
      OBVIOUS
    <3> HIDE DEF T
    <3> QED BY <3>1, LeastNat
  <2>2. x \in 0..n /\ ~Good(x)
    OBVIOUS
  <2>3. x \in 1..n
    BY <1>8, <2>2
  <2>4. x - len(x) \in 0..n /\ ~(x <= x - len(x))
    BY <1>2, <2>3
  <2>5. x - len(x) \notin T
    <3> HIDE DEF T
    <3> QED BY <2>1, <2>4
  <2>6. Good(x - len(x))
    BY <2>4, <2>5
  <2> QED BY <1>7, <2>2, <2>3, <2>6
<1>10. Good(n)
  <2>1. n \in 0..n
    OBVIOUS
  <2> QED BY <1>9, <2>1
<1>11. F[n] \in Seq(Cell) /\ Len(F[n]) = n /\ \A i \in 1..n : F[n][i] = at(n, i)
  BY <1>10 DEF Good
<1>12. ASSUME NEW i \in 1..n PROVE at(n, i) = Contents(r)[offset + i]
  <2>1. offset + i \in 1..get_count(r) /\ get_count(r) \in Nat
    BY RingFacts
  <2>2. Contents(r)[offset + i] = r.mem[(r.head + (offset + i) - 1) % r.size]
    BY <2>1, ContentsSeq
  <2>3. r.head + (offset + i) - 1 = r.head + offset + n - n + i - 1
    BY <1>6
  <2> QED BY <2>2, <2>3
<1> HIDE DEF at
<1>13. \A i \in 1..n : F[n][i] = Contents(r)[offset + i]
  BY <1>11, <1>12
<1> QED BY <1>1, <1>11, <1>13

\* Nothing is taken back from a recv_buff_: tail_ stays in the array.
Plain(r) == Ring(r) /\ r.tail \in 0..r.size - 1

\* What get_continguious_space() counts is free and ends with the array; it is
\* nothing only in a full ring.
LEMMA SpaceAtEnd ==
  ASSUME NEW r, Plain(r)
  PROVE  LET z == continguious_space(r.head, r.tail, r.size)
         IN  /\ z \in Nat /\ z <= r.size - 1 - get_count(r) /\ z <= r.size - r.tail
             /\ z = 0 <=> get_count(r) = r.size - 1
<1> USE CircleConstants
<1> DEFINE s == r.size
           h == r.head
           t == r.tail
           e == s - 1 - t
           c == get_count(r)
           n == (e + h) % s
           z == continguious_space(h, t, s)
<1>1. /\ s \in Nat \ {0} /\ h \in Nat /\ t \in Nat /\ t < s /\ s <= MaxSize
      /\ c \in Nat /\ c <= s - 1
  BY RingFacts DEF Plain
<1>2. e \in 0..MaxSize /\ e \in Nat /\ e + 1 = s - t
  BY <1>1
<1>3. AsInt(e) = e
  BY <1>2, AsIntSmall
<1>4. n = s - 1 - c
  <2> DEFINE x == h - (t + 1)
  <2>1. e + h = x + s /\ x \in Int
    BY <1>1
  <2>2. Space(r) = x % s
    BY DEF Space, count_between
  <2>3. Space(r) = s - 1 - c
    BY SpaceIs DEF Plain
  <2> HIDE DEF x, s
  <2>4. (x + s) % s = x % s
    BY <1>1, <2>1, ModWrap
  <2> QED BY <2>1, <2>2, <2>3, <2>4
<1>5. z = IF n <= e THEN n ELSE e + 1
  <2> HIDE DEF e, n, s, h, t
  <2> QED BY <1>3 DEF continguious_space, e, n
<1> HIDE DEF e, n, s, h, t, c, z
<1>6. /\ z \in Nat /\ z <= s - 1 - c /\ z <= s - t
      /\ z = 0 <=> c = s - 1
  BY <1>1, <1>2, <1>4, <1>5
<1> QED BY <1>6 DEF z, s, h, t, c

\* Bytes put at get_end(), no more than fit there, come behind the others.
LEMMA TakeRing ==
  ASSUME NEW g, Plain(g), NEW data \in Seq(Cell),
         Len(data) <= continguious_space(g.head, g.tail, g.size)
  PROVE  LET f == written(Received(g, g.tail, data), Len(data))
         IN  /\ Plain(f) /\ f.size = g.size /\ Contents(f) = Contents(g) \o data
             /\ get_count(f) = get_count(g) + Len(data)
<1> DEFINE s == g.size
           h == g.head
           t == g.tail
           c == get_count(g)
           n == Len(data)
           m == Received(g, g.tail, data)
           f == written(m, n)
           M == [i \in 0..s - 1 |-> IF i - t \in 0..n - 1 THEN data[i - t + 1] ELSE g.mem[i]]
           z == continguious_space(h, t, s)
<1>1. /\ Ring(g) /\ g \in RingShape /\ s \in Nat \ {0} /\ h \in Nat /\ t \in Nat /\ t < s
      /\ c \in Nat /\ c <= s - 1 /\ g.mem \in [0..s - 1 -> Cell] /\ h \in Int
  BY RingFacts DEF Plain, Ring
<1>2. n \in Nat /\ z \in Nat /\ n <= z /\ z <= s - 1 - c /\ z <= s - t
  BY SpaceAtEnd, LenProperties
<1>3. c + n <= s - 1 /\ t + n <= s
  BY <1>1, <1>2
<1>4. m = [g EXCEPT !.mem = M]
  <2>1. DOMAIN g.mem = 0..s - 1
    BY <1>1
  <2> QED BY <1>1, <2>1 DEF Received, RingShape
<1>5. M \in [0..s - 1 -> Cell]
  <2>1. ASSUME NEW i \in 0..s - 1, i - t \in 0..n - 1 PROVE data[i - t + 1] \in Cell
    <3>1. i - t + 1 \in 1..Len(data)
      BY <1>1, <1>2, <2>1
    <3> QED BY <3>1, ElementOfSeq
  <2>2. \A i \in 0..s - 1 : g.mem[i] \in Cell
    BY <1>1
  <2> HIDE DEF s, t, n
  <2> QED BY <2>1, <2>2
<1>6. \A i \in 0..s - 1 : M[i] = IF i - t \in 0..n - 1 THEN data[i - t + 1] ELSE g.mem[i]
  OBVIOUS
<1> HIDE DEF M, m, f
<1>7. /\ m \in RingShape /\ m.size = g.size /\ m.head = g.head /\ m.tail = g.tail
      /\ m.mem = M
  <2>1. M \in UNION {[0..k - 1 -> Cell] : k \in Nat}
    BY <1>1, <1>5
  <2> QED BY <1>1, <1>4, <2>1 DEF RingShape
<1>8. Ring(m)
  BY <1>1, <1>5, <1>7 DEF Ring
<1>9. get_count(m) = c
  BY <1>7 DEF get_count
<1>10. /\ Ring(f) /\ get_count(f) = c + n /\ f.size = s /\ f.head = h /\ f.mem = M
       /\ f.tail = (t + n) % s
  BY <1>2, <1>3, <1>7, <1>8, <1>9, WrittenRing DEF f
<1>11. Plain(f)
  <2> DEFINE x == t + n
  <2>1. x \in Int
    BY <1>1, <1>2
  <2> HIDE DEF x, s
  <2>2. x % s \in 0..s - 1
    BY <1>1, <2>1, DivMod
  <2> QED BY <1>10, <2>2 DEF Plain, x
<1> HIDE DEF s, h, t, c, n, z
<1> DEFINE at(k) == (h + k) % s
<1>12. \A k \in 0..s - 1 : at(k) \in 0..s - 1 /\ (at(k) - h) % s = k
  <2> TAKE k \in 0..s - 1
  <2>1. h + k \in Int
    BY <1>1
  <2>2. (h + k) % s \in 0..s - 1
    BY <1>1, <2>1, DivMod
  <2>3. (((h + k) % s) - h) % s = k
    BY <1>1, CellNumber
  <2> QED BY <2>2, <2>3
<1>13. \A j \in 0..n - 1 : at(c + j) = t + j
  <2> TAKE j \in 0..n - 1
  <2>1. (h + c) % s = t % s
    BY <1>1, TailCell DEF h, c, s, t
  <2>2. t % s = t
    <3>1. t \in 0..s - 1
      BY <1>1
    <3> QED BY <1>1, <3>1, ModSmall
  <2> DEFINE y == h + c
  <2>3. y \in Int /\ j \in Int /\ h + (c + j) = y + j /\ t + j \in 0..s - 1
    BY <1>1, <1>2, <1>3
  <2>4. (y % s) = t
    BY <2>1, <2>2
  <2> HIDE DEF y
  <2>5. ((y % s) + j) % s = (y + j) % s
    BY <1>1, <2>3, ModAdd
  <2>6. (t + j) % s = t + j
    BY <1>1, <2>3, ModSmall
  <2> QED BY <2>3, <2>4, <2>5, <2>6
<1> HIDE DEF at
<1> DEFINE q == Contents(g) \o data
<1>14. Contents(g) \in Seq(Cell) /\ Len(Contents(g)) = c
       /\ \A i \in 1..c : Contents(g)[i] = g.mem[(h + i - 1) % s]
  BY <1>1, ContentsSeq DEF h, c, s
<1>15. q \in Seq(Cell) /\ Len(q) = c + n
       /\ \A i \in 1..c + n : q[i] = IF i <= c THEN Contents(g)[i] ELSE data[i - c]
  <2> DEFINE a == Contents(g)
  <2> HIDE DEF a
  <2>1. a \in Seq(Cell) /\ Len(a) = c
    BY <1>14 DEF a
  <2>2. a \o data \in Seq(Cell) /\ Len(a \o data) = Len(a) + Len(data)
        /\ \A i \in 1..Len(a) + Len(data) :
             (a \o data)[i] = IF i <= Len(a) THEN a[i] ELSE data[i - Len(a)]
    BY <2>1, ConcatProperties
  <2> QED BY <2>1, <2>2 DEF a, n
<1> HIDE DEF q
<1>16. ASSUME NEW i \in 1..Len(q) PROVE q[i] = f.mem[(f.head + i - 1) % f.size]
  <2> DEFINE k == i - 1
  <2>0. i \in 1..c + n /\ k \in 0..s - 1 /\ k \in Int /\ h + i - 1 = h + k
    BY <1>1, <1>2, <1>3, <1>15
  <2>1. /\ i \in 1..c + n /\ k \in 0..s - 1 /\ k \in Int /\ h + i - 1 = h + k
        /\ at(k) \in 0..s - 1
    BY <1>12, <2>0
  <2>2. f.mem[(f.head + i - 1) % f.size] = M[at(k)]
    BY <1>10, <2>1 DEF at
  <2>3. CASE i <= c
    <3>1. q[i] = g.mem[at(k)]
      <4>1. i \in 1..c
        BY <1>1, <2>3
      <4>2. Contents(g)[i] = g.mem[(h + i - 1) % s]
        BY <1>14, <4>1
      <4>3. q[i] = Contents(g)[i]
        BY <1>15, <2>1, <2>3
      <4>4. (h + i - 1) % s = at(k)
        BY <2>1 DEF at
      <4> QED BY <4>2, <4>3, <4>4
    <3>2. ~(at(k) - t \in 0..n - 1)
      <4> SUFFICES ASSUME at(k) - t \in 0..n - 1 PROVE FALSE
        OBVIOUS
      <4> DEFINE j == at(k) - t
      <4>1. j \in 0..n - 1 /\ j \in Nat /\ at(k) = t + j
        BY <1>1, <1>2, <2>1
      <4> HIDE DEF j
      <4>2. at(c + j) = at(k)
        BY <1>13, <4>1
      <4>3. c + j \in 0..s - 1
        BY <1>1, <1>2, <1>3, <4>1
      <4>4. c + j = k
        BY <1>12, <2>1, <4>2, <4>3
      <4> QED BY <1>1, <2>1, <2>3, <4>1, <4>4
    <3> QED BY <1>6, <2>1, <2>2, <3>1, <3>2
  <2>4. CASE ~(i <= c)
    <3> DEFINE j == i - c - 1
    <3>1. j \in 0..n - 1 /\ c + j = k /\ j + 1 = i - c
      BY <1>1, <1>2, <2>1, <2>4
    <3> HIDE DEF j, k
    <3>2. at(k) = t + j
      BY <1>13, <3>1
    <3>3. at(k) - t = j
      BY <1>1, <1>2, <3>1, <3>2
    <3>4. M[at(k)] = data[j + 1]
      BY <1>6, <2>1, <3>1, <3>3
    <3>5. q[i] = data[i - c]
      BY <1>15, <2>1, <2>4
    <3> QED BY <2>2, <3>1, <3>4, <3>5
  <2> QED BY <2>3, <2>4
<1>17. Contents(f) = q
  BY <1>10, <1>15, <1>16, ContentsIs
<1> QED BY <1>10, <1>11, <1>17 DEF f, m, q, s, h, t, c, n

\* The sizes that expand() comes to: they are in every set that has the first
\* one and with each the next.
Reached(n) ==
  \A X \in SUBSET Nat :
    DefaultSize \in X /\ (\A m \in X : 4 * m < MaxSize => 4 * m \in X) => n \in X

\* Asked for space, a recv_buff_ keeps its bytes; it has none only if it is
\* full and as large as it can be.
LEMMA RoomRing ==
  ASSUME NEW r, Plain(r)
  PROVE  LET g == GrowContinguious(r)
         IN  /\ Plain(g) /\ Contents(g) = Contents(r) /\ get_count(g) = get_count(r)
             /\ Reached(r.size) => Reached(g.size)
             /\ get_count(r) < r.size - 1 => g = r
             /\ continguious_space(g.head, g.tail, g.size) = 0 =>
                  ~CanExpand(r) /\ get_count(r) = r.size - 1
<1> DEFINE g == GrowContinguious(r)
           c == get_count(r)
           s == r.size
<1>1. Ring(r) /\ s \in Nat \ {0} /\ c \in Nat /\ c <= s - 1
  BY RingFacts DEF Plain
<1>2. /\ continguious_space(r.head, r.tail, r.size) \in Nat
      /\ continguious_space(r.head, r.tail, r.size) = 0 <=> c = s - 1
  BY SpaceAtEnd
<1>3. CASE HasContinguious(r) \/ ~CanExpand(r)
  <2>1. g = r
    BY <1>3 DEF GrowContinguious
  <2>2. continguious_space(r.head, r.tail, r.size) = 0 => ~HasContinguious(r)
    BY <1>2 DEF HasContinguious
  <2> QED BY <1>2, <1>3, <2>1, <2>2
<1>4. CASE ~HasContinguious(r) /\ CanExpand(r)
  <2>1. g = expand(r)
    BY <1>4 DEF GrowContinguious
  <2>2. /\ Ring(g) /\ Contents(g) = Contents(r) /\ get_count(g) = c /\ g.size = 4 * s
        /\ g.tail = c
    BY <1>1, <1>4, <2>1, ExpandRing
  <2> HIDE DEF g, c, s
  <2>3. Plain(g)
    BY <1>1, <2>2 DEF Plain
  <2>4. continguious_space(g.head, g.tail, g.size) = 0 <=> get_count(g) = g.size - 1
    BY <2>3, SpaceAtEnd
  <2>5. continguious_space(g.head, g.tail, g.size) # 0
    BY <1>1, <2>2, <2>4
  <2>6. ~(c < s - 1)
    BY <1>1, <1>2, <1>4 DEF HasContinguious, c, s
  <2>7. Reached(s) => Reached(4 * s)
    BY <1>1, <1>4 DEF CanExpand, Reached, s
  <2> QED BY <2>2, <2>3, <2>5, <2>6, <2>7 DEF g, c, s
<1> QED BY <1>3, <1>4

LEMMA NewPlain == Plain(New) /\ Reached(New.size)
<1>1. Reached(New.size)
  BY NewRing DEF Reached
<1>2. Plain(New)
  BY NewRing, CircleConstants DEF Plain
<1> QED BY <1>1, <1>2

\* A ring that cannot expand is as large as every ring can become.
LEMMA LargestIs ==
  ASSUME NEW n \in Nat, Reached(n), ~(4 * n < MaxSize)
  PROVE  LargestRing = n
<1> USE CircleConstants
<1> DEFINE F == CHOOSE f : f = [k \in 0..MaxSize |->
                       IF k = 0 THEN New
                       ELSE IF CanExpand(f[k - 1]) THEN expand(f[k - 1]) ELSE f[k - 1]]
           Stops(k) == ~CanExpand(F[k])
           K == CHOOSE k \in 0..MaxSize : Stops(k) /\ \A j \in 0..k - 1 : ~Stops(j)
<1>1. LargestRing = F[K].size
  BY DEF LargestRing, Grow
<1>2. F = [k \in 0..MaxSize |-> IF k = 0 THEN New ELSE Larger(F[k - 1])]
  BY GrowthExists DEF Larger
<1> HIDE DEF F
<1>3. F[0] = New /\ \A k \in 1..MaxSize : F[k] = Larger(F[k - 1])
  BY <1>2
<1> DEFINE Fine(k) == Ring(F[k]) /\ (F[k].size > k \/ ~CanExpand(F[k]))
           h == [k \in 0..MaxSize |-> Fine(k)]
           Yes == {TRUE}
<1>4. h[0] \in Yes
  <2>1. Ring(F[0]) /\ F[0].size > 0
    BY <1>3, NewRing
  <2>2. 0 \in 0..MaxSize
    OBVIOUS
  <2> QED BY <2>1, <2>2
<1>5. ASSUME NEW k \in 0 + 1..MaxSize, h[k - 1] \in Yes PROVE h[k] \in Yes
  <2> DEFINE x == F[k - 1]
  <2>1. k \in 1..MaxSize /\ k - 1 \in 0..MaxSize /\ k \in 0..MaxSize
    OBVIOUS
  <2>2. Ring(x) /\ (x.size > k - 1 \/ ~CanExpand(x)) /\ F[k] = Larger(x)
    BY <1>3, <1>5, <2>1
  <2> HIDE DEF x
  <2>3. x.size \in Nat \ {0}
    BY <2>2, RingFacts
  <2>4. Ring(F[k]) /\ (F[k].size > k \/ ~CanExpand(F[k]))
    <3>1. CASE CanExpand(x)
      <4>1. F[k] = expand(x)
        BY <2>2, <3>1 DEF Larger
      <4>2. Ring(F[k]) /\ F[k].size = 4 * x.size
        BY <2>2, <3>1, <4>1, ExpandRing
      <4> QED BY <2>1, <2>2, <2>3, <3>1, <4>2
    <3>2. CASE ~CanExpand(x)
      BY <2>2, <3>2 DEF Larger
    <3> QED BY <3>1, <3>2
  <2> QED BY <2>1, <2>4
<1>6. \A k \in 0..MaxSize : h[k] \in Yes
  <2>1. 0 \in Nat /\ MaxSize \in Nat
    OBVIOUS
  <2> HIDE DEF h, Yes
  <2> HIDE CircleConstants
  <2> QED BY <1>4, <1>5, <2>1, Stays
<1>7. \A k \in 0..MaxSize : Ring(F[k]) /\ (F[k].size > k \/ Stops(k))
  BY <1>6
<1> HIDE DEF h, Fine
<1>8. K \in 0..MaxSize /\ Stops(K) /\ \A j \in 0..K - 1 : ~Stops(j)
  <2> DEFINE S == {k \in 0..MaxSize : Stops(k)}
  <2>1. MaxSize \in S
    <3>1. MaxSize \in 0..MaxSize
      OBVIOUS
    <3>2. Ring(F[MaxSize]) /\ (F[MaxSize].size > MaxSize \/ Stops(MaxSize))
      BY <1>7, <3>1
    <3>3. F[MaxSize].size <= MaxSize /\ F[MaxSize].size \in Nat
      BY <3>2, RingFacts DEF Ring
    <3> QED BY <3>1, <3>2, <3>3
  <2>2. S \subseteq Nat
    OBVIOUS
  <2>3. PICK k \in S : \A y \in S : k <= y
    <3> HIDE DEF S
    <3> QED BY <2>1, <2>2, LeastNat
  <2>4. k \in 0..MaxSize /\ Stops(k)
    OBVIOUS
  <2>5. ASSUME NEW j \in 0..k - 1 PROVE ~Stops(j)
    <3>1. j \in 0..MaxSize /\ ~(k <= j)
      BY <2>4
    <3> QED BY <2>3, <3>1
  <2> HIDE DEF Stops, S
  <2>6. \E y \in 0..MaxSize : Stops(y) /\ \A j \in 0..y - 1 : ~Stops(j)
    BY <2>4, <2>5
  <2> QED BY <2>6
<1> HIDE DEF K
<1> DEFINE X == {F[k].size : k \in 0..K}
<1>9. X \in SUBSET Nat
  <2>1. \A k \in 0..K : k \in 0..MaxSize
    BY <1>8
  <2>2. \A k \in 0..K : F[k].size \in Nat
    BY <1>7, <2>1, RingFacts
  <2> QED BY <2>2
<1>10. DefaultSize \in X
  <2>1. F[0].size = DefaultSize /\ 0 \in 0..K
    BY <1>3, <1>8, NewRing
  <2> QED BY <2>1
<1>11. ASSUME NEW k \in 0..K, 4 * F[k].size < MaxSize
       PROVE  k + 1 \in 0..K /\ F[k + 1].size = 4 * F[k].size
  <2>1. CanExpand(F[k]) /\ k \in 0..MaxSize /\ k \in Nat
    BY <1>8, <1>11 DEF CanExpand
  <2>2. k # K /\ k + 1 \in 0..K /\ k + 1 \in 1..MaxSize
    BY <1>8, <2>1
  <2>3. F[k + 1] = Larger(F[k])
    <3>1. k + 1 - 1 = k
      BY <2>1
    <3> QED BY <1>3, <2>2, <3>1
  <2>4. Ring(F[k]) /\ F[k + 1] = expand(F[k])
    BY <1>7, <2>1, <2>3 DEF Larger
  <2> QED BY <2>1, <2>2, <2>4, ExpandRing
<1>12. \A m \in X : 4 * m < MaxSize => 4 * m \in X
  <2> SUFFICES ASSUME NEW m \in X, 4 * m < MaxSize PROVE 4 * m \in X
    OBVIOUS
  <2>1. PICK k \in 0..K : m = F[k].size
    OBVIOUS
  <2>2. k + 1 \in 0..K /\ F[k + 1].size = 4 * m
    BY <1>11, <2>1
  <2> QED BY <2>2
<1>13. n \in X
  <2> HIDE DEF X
  <2> QED BY <1>9, <1>10, <1>12 DEF Reached
<1>14. PICK k \in 0..K : n = F[k].size
  BY <1>13
<1>15. Stops(k)
  BY <1>14 DEF CanExpand
<1>16. k = K
  <2>1. k # K => k \in 0..K - 1
    BY <1>8
  <2> HIDE DEF Stops
  <2> QED BY <1>8, <1>15, <2>1
<1> QED BY <1>1, <1>14, <1>16

-----------------------------------------------------------------------------
(* Packets in the stream                                                   *)

LEMMA PrefixIs ==
  ASSUME NEW S, NEW s \in Seq(S), NEW t \in Seq(S)
  PROVE  IsPrefix(s, t) <=> Len(s) <= Len(t) /\ \A i \in 1..Len(s) : s[i] = t[i]
<1> DEFINE n == Len(s)
           u == SubSeq(t, 1, n)
<1>1. n \in Nat /\ Len(t) \in Nat /\ SubSeq(s, 1, n) = s
  BY LenProperties, SubSeqFull
<1>2. IsPrefix(s, t) <=> n <= Len(t) /\ s = u
  BY <1>1 DEF IsPrefix
<1>3. ASSUME n <= Len(t)
      PROVE  u \in Seq(S) /\ Len(u) = n /\ \A i \in 1..n : u[i] = t[i]
  BY <1>1, <1>3, Halves
<1>4. ASSUME n <= Len(t), \A i \in 1..n : s[i] = t[i] PROVE s = u
  <2>1. u \in Seq(S) /\ Len(u) = Len(s) /\ \A i \in 1..Len(s) : s[i] = u[i]
    BY <1>3, <1>4
  <2> HIDE DEF u
  <2> QED BY <2>1, SeqEqual
<1> HIDE DEF u
<1>5. ASSUME n <= Len(t), s = u PROVE \A i \in 1..n : s[i] = t[i]
  BY <1>3, <1>5
<1> QED BY <1>2, <1>4, <1>5

LEMMA PacketSeq ==
  ASSUME NEW l \in Nat, NEW k \in Nat
  PROVE  /\ Packet(l, k) \in Seq(Byte) /\ Packet(l, k) \in Seq(Cell)
         /\ Len(Packet(l, k)) = LengthSize + l
         /\ \A i \in 1..LengthSize : Packet(l, k)[i] = AsBytes(l)[i] /\ AsBytes(l)[i] \in Byte
<1> USE PacketStreamConstants
<1> DEFINE u == AsBytes(l)
           v == [i \in 1..l |-> k % Base]
<1>1. u \in Seq(Byte) /\ Len(u) = LengthSize
  BY AsBytesSeq
<1>2. k % Base \in Byte
  BY Divided DEF Byte
<1>3. v \in Seq(Byte) /\ Len(v) = l
  <2>1. v \in [1..l -> Byte]
    BY <1>2
  <2> HIDE DEF v
  <2> QED BY <2>1, FunctionIsSeq
<1>4. Packet(l, k) = u \o v
  BY DEF Packet
<1> HIDE DEF u, v
<1>5. u \o v \in Seq(Byte) /\ Len(u \o v) = Len(u) + Len(v)
      /\ \A i \in 1..Len(u) + Len(v) : (u \o v)[i] = IF i <= Len(u) THEN u[i] ELSE v[i - Len(u)]
  BY <1>1, <1>3, ConcatProperties
<1>6. \A i \in 1..LengthSize : (u \o v)[i] = u[i]
  <2> TAKE i \in 1..LengthSize
  <2>1. i \in 1..Len(u) + Len(v) /\ i <= Len(u)
    BY <1>1, <1>3
  <2> QED BY <1>5, <2>1
<1>7. \A i \in 1..LengthSize : u[i] \in Byte
  BY <1>1, ElementOfSeq
<1>8. Packet(l, k) \in Seq(Cell)
  <2>1. Byte \subseteq Cell
    BY DEF Cell
  <2> QED BY <1>4, <1>5, <2>1, SeqMonotonic
<1> QED BY <1>1, <1>3, <1>4, <1>5, <1>6, <1>7, <1>8 DEF u

LEMMA SizeIs ==
  /\ Width \in Nat \ {0}
  /\ \A l \in Nat : SizeOf(l) \in Nat
  /\ \A l \in 0..Width - LengthSize - 1 :
       l \in Nat /\ l \in 0..Width - 1 /\ SizeOf(l) = LengthSize + l
<1> USE PacketStreamConstants
<1>1. Width \in Nat \ {0}
  BY PowerIs DEF Width
<1>2. ASSUME NEW l \in Nat PROVE SizeOf(l) \in Nat
  <2> DEFINE x == l + LengthSize
  <2>1. x \in Nat
    OBVIOUS
  <2> HIDE DEF x
  <2>2. x % Width \in 0..Width - 1
    BY <1>1, <2>1, Divided
  <2> QED BY <1>1, <2>2 DEF SizeOf, x
<1>3. ASSUME NEW l \in 0..Width - LengthSize - 1
      PROVE  l \in Nat /\ l \in 0..Width - 1 /\ SizeOf(l) = LengthSize + l
  <2>1. l \in Nat /\ l \in 0..Width - 1 /\ l + LengthSize \in 0..Width - 1
        /\ l + LengthSize = LengthSize + l
    BY <1>1
  <2>2. (l + LengthSize) % Width = l + LengthSize
    BY <1>1, <2>1, ModSmall
  <2> QED BY <2>1, <2>2 DEF SizeOf
<1> QED BY <1>1, <1>2, <1>3

\* A packet's first bytes tell on_read its length.
LEMMA LengthRead ==
  ASSUME Ring(recv_buff), NEW length \in ReadLengths,
         NEW l \in 0..Width - LengthSize - 1, NEW k \in Nat,
         \A i \in 1..LengthSize : Contents(recv_buff)[i] = Packet(l, k)[i]
  PROVE  /\ SizeOf(length) = LengthSize + l /\ SizeOf(length) = Len(Packet(l, k))
         /\ get_count(recv_buff) >= LengthSize
<1> USE PacketStreamConstants
<1> DEFINE w == read(recv_buff, 0, LengthSize)
           c == get_count(recv_buff)
<1>1. c \in Nat
  BY RingFacts
<1>2. /\ ~(c < LengthSize) /\ length \in 0..Width - 1
      /\ \A i \in 1..LengthSize : w[i] \in {Junk, AsBytes(length)[i]}
  BY DEF ReadLengths
<1>3. \A i \in 1..LengthSize : w[i] = Contents(recv_buff)[i]
  <2>1. 0 \in Nat /\ LengthSize \in Nat /\ 0 + LengthSize <= c
    BY <1>1, <1>2
  <2> HIDE DEF w, c
  <2>2. \A i \in 1..LengthSize : w[i] = Contents(recv_buff)[0 + i]
    BY <2>1, ReadIs DEF w, c
  <2>3. \A i \in 1..LengthSize : 0 + i = i
    OBVIOUS
  <2> QED BY <2>2, <2>3
<1> HIDE DEF w, c
<1>4. l \in Nat /\ l \in 0..Width - 1 /\ SizeOf(l) = LengthSize + l
  BY SizeIs
<1>5. /\ \A i \in 1..LengthSize : Packet(l, k)[i] = AsBytes(l)[i] /\ AsBytes(l)[i] \in Byte
      /\ Len(Packet(l, k)) = LengthSize + l
  BY <1>4, PacketSeq
<1>6. \A i \in 1..LengthSize : AsBytes(length)[i] = AsBytes(l)[i]
  <2> TAKE i \in 1..LengthSize
  <2>1. w[i] = AsBytes(l)[i] /\ AsBytes(l)[i] \in Byte
    BY <1>3, <1>5
  <2>2. w[i] # Junk
    <3>1. Junk \notin Byte
      OBVIOUS
    <3> QED BY <2>1, <3>1
  <2>3. w[i] \in {Junk, AsBytes(length)[i]}
    BY <1>2
  <2> QED BY <2>1, <2>2, <2>3
<1>7. length = l
  BY <1>2, <1>4, <1>6, BytesTell
<1>8. c >= LengthSize
  BY <1>1, <1>2
<1> QED BY <1>4, <1>5, <1>7, <1>8 DEF c

LEMMA Cancel ==
  ASSUME NEW S, NEW x \in Seq(S), NEW y \in Seq(S), NEW z \in Seq(S),
         Join(x, y) = Join(x, z)
  PROVE  y = z
<1>1. x \o y = x \o z
  BY DEF Join
<1> QED BY <1>1, ConcatSimplifications

LEMMA JoinIs ==
  ASSUME NEW S, NEW x \in Seq(S), NEW y \in Seq(S)
  PROVE  /\ Join(x, y) \in Seq(S) /\ Len(Join(x, y)) = Len(x) + Len(y)
         /\ Len(x) \in Nat /\ Len(y) \in Nat
         /\ \A i \in 1..Len(x) : Join(x, y)[i] = x[i]
         /\ Join(x, <<>>) = x /\ Join(<<>>, x) = x
<1>1. Len(x) \in Nat /\ Len(y) \in Nat
  BY LenProperties
<1>2. /\ x \o y \in Seq(S) /\ Len(x \o y) = Len(x) + Len(y)
      /\ \A i \in 1..Len(x) + Len(y) : (x \o y)[i] = IF i <= Len(x) THEN x[i] ELSE y[i - Len(x)]
  BY ConcatProperties
<1>3. \A i \in 1..Len(x) : i \in 1..Len(x) + Len(y) /\ i <= Len(x)
  BY <1>1
<1>4. \A i \in 1..Len(x) : (x \o y)[i] = x[i]
  BY <1>2, <1>3
<1>5. x \o <<>> = x /\ <<>> \o x = x
  BY ConcatEmptySeq
<1> QED BY <1>1, <1>2, <1>4, <1>5 DEF Join

-----------------------------------------------------------------------------
(* The invariant of PacketStream                                           *)

StreamShape ==
  /\ setup \in Setups /\ reading \in BOOLEAN
  /\ Plain(recv_buff) /\ Reached(recv_buff.size)
  /\ sent \in Seq(Seq(Cell)) /\ got \in Seq(Seq(Cell)) /\ carry \in Seq(Cell)
  /\ \A i \in 1..Len(sent) : \E l \in setup.lengths : sent[i] = Packet(l, i - 1)
  /\ IF Transport = "tcp" THEN wire \in Seq(Cell) ELSE wire \in Seq(Seq(Cell))
  /\ backlog \in Seq(Cell) /\ (bound => backlog = <<>>)
  /\ pending \in Seq([at : Nat, room : Nat]) /\ done \in Seq(Nat)
  /\ Transport # "udp" => ~crossed /\ pending = <<>> /\ done = <<>>

\* A connection that began with nothing in recv_buff_, over TCP or KCP.
Clean == Connected /\ Transport # "udp" /\ carry = <<>>

\* TCP connections begin so; then what was delivered are the first packets
\* sent, and on_read leaves less than a packet.
InStep ==
  /\ Transport = "tcp" /\ Connected => carry = <<>>
  /\ Clean => IsPrefix(got, sent)
  /\ Clean /\ ~reading =>
       \/ get_count(recv_buff) = 0
       \/ Len(got) < Len(sent) /\ get_count(recv_buff) < Len(sent[Len(got) + 1])

\* The n bytes at the front of recv_buff_ are the first of a packet sent.
Begins(n) ==
  /\ n < recv_buff.size
  /\ \E j \in 1..Len(sent) : /\ n <= Len(sent[j])
                             /\ \A i \in 1..n : recv_buff.mem[i - 1] = sent[j][i]

\* Over UDP the ring is empty between two calls of on_read.  Unless the
\* connection is a crossed one, there is one receive, at the front, or one
\* datagram, which is the beginning of a packet.
Datagrams ==
  Transport = "udp" =>
    /\ ~reading => recv_buff.head = 0 /\ recv_buff.tail = 0
    /\ ~crossed => carry = <<>>
    /\ Connected /\ ~crossed =>
       /\ \A i \in 1..Len(wire) : \E j \in 1..Len(sent) : wire[i] = sent[j]
       /\ \A i \in 1..Len(got) : \E j \in 1..Len(sent) : got[i] = sent[j]
       /\ \A i \in 1..Len(got) : Len(got[i]) < recv_buff.size
       /\ reading =>
            /\ pending = <<>> /\ done = <<>>
            /\ \/ get_count(recv_buff) = 0
               \/ \E j \in 1..Len(sent) : IsPrefix(Contents(recv_buff), sent[j])
       /\ ~reading =>
            \/ /\ done = <<>> /\ Len(pending) = 1
               /\ pending[1].at = 0 /\ pending[1].room < recv_buff.size
            \/ /\ pending = <<>> /\ Len(done) = 1 /\ Begins(done[1])

StreamInv == StreamShape /\ Conserved /\ InStep /\ Datagrams /\ FaultsOnlyOnForeign

LEMMA SetupIs ==
  ASSUME StreamShape
  PROVE  /\ Transport \in {"tcp", "kcp", "udp"}
         /\ \A l \in setup.lengths : l \in Nat /\ l \in 0..Width - LengthSize - 1
         /\ setup.cuts \in BOOLEAN /\ (Transport = "udp" => ~setup.cuts)
<1>1. setup \in Setups /\ setup \in Setup
  BY PacketStreamConstants DEF StreamShape
<1>2. /\ setup.transport \in {"tcp", "kcp", "udp"}
      /\ setup.lengths \subseteq 0..Width - LengthSize - 1
      /\ setup.cuts \in BOOLEAN
  BY <1>1 DEF Setup
<1>3. setup.transport = "udp" => ~setup.cuts
  BY <1>1, PacketStreamConstants
<1>4. \A l \in setup.lengths : l \in Nat /\ l \in 0..Width - LengthSize - 1
  BY <1>2, SizeIs
<1> QED BY <1>2, <1>3, <1>4 DEF Transport

LEMMA InFlightSeq ==
  ASSUME StreamShape
  PROVE  InFlight \in Seq(Cell)
<1>1. CASE Transport = "tcp"
  BY <1>1 DEF StreamShape, InFlight
<1>2. CASE Transport # "tcp"
  <2>1. FlattenSeq(wire) \in Seq(Cell) /\ backlog \in Seq(Cell)
    BY <1>2, FlattenType DEF StreamShape
  <2> QED BY <1>2, <2>1, ConcatProperties DEF InFlight
<1> QED BY <1>1, <1>2

\* What is in recv_buff_ is the beginning of the next packet.
LEMMA NextPacket ==
  ASSUME StreamShape, Conserved, Clean, IsPrefix(got, sent), get_count(recv_buff) # 0
  PROVE  /\ Len(got) \in Nat /\ Len(got) + 1 \in 1..Len(sent) /\ Len(got) < Len(sent)
         /\ LET p == sent[Len(got) + 1]
            IN  /\ \E l \in setup.lengths : p = Packet(l, Len(got))
                /\ p \in Seq(Cell)
                /\ \A i \in 1..get_count(recv_buff) :
                     i <= Len(p) => Contents(recv_buff)[i] = p[i]
<1> DEFINE k == Len(got)
           C == Contents(recv_buff)
           I == InFlight
           G == FlattenSeq(got)
           r == SubSeq(sent, k + 1, Len(sent))
           p == sent[k + 1]
<1>1. /\ got \in Seq(Seq(Cell)) /\ sent \in Seq(Seq(Cell)) /\ I \in Seq(Cell)
      /\ Ring(recv_buff)
  BY InFlightSeq DEF StreamShape, Plain
<1>2. k \in Nat /\ Len(sent) \in Nat
  BY <1>1, LenProperties
<1>3. k <= Len(sent) /\ got = SubSeq(sent, 1, k)
  <2>1. SubSeq(got, 1, k) = got
    BY <1>1, SubSeqFull
  <2> QED BY <2>1 DEF IsPrefix
<1>4. C \in Seq(Cell) /\ Len(C) = get_count(recv_buff) /\ Len(C) \in Nat
  BY <1>1, ContentsSeq, RingFacts
<1>5. r \in Seq(Seq(Cell)) /\ Len(r) = Len(sent) - k
      /\ \A i \in 1..Len(sent) - k : r[i] = sent[k + i]
  BY <1>1, <1>2, <1>3, Halves
<1>6. sent = got \o r
  <2>1. k \in 0..Len(sent)
    BY <1>2, <1>3
  <2> QED BY <1>1, <1>3, <2>1, TwoParts
<1> HIDE DEF r, C, I, G
<1>7. FlattenSeq(sent) = G \o FlattenSeq(r)
  BY <1>1, <1>5, <1>6, FlattenConcat DEF G
<1>8. G \in Seq(Cell) /\ FlattenSeq(r) \in Seq(Cell) /\ FlattenSeq(sent) \in Seq(Cell)
  BY <1>1, <1>5, FlattenType DEF G
<1>9. (G \o C) \o I = carry \o FlattenSeq(sent) /\ carry = <<>>
  BY DEF Conserved, Clean, G, C, I
<1>10. Join(Join(G, C), I) = Join(G, FlattenSeq(r))
  <2>1. <<>> \o FlattenSeq(sent) = FlattenSeq(sent)
    BY <1>8, ConcatEmptySeq
  <2> QED BY <1>7, <1>9, <2>1 DEF Join
<1>11. Join(C, I) = FlattenSeq(r)
  <2>1. Join(Join(G, C), I) = Join(G, Join(C, I)) /\ Join(C, I) \in Seq(Cell)
    BY <1>1, <1>4, <1>8, Regroup
  <2> QED BY <1>8, <1>10, <2>1, Cancel
<1>12. /\ Len(Join(C, I)) = Len(C) + Len(I) /\ Len(I) \in Nat
       /\ \A i \in 1..Len(C) : Join(C, I)[i] = C[i]
  BY <1>1, <1>4, JoinIs
<1>13. r # <<>>
  <2> SUFFICES ASSUME r = <<>> PROVE FALSE
    OBVIOUS
  <2>1. FlattenSeq(r) = <<>> /\ Len(<<>>) = 0
    BY <1>5, FlattenType, EmptySeq
  <2> QED BY <1>4, <1>11, <1>12, <2>1
<1>14. Len(r) \in Nat \ {0} /\ Head(r) = r[1]
  BY <1>5, <1>13, EmptySeq
<1>15. k + 1 \in 1..Len(sent) /\ k < Len(sent) /\ r[1] = p
  <2>1. k + 1 \in 1..Len(sent) /\ k < Len(sent) /\ 1 \in 1..Len(sent) - k
    BY <1>2, <1>5, <1>14
  <2> HIDE DEF k
  <2> QED BY <1>5, <2>1
<1>16. /\ Head(r) \in Seq(Cell) /\ Tail(r) \in Seq(Seq(Cell))
       /\ FlattenSeq(r) = Head(r) \o FlattenSeq(Tail(r))
  BY <1>5, <1>13, FlattenFirst
<1> DEFINE z == FlattenSeq(Tail(r))
<1>17. z \in Seq(Cell) /\ p \in Seq(Cell) /\ FlattenSeq(r) = Join(p, z)
  BY <1>14, <1>15, <1>16, FlattenType DEF Join
<1> HIDE DEF p, z
<1>18. \A i \in 1..Len(p) : Join(p, z)[i] = p[i]
  BY <1>17, JoinIs
<1>19. ASSUME NEW i \in 1..get_count(recv_buff), i <= Len(p) PROVE C[i] = p[i]
  <2>1. i \in 1..Len(C) /\ i \in 1..Len(p)
    <3>1. Len(p) \in Nat
      BY <1>17, LenProperties
    <3> QED BY <1>4, <1>19, <3>1
  <2> QED BY <1>11, <1>12, <1>17, <1>18, <2>1
<1>20. \E l \in setup.lengths : p = Packet(l, k)
  <2>1. \A i \in 1..Len(sent) : \E l \in setup.lengths : sent[i] = Packet(l, i - 1)
    BY DEF StreamShape
  <2>2. (k + 1) - 1 = k
    BY <1>2
  <2> HIDE DEF k
  <2> QED BY <1>15, <2>1, <2>2 DEF p
<1> QED BY <1>2, <1>15, <1>17, <1>19, <1>20 DEF p, C

\* What ReadLengths needs to have members.
LEMMA LengthThere ==
  ASSUME Ring(recv_buff), ReadLengths # {}
  PROVE  get_count(recv_buff) \in Nat /\ get_count(recv_buff) >= LengthSize
  BY RingFacts, PacketStreamConstants DEF ReadLengths

\* The packets sent are what they should be.
LEMMA SentIs ==
  ASSUME StreamShape, NEW j \in 1..Len(sent)
  PROVE  /\ sent[j] \in Seq(Cell) /\ Len(sent[j]) \in Nat /\ Len(sent[j]) >= LengthSize
         /\ \E l \in setup.lengths : sent[j] = Packet(l, j - 1)
<1>1. sent \in Seq(Seq(Cell))
  BY DEF StreamShape
<1>2. sent[j] \in Seq(Cell)
  BY <1>1, ElementOfSeq
<1>3. PICK l \in setup.lengths : sent[j] = Packet(l, j - 1)
  BY DEF StreamShape
<1>4. l \in Nat /\ j - 1 \in Nat
  <2>1. Len(sent) \in Nat
    BY <1>1, LenProperties
  <2> QED BY <2>1, SetupIs
<1>5. Len(sent[j]) = LengthSize + l
  BY <1>3, <1>4, PacketSeq
<1> QED BY <1>2, <1>3, <1>4, <1>5, PacketStreamConstants

\* Where the first bytes are those of a packet, that packet is what on_read
\* takes from them.
LEMMA TakesPacket ==
  ASSUME StreamShape, NEW j \in 1..Len(sent), NEW length \in ReadLengths,
         \A i \in 1..get_count(recv_buff) :
           i <= Len(sent[j]) => Contents(recv_buff)[i] = sent[j][i]
  PROVE  /\ SizeOf(length) = Len(sent[j]) /\ SizeOf(length) \in Nat \ {0}
         /\ get_count(recv_buff) \in Nat /\ get_count(recv_buff) >= LengthSize
         /\ Whole(length) => SubSeq(Contents(recv_buff), 1, SizeOf(length)) = sent[j]
<1> DEFINE c == get_count(recv_buff)
           C == Contents(recv_buff)
           p == sent[j]
<1>1. Ring(recv_buff) /\ c \in Nat /\ c >= LengthSize
  BY LengthThere DEF StreamShape, Plain
<1>2. p \in Seq(Cell) /\ Len(p) \in Nat /\ Len(p) >= LengthSize
  BY SentIs
<1>3. PICK l \in setup.lengths : p = Packet(l, j - 1)
  BY SentIs
<1>4. l \in 0..Width - LengthSize - 1 /\ j - 1 \in Nat
  <2>1. Len(sent) \in Nat
    BY LenProperties DEF StreamShape
  <2> QED BY <2>1, SetupIs
<1>5. \A i \in 1..LengthSize : C[i] = p[i]
  <2>1. \A i \in 1..LengthSize : i \in 1..c /\ i <= Len(p)
    <3> HIDE DEF c, p
    <3> QED BY <1>1, <1>2, PacketStreamConstants
  <2> QED BY <2>1
<1>6. SizeOf(length) = Len(p)
  <2> DEFINE k == j - 1
  <2>1. k \in Nat /\ p = Packet(l, k)
    BY <1>3, <1>4
  <2> HIDE DEF k, p
  <2> QED BY <1>1, <1>4, <1>5, <2>1, LengthRead
<1>7. SizeOf(length) \in Nat \ {0}
  BY <1>2, <1>6, PacketStreamConstants
<1>8. ASSUME Whole(length) PROVE SubSeq(C, 1, SizeOf(length)) = p
  <2> DEFINE n == SizeOf(length)
             s == SubSeq(C, 1, n)
  <2>1. n \in Nat /\ n <= c /\ n = Len(p)
    BY <1>6, <1>7, <1>8 DEF Whole
  <2>2. C \in Seq(Cell) /\ Len(C) = c
    BY <1>1, ContentsSeq
  <2> HIDE DEF n, c, C, p
  <2>3. s \in Seq(Cell) /\ Len(s) = n /\ \A i \in 1..n : s[i] = C[i]
    BY <1>1, <2>1, <2>2, Halves
  <2>4. \A i \in 1..n : i \in 1..c /\ i <= Len(p)
    BY <1>1, <2>1
  <2>5. \A i \in 1..n : s[i] = p[i]
    BY <2>3, <2>4 DEF p, C, c
  <2> HIDE DEF s
  <2>6. s = p
    BY <1>2, <2>1, <2>3, <2>5, SeqEqual
  <2> QED BY <2>6 DEF s, n
<1> QED BY <1>1, <1>6, <1>7, <1>8

LEMMA ReadNext ==
  ASSUME StreamShape, Conserved, Clean, IsPrefix(got, sent), NEW length \in ReadLengths
  PROVE  LET p == sent[Len(got) + 1]
         IN  /\ Len(got) \in Nat /\ Len(got) + 1 \in 1..Len(sent) /\ Len(got) < Len(sent)
             /\ SizeOf(length) = Len(p) /\ SizeOf(length) \in Nat \ {0}
             /\ get_count(recv_buff) \in Nat
             /\ Whole(length) => SubSeq(Contents(recv_buff), 1, SizeOf(length)) = p
<1> DEFINE j == Len(got) + 1
<1>1. get_count(recv_buff) \in Nat /\ get_count(recv_buff) # 0
  <2>1. get_count(recv_buff) \in Nat /\ get_count(recv_buff) >= LengthSize
    BY LengthThere DEF StreamShape, Plain
  <2> QED BY <2>1, PacketStreamConstants
<1>2. /\ Len(got) \in Nat /\ j \in 1..Len(sent) /\ Len(got) < Len(sent)
      /\ \A i \in 1..get_count(recv_buff) :
           i <= Len(sent[j]) => Contents(recv_buff)[i] = sent[j][i]
  BY <1>1, NextPacket
<1> HIDE DEF j
<1>3. /\ SizeOf(length) = Len(sent[j]) /\ SizeOf(length) \in Nat \ {0}
      /\ Whole(length) => SubSeq(Contents(recv_buff), 1, SizeOf(length)) = sent[j]
  BY <1>2, TakesPacket
<1> QED BY <1>1, <1>2, <1>3 DEF j

LEMMA ReadDatagram ==
  ASSUME StreamShape, NEW j \in 1..Len(sent), IsPrefix(Contents(recv_buff), sent[j]),
         NEW length \in ReadLengths
  PROVE  /\ SizeOf(length) \in Nat \ {0}
         /\ Whole(length) => /\ SizeOf(length) = get_count(recv_buff)
                             /\ SubSeq(Contents(recv_buff), 1, SizeOf(length)) = sent[j]
                             /\ Len(sent[j]) = get_count(recv_buff)
<1> DEFINE c == get_count(recv_buff)
           C == Contents(recv_buff)
           p == sent[j]
<1>1. C \in Seq(Cell) /\ Len(C) = c /\ c \in Nat
  BY ContentsSeq, RingFacts DEF StreamShape, Plain
<1>2. p \in Seq(Cell) /\ Len(p) \in Nat
  BY SentIs
<1> HIDE DEF C, p, c
<1>3. c <= Len(p) /\ \A i \in 1..c : C[i] = p[i]
  BY <1>1, <1>2, PrefixIs DEF C, p
<1>4. /\ SizeOf(length) = Len(p) /\ SizeOf(length) \in Nat \ {0}
      /\ Whole(length) => SubSeq(C, 1, SizeOf(length)) = p
  BY <1>3, TakesPacket DEF C, c, p
<1>5. Whole(length) => Len(p) = c
  BY <1>1, <1>2, <1>3, <1>4 DEF Whole, c
<1> QED BY <1>4, <1>5 DEF C, p, c

LEMMA EmptyRing ==
  ASSUME NEW r, Ring(r)
  PROVE  /\ get_count(r) = 0 <=> Contents(r) = <<>>
         /\ r.head = r.tail => get_count(r) = 0
<1>1. Contents(r) \in Seq(Cell) /\ Len(Contents(r)) = get_count(r)
  BY ContentsSeq
<1>2. get_count(r) = 0 <=> Contents(r) = <<>>
  BY <1>1, EmptySeq
<1>3. ASSUME r.head = r.tail PROVE get_count(r) = 0
  <2>1. r.tail - r.head = 0 /\ r.size \in Nat \ {0} /\ 0 \in 0..r.size - 1
    BY <1>3, RingFacts
  <2>2. get_count(r) = (r.tail - r.head) % r.size
    BY DEF get_count, count_between
  <2>3. 0 % r.size = 0
    BY <2>1, ModSmall
  <2> QED BY <2>1, <2>2, <2>3
<1> QED BY <1>2, <1>3

LEMMA ResetPlain ==
  ASSUME NEW r, Plain(r)
  PROVE  /\ Plain(reset(r)) /\ reset(r).size = r.size /\ Contents(reset(r)) = <<>>
         /\ reset(r).head = 0 /\ reset(r).tail = 0 /\ get_count(reset(r)) = 0
<1>1. /\ Ring(reset(r)) /\ get_count(reset(r)) = 0 /\ reset(r).size = r.size
      /\ reset(r).tail = 0
  BY ResetRing DEF Plain
<1>2. Plain(reset(r))
  <2>1. r.size \in Nat \ {0}
    BY RingFacts DEF Plain
  <2> QED BY <1>1, <2>1 DEF Plain
<1>3. reset(r).head = 0
  BY DEF reset, Plain, Ring, RingShape
<1> QED BY <1>1, <1>2, <1>3, EmptyRing

LEMMA ClosePlain ==
  ASSUME NEW r, Plain(r)
  PROVE  /\ Plain(close(r)) /\ close(r).size = r.size
         /\ Transport = "tcp" => Contents(close(r)) = <<>>
         /\ Transport # "tcp" => close(r) = r
  BY ResetPlain DEF close

LEMMA RemovePlain ==
  ASSUME NEW r, Plain(r), NEW n \in Nat
  PROVE  Plain(remove(r, n)) /\ remove(r, n).size = r.size
  BY RemoveAny DEF Plain

\* What is left behind the first n bytes.
LEMMA RemoveSome ==
  ASSUME NEW r, Plain(r), NEW n \in Nat, n <= get_count(r)
  PROVE  /\ get_count(remove(r, n)) = get_count(r) - n
         /\ Contents(remove(r, n)) \in Seq(Cell)
         /\ Contents(r) = Join(SubSeq(Contents(r), 1, n), Contents(remove(r, n)))
         /\ SubSeq(Contents(r), 1, n) \in Seq(Cell)
<1> DEFINE c == get_count(r)
           C == Contents(r)
           D == Contents(remove(r, n))
           u == SubSeq(C, 1, n)
           v == SubSeq(C, n + 1, c)
<1>1. Ring(r) /\ c \in Nat /\ C \in Seq(Cell) /\ Len(C) = c
  BY ContentsSeq, RingFacts DEF Plain
<1>2. n \in 0..c
  BY <1>1
<1>3. /\ Ring(remove(r, n)) /\ get_count(remove(r, n)) = c - n
      /\ \A i \in 1..c - n : D[i] = C[n + i]
  BY <1>1, <1>2, RemoveRing
<1>4. D \in Seq(Cell) /\ Len(D) = c - n
  BY <1>3, ContentsSeq
<1> HIDE DEF C, D, c
<1>5. u \in Seq(Cell) /\ v \in Seq(Cell) /\ Len(v) = c - n /\ \A i \in 1..c - n : v[i] = C[n + i]
  BY <1>1, <1>2, Halves
<1>6. C = u \o v
  BY <1>1, <1>2, TwoParts
<1> HIDE DEF u, v
<1>7. v = D
  <2>1. Len(v) = Len(D) /\ \A i \in 1..Len(v) : v[i] = D[i]
    BY <1>3, <1>4, <1>5
  <2> QED BY <1>4, <1>5, <2>1, SeqEqual
<1>8. C = Join(u, D)
  BY <1>6, <1>7 DEF Join
<1>9. get_count(remove(r, n)) = c - n /\ D \in Seq(Cell) /\ C = Join(u, D) /\ u \in Seq(Cell)
  BY <1>3, <1>4, <1>5, <1>8
<1> QED BY <1>9 DEF u, D, C, c

\* The messages of a run of bytes are those bytes.
LEMMA MessagesFlat ==
  ASSUME NEW p \in Seq(Cell), NEW cut \in Nat
  PROVE  Messages(p, cut) \in Seq(Seq(Cell)) /\ FlattenSeq(Messages(p, cut)) = p
<1>1. /\ <<p>> \in Seq(Seq(Cell)) /\ FlattenSeq(<<p>>) = p
  BY FlattenOne
<1>0. CASE p = <<>>
  <2>1. Messages(p, cut) = <<>>
    BY <1>0 DEF Messages
  <2> DEFINE T == Seq(Cell)
  <2>2. <<>> \in Seq(T)
    <3> HIDE DEF T
    <3> QED BY EmptySeq
  <2> QED BY <1>0, <2>1, <2>2, FlattenType
<1>2. CASE p # <<>> /\ cut \notin 1..Len(p) - 1
  BY <1>1, <1>2 DEF Messages
<1>3. CASE p # <<>> /\ cut \in 1..Len(p) - 1
  <2> DEFINE u == SubSeq(p, 1, cut)
             v == SubSeq(p, cut + 1, Len(p))
  <2>1. Len(p) \in Nat /\ cut \in 0..Len(p) /\ cut <= Len(p) /\ cut # 0
    <3>1. Len(p) \in Nat
      BY LenProperties
    <3> QED BY <1>3, <3>1
  <2>2. u \in Seq(Cell) /\ v \in Seq(Cell)
    BY <2>1, Halves
  <2>3. p = u \o v
    BY <2>1, TwoParts
  <2>4. Messages(p, cut) = <<u, v>>
    BY <1>3 DEF Messages
  <2> HIDE DEF u, v
  <2>5. <<u>> \in Seq(Seq(Cell)) /\ FlattenSeq(<<u>>) = u
    BY <2>2, FlattenOne
  <2> DEFINE w == <<u>>
             t == <<u, v>>
             a == Append(w, v)
  <2>6. Len(w) = 1 /\ w[1] = u /\ t \in Seq(Seq(Cell)) /\ Len(t) = 2 /\ t[1] = u /\ t[2] = v
    BY <2>2
  <2>7. w \in Seq(Seq(Cell)) /\ FlattenSeq(w) = u
    BY <2>5
  <2> HIDE DEF w, t
  <2>8. /\ a \in Seq(Seq(Cell)) /\ FlattenSeq(a) = FlattenSeq(w) \o v
        /\ Len(a) = Len(w) + 1 /\ (\A i \in 1..Len(w) : a[i] = w[i]) /\ a[Len(w) + 1] = v
    <3> DEFINE T == Seq(Cell)
    <3>1. FlattenSeq(a) = FlattenSeq(w) \o v
      BY <2>2, <2>7, FlattenAppend
    <3>2. w \in Seq(T) /\ v \in T
      BY <2>2, <2>7
    <3> HIDE DEF T, a
    <3>3. /\ a \in Seq(T) /\ Len(a) = Len(w) + 1
          /\ (\A i \in 1..Len(w) : a[i] = w[i]) /\ a[Len(w) + 1] = v
      BY <3>2, AppendProperties DEF a
    <3> QED BY <3>1, <3>3 DEF T
  <2> HIDE DEF a
  <2>9. Len(a) = 2 /\ a[1] = u /\ a[2] = v
    BY <2>6, <2>8
  <2>10. \A i \in 1..Len(a) : a[i] = t[i]
    BY <2>6, <2>9
  <2>11. a = t
    <3> DEFINE T == Seq(Cell)
    <3>1. a \in Seq(T) /\ t \in Seq(T) /\ Len(a) = Len(t)
      BY <2>6, <2>8, <2>9
    <3> HIDE DEF T
    <3> QED BY <2>10, <3>1, SeqEqual
  <2> QED BY <2>1, <2>3, <2>4, <2>6, <2>7, <2>8, <2>11 DEF t
<1> QED BY <1>0, <1>2, <1>3

-----------------------------------------------------------------------------
(* Every step keeps it                                                     *)

\* Conserved, with the parts named.
LEMMA ConservedParts ==
  Conserved <=>
    (Connected /\ Transport # "udp" =>
       Join(Join(FlattenSeq(got), Contents(recv_buff)), InFlight)
         = Join(carry, FlattenSeq(sent)))
  BY DEF Conserved, Join

LEMMA StreamTypes ==
  ASSUME StreamShape
  PROVE  /\ Contents(recv_buff) \in Seq(Cell) /\ Len(Contents(recv_buff)) = get_count(recv_buff)
         /\ get_count(recv_buff) \in Nat /\ get_count(recv_buff) <= recv_buff.size - 1
         /\ recv_buff.size \in Nat /\ InFlight \in Seq(Cell)
         /\ FlattenSeq(got) \in Seq(Cell) /\ FlattenSeq(sent) \in Seq(Cell)
         /\ carry \in Seq(Cell)
         /\ got \in Seq(Seq(Cell)) /\ sent \in Seq(Seq(Cell))
         /\ Len(got) \in Nat /\ Len(sent) \in Nat
<1>1. /\ Ring(recv_buff) /\ got \in Seq(Seq(Cell)) /\ sent \in Seq(Seq(Cell))
      /\ carry \in Seq(Cell)
  BY DEF StreamShape, Plain
<1>2. FlattenSeq(got) \in Seq(Cell) /\ FlattenSeq(sent) \in Seq(Cell)
  BY <1>1, FlattenType
<1>3. Len(got) \in Nat /\ Len(sent) \in Nat
  BY <1>1, LenProperties
<1> QED BY <1>1, <1>2, <1>3, ContentsSeq, RingFacts, InFlightSeq

LEMMA PeerSendsStep ==
  ASSUME StreamInv, NEW length \in setup.lengths, NEW cut \in Nat, PeerSends(length, cut)
  PROVE  StreamInv'
<1> DEFINE T == Seq(Cell)
           n == Len(sent)
           p == Packet(length, n)
           M == Messages(p, cut)
<1>1. /\ StreamShape /\ Conserved /\ InStep /\ Datagrams /\ FaultsOnlyOnForeign
      /\ got \in Seq(T) /\ sent \in Seq(T) /\ n \in Nat /\ Len(got) \in Nat
  BY StreamTypes DEF StreamInv
<1>2. /\ Connected /\ fault = "none" /\ sent' = Append(sent, p)
      /\ Transport = "tcp" => wire' = wire \o p
      /\ Transport = "udp" => wire' = Append(wire, p)
      /\ Transport = "kcp" => wire' = IF bound THEN wire \o M ELSE wire
      /\ backlog' = (IF Transport = "kcp" /\ ~bound THEN backlog \o p ELSE backlog)
      /\ bound' = bound /\ pending' = pending /\ done' = done /\ crossed' = crossed
      /\ recv_buff' = recv_buff /\ state' = state /\ reading' = reading /\ got' = got
      /\ carry' = carry /\ session' = session /\ fault' = fault /\ setup' = setup
  BY DEF PeerSends, udpVars, connVars
<1>3. Transport' = Transport /\ Connected'
  BY <1>2 DEF Transport, Connected
<1>4. length \in Nat
  BY <1>1, SetupIs
<1>5. p \in T
  BY <1>1, <1>4, PacketSeq
<1>6. M \in Seq(T) /\ FlattenSeq(M) = p
  BY <1>5, MessagesFlat
<1> HIDE DEF p, M
<1>7. /\ sent' \in Seq(T) /\ Len(sent') = n + 1 /\ sent'[n + 1] = p
      /\ \A i \in 1..n : sent'[i] = sent[i]
  <2> HIDE DEF T
  <2> QED BY <1>1, <1>2, <1>5, AppendProperties
<1>8. FlattenSeq(sent') = Join(FlattenSeq(sent), p)
  BY <1>1, <1>2, <1>5, FlattenAppend DEF Join
<1>9. /\ IF Transport = "tcp" THEN wire' \in T ELSE wire' \in Seq(T)
      /\ backlog' \in T /\ (bound' => backlog' = <<>>)
      /\ Transport # "udp" => InFlight' = Join(InFlight, p)
  <2>0. backlog \in T /\ (bound => backlog = <<>>) /\ Transport \in {"tcp", "kcp", "udp"}
    BY <1>1, SetupIs DEF StreamShape
  <2>1. CASE Transport = "tcp"
    <3>1. wire \in T /\ wire' = wire \o p
      BY <1>1, <1>2, <2>1 DEF StreamShape
    <3>2. wire \o p \in T
      BY <1>5, <3>1, ConcatProperties
    <3> QED BY <1>2, <1>3, <2>0, <2>1, <3>1, <3>2 DEF InFlight, Join
  <2>2. CASE Transport = "udp"
    <3>1. wire \in Seq(T) /\ wire' = Append(wire, p)
      BY <1>1, <1>2, <2>2 DEF StreamShape
    <3>2. Append(wire, p) \in Seq(T)
      <4> HIDE DEF T
      <4> QED BY <1>5, <3>1, AppendProperties
    <3> QED BY <1>2, <2>0, <2>2, <3>1, <3>2
  <2>3. CASE Transport = "kcp" /\ bound
    <3>1. wire \in Seq(T) /\ wire' = wire \o M /\ backlog' = <<>> /\ backlog = <<>>
      BY <1>1, <1>2, <2>0, <2>3 DEF StreamShape
    <3>2. FlattenSeq(wire \o M) = FlattenSeq(wire) \o p /\ FlattenSeq(wire) \in T
      BY <1>6, <3>1, FlattenConcat, FlattenType
    <3>3. wire \o M \in Seq(T)
      <4> HIDE DEF T
      <4> QED BY <1>6, <3>1, ConcatProperties
    <3>4. FlattenSeq(wire) \o p \in T
      BY <1>5, <3>2, ConcatProperties
    <3>5. InFlight = FlattenSeq(wire)
      BY <2>3, <3>1, <3>2, ConcatEmptySeq DEF InFlight
    <3>6. InFlight' = FlattenSeq(wire) \o p
      BY <1>3, <2>3, <3>1, <3>2, <3>4, ConcatEmptySeq DEF InFlight
    <3> QED BY <2>0, <2>3, <3>1, <3>3, <3>5, <3>6 DEF Join
  <2>4. CASE Transport = "kcp" /\ ~bound
    <3>1. wire \in Seq(T) /\ wire' = wire /\ backlog' = Join(backlog, p) /\ ~bound'
      BY <1>1, <1>2, <2>4 DEF StreamShape, Join
    <3>2. FlattenSeq(wire) \in T
      BY <3>1, FlattenType
    <3> DEFINE F == FlattenSeq(wire)
    <3>3. InFlight = Join(F, backlog) /\ InFlight' = Join(F, Join(backlog, p))
      BY <1>3, <2>4, <3>1 DEF InFlight, Join
    <3> HIDE DEF F
    <3>4. Join(backlog, p) \in T /\ Join(Join(F, backlog), p) = Join(F, Join(backlog, p))
      BY <1>5, <2>0, <3>2, Regroup DEF F
    <3> QED BY <2>4, <3>1, <3>3, <3>4
  <2> QED BY <2>0, <2>1, <2>2, <2>3, <2>4
<1>10. StreamShape'
  <2>1. ASSUME NEW i \in 1..n + 1 PROVE \E l \in setup.lengths : sent'[i] = Packet(l, i - 1)
    <3>1. CASE i = n + 1
      <4>1. i - 1 = n
        BY <1>1, <3>1
      <4> QED BY <1>7, <3>1, <4>1 DEF p
    <3>2. CASE i # n + 1
      <4>1. i \in 1..n
        BY <1>1, <3>2
      <4>2. \E l \in setup.lengths : sent[i] = Packet(l, i - 1)
        BY <1>1, <4>1 DEF StreamShape
      <4> QED BY <1>7, <4>1, <4>2
    <3> QED BY <3>1, <3>2
  <2>2. \A i \in 1..Len(sent') : \E l \in setup'.lengths : sent'[i] = Packet(l, i - 1)
    BY <1>2, <1>7, <2>1
  <2> QED BY <1>1, <1>2, <1>3, <1>7, <1>9, <2>2 DEF StreamShape
<1>11. Conserved'
  <2> DEFINE G == FlattenSeq(got)
             C == Contents(recv_buff)
             I == InFlight
             S == FlattenSeq(sent)
  <2>1. G \in T /\ C \in T /\ I \in T /\ S \in T /\ carry \in T
    BY <1>1, StreamTypes
  <2>2. Transport # "udp" => Join(Join(G, C), I) = Join(carry, S)
    BY <1>1, <1>2, ConservedParts
  <2>3. G' = G /\ C' = C /\ (Transport # "udp" => I' = Join(I, p)) /\ S' = Join(S, p)
    BY <1>2, <1>8, <1>9
  <2> HIDE DEF G, C, I, S
  <2>4. Join(G, C) \in T
    BY <2>1, JoinIs
  <2>5. Join(Join(Join(G, C), I), p) = Join(Join(G, C), Join(I, p))
    BY <1>5, <2>1, <2>4, Regroup
  <2>6. Join(Join(carry, S), p) = Join(carry, Join(S, p))
    BY <1>5, <2>1, Regroup
  <2>7. Transport # "udp" => Join(Join(G, C), Join(I, p)) = Join(carry, Join(S, p))
    BY <2>2, <2>5, <2>6
  <2>8. Transport # "udp" => Join(Join(G', C'), I') = Join(carry', S')
    BY <1>2, <2>3, <2>7
  <2> QED BY <1>3, <2>8 DEF Conserved, Join, G, C, I, S
<1>12. InStep'
  <2>1. Clean' <=> Clean
    BY <1>2, <1>3 DEF Clean
  <2>2. ASSUME IsPrefix(got, sent) PROVE IsPrefix(got, sent')
    <3> HIDE DEF T, n
    <3>1. Len(got) <= n /\ \A i \in 1..Len(got) : got[i] = sent[i]
      BY <1>1, <2>2, PrefixIs DEF n
    <3>2. Len(got) <= n + 1 /\ \A i \in 1..Len(got) : i \in 1..n
      BY <1>1, <3>1
    <3>3. \A i \in 1..Len(got) : got[i] = sent'[i]
      BY <1>7, <3>1, <3>2
    <3> QED BY <1>1, <1>7, <3>2, <3>3, PrefixIs
  <2>3. ASSUME Len(got) < Len(sent)
        PROVE  Len(got) < Len(sent') /\ sent'[Len(got) + 1] = sent[Len(got) + 1]
    <3>1. Len(got) + 1 \in 1..n /\ Len(got) < n + 1
      BY <1>1, <2>3
    <3> QED BY <1>7, <3>1
  <2> QED BY <1>1, <1>2, <1>3, <2>1, <2>2, <2>3 DEF InStep
<1>13. Datagrams'
  <2> SUFFICES ASSUME Transport = "udp", ~crossed PROVE Datagrams'
    BY <1>1, <1>2, <1>3 DEF Datagrams
  <2>1. ASSUME NEW x, \E j \in 1..Len(sent) : x = sent[j]
        PROVE  \E j \in 1..Len(sent') : x = sent'[j]
    <3>1. \A j \in 1..n : j \in 1..n + 1
      BY <1>1
    <3> QED BY <1>7, <2>1, <3>1
  <2>2. \A i \in 1..Len(wire') : \E j \in 1..Len(sent') : wire'[i] = sent'[j]
    <3>0. wire \in Seq(T)
      BY <1>1 DEF StreamShape
    <3>1. wire' = Append(wire, p)
      BY <1>2
    <3> DEFINE m == Len(wire)
    <3>2. m \in Nat
      BY <3>0, LenProperties
    <3>3. Len(wire') = m + 1 /\ wire'[m + 1] = p /\ \A i \in 1..m : wire'[i] = wire[i]
      <4> HIDE DEF T
      <4> QED BY <1>5, <3>0, <3>1, AppendProperties
    <3>4. \A i \in 1..m : \E j \in 1..Len(sent) : wire[i] = sent[j]
      BY <1>1, <1>2 DEF Datagrams
    <3> HIDE DEF m
    <3> SUFFICES ASSUME NEW i \in 1..m + 1 PROVE \E j \in 1..Len(sent') : wire'[i] = sent'[j]
      BY <3>3
    <3>5. CASE i = m + 1
      <4>1. n + 1 \in 1..Len(sent')
        BY <1>1, <1>7
      <4> QED BY <1>7, <3>3, <3>5, <4>1
    <3>6. CASE i # m + 1
      <4>1. i \in 1..m
        BY <3>2, <3>6
      <4> QED BY <2>1, <3>3, <3>4, <4>1
    <3> QED BY <3>5, <3>6
  <2>3. \A i \in 1..Len(got) : \E j \in 1..Len(sent') : got[i] = sent'[j]
    BY <1>1, <1>2, <2>1 DEF Datagrams
  <2>4. ASSUME reading, get_count(recv_buff) # 0
        PROVE  \E j \in 1..Len(sent') : IsPrefix(Contents(recv_buff), sent'[j])
    <3>1. PICK j \in 1..Len(sent) : IsPrefix(Contents(recv_buff), sent[j])
      BY <1>1, <1>2, <2>4 DEF Datagrams
    <3>2. PICK k \in 1..Len(sent') : sent[j] = sent'[k]
      BY <2>1
    <3> QED BY <3>1, <3>2
  <2>5. ASSUME NEW m, Begins(m) PROVE Begins(m)'
    <3>1. PICK j \in 1..Len(sent) : m <= Len(sent[j])
                                  /\ \A i \in 1..m : recv_buff.mem[i - 1] = sent[j][i]
      BY <2>5 DEF Begins
    <3>2. PICK k \in 1..Len(sent') : sent[j] = sent'[k]
      BY <2>1
    <3> QED BY <1>2, <2>5, <3>1, <3>2 DEF Begins
  <2> QED BY <1>1, <1>2, <1>3, <2>2, <2>3, <2>4, <2>5 DEF Datagrams
<1>14. FaultsOnlyOnForeign'
  BY <1>2 DEF FaultsOnlyOnForeign
<1> QED BY <1>10, <1>11, <1>12, <1>13, <1>14 DEF StreamInv

LEMMA PeerBindsStep ==
  ASSUME StreamInv, NEW cut \in Nat, PeerBinds(cut)
  PROVE  StreamInv'
<1> DEFINE T == Seq(Cell)
           M == Messages(backlog, cut)
<1>1. StreamShape /\ Conserved /\ InStep /\ Datagrams /\ FaultsOnlyOnForeign
  BY DEF StreamInv
<1>2. /\ Transport = "kcp" /\ fault = "none" /\ bound' = TRUE
      /\ wire' = wire \o M /\ backlog' = <<>>
      /\ pending' = pending /\ done' = done /\ crossed' = crossed
      /\ recv_buff' = recv_buff /\ state' = state /\ reading' = reading /\ got' = got
      /\ sent' = sent /\ carry' = carry /\ session' = session /\ fault' = fault
      /\ setup' = setup
  BY DEF PeerBinds, udpVars, connVars
<1>3. /\ Transport' = Transport /\ (Connected' <=> Connected) /\ (Foreign' <=> Foreign)
      /\ (Clean' <=> Clean)
  BY <1>2 DEF Transport, Connected, Foreign, Clean
<1>4. wire \in Seq(T) /\ backlog \in T /\ <<>> \in T
  BY <1>1, <1>2, EmptySeq DEF StreamShape
<1>5. M \in Seq(T) /\ FlattenSeq(M) = backlog
  BY <1>4, MessagesFlat
<1> HIDE DEF M
<1>6. wire' \in Seq(T)
  <2> HIDE DEF T
  <2> QED BY <1>2, <1>4, <1>5, ConcatProperties
<1>7. InFlight' = InFlight
  <2>1. FlattenSeq(wire') = FlattenSeq(wire) \o backlog /\ FlattenSeq(wire') \in T
    BY <1>2, <1>4, <1>5, <1>6, FlattenConcat, FlattenType
  <2>2. FlattenSeq(wire') \o <<>> = FlattenSeq(wire')
    BY <2>1, ConcatEmptySeq
  <2> QED BY <1>2, <1>3, <2>1, <2>2 DEF InFlight
<1>8. StreamShape'
  BY <1>1, <1>2, <1>3, <1>4, <1>6 DEF StreamShape
<1>9. Conserved' /\ InStep' /\ Datagrams' /\ FaultsOnlyOnForeign'
  BY <1>1, <1>2, <1>3, <1>7 DEF Conserved, InStep, Datagrams, FaultsOnlyOnForeign
<1> QED BY <1>8, <1>9 DEF StreamInv

LEMMA DatagramLostStep ==
  ASSUME StreamInv, DatagramLost
  PROVE  StreamInv'
<1> DEFINE T == Seq(Cell)
<1>1. StreamShape /\ Conserved /\ InStep /\ Datagrams /\ FaultsOnlyOnForeign
  BY DEF StreamInv
<1>2. /\ Transport = "udp" /\ wire # <<>> /\ wire' = Tail(wire)
      /\ bound' = bound /\ backlog' = backlog
      /\ pending' = pending /\ done' = done /\ crossed' = crossed
      /\ recv_buff' = recv_buff /\ state' = state /\ reading' = reading /\ got' = got
      /\ sent' = sent /\ carry' = carry /\ session' = session /\ fault' = fault
      /\ setup' = setup
  BY DEF DatagramLost, peerVars, udpVars, connVars
<1>3. Transport' = Transport /\ (Connected' <=> Connected) /\ (Foreign' <=> Foreign)
  BY <1>2 DEF Transport, Connected, Foreign
<1>4. wire \in Seq(T)
  BY <1>1, <1>2 DEF StreamShape
<1>5. /\ wire' \in Seq(T) /\ Len(wire') = Len(wire) - 1
      /\ \A i \in 1..Len(wire') : wire'[i] = wire[i + 1]
  <2> HIDE DEF T
  <2> QED BY <1>2, <1>4, HeadTailProperties
<1>6. StreamShape'
  BY <1>1, <1>2, <1>3, <1>5 DEF StreamShape
<1>7. Conserved' /\ InStep'
  <2>1. Clean' <=> Clean
    BY <1>2, <1>3 DEF Clean
  <2> QED BY <1>1, <1>2, <1>3, <2>1 DEF InStep, Conserved
<1>8. Datagrams'
  <2>1. ASSUME Connected, ~crossed, NEW i \in 1..Len(wire')
        PROVE  \E j \in 1..Len(sent) : wire'[i] = sent[j]
    <3>1. Len(wire) \in Nat
      BY <1>4, LenProperties
    <3>2. i + 1 \in 1..Len(wire)
      BY <1>5, <3>1
    <3> QED BY <1>1, <1>2, <1>5, <2>1, <3>2 DEF Datagrams
  <2>2. \A m : Begins(m)' <=> Begins(m)
    BY <1>2 DEF Begins
  <2> QED BY <1>1, <1>2, <1>3, <2>1, <2>2 DEF Datagrams
<1>9. FaultsOnlyOnForeign'
  BY <1>1, <1>2, <1>3 DEF FaultsOnlyOnForeign
<1> QED BY <1>6, <1>7, <1>8, <1>9 DEF StreamInv

\* Bytes that are taken come behind the others.
LEMMA TakeStep ==
  ASSUME StreamInv, Connected, ~reading, fault = "none",
         NEW data \in Seq(Cell), Len(data) <= RoomAtEnd, Take(Room, data)
  PROVE  /\ Plain(recv_buff') /\ Reached(recv_buff'.size)
         /\ Contents(recv_buff') = Join(Contents(recv_buff), data)
         /\ get_count(recv_buff') = get_count(recv_buff) + Len(data)
         /\ get_count(recv_buff) < recv_buff.size - 1 => recv_buff'.size = recv_buff.size
         /\ reading' /\ Connected' /\ Transport' = Transport
         /\ state' = state /\ sent' = sent /\ got' = got /\ carry' = carry
         /\ session' = session /\ fault' = fault /\ setup' = setup
         /\ bound' = bound /\ backlog' = backlog
         /\ pending' = pending /\ done' = done /\ crossed' = crossed
<1>1. /\ recv_buff' = written(Received(Room, Room.tail, data), Len(data)) /\ reading' = TRUE
      /\ state' = state /\ sent' = sent /\ got' = got /\ carry' = carry
      /\ session' = session /\ fault' = fault /\ setup' = setup
      /\ bound' = bound /\ backlog' = backlog
      /\ pending' = pending /\ done' = done /\ crossed' = crossed
  BY DEF Take, peerVars, udpVars, connVars
<1>2. Plain(recv_buff) /\ Reached(recv_buff.size)
  BY DEF StreamInv, StreamShape
<1>3. /\ Plain(Room) /\ Contents(Room) = Contents(recv_buff) /\ Reached(Room.size)
      /\ get_count(Room) = get_count(recv_buff)
      /\ get_count(recv_buff) < recv_buff.size - 1 => Room = recv_buff
  BY <1>2, RoomRing DEF Room
<1>4. Len(data) <= continguious_space(Room.head, Room.tail, Room.size)
  BY DEF RoomAtEnd
<1>5. /\ Plain(recv_buff') /\ recv_buff'.size = Room.size
      /\ Contents(recv_buff') = Contents(Room) \o data
      /\ get_count(recv_buff') = get_count(Room) + Len(data)
  <2> DEFINE g == Room
  <2> HIDE DEF g
  <2>1. LET f == written(Received(g, g.tail, data), Len(data))
        IN  /\ Plain(f) /\ f.size = g.size /\ Contents(f) = Contents(g) \o data
            /\ get_count(f) = get_count(g) + Len(data)
    BY <1>3, <1>4, TakeRing DEF g
  <2> QED BY <1>1, <2>1 DEF g
<1>6. Connected' /\ Transport' = Transport
  BY <1>1 DEF Connected, Transport
<1>7. Contents(recv_buff') = Join(Contents(recv_buff), data)
  BY <1>3, <1>5 DEF Join
<1> QED BY <1>1, <1>3, <1>5, <1>6, <1>7

\* Over TCP and KCP they are the next ones on their way.
LEMMA TakeNext ==
  ASSUME StreamInv, Connected, ~reading, fault = "none", Transport # "udp",
         NEW data \in Seq(Cell), Len(data) <= RoomAtEnd, Take(Room, data),
         IF Transport = "tcp" THEN wire' \in Seq(Cell) ELSE wire' \in Seq(Seq(Cell)),
         InFlight' \in Seq(Cell), InFlight = Join(data, InFlight')
  PROVE  StreamInv'
<1> DEFINE T == Seq(Cell)
<1>1. StreamShape /\ Conserved /\ InStep /\ Datagrams /\ FaultsOnlyOnForeign
  BY DEF StreamInv
<1>2. /\ Plain(recv_buff') /\ Reached(recv_buff'.size)
      /\ Contents(recv_buff') = Join(Contents(recv_buff), data)
      /\ reading' = TRUE /\ Connected' /\ Transport' = Transport
      /\ state' = state /\ sent' = sent /\ got' = got /\ carry' = carry
      /\ session' = session /\ fault' = fault /\ setup' = setup
      /\ bound' = bound /\ backlog' = backlog
      /\ pending' = pending /\ done' = done /\ crossed' = crossed
  BY TakeStep DEF Take
<1>3. StreamShape'
  BY <1>1, <1>2 DEF StreamShape
<1>4. Conserved'
  <2> DEFINE G == FlattenSeq(got)
             C == Contents(recv_buff)
             S == FlattenSeq(sent)
             J == InFlight'
  <2>1. G \in T /\ C \in T /\ S \in T /\ carry \in T /\ J \in T
    BY <1>1, StreamTypes
  <2>2. Join(Join(G, C), Join(data, J)) = Join(carry, S)
    BY <1>1, ConservedParts
  <2>3. Contents(recv_buff') = Join(C, data) /\ FlattenSeq(got') = G /\ FlattenSeq(sent') = S
    BY <1>2
  <2> HIDE DEF G, C, S, J
  <2>4. /\ Join(C, data) \in T /\ Join(G, C) \in T
        /\ Join(Join(G, C), data) = Join(G, Join(C, data))
    BY <2>1, Regroup
  <2>5. Join(Join(Join(G, C), data), J) = Join(Join(G, C), Join(data, J))
    BY <2>1, <2>4, Regroup
  <2>6. Join(Join(G, Join(C, data)), J) = Join(carry', S)
    BY <1>2, <2>2, <2>4, <2>5
  <2>7. Join(Join(FlattenSeq(got'), Contents(recv_buff')), InFlight')
          = Join(carry', FlattenSeq(sent'))
    BY <2>3, <2>6 DEF J
  <2> QED BY <2>7 DEF Conserved, Join
<1>5. InStep'
  <2>1. Clean' <=> Clean
    BY <1>2 DEF Clean
  <2> QED BY <1>1, <1>2, <2>1 DEF InStep
<1>6. Datagrams' /\ FaultsOnlyOnForeign'
  BY <1>2 DEF Datagrams, FaultsOnlyOnForeign
<1> QED BY <1>3, <1>4, <1>5, <1>6 DEF StreamInv

LEMMA ReceiveBytesStep ==
  ASSUME StreamInv, NEW n \in Nat, ReceiveBytes(n)
  PROVE  StreamInv'
<1> DEFINE data == SubSeq(wire, 1, n)
           rest == SubSeq(wire, n + 1, Len(wire))
<1>1. /\ Transport = "tcp" /\ Connected /\ ~reading /\ fault = "none"
      /\ n <= RoomAtEnd /\ n <= Len(wire) /\ Take(Room, data) /\ wire' = rest
  BY DEF ReceiveBytes
<1>2. wire \in Seq(Cell) /\ Len(wire) \in Nat
  BY <1>1, LenProperties DEF StreamInv, StreamShape
<1>3. data \in Seq(Cell) /\ Len(data) = n /\ rest \in Seq(Cell)
  BY <1>1, <1>2, Halves
<1>4. wire = data \o rest
  <2>1. n \in 0..Len(wire)
    BY <1>1, <1>2
  <2> QED BY <1>2, <2>1, TwoParts
<1>5. InFlight = wire /\ InFlight' = rest
  <2>1. Transport' = Transport
    BY <1>1 DEF Take, Transport, connVars
  <2> QED BY <1>1, <2>1 DEF InFlight
<1> HIDE DEF data, rest
<1>6. InFlight = Join(data, InFlight')
  BY <1>4, <1>5 DEF Join
<1>7. Len(data) <= RoomAtEnd /\ InFlight' \in Seq(Cell) /\ wire' \in Seq(Cell)
  BY <1>1, <1>3, <1>5
<1> QED BY <1>1, <1>3, <1>6, <1>7, TakeNext

LEMMA ReceiveMessageStep ==
  ASSUME StreamInv, ReceiveMessage
  PROVE  StreamInv'
<1> DEFINE data == Head(wire)
           rest == Tail(wire)
<1>1. /\ Transport = "kcp" /\ Connected /\ ~reading /\ fault = "none"
      /\ wire # <<>> /\ Len(data) <= RoomAtEnd /\ Take(Room, data) /\ wire' = rest
  BY DEF ReceiveMessage
<1>2. wire \in Seq(Seq(Cell))
  BY <1>1 DEF StreamInv, StreamShape
<1>3. /\ data \in Seq(Cell) /\ rest \in Seq(Seq(Cell))
      /\ FlattenSeq(wire) = data \o FlattenSeq(rest)
  BY <1>1, <1>2, FlattenFirst
<1>4. backlog' = backlog /\ Transport' = Transport /\ backlog \in Seq(Cell)
  BY <1>1 DEF Take, Transport, connVars, peerVars, StreamInv, StreamShape
<1> DEFINE F == FlattenSeq(rest)
<1>5. F \in Seq(Cell)
  BY <1>3, FlattenType
<1> HIDE DEF data, rest
<1>6. InFlight = Join(Join(data, F), backlog) /\ InFlight' = Join(F, backlog)
  BY <1>1, <1>3, <1>4 DEF Join, InFlight
<1> HIDE DEF F
<1>7. Join(Join(data, F), backlog) = Join(data, Join(F, backlog)) /\ Join(F, backlog) \in Seq(Cell)
  BY <1>3, <1>4, <1>5, Regroup
<1>8. InFlight = Join(data, InFlight') /\ InFlight' \in Seq(Cell)
  BY <1>6, <1>7
<1>9. wire' \in Seq(Seq(Cell)) /\ Transport # "tcp" /\ Transport # "udp"
  BY <1>1, <1>3
<1> QED BY <1>1, <1>3, <1>8, <1>9, TakeNext

\* RemoveAt leaves the others.
LEMMA Without ==
  ASSUME NEW S, NEW w \in Seq(S), NEW n \in 1..Len(w)
  PROVE  /\ RemoveAt(w, n) \in Seq(S)
         /\ \A i \in 1..Len(RemoveAt(w, n)) : \E k \in 1..Len(w) : RemoveAt(w, n)[i] = w[k]
<1> DEFINE L == Len(w)
           m == n - 1
           u == SubSeq(w, 1, m)
           v == SubSeq(w, n + 1, L)
           r == RemoveAt(w, n)
<1>1. L \in Nat /\ n \in Nat /\ n <= L /\ m \in Nat /\ m <= L
  <2>1. L \in Nat
    BY LenProperties
  <2> QED BY <2>1
<1>2. u \in Seq(S) /\ Len(u) = m /\ \A i \in 1..m : u[i] = w[i]
  <2> HIDE DEF m
  <2> QED BY <1>1, Halves
<1>3. v \in Seq(S) /\ Len(v) = L - n /\ \A i \in 1..L - n : v[i] = w[n + i]
  BY <1>1, Halves
<1>4. r = u \o v
  BY DEF RemoveAt
<1> HIDE DEF u, v, r, m
<1>5. /\ r \in Seq(S) /\ Len(r) = Len(u) + Len(v)
      /\ \A i \in 1..Len(u) + Len(v) : r[i] = IF i <= Len(u) THEN u[i] ELSE v[i - Len(u)]
  BY <1>2, <1>3, <1>4, ConcatProperties
<1>6. ASSUME NEW i \in 1..Len(r) PROVE \E k \in 1..L : r[i] = w[k]
  <2>1. i \in 1..Len(u) + Len(v) /\ i \in Nat
    BY <1>1, <1>2, <1>3, <1>5
  <2>2. CASE i <= Len(u)
    <3>1. i \in 1..m /\ i \in 1..L
      BY <1>1, <1>2, <2>1, <2>2
    <3> QED BY <1>2, <1>5, <2>1, <2>2, <3>1
  <2>3. CASE ~(i <= Len(u))
    <3>1. i - m \in 1..L - n /\ n + (i - m) \in 1..L
      BY <1>1, <1>2, <1>3, <2>1, <2>3
    <3>2. r[i] = v[i - m]
      BY <1>2, <1>5, <2>1, <2>3
    <3>3. v[i - m] = w[n + (i - m)]
      BY <1>3, <3>1
    <3> QED BY <3>1, <3>2, <3>3
  <2> QED BY <2>2, <2>3
<1> QED BY <1>5, <1>6 DEF r

\* A ring holds a byte at least.
LEMMA SizeAboveOne ==
  ASSUME NEW n, Reached(n)
  PROVE  n \in Nat /\ n > 1
<1> DEFINE X == {m \in Nat : m > 1}
<1>1. X \in SUBSET Nat /\ DefaultSize \in X /\ \A m \in X : 4 * m \in X
  BY PacketStreamConstants, CircleConstants
<1>2. n \in X
  <2> HIDE DEF X
  <2> QED BY <1>1 DEF Reached
<1> QED BY <1>2

\* A receive changes no more than the cells it was given.
LEMMA ReceivedRing ==
  ASSUME NEW r, Plain(r), NEW at \in Nat, NEW data \in Seq(Cell)
  PROVE  LET f == Received(r, at, data)
         IN  /\ Plain(f) /\ f.size = r.size /\ f.head = r.head /\ f.tail = r.tail
             /\ \A i \in 0..r.size - 1 :
                  f.mem[i] = IF i - at \in 0..Len(data) - 1 THEN data[i - at + 1] ELSE r.mem[i]
<1> DEFINE s == r.size
           n == Len(data)
           f == Received(r, at, data)
           M == [i \in 0..s - 1 |-> IF i - at \in 0..n - 1 THEN data[i - at + 1] ELSE r.mem[i]]
<1>1. /\ Ring(r) /\ r \in RingShape /\ s \in Nat \ {0} /\ r.mem \in [0..s - 1 -> Cell]
      /\ n \in Nat
  BY RingFacts, LenProperties DEF Plain, Ring
<1>2. f = [r EXCEPT !.mem = M]
  <2>1. DOMAIN r.mem = 0..s - 1
    BY <1>1
  <2> QED BY <1>1, <2>1 DEF Received, RingShape
<1>3. M \in [0..s - 1 -> Cell]
  <2>1. ASSUME NEW i \in 0..s - 1, i - at \in 0..n - 1 PROVE data[i - at + 1] \in Cell
    <3>1. i - at + 1 \in 1..Len(data)
      BY <1>1, <2>1
    <3> QED BY <3>1, ElementOfSeq
  <2>2. \A i \in 0..s - 1 : r.mem[i] \in Cell
    BY <1>1
  <2> HIDE DEF s, n
  <2> QED BY <2>1, <2>2
<1>4. \A i \in 0..s - 1 : M[i] = IF i - at \in 0..n - 1 THEN data[i - at + 1] ELSE r.mem[i]
  OBVIOUS
<1> HIDE DEF M, f
<1>5. /\ f \in RingShape /\ f.size = r.size /\ f.head = r.head /\ f.tail = r.tail
      /\ f.mem = M
  <2>1. M \in UNION {[0..k - 1 -> Cell] : k \in Nat}
    BY <1>1, <1>3
  <2> QED BY <1>1, <1>2, <2>1 DEF RingShape
<1>6. Plain(f)
  BY <1>1, <1>3, <1>5 DEF Ring, Plain
<1> QED BY <1>4, <1>5, <1>6 DEF f

\* The bytes of a receive are counted.
LEMMA WrittenPlain ==
  ASSUME NEW r, Plain(r), NEW n \in Nat
  PROVE  LET f == written(r, n)
         IN  /\ Plain(f) /\ f.size = r.size
             /\ r.head = 0 /\ r.tail = 0 /\ n < r.size =>
                  /\ get_count(f) = n
                  /\ \A i \in 1..n : Contents(f)[i] = r.mem[i - 1]
<1> DEFINE s == r.size
           x == (r.tail + n) % SizeT
           f == written(r, n)
<1>1. /\ Ring(r) /\ r \in RingShape /\ s \in Nat \ {0} /\ r.tail \in Nat
      /\ SizeT \in Nat \ {0} /\ 2 * s < SizeT
  BY RingFacts DEF Plain, Ring
<1>2. x \in Nat /\ x % s \in 0..s - 1
  <2>1. r.tail + n \in Int
    BY <1>1
  <2>2. x \in 0..SizeT - 1
    BY <1>1, <2>1, DivMod
  <2>3. x \in Int
    BY <1>1, <2>2
  <2> HIDE DEF x, s
  <2> QED BY <1>1, <2>2, <2>3, DivMod
<1>3. /\ f.size = r.size /\ f.head = r.head /\ f.mem = r.mem /\ f.tail = x % s
      /\ f \in RingShape
  <2> DEFINE y == x % s
  <2>1. f = [r EXCEPT !.tail = y]
    BY <1>1 DEF written, RingShape
  <2>2. y \in Nat
    BY <1>1, <1>2
  <2> HIDE DEF y, f
  <2> QED BY <1>1, <2>1, <2>2 DEF RingShape, y
<1>4. Plain(f)
  <2>1. f.tail \in 0..SizeT - 1 /\ f.tail \in 0..s - 1
    BY <1>1, <1>2, <1>3
  <2> HIDE DEF f
  <2> QED BY <1>1, <1>3, <2>1 DEF Plain, Ring
<1>5. ASSUME r.head = 0, r.tail = 0, n < s
      PROVE  get_count(f) = n /\ \A i \in 1..n : Contents(f)[i] = r.mem[i - 1]
  <2>1. n \in 0..SizeT - 1 /\ n \in 0..s - 1 /\ r.tail + n = n
    BY <1>1, <1>5
  <2>2. x = n
    BY <1>1, <2>1, ModSmall
  <2>3. f.tail = n /\ f.head = 0
    BY <1>1, <1>3, <1>5, <2>1, <2>2, ModSmall
  <2> HIDE DEF f, x
  <2>4. get_count(f) = n
    <3>1. n - 0 = n
      OBVIOUS
    <3> QED BY <1>1, <1>3, <2>1, <2>3, <3>1, ModSmall DEF get_count, count_between
  <2>5. ASSUME NEW i \in 1..n PROVE Contents(f)[i] = r.mem[i - 1]
    <3>1. i - 1 \in 0..s - 1 /\ 0 + i - 1 = i - 1
      BY <1>1, <2>1
    <3>2. (i - 1) % s = i - 1
      BY <1>1, <3>1, ModSmall
    <3>3. Contents(f)[i] = f.mem[(f.head + i - 1) % f.size]
      BY <2>4 DEF Contents
    <3> QED BY <1>3, <2>3, <3>1, <3>2, <3>3
  <2> QED BY <2>4, <2>5
<1> QED BY <1>3, <1>4, <1>5

\* Over UDP the ring is empty between two calls of on_read.
LEMMA EmptyBetween ==
  ASSUME StreamShape, Datagrams, Transport = "udp", ~reading
  PROVE  /\ get_count(recv_buff) = 0 /\ Contents(recv_buff) = <<>>
         /\ get_count(recv_buff) < recv_buff.size - 1
         /\ recv_buff.head = 0 /\ recv_buff.tail = 0
<1>1. recv_buff.head = 0 /\ recv_buff.tail = 0 /\ Ring(recv_buff)
  BY DEF Datagrams, StreamShape, Plain
<1>2. get_count(recv_buff) = 0 /\ Contents(recv_buff) = <<>>
  BY <1>1, EmptyRing
<1>3. 0 < recv_buff.size - 1
  BY SizeAboveOne DEF StreamShape
<1> QED BY <1>1, <1>2, <1>3

\* What do_read asks of the reactor; in an empty ring it is the front.
LEMMA PostedIs ==
  ASSUME NEW g, Plain(g)
  PROVE  /\ Posted(g) \in [at : Nat, room : Nat] /\ Posted(g).at = g.tail
         /\ Posted(g).room < g.size
<1> DEFINE z == continguious_space(g.head, g.tail, g.size)
<1>1. /\ z \in Nat /\ z <= g.size - 1 - get_count(g) /\ g.size \in Nat /\ g.tail \in Nat
      /\ get_count(g) \in Nat
  BY SpaceAtEnd, RingFacts DEF Plain
<1> HIDE DEF z
<1>2. Posted(g) = [at |-> g.tail, room |-> z]
  BY DEF Posted, z
<1> QED BY <1>1, <1>2

LEMMA OneIs ==
  ASSUME NEW S, NEW x \in S
  PROVE  <<x>> \in Seq(S) /\ Len(<<x>>) = 1 /\ <<x>>[1] = x
OBVIOUS

LEMMA CompleteStep ==
  ASSUME StreamInv, NEW i \in 1..Len(wire), Complete(i)
  PROVE  StreamInv'
<1> DEFINE T == Seq(Cell)
           P == [at : Nat, room : Nat]
           x == wire[i]
           p == Head(pending)
           n == MinOf(Len(x), p.room)
           data == SubSeq(x, 1, n)
<1>1. /\ StreamShape /\ Conserved /\ InStep /\ Datagrams /\ FaultsOnlyOnForeign
      /\ Transport = "udp" /\ Connected /\ ~reading /\ fault = "none" /\ pending # <<>>
      /\ recv_buff' = Received(recv_buff, p.at, data)
      /\ pending' = Tail(pending) /\ done' = Append(done, n) /\ wire' = RemoveAt(wire, i)
      /\ state' = state /\ reading' = reading /\ sent' = sent /\ bound' = bound
      /\ backlog' = backlog /\ crossed' = crossed /\ got' = got /\ carry' = carry
      /\ session' = session /\ setup' = setup /\ fault' = fault
  BY DEF StreamInv, Complete, peerVars, connVars
<1>2. /\ wire \in Seq(T) /\ pending \in Seq(P) /\ done \in Seq(Nat)
      /\ Plain(recv_buff) /\ Reached(recv_buff.size)
  BY <1>1 DEF StreamShape
<1>3. x \in T /\ Len(x) \in Nat
  BY <1>2, ElementOfSeq, LenProperties
<1>4. /\ p \in P /\ p = pending[1] /\ Tail(pending) \in Seq(P)
      /\ Len(pending) \in Nat /\ Len(Tail(pending)) = Len(pending) - 1
  <2> HIDE DEF P
  <2> QED BY <1>1, <1>2, HeadTailProperties, LenProperties
<1>5. p.at \in Nat /\ p.room \in Nat
  BY <1>4
<1> HIDE DEF p, x
<1>6. n \in Nat /\ n <= Len(x) /\ n <= p.room
  BY <1>3, <1>5 DEF MinOf
<1> HIDE DEF n
<1>7. data \in T /\ Len(data) = n /\ \A k \in 1..n : data[k] = x[k]
  BY <1>3, <1>6, Halves
<1> HIDE DEF data
<1>8. /\ Plain(recv_buff') /\ recv_buff'.size = recv_buff.size
      /\ recv_buff'.head = recv_buff.head /\ recv_buff'.tail = recv_buff.tail
      /\ \A k \in 0..recv_buff.size - 1 :
           recv_buff'.mem[k] = IF k - p.at \in 0..n - 1 THEN data[k - p.at + 1]
                               ELSE recv_buff.mem[k]
  <2> DEFINE a == p.at
  <2>1. recv_buff' = Received(recv_buff, a, data) /\ a \in Nat /\ Len(data) = n
    BY <1>1, <1>5, <1>7
  <2> HIDE DEF a
  <2>2. LET h == Received(recv_buff, a, data)
        IN  /\ Plain(h) /\ h.size = recv_buff.size /\ h.head = recv_buff.head
            /\ h.tail = recv_buff.tail
            /\ \A k \in 0..recv_buff.size - 1 :
                 h.mem[k] = IF k - a \in 0..Len(data) - 1 THEN data[k - a + 1]
                            ELSE recv_buff.mem[k]
    BY <1>2, <1>7, <2>1, ReceivedRing
  <2> QED BY <2>1, <2>2 DEF a
<1>9. /\ wire' \in Seq(T)
      /\ \A j \in 1..Len(wire') : \E k \in 1..Len(wire) : wire'[j] = wire[k]
  <2> HIDE DEF T
  <2>1. wire' = RemoveAt(wire, i)
    BY <1>1
  <2>2. /\ RemoveAt(wire, i) \in Seq(T)
        /\ \A j \in 1..Len(RemoveAt(wire, i)) :
             \E k \in 1..Len(wire) : RemoveAt(wire, i)[j] = wire[k]
    BY <1>2, Without
  <2> QED BY <2>1, <2>2
<1>10. done' \in Seq(Nat) /\ Len(done') = Len(done) + 1 /\ done'[Len(done) + 1] = n
  BY <1>1, <1>2, <1>6, AppendProperties
<1>11. /\ Transport' = Transport /\ (Connected' <=> Connected) /\ ~Clean' /\ ~Clean
       /\ (Foreign' <=> Foreign)
  BY <1>1 DEF Transport, Connected, Clean, Foreign
<1>12. StreamShape'
  BY <1>1, <1>2, <1>4, <1>8, <1>9, <1>10, <1>11 DEF StreamShape
<1>13. Conserved' /\ InStep' /\ FaultsOnlyOnForeign'
  BY <1>1, <1>11 DEF Conserved, InStep, FaultsOnlyOnForeign
<1>14. recv_buff'.head = 0 /\ recv_buff'.tail = 0
  BY <1>1, <1>8, EmptyBetween
<1>15. ASSUME ~crossed
       PROVE  /\ \A k \in 1..Len(wire') : \E q \in 1..Len(sent) : wire'[k] = sent[q]
              /\ pending' = <<>> /\ Len(done') = 1 /\ Begins(done[1])'
  <2>1. \A k \in 1..Len(wire) : \E j \in 1..Len(sent) : wire[k] = sent[j]
    BY <1>1, <1>15 DEF Datagrams
  <2>2. \A k \in 1..Len(wire') : \E q \in 1..Len(sent) : wire'[k] = sent[q]
    <3> TAKE k \in 1..Len(wire')
    <3>1. PICK m \in 1..Len(wire) : wire'[k] = wire[m]
      BY <1>9
    <3> QED BY <2>1, <3>1
  <2>3. done = <<>> /\ Len(pending) = 1 /\ p.at = 0 /\ p.room < recv_buff.size
    BY <1>1, <1>4, <1>15 DEF Datagrams
  <2>4. pending' = <<>>
    <3>1. Len(pending') = 0 /\ pending' \in Seq(P)
      BY <1>1, <1>4, <2>3
    <3> HIDE DEF P
    <3> QED BY <3>1, EmptySeq
  <2>5. Len(done') = 1 /\ done'[1] = n
    <3>1. Len(done) = 0
      BY <2>3, EmptySeq
    <3> QED BY <1>10, <3>1
  <2>6. PICK j \in 1..Len(sent) : x = sent[j]
    BY <2>1 DEF x
  <2>7. recv_buff.size \in Nat /\ n < recv_buff.size
    <3>1. recv_buff.size \in Nat
      BY <1>2, SizeAboveOne
    <3> QED BY <1>5, <1>6, <2>3, <3>1
  <2>8. ASSUME NEW k \in 1..n PROVE recv_buff'.mem[k - 1] = sent[j][k]
    <3>1. k - 1 \in 0..recv_buff.size - 1 /\ (k - 1) - 0 \in 0..n - 1 /\ (k - 1) - 0 + 1 = k
      BY <1>6, <2>7
    <3>2. recv_buff'.mem[k - 1] = data[k]
      BY <1>8, <2>3, <3>1
    <3> QED BY <1>7, <2>6, <3>2
  <2>9. Begins(done[1])'
    <3>1. done'[1] < recv_buff'.size
      BY <1>8, <2>5, <2>7
    <3>2. done'[1] <= Len(sent'[j]) /\ j \in 1..Len(sent')
      BY <1>1, <1>6, <2>5, <2>6
    <3>3. \A k \in 1..done'[1] : recv_buff'.mem[k - 1] = sent'[j][k]
      BY <1>1, <2>5, <2>8
    <3> QED BY <3>1, <3>2, <3>3 DEF Begins
  <2> QED BY <2>2, <2>4, <2>5, <2>9
<1>16. Datagrams'
  BY <1>1, <1>8, <1>11, <1>14, <1>15 DEF Datagrams
<1> QED BY <1>12, <1>13, <1>16 DEF StreamInv

LEMMA HandleStep ==
  ASSUME StreamInv, Handle
  PROVE  StreamInv'
<1> DEFINE n == Head(done)
<1>1. /\ StreamShape /\ Conserved /\ InStep /\ Datagrams /\ FaultsOnlyOnForeign
      /\ ~reading /\ fault = "none" /\ done # <<>> /\ recv_buff' = written(recv_buff, n)
      /\ done' = Tail(done) /\ reading' = TRUE
      /\ pending' = pending /\ wire' = wire
      /\ state' = state /\ sent' = sent /\ bound' = bound
      /\ backlog' = backlog /\ crossed' = crossed /\ got' = got /\ carry' = carry
      /\ session' = session /\ setup' = setup /\ fault' = fault
  BY DEF StreamInv, Handle, peerVars, connVars
<1>2. /\ done \in Seq(Nat) /\ Plain(recv_buff) /\ Reached(recv_buff.size)
      /\ Transport = "udp"
  BY <1>1 DEF StreamShape
<1>3. n \in Nat /\ n = done[1] /\ Tail(done) \in Seq(Nat) /\ Len(Tail(done)) = Len(done) - 1
  BY <1>1, <1>2, HeadTailProperties
<1> HIDE DEF n
<1>4. Plain(recv_buff') /\ recv_buff'.size = recv_buff.size
  BY <1>1, <1>2, <1>3, WrittenPlain
<1>5. /\ Transport' = Transport /\ (Connected' <=> Connected) /\ ~Clean' /\ ~Clean
      /\ (Foreign' <=> Foreign)
  BY <1>1, <1>2 DEF Transport, Connected, Clean, Foreign
<1>6. StreamShape'
  BY <1>1, <1>2, <1>3, <1>4, <1>5 DEF StreamShape
<1>7. Conserved' /\ InStep' /\ FaultsOnlyOnForeign'
  BY <1>1, <1>2, <1>5 DEF Conserved, InStep, FaultsOnlyOnForeign
<1>8. ASSUME Connected, ~crossed
      PROVE  /\ pending' = <<>> /\ done' = <<>>
             /\ \E j \in 1..Len(sent) : IsPrefix(Contents(recv_buff'), sent[j])
  <2>1. Len(done) = 1 /\ pending = <<>> /\ Begins(n)
    BY <1>1, <1>2, <1>3, <1>8, EmptySeq DEF Datagrams
  <2>2. done' = <<>>
    <3>1. Len(done') = 0 /\ done' \in Seq(Nat)
      BY <1>1, <1>3, <2>1
    <3> QED BY <3>1, EmptySeq
  <2>3. /\ get_count(recv_buff') = n
        /\ \A i \in 1..n : Contents(recv_buff')[i] = recv_buff.mem[i - 1]
    <3>1. recv_buff.head = 0 /\ recv_buff.tail = 0 /\ n < recv_buff.size
      BY <1>1, <1>2, <2>1, EmptyBetween DEF Begins
    <3> QED BY <1>1, <1>2, <1>3, <3>1, WrittenPlain
  <2>4. PICK j \in 1..Len(sent) : n <= Len(sent[j])
                                /\ \A i \in 1..n : recv_buff.mem[i - 1] = sent[j][i]
    BY <2>1 DEF Begins
  <2> DEFINE C == Contents(recv_buff')
  <2>5. C \in Seq(Cell) /\ Len(C) = n /\ sent[j] \in Seq(Cell)
    BY <1>1, <1>4, <2>3, ContentsSeq, SentIs DEF Plain
  <2>6. \A i \in 1..n : C[i] = sent[j][i]
    BY <2>3, <2>4
  <2> HIDE DEF C
  <2>7. IsPrefix(C, sent[j])
    BY <2>4, <2>5, <2>6, PrefixIs
  <2> QED BY <1>1, <2>1, <2>2, <2>7 DEF C
<1>9. Datagrams'
  BY <1>1, <1>4, <1>5, <1>8 DEF Datagrams
<1> QED BY <1>6, <1>7, <1>9 DEF StreamInv

LEMMA NoRoomStep ==
  ASSUME StreamInv, NoRoom
  PROVE  StreamInv'
<1> DEFINE c == get_count(recv_buff)
           s == recv_buff.size
<1>1. /\ StreamShape /\ Conserved /\ InStep /\ Datagrams /\ FaultsOnlyOnForeign
      /\ Transport # "udp" /\ Connected /\ ~reading /\ RoomAtEnd = 0 /\ fault' = "thrown"
      /\ recv_buff' = recv_buff /\ state' = state /\ reading' = reading /\ got' = got
      /\ wire' = wire /\ sent' = sent /\ carry' = carry /\ session' = session /\ setup' = setup
      /\ bound' = bound /\ backlog' = backlog
      /\ pending' = pending /\ done' = done /\ crossed' = crossed
  BY DEF StreamInv, NoRoom, peerVars, udpVars, connVars
<1>2. /\ Transport' = Transport /\ (Connected' <=> Connected) /\ (Foreign' <=> Foreign)
      /\ InFlight' = InFlight /\ (Clean' <=> Clean)
  BY <1>1 DEF Transport, Connected, Foreign, InFlight, Clean
<1>3. StreamShape' /\ Conserved' /\ InStep' /\ Datagrams'
  BY <1>1, <1>2 DEF StreamShape, Conserved, InStep, Datagrams
<1>4. Plain(recv_buff) /\ Reached(s) /\ s \in Nat /\ c \in Nat
  BY <1>1, StreamTypes DEF StreamShape
<1>5. ~CanExpand(recv_buff) /\ c = s - 1
  <2>1. continguious_space(Room.head, Room.tail, Room.size) = 0
    BY <1>1 DEF RoomAtEnd
  <2> QED BY <1>4, <2>1, RoomRing DEF Room
<1>6. LargestRing = s
  BY <1>4, <1>5, LargestIs DEF CanExpand
<1>7. s > 1
  BY <1>4, SizeAboveOne
<1>9. Foreign \/ \E i \in 1..Len(sent) : Len(sent[i]) >= LargestRing
  <2> SUFFICES ASSUME ~Foreign PROVE \E i \in 1..Len(sent) : Len(sent[i]) >= LargestRing
    OBVIOUS
  <2> DEFINE j == Len(got) + 1
  <2>1. Clean
    BY <1>1 DEF Clean, Foreign
  <2>2. Len(got) < Len(sent) /\ c < Len(sent[j])
    BY <1>1, <1>4, <1>5, <1>7, <2>1 DEF InStep
  <2>3. j \in 1..Len(sent)
    BY <1>1, <2>2, StreamTypes
  <2> HIDE DEF j
  <2>4. Len(sent[j]) \in Nat
    BY <1>1, <2>3, SentIs
  <2>5. Len(sent[j]) >= s
    BY <1>4, <1>5, <2>2, <2>4
  <2> QED BY <1>6, <2>3, <2>5
<1>10. FaultsOnlyOnForeign'
  BY <1>1, <1>2, <1>9 DEF FaultsOnlyOnForeign
<1> QED BY <1>3, <1>10 DEF StreamInv

LEMMA DeliverStep ==
  ASSUME StreamInv, NEW length \in ReadLengths, NEW drop \in BOOLEAN, Deliver(length, drop)
  PROVE  StreamInv'
<1> DEFINE T == Seq(Cell)
           n == SizeOf(length)
           c == get_count(recv_buff)
           C == Contents(recv_buff)
           R == IF drop THEN close(recv_buff) ELSE recv_buff
           u == SubSeq(C, 1, n)
<1>1. /\ StreamShape /\ Conserved /\ InStep /\ Datagrams /\ FaultsOnlyOnForeign
      /\ reading /\ Whole(length) /\ (drop => Connected)
      /\ got' = (IF Connected THEN Append(got, u) ELSE got)
      /\ state' = (IF drop THEN "disconnected" ELSE state)
      /\ recv_buff' = remove(R, n)
      /\ fault' = (IF n = 0 /\ ~drop THEN "loop" ELSE "none")
      /\ wire' = (IF drop THEN <<>> ELSE wire)
      /\ pending' = (IF drop THEN <<>> ELSE pending)
      /\ reading' = reading /\ sent' = sent /\ carry' = carry /\ session' = session
      /\ setup' = setup /\ bound' = bound /\ backlog' = backlog
      /\ done' = done /\ crossed' = crossed
  BY DEF StreamInv, Deliver, peerVars
<1>2. Transport' = Transport
  BY <1>1 DEF Transport
<1>3. n \in Nat /\ n <= c
  <2>1. length \in Nat
    BY SizeIs DEF ReadLengths
  <2> QED BY <1>1, <2>1, SizeIs DEF Whole
<1>4. Plain(recv_buff) /\ Reached(recv_buff.size)
  BY <1>1 DEF StreamShape
<1>5. Plain(R) /\ R.size = recv_buff.size
  BY <1>4, ClosePlain
<1>6. Plain(recv_buff') /\ recv_buff'.size = recv_buff.size /\ Reached(recv_buff'.size)
  <2> HIDE DEF R
  <2> QED BY <1>1, <1>3, <1>4, <1>5, RemovePlain
<1>7. /\ got \in Seq(T) /\ sent \in Seq(T) /\ C \in T /\ carry \in T /\ c \in Nat
      /\ Len(got) \in Nat /\ Len(sent) \in Nat /\ c <= recv_buff.size - 1
  BY <1>1, StreamTypes
<1>8. u \in T
  <2> HIDE DEF n
  <2> QED BY <1>3, <1>4, RemoveSome
<1>9. /\ Append(got, u) \in Seq(T) /\ Len(Append(got, u)) = Len(got) + 1
      /\ Append(got, u)[Len(got) + 1] = u
      /\ \A i \in 1..Len(got) : Append(got, u)[i] = got[i]
  <2> HIDE DEF T, u
  <2> QED BY <1>7, <1>8, AppendProperties
<1> HIDE DEF u, n
<1>10. StreamShape'
  <2>1. got' \in Seq(T)
    BY <1>1, <1>7, <1>9
  <2>2. IF Transport = "tcp" THEN wire' \in T ELSE wire' \in Seq(T)
    BY <1>1, EmptySeq DEF StreamShape
  <2>3. pending' \in Seq([at : Nat, room : Nat]) /\ (pending = <<>> => pending' = <<>>)
    <3> DEFINE P == [at : Nat, room : Nat]
    <3>1. pending \in Seq(P)
      BY <1>1 DEF StreamShape
    <3> HIDE DEF P
    <3>2. pending' \in Seq(P)
      BY <1>1, <3>1, EmptySeq
    <3> QED BY <1>1, <3>2 DEF P
  <2> QED BY <1>1, <1>2, <1>6, <2>1, <2>2, <2>3 DEF StreamShape
<1>11. CASE ~Connected'
  <2>1. ~Clean' /\ Foreign'
    BY <1>11 DEF Clean, Foreign
  <2>2. Conserved' /\ InStep'
    BY <1>11, <2>1 DEF Conserved, InStep
  <2>3. Datagrams'
    BY <1>1, <1>2, <1>6, <1>11 DEF Datagrams
  <2>4. FaultsOnlyOnForeign'
    BY <2>1 DEF FaultsOnlyOnForeign
  <2> QED BY <1>10, <2>2, <2>3, <2>4 DEF StreamInv
<1>12. CASE Connected'
  <2>1. ~drop /\ Connected
    BY <1>1, <1>12 DEF Connected
  <2>2. /\ recv_buff' = remove(recv_buff, n) /\ got' = Append(got, u) /\ wire' = wire
        /\ state' = state
    BY <1>1, <2>1
  <2>3. InFlight' = InFlight
    BY <1>1, <1>2, <2>2 DEF InFlight
  <2> DEFINE D == Contents(recv_buff')
  <2>4. D \in T /\ C = Join(u, D) /\ get_count(recv_buff') = c - n
    BY <1>3, <1>4, <2>2, RemoveSome DEF u
  <2> HIDE DEF C, D, c
  <2>5. Conserved'
    <3> SUFFICES ASSUME Transport # "udp" PROVE Conserved'
      BY <1>2 DEF Conserved
    <3> DEFINE G == FlattenSeq(got)
               S == FlattenSeq(sent)
               I == InFlight
    <3>1. G \in T /\ S \in T /\ I \in T
      BY <1>1, StreamTypes
    <3>2. Join(Join(G, Join(u, D)), I) = Join(carry, S)
      BY <1>1, <2>1, <2>4, ConservedParts DEF C
    <3>3. FlattenSeq(got') = Join(G, u)
      BY <1>7, <1>8, <2>2, FlattenAppend DEF Join
    <3> HIDE DEF G, S, I
    <3>4. Join(Join(G, u), D) = Join(G, Join(u, D))
      BY <1>8, <2>4, <3>1, Regroup
    <3>5. Join(Join(FlattenSeq(got'), D), I) = Join(carry', FlattenSeq(sent'))
      BY <1>1, <3>2, <3>3, <3>4 DEF S
    <3>6. Join(Join(FlattenSeq(got'), Contents(recv_buff')), InFlight')
            = Join(carry', FlattenSeq(sent'))
      BY <2>3, <3>5 DEF I, D
    <3> QED BY <3>6 DEF Conserved, Join
  <2>6. ASSUME Clean
        PROVE  /\ n # 0 /\ IsPrefix(got', sent')
    <3> DEFINE k == Len(got)
    <3>1. IsPrefix(got, sent)
      BY <1>1, <2>6 DEF InStep
    <3>2. k + 1 \in 1..Len(sent) /\ k < Len(sent) /\ n # 0 /\ u = sent[k + 1]
      <4> USE DEF n, u, C
      <4> QED BY <1>1, <2>6, <3>1, ReadNext
    <3>3. k <= Len(sent) /\ \A i \in 1..k : got[i] = sent[i]
      <4> HIDE DEF T
      <4> QED BY <1>7, <3>1, PrefixIs
    <3>4. \A i \in 1..k + 1 : Append(got, u)[i] = sent[i]
      <4> TAKE i \in 1..k + 1
      <4>1. CASE i = k + 1
        BY <1>9, <3>2, <4>1
      <4>2. CASE i # k + 1
        <5>1. i \in 1..k
          BY <1>7, <4>2
        <5> QED BY <1>9, <3>3, <5>1
      <4> QED BY <4>1, <4>2
    <3>5. k + 1 <= Len(sent)
      BY <1>7, <3>2
    <3>6. IsPrefix(Append(got, u), sent)
      <4> DEFINE g == Append(got, u)
      <4>1. g \in Seq(T) /\ Len(g) <= Len(sent) /\ \A i \in 1..Len(g) : g[i] = sent[i]
        BY <1>9, <3>4, <3>5
      <4> HIDE DEF T, g
      <4>2. IsPrefix(g, sent)
        BY <1>7, <4>1, PrefixIs
      <4> QED BY <4>2 DEF g
    <3> QED BY <1>1, <2>2, <3>2, <3>6
  <2>7. Clean' <=> Clean
    BY <1>1, <1>2, <1>12, <2>1 DEF Clean
  <2>8. InStep'
    BY <1>1, <1>2, <2>1, <2>6, <2>7, <1>12 DEF InStep
  <2>9. ASSUME Transport = "udp", ~crossed
        PROVE  /\ n # 0 /\ get_count(recv_buff') = 0
               /\ \E j \in 1..Len(sent) : u = sent[j]
               /\ Len(u) < recv_buff.size
    <3>1. c # 0
      <4>1. c >= LengthSize
        BY <1>4, LengthThere DEF Plain, c
      <4> QED BY <1>7, <4>1, PacketStreamConstants
    <3>2. PICK j \in 1..Len(sent) : IsPrefix(C, sent[j])
      BY <1>1, <2>1, <2>9, <3>1 DEF Datagrams, C, c
    <3>3. n # 0 /\ n = c /\ u = sent[j] /\ Len(sent[j]) = c
      BY <1>1, <3>2, ReadDatagram DEF n, u, C, c
    <3>4. recv_buff.size \in Nat
      BY <1>4, SizeAboveOne
    <3>5. get_count(recv_buff') = 0
      BY <1>7, <2>4, <3>3
    <3>6. Len(u) < recv_buff.size
      BY <1>7, <3>3, <3>4
    <3> QED BY <3>3, <3>5, <3>6
  <2>10. Datagrams'
    <3> SUFFICES ASSUME Transport = "udp", ~crossed PROVE Datagrams'
      BY <1>1, <1>2 DEF Datagrams
    <3>1. /\ \A i \in 1..Len(wire) : \E j \in 1..Len(sent) : wire[i] = sent[j]
          /\ \A i \in 1..Len(got) : \E j \in 1..Len(sent) : got[i] = sent[j]
          /\ \A i \in 1..Len(got) : Len(got[i]) < recv_buff.size
          /\ carry = <<>> /\ pending = <<>> /\ done = <<>>
      BY <1>1, <2>1 DEF Datagrams
    <3>2. ASSUME NEW i \in 1..Len(got')
          PROVE  (\E j \in 1..Len(sent) : got'[i] = sent[j]) /\ Len(got'[i]) < recv_buff.size
      <4>1. i \in 1..Len(got) + 1
        BY <1>9, <2>2
      <4>2. CASE i = Len(got) + 1
        <5>1. got'[i] = u
          BY <1>9, <2>2, <4>2
        <5> QED BY <2>9, <5>1
      <4>3. CASE i # Len(got) + 1
        <5>1. i \in 1..Len(got)
          <6> DEFINE m == Len(got)
          <6>1. m \in Nat /\ i \in 1..m + 1 /\ i # m + 1
            BY <1>7, <4>1, <4>3
          <6> HIDE DEF m
          <6>2. i \in 1..m
            BY <6>1
          <6> QED BY <6>2 DEF m
        <5>2. got'[i] = got[i]
          BY <1>9, <2>2, <5>1
        <5> QED BY <3>1, <5>1, <5>2
      <4> QED BY <4>2, <4>3
    <3>3. get_count(recv_buff') = 0
      BY <2>9
    <3>4. /\ pending' = <<>> /\ done' = <<>> /\ carry' = <<>> /\ reading' = TRUE
          /\ sent' = sent /\ wire' = wire
      BY <1>1, <2>1, <2>2, <3>1 DEF StreamShape
    <3>5. /\ \A i \in 1..Len(wire') : \E j \in 1..Len(sent') : wire'[i] = sent'[j]
          /\ \A i \in 1..Len(got') : \E j \in 1..Len(sent') : got'[i] = sent'[j]
          /\ \A i \in 1..Len(got') : Len(got'[i]) < recv_buff'.size
      BY <1>6, <3>1, <3>2, <3>4
    <3> QED BY <3>3, <3>4, <3>5 DEF Datagrams
  <2>11. FaultsOnlyOnForeign'
    <3>1. ASSUME n = 0 PROVE Foreign'
      BY <1>1, <2>1, <2>6, <2>9, <3>1 DEF Clean, Foreign
    <3>2. fault' = "loop" => n = 0
      BY <1>1
    <3>3. fault' # "thrown"
      BY <1>1
    <3> QED BY <3>1, <3>2, <3>3 DEF FaultsOnlyOnForeign
  <2> QED BY <1>10, <2>5, <2>8, <2>10, <2>11 DEF StreamInv
<1> QED BY <1>11, <1>12

\* A connection begins: what was sent, is in flight and was delivered is
\* nothing, and the ring is what carry says.
LEMMA BeginsWith ==
  ASSUME setup' = setup, Connected', carry' = Contents(recv_buff'), got' = <<>>, NewPeer,
         StreamShape, Plain(recv_buff'), Reached(recv_buff'.size), reading' \in BOOLEAN,
         pending' \in Seq([at : Nat, room : Nat]), done' = done,
         Transport # "udp" => ~crossed' /\ pending' = <<>>,
         Transport = "tcp" => carry' = <<>>
  PROVE  StreamShape' /\ Conserved' /\ InStep' /\ Transport' = Transport
<1> DEFINE T == Seq(Cell)
           C == Contents(recv_buff')
<1>1. /\ sent' = <<>> /\ wire' = <<>> /\ backlog' = <<>> /\ bound' = (Transport # "kcp")
      /\ Transport' = Transport
  BY DEF NewPeer, Transport
<1>4. C \in T /\ (C = <<>> <=> get_count(recv_buff') = 0)
  BY ContentsSeq, EmptyRing DEF Plain
<1>5. /\ <<>> \in Seq(Cell) /\ <<>> \in Seq(Seq(Cell)) /\ Len(<<>>) = 0
      /\ FlattenSeq(<<>>) = <<>>
  <2>1. <<>> \in Seq(Cell) /\ Len(<<>>) = 0
    BY EmptySeq
  <2>2. <<>> \in Seq(T)
    <3> HIDE DEF T
    <3> QED BY EmptySeq
  <2>3. FlattenSeq(<<>>) = <<>>
    BY <2>2, FlattenType
  <2> QED BY <2>1, <2>2, <2>3
<1>6. StreamShape'
  <2>1. \A i \in 1..Len(sent') : \E l \in setup'.lengths : sent'[i] = Packet(l, i - 1)
    BY <1>1, <1>5
  <2>2. setup \in Setups /\ done \in Seq(Nat) /\ (Transport # "udp" => done = <<>>)
    BY DEF StreamShape
  <2> QED BY <1>1, <1>4, <1>5, <2>1, <2>2 DEF StreamShape
<1>7. Conserved'
  <2>1. InFlight' = <<>>
    <3>1. <<>> \o <<>> = <<>>
      BY <1>5, ConcatEmptySeq
    <3> QED BY <1>1, <1>5, <3>1 DEF InFlight
  <2>2. FlattenSeq(got') = <<>> /\ FlattenSeq(sent') = <<>> /\ carry' = C
    BY <1>1, <1>5
  <2> HIDE DEF C
  <2>3. (<<>> \o C) \o <<>> = C \o <<>>
    <3>1. <<>> \o C = C
      BY <1>4, ConcatEmptySeq
    <3> QED BY <3>1
  <2>4. FlattenSeq(got') \o C \o InFlight' = carry' \o FlattenSeq(sent')
    BY <2>1, <2>2, <2>3
  <2> QED BY <2>4 DEF Conserved, C
<1>8. InStep'
  <2>1. IsPrefix(got', sent')
    <3> DEFINE e == <<>>
    <3>1. e \in Seq(T) /\ Len(e) <= Len(e) /\ \A i \in 1..Len(e) : e[i] = e[i]
      BY <1>5
    <3> HIDE DEF e, T
    <3>2. IsPrefix(e, e)
      BY <3>1, PrefixIs
    <3> QED BY <1>1, <3>2 DEF e
  <2>2. Clean' => get_count(recv_buff') = 0
    BY <1>4 DEF Clean
  <2> QED BY <1>1, <2>1, <2>2 DEF InStep
<1> QED BY <1>1, <1>6, <1>7, <1>8

LEMMA ReconnectStep ==
  ASSUME StreamInv, NEW length \in ReadLengths, Reconnect(length)
  PROVE  StreamInv'
<1> DEFINE P == [at : Nat, room : Nat]
           n == SizeOf(length)
           R == IF Transport = "udp" THEN Room ELSE recv_buff
<1>1. /\ StreamShape /\ reading /\ reading' = reading /\ reading \in BOOLEAN
      /\ Transport # "tcp" /\ state' = "connected" /\ recv_buff' = remove(R, n)
      /\ fault' = (IF Transport = "udp" /\ RoomAtEnd = 0 THEN "thrown" ELSE "none")
      /\ pending' = (IF Transport = "udp" THEN <<Posted(R)>> ELSE <<>>)
      /\ crossed' = (Transport = "udp") /\ carry' = Contents(recv_buff') /\ got' = <<>>
      /\ NewPeer /\ done' = done /\ setup' = setup
  BY DEF StreamInv, StreamShape, Reconnect
<1>2. Transport' = Transport /\ Connected'
  BY <1>1 DEF Transport, Connected
<1>3. n \in Nat
  <2>1. length \in Nat
    BY SizeIs DEF ReadLengths
  <2> QED BY <2>1, SizeIs
<1>4. Plain(R) /\ Reached(R.size)
  BY <1>1, RoomRing DEF StreamShape, Room
<1> HIDE DEF R, n
<1>5. Plain(recv_buff') /\ Reached(recv_buff'.size)
  BY <1>1, <1>3, <1>4, RemovePlain
<1>6. pending' \in Seq(P)
  <2>1. Posted(R) \in P
    BY <1>4, PostedIs
  <2> HIDE DEF P
  <2> QED BY <1>1, <2>1, EmptySeq, OneIs
<1>7. StreamShape' /\ Conserved' /\ InStep'
  <2>1. /\ Transport # "udp" => ~crossed' /\ pending' = <<>>
        /\ Transport = "tcp" => carry' = <<>>
        /\ reading' \in BOOLEAN
    BY <1>1
  <2> QED BY <1>1, <1>2, <1>5, <1>6, <2>1, BeginsWith
<1>8. Datagrams'
  BY <1>1, <1>2 DEF Datagrams
<1>9. FaultsOnlyOnForeign'
  <2>1. fault' # "loop" /\ (fault' = "thrown" => Foreign')
    BY <1>1 DEF Foreign
  <2> QED BY <2>1 DEF FaultsOnlyOnForeign
<1> QED BY <1>7, <1>8, <1>9 DEF StreamInv

LEMMA ReturnStep ==
  ASSUME StreamInv, Return
  PROVE  StreamInv'
<1> DEFINE c == get_count(recv_buff)
           E == reset(recv_buff)
<1>1. /\ StreamShape /\ Conserved /\ InStep /\ Datagrams /\ FaultsOnlyOnForeign
      /\ reading /\ fault = "none"
      /\ c < LengthSize \/ \E length \in ReadLengths : ~Whole(length)
      /\ reading' = FALSE
      /\ Transport = "udp" => recv_buff' = GrowContinguious(E)
      /\ Transport # "udp" /\ (Transport # "tcp" \/ Connected) => recv_buff' = recv_buff
      /\ Transport = "tcp" /\ ~Connected => recv_buff' = close(Room)
      /\ fault' = (IF (Transport = "tcp" /\ ~Connected) /\ RoomAtEnd = 0 THEN "thrown" ELSE "none")
      /\ pending' = (IF Transport = "udp" /\ Connected
                     THEN Append(pending, Posted(GrowContinguious(E))) ELSE pending)
      /\ state' = state /\ got' = got /\ wire' = wire /\ sent' = sent /\ carry' = carry
      /\ session' = session /\ setup' = setup /\ bound' = bound /\ backlog' = backlog
      /\ done' = done /\ crossed' = crossed
  BY DEF StreamInv, Return, OnReadBreaks, peerVars, connVars
<1>2. /\ Transport' = Transport /\ (Connected' <=> Connected)
      /\ InFlight' = InFlight /\ (Clean' <=> Clean)
  BY <1>1 DEF Transport, Connected, InFlight, Clean
<1>4. Plain(recv_buff) /\ Reached(recv_buff.size) /\ c \in Nat
  BY <1>1, StreamTypes DEF StreamShape
<1>3. /\ Plain(E) /\ E.head = 0 /\ E.tail = 0 /\ E.size = recv_buff.size
      /\ GrowContinguious(E) = E
  <2>1. /\ Plain(E) /\ E.head = 0 /\ E.tail = 0 /\ E.size = recv_buff.size
        /\ get_count(E) = 0
    BY <1>4, ResetPlain
  <2> HIDE DEF E
  <2>2. recv_buff.size \in Nat /\ 0 < recv_buff.size - 1
    BY <1>4, SizeAboveOne
  <2> QED BY <2>1, <2>2, RoomRing
<1> HIDE DEF E
<1>5. /\ Plain(recv_buff') /\ Reached(recv_buff'.size)
      /\ Transport = "udp" => recv_buff'.size = recv_buff.size
  <2>1. Plain(Room) /\ Reached(Room.size)
    BY <1>4, RoomRing DEF Room
  <2> DEFINE g == Room
  <2>2. Plain(close(g)) /\ close(g).size = g.size
    <3> HIDE DEF g
    <3> QED BY <2>1, ClosePlain DEF g
  <2> QED BY <1>1, <1>3, <1>4, <2>1, <2>2
<1>6. StreamShape'
  <2> DEFINE P == [at : Nat, room : Nat]
  <2>1. pending \in Seq(P) /\ Posted(E) \in P
    BY <1>1, <1>3, PostedIs DEF StreamShape
  <2> HIDE DEF P
  <2>2. pending' \in Seq(P)
    BY <1>1, <1>3, <2>1, AppendProperties
  <2>3. Transport # "udp" => pending' = pending
    BY <1>1
  <2> QED BY <1>1, <1>2, <1>5, <2>2, <2>3 DEF StreamShape, P
<1>7. Conserved'
  BY <1>1, <1>2 DEF Conserved
<1>8. InStep'
  <2>1. ASSUME Clean
        PROVE  c = 0 \/ (Len(got) < Len(sent) /\ c < Len(sent[Len(got) + 1]))
    <3> DEFINE j == Len(got) + 1
    <3>1. IsPrefix(got, sent)
      BY <1>1, <2>1 DEF InStep
    <3>2. ASSUME c # 0 PROVE Len(got) < Len(sent) /\ j \in 1..Len(sent)
      BY <1>1, <2>1, <3>1, <3>2, NextPacket
    <3>3. ASSUME c # 0, c < LengthSize PROVE c < Len(sent[j])
      <4> HIDE DEF j
      <4>1. Len(sent[j]) \in Nat /\ Len(sent[j]) >= LengthSize
        BY <1>1, <3>2, <3>3, SentIs
      <4> QED BY <1>4, <3>3, <4>1, PacketStreamConstants
    <3>4. ASSUME NEW length \in ReadLengths, ~Whole(length) PROVE c < Len(sent[j])
      <4>1. SizeOf(length) = Len(sent[j]) /\ SizeOf(length) \in Nat
        BY <1>1, <2>1, <3>1, ReadNext
      <4> QED BY <1>4, <3>4, <4>1 DEF Whole
    <3> QED BY <1>1, <3>2, <3>3, <3>4
  <2>2. Clean => recv_buff' = recv_buff
    BY <1>1 DEF Clean
  <2> QED BY <1>1, <1>2, <2>1, <2>2 DEF InStep
<1>9. Datagrams'
  <2> SUFFICES ASSUME Transport = "udp" PROVE Datagrams'
    BY <1>2 DEF Datagrams
  <2>1. recv_buff'.head = 0 /\ recv_buff'.tail = 0 /\ recv_buff'.size = recv_buff.size
    BY <1>1, <1>3
  <2>2. ASSUME Connected, ~crossed
        PROVE  /\ done' = <<>> /\ Len(pending') = 1
               /\ pending'[1].at = 0 /\ pending'[1].room < recv_buff'.size
    <3> DEFINE P == [at : Nat, room : Nat]
               p == Posted(E)
    <3>1. pending = <<>> /\ done = <<>>
      BY <1>1, <2>2 DEF Datagrams
    <3>2. p \in P /\ p.at = 0 /\ p.room < recv_buff.size
      BY <1>3, PostedIs
    <3> HIDE DEF p, P
    <3>3. pending' = Append(<<>>, p)
      BY <1>1, <1>3, <2>2, <3>1 DEF p
    <3>4. <<>> \in Seq(P) /\ Len(<<>>) = 0
      BY EmptySeq
    <3>5. Len(pending') = 1 /\ pending'[1] = p
      BY <3>2, <3>3, <3>4, AppendProperties
    <3> QED BY <1>1, <2>1, <3>1, <3>2, <3>5
  <2> QED BY <1>1, <1>2, <1>5, <2>1, <2>2 DEF Datagrams
<1>10. FaultsOnlyOnForeign'
  <2>1. fault' # "loop" /\ (fault' = "thrown" => Foreign')
    BY <1>1, <1>2 DEF Foreign
  <2> QED BY <2>1 DEF FaultsOnlyOnForeign
<1> QED BY <1>6, <1>7, <1>8, <1>9, <1>10 DEF StreamInv

LEMMA DisconnectStep ==
  ASSUME StreamInv, Disconnect
  PROVE  StreamInv'
<1>1. /\ StreamShape /\ Datagrams /\ ~reading
      /\ fault = "none" /\ state' = "disconnected" /\ recv_buff' = close(recv_buff)
      /\ wire' = <<>> /\ reading' = reading /\ got' = got /\ sent' = sent /\ carry' = carry
      /\ session' = session /\ fault' = fault /\ setup' = setup /\ pending' = <<>>
      /\ bound' = bound /\ backlog' = backlog /\ done' = done /\ crossed' = crossed
  BY DEF StreamInv, Disconnect, peerVars, connVars
<1>2. Transport' = Transport /\ ~Connected' /\ ~Clean'
  BY <1>1 DEF Transport, Connected, Clean
<1>3. /\ Plain(recv_buff') /\ recv_buff'.size = recv_buff.size
      /\ Transport = "udp" => recv_buff' = recv_buff
  BY <1>1, ClosePlain DEF StreamShape
<1>4. StreamShape'
  <2>1. IF Transport = "tcp" THEN wire' \in Seq(Cell) ELSE wire' \in Seq(Seq(Cell))
    BY <1>1, EmptySeq
  <2>2. pending' \in Seq([at : Nat, room : Nat])
    BY <1>1, EmptySeq
  <2> QED BY <1>1, <1>2, <1>3, <2>1, <2>2 DEF StreamShape
<1>5. Conserved' /\ InStep' /\ FaultsOnlyOnForeign'
  BY <1>1, <1>2 DEF Conserved, InStep, FaultsOnlyOnForeign
<1>6. Datagrams'
  BY <1>1, <1>2, <1>3 DEF Datagrams
<1> QED BY <1>4, <1>5, <1>6 DEF StreamInv

LEMMA ConnectStep ==
  ASSUME StreamInv, Connect
  PROVE  StreamInv'
<1> DEFINE P == [at : Nat, room : Nat]
           r == close(recv_buff)
           g == GrowContinguious(r)
<1>1. /\ StreamShape /\ Datagrams /\ ~reading /\ reading' = reading /\ reading' \in BOOLEAN
      /\ fault = "none" /\ fault' = fault /\ state' = "connected"
      /\ recv_buff' = (IF Transport = "udp" THEN g ELSE r)
      /\ pending' = (IF Transport = "udp" THEN <<Posted(g)>> ELSE <<>>)
      /\ crossed' = (Transport = "udp" /\ done # <<>>)
      /\ carry' = Contents(recv_buff') /\ got' = <<>> /\ NewPeer
      /\ done' = done /\ setup' = setup
  BY DEF StreamInv, StreamShape, Connect
<1>2. Transport' = Transport /\ Connected'
  BY <1>1 DEF Transport, Connected
<1>3. /\ Plain(r) /\ Reached(r.size)
      /\ Transport = "tcp" => Contents(r) = <<>>
      /\ Transport = "udp" => r = recv_buff
  BY <1>1, ClosePlain DEF StreamShape
<1>4. Transport = "udp" => g = recv_buff
  BY <1>1, <1>3, EmptyBetween, RoomRing
<1> HIDE DEF g, r
<1>5. Plain(recv_buff') /\ Reached(recv_buff'.size)
  BY <1>1, <1>3, <1>4
<1>6. pending' \in Seq(P)
  <2>1. Transport = "udp" => Posted(g) \in P
    BY <1>3, <1>4, PostedIs
  <2> HIDE DEF P
  <2> QED BY <1>1, <2>1, EmptySeq, OneIs
<1>7. StreamShape' /\ Conserved' /\ InStep'
  <2>1. /\ Transport # "udp" => ~crossed' /\ pending' = <<>>
        /\ Transport = "tcp" => carry' = <<>>
    BY <1>1, <1>3
  <2> QED BY <1>1, <1>2, <1>5, <1>6, <2>1, BeginsWith
<1>8. Datagrams'
  <2> SUFFICES ASSUME Transport = "udp" PROVE Datagrams'
    BY <1>2 DEF Datagrams
  <2>1. recv_buff' = recv_buff /\ recv_buff.head = 0 /\ recv_buff.tail = 0 /\ carry' = <<>>
    BY <1>1, <1>4, EmptyBetween
  <2>2. 1..Len(wire') = {} /\ 1..Len(got') = {}
    <3>1. wire' = <<>> /\ got' = <<>> /\ Len(<<>>) = 0
      BY <1>1, EmptySeq DEF NewPeer
    <3> QED BY <3>1
  <2>3. Len(pending') = 1 /\ pending'[1].at = 0 /\ pending'[1].room < recv_buff'.size
    <3> DEFINE p == Posted(g)
    <3>1. Plain(recv_buff)
      BY <1>1 DEF StreamShape
    <3>2. p \in P /\ p.at = 0 /\ p.room < recv_buff.size
      BY <1>4, <2>1, <3>1, PostedIs
    <3>3. pending' = <<p>>
      BY <1>1
    <3> HIDE DEF p, P
    <3>4. Len(pending') = 1 /\ pending'[1] = p
      BY <3>2, <3>3, OneIs
    <3> QED BY <2>1, <3>2, <3>4
  <2>4. ~crossed' => done' = <<>>
    BY <1>1
  <2> QED BY <1>1, <1>2, <2>1, <2>2, <2>3, <2>4 DEF Datagrams
<1>9. FaultsOnlyOnForeign'
  BY <1>1 DEF FaultsOnlyOnForeign
<1> QED BY <1>7, <1>8, <1>9 DEF StreamInv

LEMMA StreamInvInit == StreamInit => StreamInv
<1> SUFFICES ASSUME StreamInit PROVE StreamInv
  OBVIOUS
<1> DEFINE T == Seq(Cell)
<1>1. /\ recv_buff = New /\ state = "disconnected" /\ reading = FALSE
      /\ sent = <<>> /\ wire = <<>> /\ got = <<>> /\ carry = <<>>
      /\ bound = FALSE /\ backlog = <<>> /\ pending = <<>> /\ done = <<>> /\ crossed = FALSE
      /\ fault = "none" /\ setup \in Setups
  BY DEF StreamInit
<1>2. Plain(New) /\ Reached(New.size) /\ New.size = DefaultSize /\ New.tail = 0 /\ New.head = 0
  BY NewPlain, NewRing DEF New
<1>3. <<>> \in Seq(Cell) /\ <<>> \in Seq(Seq(Cell)) /\ Len(<<>>) = 0
  <2>1. <<>> \in Seq(Cell) /\ Len(<<>>) = 0
    BY EmptySeq
  <2>2. <<>> \in Seq(T)
    <3> HIDE DEF T
    <3> QED BY EmptySeq
  <2> QED BY <2>1, <2>2
<1>4. StreamShape
  <2>1. \A i \in 1..Len(sent) : \E l \in setup.lengths : sent[i] = Packet(l, i - 1)
    BY <1>1, <1>3
  <2>2. pending \in Seq([at : Nat, room : Nat]) /\ done \in Seq(Nat)
    BY <1>1, EmptySeq
  <2> QED BY <1>1, <1>2, <1>3, <2>1, <2>2 DEF StreamShape
<1>5. ~Connected /\ ~Clean
  BY <1>1 DEF Connected, Clean
<1>6. Conserved /\ InStep /\ FaultsOnlyOnForeign
  BY <1>1, <1>5 DEF Conserved, InStep, FaultsOnlyOnForeign
<1>7. Datagrams
  BY <1>1, <1>2, <1>5 DEF Datagrams
<1> QED BY <1>4, <1>6, <1>7 DEF StreamInv

LEMMA StreamInvNext == StreamInv /\ [StreamNext]_streamVars => StreamInv'
<1> SUFFICES ASSUME StreamInv, [StreamNext]_streamVars PROVE StreamInv'
  OBVIOUS
<1>1. CASE Peer
  <2>1. ASSUME NEW length \in setup.lengths,
               NEW cut \in IF setup.cuts THEN 0..length + 1 ELSE {0}, PeerSends(length, cut)
        PROVE  StreamInv'
    <3>1. length \in Nat
      BY SetupIs DEF StreamInv
    <3>2. cut \in Nat
      BY <3>1
    <3> QED BY <2>1, <3>2, PeerSendsStep
  <2>2. ASSUME NEW cut \in Cuts, PeerBinds(cut) PROVE StreamInv'
    <3>1. cut \in Nat
      <4>1. CASE setup.cuts
        <5>1. backlog \in Seq(Cell)
          BY DEF StreamInv, StreamShape
        <5>2. Len(backlog) \in Nat
          BY <5>1, LenProperties
        <5> QED BY <4>1, <5>2 DEF Cuts
      <4>2. CASE ~setup.cuts
        <5>1. PICK k \in 0..Len(sent) : cut = Len(FlattenSeq(SubSeq(sent, 1, k)))
          BY <4>2 DEF Cuts
        <5> DEFINE T == Seq(Cell)
                   q == SubSeq(sent, 1, k)
        <5>2. sent \in Seq(T)
          BY DEF StreamInv, StreamShape
        <5>3. q \in Seq(T)
          <6> HIDE DEF T
          <6>1. Len(sent) \in Nat
            BY <5>2, LenProperties
          <6>2. k \in Nat /\ k <= Len(sent)
            BY <6>1
          <6> QED BY <5>2, <6>2, Halves
        <5> HIDE DEF q
        <5>4. FlattenSeq(q) \in T
          BY <5>3, FlattenType
        <5> QED BY <5>1, <5>4, LenProperties DEF q
      <4> QED BY <4>1, <4>2
    <3> QED BY <2>2, <3>1, PeerBindsStep
  <2> QED BY <1>1, <2>1, <2>2 DEF Peer
<1>2. CASE DatagramLost
  BY <1>2, DatagramLostStep
<1>3. CASE Receive
  <2>1. ASSUME NEW n \in 1..Len(wire), ReceiveBytes(n) PROVE StreamInv'
    <3>1. n \in Nat
      <4>1. wire \in Seq(Cell)
        BY <2>1 DEF StreamInv, StreamShape, ReceiveBytes
      <4>2. Len(wire) \in Nat
        BY <4>1, LenProperties
      <4> QED BY <4>2
    <3> QED BY <2>1, <3>1, ReceiveBytesStep
  <2> QED BY <1>3, <2>1, ReceiveMessageStep, NoRoomStep, CompleteStep, HandleStep DEF Receive
<1>4. CASE on_read
  BY <1>4, DeliverStep, ReconnectStep, ReturnStep DEF on_read
<1>5. CASE Disconnect
  BY <1>5, DisconnectStep
<1>6. CASE Connect
  BY <1>6, ConnectStep
<1>7. CASE UNCHANGED streamVars
  <2>1. /\ recv_buff' = recv_buff /\ state' = state /\ reading' = reading /\ got' = got
        /\ wire' = wire /\ sent' = sent /\ carry' = carry /\ session' = session
        /\ fault' = fault /\ setup' = setup /\ bound' = bound /\ backlog' = backlog
        /\ pending' = pending /\ done' = done /\ crossed' = crossed
    BY <1>7 DEF streamVars, peerVars, udpVars, connVars
  <2>2. Transport' = Transport /\ (Connected' <=> Connected)
    BY <2>1 DEF Transport, Connected
  <2>3. InFlight' = InFlight /\ (Clean' <=> Clean) /\ (Foreign' <=> Foreign)
    BY <2>1, <2>2 DEF InFlight, Clean, Foreign
  <2>4. \A m : Begins(m)' <=> Begins(m)
    BY <2>1 DEF Begins
  <2> QED BY <2>1, <2>2, <2>3, <2>4
      DEF StreamInv, StreamShape, Conserved, InStep, Datagrams, FaultsOnlyOnForeign
<1> QED BY <1>1, <1>2, <1>3, <1>4, <1>5, <1>6, <1>7 DEF StreamNext

LEMMA StreamInvHolds == StreamSpec => []StreamInv
<1> QED BY StreamInvInit, StreamInvNext, PTL DEF StreamSpec

\* Over TCP and KCP, for every size of the ring and every way the bytes are
\* cut: on_read is given each byte the peer sent once and in order, behind
\* what recv_buff_ had when the connection was made.
THEOREM ConservedHolds == StreamSpec => []Conserved
<1>1. StreamInv => Conserved
  BY DEF StreamInv
<1> QED BY <1>1, StreamInvHolds, PTL

\* Over TCP on_recv is given the packets of the peer, whole and in order, also
\* after on_recv has disconnected; over KCP it is so where recv_buff_ was empty
\* when the connection was made.
THEOREM OwnPacketsHolds == StreamSpec => []OwnPackets
<1>1. ASSUME StreamInv PROVE OwnPackets
  <2>1. InStep
    BY <1>1 DEF StreamInv
  <2>2. ASSUME Connected, Transport = "tcp" PROVE IsPrefix(got, sent)
    BY <2>1, <2>2 DEF InStep, Clean
  <2>3. ASSUME Connected, Transport = "kcp" PROVE IsPrefix(got, sent) \/ carry # <<>>
    BY <2>1, <2>3 DEF InStep, Clean
  <2> QED BY <2>2, <2>3 DEF OwnPackets
<1> QED BY <1>1, StreamInvHolds, PTL

\* on_read loops for ever only over bytes of another connection, and the ring
\* throws only there or for a packet that the largest ring cannot hold.
THEOREM FaultsOnlyOnForeignHolds == StreamSpec => []FaultsOnlyOnForeign
<1>1. StreamInv => FaultsOnlyOnForeign
  BY DEF StreamInv
<1> QED BY <1>1, StreamInvHolds, PTL

\* Over UDP a packet that on_recv is given is one the peer sent, whole, however
\* many are lost, overtake each other or are cut to the space of the ring, unless
\* on_recv made the connection or a late datagram met it; the ring is empty
\* between two datagrams on every connection.
THEOREM WholeDatagramsHolds == StreamSpec => []WholeDatagrams
<1>1. StreamInv => WholeDatagrams
  BY DEF StreamInv, Datagrams, WholeDatagrams
<1> QED BY <1>1, StreamInvHolds, PTL
=============================================================================
