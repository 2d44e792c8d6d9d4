------------------------------- MODULE Circle -------------------------------
(***************************************************************************)
(* simple::reactor::buffer::circle, the ring that holds the bytes a socket *)
(* has received or has still to send, as operators on records              *)
(*                                                                         *)
(*   size  data_.get_size(), a power of two                                *)
(*   head  head_, in 0..size-1                                             *)
(*   tail  tail_, a size_t: in 0..size-1 unless remove_from_back took it   *)
(*         below zero, where it wraps to a large number                    *)
(*   mem   the bytes of data_.mem                                          *)
(*                                                                         *)
(* A cell that was never written is Junk.  Forget makes Junk of every cell *)
(* that holds no live byte, for the users to whom its content is of no     *)
(* consequence, unless an operation fails to write a byte it should.       *)
(***************************************************************************)
EXTENDS Integers, Sequences

CONSTANTS
  DefaultSize,  \* size of a new ring
  MaxSize,      \* data_.max_size: expand() stays below it
  SizeT,        \* number of values of size_t
  Junk          \* content of a dead cell

\* Every divisor but 1 is even.
IsPowerOf2(n) == \A d \in 1..n : n % d = 0 => d = 1 \/ d % 2 = 0

ASSUME CircleConstants ==
  /\ DefaultSize \in Nat \ {0} /\ IsPowerOf2(DefaultSize)
  /\ MaxSize \in Nat /\ DefaultSize < MaxSize
  /\ SizeT \in Nat /\ SizeT > 2 * MaxSize /\ IsPowerOf2(SizeT)

MinOf(a, b) == IF a < b THEN a ELSE b

\* The conversion of a size_t difference to int.
AsInt(n) ==
  LET m == n % SizeT IN IF 2 * m < SizeT THEN m ELSE m - SizeT

\* x & (size - 1), for size a power of two that divides SizeT.
count_between(head, tail, size) == (tail - head) % size

continguious_count(head, tail, size) ==
  LET end == AsInt(size - head)
      n   == (tail + end) % size
  IN  IF n < end THEN n ELSE end

\* Mutant: all the free cells, on both sides of the end.
continguious_space_Total(head, tail, size) == (head - tail - 1) % size

continguious_space(head, tail, size) ==
  LET end == AsInt(size - 1 - tail)
      n   == (end + head) % size
  IN  IF n <= end THEN n ELSE end + 1

NewMem(size) == [i \in 0..size - 1 |-> Junk]
New == [size |-> DefaultSize, head |-> 0, tail |-> 0, mem |-> NewMem(DefaultSize)]

get_count(b) == count_between(b.head, b.tail, b.size)
Space(b)     == count_between(b.tail + 1, b.head, b.size)

\* The live bytes, oldest first.
Contents(b) == [i \in 1..get_count(b) |-> b.mem[(b.head + i - 1) % b.size]]

\* The ring with no content in its dead cells.
Forget(b) ==
  [b EXCEPT !.mem = [i \in 0..b.size - 1 |->
     IF (i - b.head) % b.size < get_count(b) THEN b.mem[i] ELSE Junk]]

reset(b) == [b EXCEPT !.head = 0, !.tail = 0]
written(b, n) == [b EXCEPT !.tail = ((@ + n) % SizeT) % b.size]
remove(b, n) == [b EXCEPT !.head = (@ + n) % b.size]
remove_from_back(b, n) == [b EXCEPT !.tail = (@ - n) % SizeT]

\* expand(): the two runs of live bytes are copied to the front of an array
\* four times as large.  It throws ERROR_WRITE_NO_SPACE when that is too large.
CanExpand(b) == 4 * b.size < MaxSize
\* Mutant: only the first run is copied.
expand_OneRun(b) ==
  LET first == continguious_count(b.head, b.tail, b.size)
  IN  [size |-> 4 * b.size, head |-> 0, tail |-> get_count(b),
       mem  |-> [i \in 0..4 * b.size - 1 |->
                   IF i < first THEN b.mem[b.head + i] ELSE Junk]]

expand(b) ==
  LET count == get_count(b)
      first == MinOf(continguious_count(b.head, b.tail, b.size), count)
      rest  == (b.head + first) % b.size
  IN  [size |-> 4 * b.size, head |-> 0, tail |-> count,
       mem  |-> [i \in 0..4 * b.size - 1 |->
                   CASE i < first -> b.mem[b.head + i]
                     [] i >= first /\ i < count -> b.mem[rest + i - first]
                     [] OTHER -> Junk]]

\* Expanding until enough is free, or as often as possible before the throw.
Grow(b, Enough(_)) ==
  LET Expanded[k \in 0..MaxSize] ==
        IF k = 0 THEN b ELSE
        IF CanExpand(Expanded[k - 1]) THEN expand(Expanded[k - 1])
        ELSE Expanded[k - 1]
      Stops(k) == Enough(Expanded[k]) \/ ~CanExpand(Expanded[k])
  IN  Expanded[CHOOSE k \in 0..MaxSize :
                 Stops(k) /\ \A j \in 0..k - 1 : ~Stops(j)]

\* get_space() first expands a full ring; write then expands until count fit.
HasSpace(b, n) == Space(b) > 0 /\ Space(b) >= n
GrowSpace(b, n) == Grow(b, LAMBDA c : HasSpace(c, n))

\* Mutant: a full ring stays as it is.
GrowContinguious_Never(b) == b

\* get_continguious_space() of a full ring expands it, once: an expanded ring
\* has space behind its bytes.
HasContinguious(b) == continguious_space(b.head, b.tail, b.size) > 0
GrowContinguious(b) == IF HasContinguious(b) \/ ~CanExpand(b) THEN b ELSE expand(b)

-----------------------------------------------------------------------------
(* write(data, count, offset) copies in chunks, one per recursive call.    *)

\* Mutant: the position is not reduced modulo the size.
ChunkPos_NoWrap(b, offset, n, r) == b.head + offset + n - r

\* Where a chunk of the last r of n bytes goes: at most as many bytes as
\* get_continguious_space says when asked with the write position as head.
ChunkPos(b, offset, n, r) == (b.head + offset + n - r) % b.size
ChunkLen(b, offset, n, r) ==
  MinOf(continguious_space(ChunkPos(b, offset, n, r), b.tail, b.size), r)

\* Address and index of every byte copied.  A chunk of no bytes makes the
\* call recur for ever.
Copies(b, offset, n) ==
  LET Of[r \in 0..n] ==
        LET p == ChunkPos(b, offset, n, r)
            c == ChunkLen(b, offset, n, r)
        IN  IF r = 0 \/ c <= 0 THEN {}
            ELSE {<<p + k, n - r + k + 1>> : k \in 0..c - 1} \cup Of[r - c]
  IN  Of[n]
Recurs(b, offset, n) ==
  LET Of[r \in 0..n] ==
        r > 0 /\ (ChunkLen(b, offset, n, r) <= 0
                  \/ Of[r - ChunkLen(b, offset, n, r)])
  IN  Of[n]
Overruns(b, offset, n) == \E c \in Copies(b, offset, n) : c[1] >= b.size

copy(b, offset, data) ==
  LET copies == Copies(b, offset, Len(data))
      At(i)  == {c \in copies : c[1] = i}
  IN  [b EXCEPT !.mem = [i \in 0..b.size - 1 |->
         IF At(i) = {} THEN b.mem[i] ELSE data[(CHOOSE c \in At(i) : TRUE)[2]]]]

\* write(data, count, -1) once there is space: the bytes are counted first.
append(b, data) == copy(written(b, Len(data)), get_count(b), data)

-----------------------------------------------------------------------------

\* read(data, count, offset): chunk by chunk, each up to the end of the array.
read(b, offset, n) ==
  LET Of[r \in 0..n] ==
        LET p == (b.head + offset + n - r) % b.size
            c == MinOf(continguious_count(p, b.tail, b.size), r)
        IN  IF r = 0 THEN <<>>
            ELSE [k \in 1..c |-> b.mem[p + k - 1]] \o Of[r - c]
  IN  Of[n]
=============================================================================
