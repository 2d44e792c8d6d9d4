----------------------------- MODULE BipBuffer -----------------------------
(***************************************************************************)
(* simple::reactor::buffer::bip: the bytes lie in region a and, when there *)
(* was more room in front of a than behind it, go on in region b at the    *)
(* front.  When a is used up, b becomes a.                                 *)
(*                                                                         *)
(*   b       size and mem of data_; a and an, start and count of region a; *)
(*           bs and bn of region b, bs being Null while there is none      *)
(*   io      the last call and its bytes (history variable)                *)
(*   next    the value of the next byte written                            *)
(*   damage  bytes were put where others live or behind the array          *)
(***************************************************************************)
EXTENDS Integers, Sequences

CONSTANTS
  DefaultSize, MaxSize,
  Null,
  Junk,    \* content of a dead cell
  SizeT,   \* number of values of size_t
  Sizes,   \* how many bytes are written or received at a time
  Values   \* bytes written have the values 0..Values-1 in turn

VARIABLES b, io, next, damage

vars == <<b, io, next, damage>>

Call(op, data) == [op |-> op, data |-> data]
CallAt(op, at, data) == [op |-> op, at |-> at, data |-> data]
Fresh(n) == [i \in 1..n |-> (next + i - 1) % Values]
MinOf(m, n) == IF m < n THEN m ELSE n
MaxOf(m, n) == IF m < n THEN n ELSE m

-----------------------------------------------------------------------------

New == [size |-> DefaultSize, mem |-> [i \in 0..DefaultSize - 1 |-> Junk],
        a |-> 0, an |-> 0, bs |-> Null, bn |-> 0]

get_count(r) == r.an + r.bn
Region(r, from, n) == [i \in 1..n |-> r.mem[from + i - 1]]
Contents(r) == Region(r, r.a, r.an) \o (IF r.bn = 0 THEN <<>> ELSE Region(r, r.bs, r.bn))

\* data copied to the cells from pos on.
Copy(r, pos, data) ==
  [r EXCEPT !.mem = [i \in DOMAIN @ |->
     IF i - pos \in 0..Len(data) - 1 THEN data[i - pos + 1] ELSE @[i]]]

\* Dead cells lose their content.
Forget(r) ==
  [r EXCEPT !.mem = [i \in DOMAIN @ |->
     IF i - r.a \in 0..r.an - 1 \/ (r.bn > 0 /\ i - r.bs \in 0..r.bn - 1)
     THEN @[i] ELSE Junk]]

get_a_space(r) == r.size - r.a - r.an
get_b_space(r) == IF r.bs = Null THEN 0 ELSE r.a - r.bs - r.bn
get_space_before_a(r) == r.a

reset(r) == [r EXCEPT !.a = 0, !.an = 0, !.bs = Null, !.bn = 0]

\* Mutant: region b is not copied.
expand_OnlyA(r) ==
  LET size == MinOf(4 * r.size, MaxSize)
  IN  [size |-> size, a |-> 0, an |-> get_count(r), bs |-> Null, bn |-> 0,
       mem |-> [i \in 0..size - 1 |-> IF i < r.an THEN r.mem[r.a + i] ELSE Junk]]

CanExpand(r) == r.size # MaxSize
expand(r) ==
  LET size == MinOf(4 * r.size, MaxSize)
      data == Contents(r)
  IN  [size |-> size, a |-> 0, an |-> Len(data), bs |-> Null, bn |-> 0,
       mem |-> [i \in 0..size - 1 |-> IF i < Len(data) THEN data[i + 1] ELSE Junk]]

\* get_space(): a full buffer expands, or throws.
get_space(r) == IF get_count(r) = r.size /\ CanExpand(r) THEN expand(r) ELSE r

\* get_continguious_space(): region b is begun if there is more room in front
\* of a than behind it, but the room behind a is returned.  When that is none
\* the buffer expands, or throws.
Begin(r) ==
  IF r.bn = 0 /\ get_a_space(r) < get_space_before_a(r) THEN [r EXCEPT !.bs = 0] ELSE r
SpaceOf(r) == IF r.bn > 0 THEN get_b_space(r) ELSE get_a_space(r)
get_continguious_space(r) ==
  LET g == IF SpaceOf(r) = 0 /\ CanExpand(r) THEN expand(r) ELSE r
  IN  [r |-> Begin(g), n |-> SpaceOf(g)]

get_end(r) == IF r.bs # Null THEN r.bs + r.bn ELSE r.a + r.an

written(r, n) ==
  IF r.bs # Null THEN [r EXCEPT !.bn = @ + n] ELSE [r EXCEPT !.an = @ + n]

\* Region b becomes region a when a is used up.
Turn(r) ==
  CASE r.an > 0               -> r
    [] r.an = 0 /\ r.bn > 0   -> [r EXCEPT !.a = r.bs, !.an = r.bn, !.bs = Null, !.bn = 0]
    [] OTHER                  -> reset(r)

remove(r, n) ==
  LET na == MinOf(r.an, n)
      q  == [r EXCEPT !.a = @ + na, !.an = @ - na]
  IN  Turn(IF n > na THEN [q EXCEPT !.bs = @ + n - na, !.bn = @ - (n - na)] ELSE q)

remove_from_back(r, n) ==
  LET nb == MinOf(r.bn, n)
      q  == [r EXCEPT !.bn = @ - nb, !.an = @ - (n - nb)]
  IN  CASE q.bn > 0              -> q
        [] q.bn = 0 /\ q.an > 0  -> [q EXCEPT !.bs = Null]
        [] OTHER                 -> reset(q)

\* Mutant: the part of region b is put over that of region a.
read_NoAdvance(r, offset, n) ==
  LET na == IF r.an < offset THEN 0 ELSE MinOf(r.an - offset, n)
      rest == n - na
  IN  [i \in 1..n |-> CASE i <= rest -> r.mem[r.bs + i - 1]
                        [] i > rest /\ i <= na -> r.mem[r.a + offset + i - 1]
                        [] OTHER -> Junk]

\* What read(data, n, offset) gives: what is in region b is read from its
\* start, whatever the offset.
read(r, offset, n) ==
  LET na == IF r.an < offset THEN 0 ELSE MinOf(r.an - offset, n)
  IN  Region(r, r.a + offset, na) \o Region(r, r.bs, n - na)

-----------------------------------------------------------------------------
(* write(data, count, offset)                                              *)

\* How much of n bytes at offset goes to region a as it is.
InA(r, offset, n) == IF r.an > offset THEN MinOf(r.an - offset, n) ELSE 0

\* The part for region b: its count afterwards, in size_t.
NewB(r, offset, rest) == MaxOf(r.bn, (offset - r.an + rest) % SizeT)

\* One turn of its loop goes through without a throw.
Fits(r, offset, n) ==
  LET rest == n - InA(r, offset, n)
  IN  CASE rest = 0       -> TRUE
        [] rest > 0 /\ r.bs # Null -> get_b_space(r) >= NewB(r, offset, rest) - r.bn
        [] OTHER          -> MaxOf(get_a_space(r), get_space_before_a(r)) >= rest

\* What it then leaves.
Write1(r, offset, data) ==
  LET n    == Len(data)
      na   == InA(r, offset, n)
      rest == n - na
      q    == Copy(r, r.a + offset, SubSeq(data, 1, na))
      tail == SubSeq(data, na + 1, n)
  IN  CASE rest = 0 -> q
        [] rest > 0 /\ r.bs # Null ->
             [Copy(q, r.bs + (IF na > 0 THEN 0 ELSE offset - r.an), tail)
                EXCEPT !.bn = NewB(r, offset, rest)]
        [] rest > 0 /\ r.bs = Null /\ get_a_space(r) > get_space_before_a(r) ->
             [Copy(q, r.a + r.an, tail) EXCEPT !.an = @ + rest]
        [] OTHER -> [Copy(q, 0, SubSeq(data, 1, rest)) EXCEPT !.bs = 0, !.bn = @ + rest]

\* Turns until one goes through, each other one followed by expand().
RoomFor(r, offset, n) ==
  LET Expanded[k \in 0..MaxSize] ==
        IF k = 0 THEN r ELSE
        IF CanExpand(Expanded[k - 1]) THEN expand(Expanded[k - 1]) ELSE Expanded[k - 1]
      Stops(k) == Fits(Expanded[k], offset, n) \/ ~CanExpand(Expanded[k])
  IN  Expanded[CHOOSE k \in 0..MaxSize : Stops(k) /\ \A j \in 0..k - 1 : ~Stops(j)]

\* The pieces in which write(bip, offset, count) takes bytes of another buffer.
Pieces(r, offset, n) ==
  LET na == IF r.an < offset THEN 0 ELSE MinOf(r.an - offset, n)
      k  == IF r.an < offset THEN offset - r.an ELSE 0
  IN  Region(r, r.a + offset, na)
        \o (IF n > na THEN Region(r, r.bs + k, n - na) ELSE <<>>)

-----------------------------------------------------------------------------

\* Writes data at offset, which is the count for an append.  If it throws, the
\* part for region a has been written.
WriteAt(offset, data, op) ==
  LET n == Len(data)
      g == RoomFor(b, offset, n)
      w == Write1(g, offset, data)
  IN  /\ next' = (next + n) % Values
      /\ IF Fits(g, offset, n)
         THEN /\ damage' = (get_end(w) > (IF w.bs # Null THEN w.a ELSE w.size))
              /\ b' = Forget(w) /\ io' = CallAt(op, offset, data)
         ELSE LET part == SubSeq(data, 1, InA(g, offset, n))
              IN  /\ b' = Forget(Copy(g, g.a + offset, part))
                  /\ io' = IF part = <<>> THEN io ELSE CallAt(op, offset, part)
                  /\ UNCHANGED damage

Write(n) == WriteAt(get_count(b), Fresh(n), "put")
Patch(offset, n) == offset + n <= get_count(b) /\ WriteAt(offset, Fresh(n), "replace")

\* A socket receives n bytes at get_end() and counts them, if there is space.
Receive(n) ==
  LET s == get_continguious_space(b)
      w == written(Copy(s.r, get_end(s.r), Fresh(n)), n)
  IN  IF s.n > 0
      THEN /\ n <= s.n
           /\ damage' = (get_end(w) > (IF w.bs # Null THEN w.a ELSE w.size))
           /\ b' = Forget(w) /\ io' = Call("put", Fresh(n))
           /\ next' = (next + n) % Values
      ELSE b' = Forget(s.r) /\ UNCHANGED <<io, next, damage>>

\* read(data, n, offset).
Peek(offset, n) ==
  /\ offset + n <= get_count(b)
  /\ io' = CallAt("peek", offset, read(b, offset, n))
  /\ UNCHANGED <<b, next, damage>>

\* read(data, n, -1), and remove(n).
Read(n) ==
  /\ n <= get_count(b)
  /\ b' = Forget(remove(b, n)) /\ io' = Call("get", read(b, 0, n))
  /\ UNCHANGED <<next, damage>>

RemoveFromBack(n) ==
  /\ n <= get_count(b)
  /\ b' = Forget(remove_from_back(b, n))
  /\ io' = Call("unput", SubSeq(Contents(b), get_count(b) - n + 1, get_count(b)))
  /\ UNCHANGED <<next, damage>>

GetSpace == b' = get_space(b) /\ UNCHANGED <<io, next, damage>>

Reset ==
  /\ b' = Forget(reset(b)) /\ io' = Call("clear", <<>>)
  /\ UNCHANGED <<next, damage>>

Init == b = New /\ io = Call("new", <<>>) /\ next = 0 /\ damage = FALSE

Next ==
  /\ ~damage
  /\ \/ \E n \in Sizes : Write(n) \/ Receive(n)
     \/ \E n \in Sizes, k \in 0..get_count(b) : Patch(k, n) \/ Peek(k, n)
     \/ \E n \in 1..get_count(b) : Read(n) \/ RemoveFromBack(n)
     \/ GetSpace \/ Reset

Spec == Init /\ [][Next]_vars

-----------------------------------------------------------------------------

\* No byte is put on another one or behind the buffer.  (The space that
\* get_continguious_space() returns is that of the wrong region when it begins
\* region b, but never more than region b has.)
NoDamage == ~damage

\* write at an offset, with which a packet writer fills in its length, throws
\* in one case only: the buffer is at its limit, and the value lies across the
\* two regions with the larger part in region a, which makes the count of
\* region b wrap below zero.
PatchThrowsOnlyAcross ==
  \A n \in Sizes, k \in 0..get_count(b) :
    k + n <= get_count(b) /\ ~Fits(RoomFor(b, k, n), k, n) =>
      /\ b.size = MaxSize
      /\ b.an > k /\ b.an - k < n /\ 2 * (b.an - k) > n

\* What is read at an offset is what was written there as long as the read
\* begins in region a or at its end; further on the offset is ignored.  Copies
\* to another buffer are right everywhere.
ReadsBack ==
  \A n \in Sizes, k \in 0..get_count(b) :
    k + n <= get_count(b) =>
      LET data == SubSeq(Contents(b), k + 1, k + n)
      IN  /\ k <= b.an => read(b, k, n) = data
          /\ Pieces(b, k, n) = data
=============================================================================
