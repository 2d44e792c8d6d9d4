---------------------------- MODULE ArrayBuffer ----------------------------
(***************************************************************************)
(* simple::reactor::buffer::array: the bytes lie in one run, from head_ to *)
(* tail_, and are moved to the front when there is no room behind them.    *)
(*                                                                         *)
(*   b       size and mem of data_, head_ and tail_                        *)
(*   io      the last call and its bytes (history variable)                *)
(*   next    the value of the next byte written                            *)
(*   damage  memory behind the array was written                           *)
(***************************************************************************)
EXTENDS Integers, Sequences

CONSTANTS
  DefaultSize, MaxSize,
  Junk,    \* content of a dead cell
  Sizes,   \* how many bytes are written or received at a time
  Values   \* bytes written have the values 0..Values-1 in turn

VARIABLES b, io, next, damage

vars == <<b, io, next, damage>>

Call(op, data) == [op |-> op, data |-> data]
CallAt(op, at, data) == [op |-> op, at |-> at, data |-> data]
Fresh(n) == [i \in 1..n |-> (next + i - 1) % Values]

-----------------------------------------------------------------------------

New == [size |-> DefaultSize, head |-> 0, tail |-> 0,
        mem |-> [i \in 0..DefaultSize - 1 |-> Junk]]

get_count(r) == r.tail - r.head
Contents(r)  == [i \in 1..get_count(r) |-> r.mem[r.head + i - 1]]

\* The array of that size with the bytes at the front, or at from.
Place(data, from, size) ==
  [size |-> size, head |-> from, tail |-> from + Len(data),
   mem |-> [i \in 0..size - 1 |->
              IF i - from \in 0..Len(data) - 1 THEN data[i - from + 1] ELSE Junk]]

reset(r) == Place(<<>>, 0, r.size)

CanExpand(r) == r.size # MaxSize
expand(r) == Place(Contents(r), 0, IF 4 * r.size < MaxSize THEN 4 * r.size ELSE MaxSize)

\* get_space(): a full array expands, or throws.
get_space(r) == IF get_count(r) = r.size /\ CanExpand(r) THEN expand(r) ELSE r

compact(r) == Place(Contents(r), 0, r.size)

\* get_continguious_space(): the array afterwards and the number returned,
\* which is the count of the bytes if it had to expand.  None: it throws.
get_continguious_space(r) ==
  CASE r.tail # r.size                 -> [r |-> r, n |-> r.size - r.tail, ok |-> TRUE]
    [] r.tail = r.size /\ CanExpand(r) -> [r |-> expand(r), n |-> get_count(r), ok |-> TRUE]
    [] OTHER                           -> [r |-> r, n |-> 0, ok |-> FALSE]

\* Mutant: the space is not looked at again after the bytes were moved.
Try_NoCheck(r, n) ==
  LET first == get_continguious_space(r)
  IN  [r |-> compact(first.r), ok |-> first.ok]

\* One turn of the loop of write: where it would copy n bytes, or where it is
\* when it throws.
Try(r, n) ==
  LET first  == get_continguious_space(r)
      second == get_continguious_space(compact(first.r))
  IN  IF first.ok /\ first.n < n
      THEN [r |-> second.r, ok |-> second.ok /\ second.n >= n]
      ELSE [r |-> first.r, ok |-> first.ok]

\* The array in which write(data, n, -1) copies, after as many turns as it
\* takes, each followed by expand().
RoomFor(r, n) ==
  LET Turn[k \in 0..MaxSize] ==
        IF k = 0 THEN Try(r, n)
        ELSE LET t == Turn[k - 1]
             IN  IF t.ok \/ ~CanExpand(t.r) THEN t ELSE Try(expand(t.r), n)
  IN  Turn[CHOOSE k \in 0..MaxSize :
             /\ Turn[k].ok \/ ~CanExpand(Turn[k].r)
             /\ \A j \in 0..k - 1 : ~Turn[j].ok /\ CanExpand(Turn[j].r)]

\* remove(): the rest moves to the front.
remove(r, n) == Place(SubSeq(Contents(r), n + 1, get_count(r)), 0, r.size)
remove_from_back(r, n) == Place(SubSeq(Contents(r), 1, get_count(r) - n), r.head, r.size)

read(r, offset, n) == [i \in 1..n |-> r.mem[r.head + offset + i - 1]]

-----------------------------------------------------------------------------

\* data goes behind the bytes of g.
PutAt(g, data) ==
  /\ next' = (next + Len(data)) % Values
  /\ damage' = (g.tail + Len(data) > g.size)
  /\ IF damage' THEN b' = g /\ UNCHANGED io
     ELSE b' = Place(Contents(g) \o data, g.head, g.size) /\ io' = Call("put", data)

\* Nothing is written, but the array may have grown.
Leaves(g) == b' = g /\ UNCHANGED <<io, next, damage>>

\* write(data, n, -1); a write(array, offset, count) ends in the same.
Write(n) ==
  LET t == RoomFor(b, n) IN IF t.ok THEN PutAt(t.r, Fresh(n)) ELSE Leaves(t.r)

\* A socket receives n bytes at get_end() and counts them, if there is space.
Receive(n) ==
  LET s == get_continguious_space(b)
  IN  IF s.n > 0 THEN n <= s.n /\ PutAt(s.r, Fresh(n)) ELSE Leaves(s.r)

\* write(data, n, offset).
Patch(offset, n) ==
  /\ offset + n <= get_count(b)
  /\ b' = [b EXCEPT !.mem = [i \in DOMAIN @ |->
             IF i - b.head - offset \in 0..n - 1
             THEN Fresh(n)[i - b.head - offset + 1] ELSE @[i]]]
  /\ io' = CallAt("replace", offset, Fresh(n))
  /\ next' = (next + n) % Values
  /\ UNCHANGED damage

\* read(data, n, offset).
Peek(offset, n) ==
  /\ offset + n <= get_count(b)
  /\ io' = CallAt("peek", offset, read(b, offset, n))
  /\ UNCHANGED <<b, next, damage>>

\* read(data, n, -1) takes the bytes and leaves the others where they are.
Read(n) ==
  /\ n <= get_count(b)
  /\ b' = Place(SubSeq(Contents(b), n + 1, get_count(b)), b.head + n, b.size)
  /\ io' = Call("get", read(b, 0, n))
  /\ UNCHANGED <<next, damage>>

Remove(n) ==
  /\ n <= get_count(b)
  /\ b' = remove(b, n)
  /\ io' = Call("get", SubSeq(Contents(b), 1, n))
  /\ UNCHANGED <<next, damage>>

RemoveFromBack(n) ==
  /\ n <= get_count(b)
  /\ b' = remove_from_back(b, n)
  /\ io' = Call("unput", SubSeq(Contents(b), get_count(b) - n + 1, get_count(b)))
  /\ UNCHANGED <<next, damage>>

GetSpace == b' = get_space(b) /\ UNCHANGED <<io, next, damage>>

Reset == b' = reset(b) /\ io' = Call("clear", <<>>) /\ UNCHANGED <<next, damage>>

Init == b = New /\ io = Call("new", <<>>) /\ next = 0 /\ damage = FALSE

Next ==
  /\ ~damage
  /\ \/ \E n \in Sizes : Write(n) \/ Receive(n)
     \/ \E n \in Sizes, k \in 0..get_count(b) : Patch(k, n) \/ Peek(k, n)
     \/ \E n \in 1..get_count(b) : Read(n) \/ Remove(n) \/ RemoveFromBack(n)
     \/ GetSpace \/ Reset

Spec == Init /\ [][Next]_vars

-----------------------------------------------------------------------------

\* The sizes below the limit that an array grows to.
Grown[k \in 0..MaxSize] == IF k = 0 THEN DefaultSize ELSE 4 * Grown[k - 1]

\* get_continguious_space() of an array that has just grown returns the number
\* of its bytes instead of its space: more is then written than fits, but only
\* after the last growth, and only if the limit is less than twice the size
\* before.
OverrunsOnlyAtLimit ==
  damage => b.size = MaxSize /\ \E k \in 0..MaxSize :
              Grown[k] < MaxSize /\ MaxSize < 2 * Grown[k]

\* write throws only when the bytes cannot fit, or when the last cell of an
\* array at its limit is in use: then it does not come to move the bytes to the
\* front, where read() has left cells free.
ThrowsOnlyWhenFull ==
  \A n \in Sizes : ~RoomFor(b, n).ok =>
    \/ get_count(b) + n > MaxSize
    \/ b.size = MaxSize /\ b.tail = MaxSize /\ b.head > 0
=============================================================================
