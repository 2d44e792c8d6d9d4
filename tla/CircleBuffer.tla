---------------------------- MODULE CircleBuffer ----------------------------
(***************************************************************************)
(* A ring in use as the send_buff_ of a socket: filled by packet writers,  *)
(* emptied by the socket's send loop.  (PacketStream uses one as the       *)
(* recv_buff_.)                                                            *)
(*                                                                         *)
(*   b       the ring                                                      *)
(*   writer  the packet::writer in use on it: head_, length_ and whether   *)
(*           there is one.  Writers live within a handler, so that the     *)
(*           socket does not send while one is in use.                     *)
(*   sizes   the sizes of the values the program writes                    *)
(*   io      the last call and its bytes (history variable)                *)
(*   next    the value of the next byte written                            *)
(*   damage  "overrun": memory behind the array was written; "recursion":  *)
(*           write called itself without end.  Nothing is said of what     *)
(*           follows.                                                      *)
(***************************************************************************)
EXTENDS Circle

CONSTANTS
  Word,        \* sizeof(uint32), the header of a packet
  Programs,    \* programs: the sets of sizes of the values they write
  Values,      \* bytes written have the values 0..Values-1 in turn
  Mark         \* value of the bytes of a header before flush: uint32(-1)

ASSUME CircleBufferConstants ==
  /\ \A p \in Programs : p \subseteq Nat \ {0}
  /\ Values \in Nat \ {0}
  /\ Word \in Nat \ {0}
  /\ Mark \notin 0..Values - 1

VARIABLES b, writer, sizes, io, next, damage

vars == <<b, writer, sizes, io, next, damage>>

Call(op, data) == [op |-> op, data |-> data]
CallAt(op, at, data) == [op |-> op, at |-> at, data |-> data]
Fresh(from, n) == [i \in 1..n |-> (from + i - 1) % Values]
NoWriter == [used |-> FALSE, head |-> 0, length |-> 0]
Same == UNCHANGED <<writer, next, damage>>

\* What a copy of n bytes by write does besides copying them.
DamageOf(r, offset, n) ==
  CASE Recurs(r, offset, n) -> "recursion"
    [] ~Recurs(r, offset, n) /\ Overruns(r, offset, n) -> "overrun"
    [] OTHER -> "none"

-----------------------------------------------------------------------------

\* write(data, count, -1), of a writer that becomes w if it does not throw.
\* A throw destroys the writer, see Destroy.
AppendBytes(data, w) ==
  LET n == Len(data)
      g == GrowSpace(b, n)
  IN  IF HasSpace(g, n)
      THEN /\ damage' = DamageOf(written(g, n), get_count(g), n)
           /\ IF damage' = "none"
              THEN b' = append(g, data) /\ io' = Call("put", data)
              ELSE UNCHANGED <<b, io>>
           /\ writer' = w
           /\ next' = (next + n) % Values
      ELSE b' = g /\ UNCHANGED <<writer, io, next, damage>>

\* The constructor: a header to be filled in later.
Open ==
  /\ ~writer.used
  /\ AppendBytes([i \in 1..Word |-> Mark],
             [used |-> TRUE, head |-> get_count(b), length |-> 0])

\* operator <<.  A writer whose buffer was reset is not written to any more.
Write(n) ==
  /\ writer.used /\ writer.head < get_count(b)
  /\ AppendBytes(Fresh(next, n), [writer EXCEPT !.length = @ + n])

\* flush(), by connection::send: the header gets its value.
Flush ==
  LET data == Fresh(next - writer.length - Word, Word)
  IN  /\ writer.used /\ writer.head + Word <= get_count(b)
      /\ damage' = DamageOf(b, writer.head, Word)
      /\ IF damage' = "none"
         THEN b' = copy(b, writer.head, data) /\ io' = CallAt("replace", writer.head, data)
         ELSE UNCHANGED <<b, io>>
      /\ writer' = NoWriter
      /\ UNCHANGED next

\* The destructor of a writer that was not flushed takes back its bytes, if
\* they are still there.
TakeBack(n) ==
  /\ writer.used
  /\ writer' = NoWriter
  /\ IF get_count(b) > writer.head
        /\ read(b, writer.head, Word) = [i \in 1..Word |-> Mark]
     THEN /\ b' = Forget(remove_from_back(b, n))
          /\ io' = Call("unput", SubSeq(Contents(b), get_count(b) - n + 1, get_count(b)))
          /\ next' = (next - n) % Values
     ELSE UNCHANGED <<b, io, next>>
  /\ UNCHANGED damage

\* Mutant: all but one byte of the header.
Destroy_OneLeft == TakeBack(1 + writer.length)
Destroy == TakeBack(Word + writer.length)

\* socket_.send takes n of the bytes from get_start() on, then remove(n).
Send(n) ==
  /\ ~writer.used
  /\ n <= continguious_count(b.head, b.tail, b.size)
  /\ b' = Forget(remove(b, n))
  /\ io' = Call("get", [i \in 1..n |-> b.mem[b.head + i - 1]])
  /\ Same

-----------------------------------------------------------------------------

Reset ==
  /\ b' = Forget(reset(b))
  /\ io' = Call("clear", <<>>)
  /\ Same

Init ==
  /\ b = New /\ writer = NoWriter /\ io = Call("new", <<>>)
  /\ sizes \in Programs
  /\ next = 0 /\ damage = "none"

Next ==
  /\ damage = "none"
  /\ UNCHANGED sizes
  /\ \/ Open \/ Flush \/ Destroy \/ Reset
     \/ \E n \in sizes : Write(n)
     \/ \E n \in 1..get_count(b) : Send(n)

Spec == Init /\ [][Next]_vars

-----------------------------------------------------------------------------

\* The ring is a queue of bytes: whatever wraps, expands, is patched or taken
\* back, every byte comes out once, unchanged and in order.
IsQueue == INSTANCE ByteQueue WITH q <- Contents(b)
RefinesByteQueue == IsQueue!Spec

\* When every value is a word, as in the two programs, a send_buff_ that has
\* never been expanded is never damaged, however few bytes the kernel takes at
\* a time.  (After a partial send, expand() sets tail_ to a count that need
\* not be a multiple of the word: a word may then cross the end.)
WordsSafe == sizes = {Word} /\ damage # "none" => b.size > DefaultSize

\* write copies exactly where it should unless it crosses the end of the
\* array or leaves no cell free: the chunks that get_continguious_space allows
\* are then right.  An append recurs only if it fills an empty ring, and a
\* small one that crosses the end always writes behind the array.
Crosses(r, offset, n) == ((r.head + offset) % r.size) + n > r.size
Unsafe(r, offset, n) == DamageOf(r, offset, n) # "none"
WriteSafe ==
  \A n \in sizes :
    /\ \A k \in 0..get_count(b) - n :
         Unsafe(b, k, n) => Crosses(b, k, n) \/ get_count(b) = b.size - 1
    /\ LET g == GrowSpace(b, n)
           w == written(g, n)
           k == get_count(g)
       IN  HasSpace(g, n) =>
             /\ Recurs(w, k, n) <=> n = g.size - 1
             /\ Overruns(w, k, n) => Crosses(w, k, n)
             /\ Crosses(w, k, n) /\ 2 * n < g.size => Overruns(w, k, n)
=============================================================================
