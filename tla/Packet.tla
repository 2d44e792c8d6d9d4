------------------------------- MODULE Packet -------------------------------
(***************************************************************************)
(* packet::writer and packet::reader, with packets inside packets, over a  *)
(* buffer that is a queue (CircleBuffer shows when the ring is one).  A    *)
(* cell of the queue is a uint32: a length, counted in cells, or a value.  *)
(*                                                                         *)
(*   send_buff  send_buff_                                                 *)
(*   writers    the writers in use, the innermost last: head_ and length_, *)
(*              whether flushed, and what was written through each (cells, *)
(*              and, a history, the packets inside with their cells)       *)
(*   done       the packets that were sent, as the application meant them  *)
(***************************************************************************)
EXTENDS Integers, Sequences, SequencesExt

CONSTANTS
  Value,      \* what is written
  Mark,       \* uint32(-1), a length that is not yet known
  Width,      \* number of values of uint32
  MaxDepth,   \* bound: packets inside each other
  MaxItems,   \* bound: cells of a packet when one more is written
  MaxDone     \* bound: packets

ASSUME PacketConstants ==
  /\ Mark \notin Int /\ Value \cap Int = {} /\ Mark \notin Value
  /\ MaxDepth \in Nat \ {0} /\ MaxItems \in Nat /\ MaxDone \in Nat
  \* A uint32 holds the length of every packet.
  /\ Width \in Nat /\ Width >= MaxDepth * (MaxItems + 1)

VARIABLES send_buff, writers, done

packetVars == <<send_buff, writers, done>>

Top   == Len(writers)
Inner == writers[Top]

\* A packet with its length in front.
Framed(cells) == <<Len(cells)>> \o cells

NewWriter(head) ==
  [head |-> head, length |-> 0, flushed |-> FALSE, cells |-> <<>>, inside |-> <<>>]

-----------------------------------------------------------------------------
(* The writer                                                              *)

\* writer(buffer)
Open ==
  /\ writers = <<>> /\ Len(done) < MaxDone
  /\ writers' = <<NewWriter(Len(send_buff))>>
  /\ send_buff' = Append(send_buff, Mark)
  /\ UNCHANGED done

\* writer(writer): a packet inside the one of the writer.
OpenInside ==
  /\ Top \in 1..MaxDepth - 1 /\ ~Inner.flushed /\ Len(Inner.cells) < MaxItems
  /\ writers' = Append(writers, NewWriter(Inner.head + Inner.length + 1))
  /\ send_buff' = Append(send_buff, Mark)
  /\ UNCHANGED done

\* operator <<
Put(v) ==
  /\ Top > 0 /\ ~Inner.flushed /\ Len(Inner.cells) < MaxItems
  /\ send_buff' = Append(send_buff, v)
  /\ writers' = [writers EXCEPT ![Top].length = @ + 1, ![Top].cells = Append(@, v)]
  /\ UNCHANGED done

\* flush() when the packet around it is told of length more cells.
Flush(length) ==
  /\ Top > 0 /\ ~Inner.flushed
  /\ send_buff' = [send_buff EXCEPT ![Inner.head + 1] = Inner.length]
  /\ writers' = [j \in 1..Top |->
       CASE j = Top -> [Inner EXCEPT !.flushed = TRUE]
         [] j = Top - 1 ->
              [writers[j] EXCEPT !.length = @ + length,
                                 !.cells = @ \o Framed(Inner.cells),
                                 !.inside = Append(@, Inner.cells)]
         [] OTHER -> writers[j]]
  /\ UNCHANGED done

\* Mutant: the cell of the length is not counted.
flush_NoWord == Flush(Inner.length)

\* flush(): the length is filled in, and counted in the packet around it.
flush == Flush(Inner.length + 1)

\* ~writer(): what was not flushed is taken back.  A packet that was sent is
\* complete.
Destroy ==
  /\ Top > 0
  /\ send_buff' =
       IF Len(send_buff) > Inner.head /\ send_buff[Inner.head + 1] = Mark
       THEN SubSeq(send_buff, 1, Len(send_buff) - 1 - Inner.length) ELSE send_buff
  /\ writers' = Front(writers)
  /\ done' = IF Inner.flushed /\ Top = 1
             THEN Append(done, [cells |-> Inner.cells, inside |-> Inner.inside])
             ELSE done

PacketInit == send_buff = <<>> /\ writers = <<>> /\ done = <<>>
PacketNext == Open \/ OpenInside \/ flush \/ Destroy \/ \E v \in Value : Put(v)
PacketSpec == PacketInit /\ [][PacketNext]_packetVars

-----------------------------------------------------------------------------
(* The reader, of a packet at the front of the peer's recv_buff_           *)

Reader(buff) == [head |-> 0, tail |-> 1, length |-> buff[1]]

\* reader(reader): the packet inside that the reader stands before, and the
\* reader behind it.
Enter(buff, r) ==
  [head |-> r.tail, tail |-> r.tail + 1, length |-> buff[r.tail + 1]]
\* Mutant: the length of the packet passed is not counted.
Skip_NoWord(buff, r) == [r EXCEPT !.tail = @ + buff[r.tail + 1]]
Skip(buff, r) == [r EXCEPT !.tail = @ + buff[r.tail + 1] + 1]

\* operator >>: the value read, and the reader, which a peek does not move.
Get(buff, r) == buff[r.tail + 1]

\* The reader after n packets inside.
After(buff, n) ==
  LET R[k \in 0..n] == IF k = 0 THEN Reader(buff) ELSE Skip(buff, R[k - 1])
  IN  R[n]

\* connection::send(reader): a packet of what the reader has not passed, by
\* circle::write(circle, offset, count), which stops where the buffer ends.
send(buff, r) ==
  LET count == r.length + 1 - r.tail
      taken == IF count < 0 \/ r.tail + count > Len(buff) THEN Len(buff) - r.tail ELSE count
  IN  <<count % Width>> \o SubSeq(buff, r.tail + 1, r.tail + taken)

-----------------------------------------------------------------------------

\* The buffer holds exactly the packets sent and what the writers in use have
\* written: every length is right, and a packet taken back leaves no trace,
\* also in the packet around it.
Sent(n) == FlattenSeq([i \in 1..n |-> Framed(done[i].cells)])
Exact ==
  LET Own(j) == CASE ~writers[j].flushed          -> <<Mark>> \o writers[j].cells
                  [] writers[j].flushed /\ j = 1 -> Framed(writers[j].cells)
                  [] OTHER                       -> <<>>
  IN  send_buff = Sent(Len(done)) \o FlattenSeq([j \in 1..Top |-> Own(j)])

\* What the peer reads of a packet: its length, then the packets inside it one
\* after the other if they come first, each with its own values.  operator >>
\* gives the first value behind them, however often it is called.
\* connection::send(reader) passes on what is left of a packet; of a packet
\* inside another it does not: its tail_ counts from the start of the buffer,
\* so that less, or everything behind, is passed on.
First(p) ==
  IsPrefix(FlattenSeq([i \in 1..Len(p.inside) |-> Framed(p.inside[i])]), p.cells)
PeerReads ==
  writers = <<>> => \A i \in 1..Len(done) :
    LET p == done[i]
        buff == SubSeq(send_buff, Len(Sent(i - 1)) + 1, Len(send_buff))
    IN  /\ Reader(buff).length = Len(p.cells)
        /\ p.inside = <<>> /\ p.cells # <<>> => Get(buff, Reader(buff)) = p.cells[1]
        /\ send(buff, Reader(buff)) = Framed(p.cells)
        /\ First(p) => \A k \in 1..Len(p.inside) :
             LET r == Enter(buff, After(buff, k - 1))
                 rest == After(buff, k)
             IN  /\ r.length = Len(p.inside[k])
                 /\ p.inside[k] # <<>> => Get(buff, r) = p.inside[k][1]
                 /\ send(buff, rest) = Framed(SubSeq(p.cells, rest.tail, Len(p.cells)))
                 /\ send(buff, r) # Framed(p.inside[k])
=============================================================================
