----------------------------- MODULE ByteQueue -----------------------------
(***************************************************************************)
(* What a buffer promises to the sockets and packets that use it: a queue  *)
(* of bytes.  io is the last call, with the bytes it took or gave and, if  *)
(* it has one, its offset at.                                              *)
(***************************************************************************)
EXTENDS Naturals, Sequences

VARIABLES q, io

Init == q = <<>> /\ io = [op |-> "new", data |-> <<>>]

\* Bytes are put behind the others.
Put == io'.op = "put" /\ q' = q \o io'.data

\* The bytes from an offset on are replaced.
Replace ==
  /\ io'.op = "replace" /\ io'.at + Len(io'.data) <= Len(q)
  /\ q' = [i \in 1..Len(q) |-> IF i - io'.at \in 1..Len(io'.data)
                               THEN io'.data[i - io'.at] ELSE q[i]]

\* The bytes from an offset on are looked at, the queue stays.
Peek ==
  /\ io'.op = "peek" /\ q' = q
  /\ io'.at + Len(io'.data) <= Len(q)
  /\ io'.data = SubSeq(q, io'.at + 1, io'.at + Len(io'.data))

\* The oldest bytes leave.
Get == io'.op = "get" /\ q = io'.data \o q'

\* The newest bytes are taken back.
Unput == io'.op = "unput" /\ q = q' \o io'.data

Clear == io'.op = "clear" /\ q' = <<>>

Next == Put \/ Replace \/ Peek \/ Get \/ Unput \/ Clear
Spec == Init /\ [][Next]_<<q, io>>
=============================================================================
