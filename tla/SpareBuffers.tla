---------------------------- MODULE SpareBuffers ----------------------------
(***************************************************************************)
(* The two buffers a socket could use instead of the ring, checked against *)
(* the same abstract queue: a run uses one of them, an array or a bip.     *)
(* The variables are those of ArrayBuffer and BipBuffer.                   *)
(***************************************************************************)
EXTENDS Integers, Sequences

CONSTANTS
  ArraySize, ArrayLimit,   \* default_size and max_size of the array
  BipSize, BipLimit,       \* and of the bip
  SizeT,                   \* number of values of size_t
  Null, Junk,
  Sizes,                   \* how many bytes are written or received at a time
  Values                   \* bytes written have the values 0..Values-1 in turn

ASSUME SpareBuffersConstants ==
  /\ ArraySize \in Nat \ {0} /\ ArrayLimit \in Nat /\ ArraySize <= ArrayLimit
  /\ BipSize \in Nat \ {0} /\ BipLimit \in Nat /\ BipSize <= BipLimit
  /\ SizeT \in Nat /\ SizeT > 2 * BipLimit
  /\ Sizes \subseteq Nat \ {0} /\ Values \in Nat \ {0}
  \* A buffer and what is written to it are in memory at the same time.
  /\ \A n \in Sizes : BipLimit + n < SizeT
  /\ Null \notin Int

VARIABLES use, b, io, next, damage

vars == <<use, b, io, next, damage>>

Array == INSTANCE ArrayBuffer WITH DefaultSize <- ArraySize, MaxSize <- ArrayLimit
Bip == INSTANCE BipBuffer WITH DefaultSize <- BipSize, MaxSize <- BipLimit

Init == \/ use = "array" /\ Array!Init
        \/ use = "bip" /\ Bip!Init

Next == \/ use = "array" /\ UNCHANGED use /\ Array!Next
        \/ use = "bip" /\ UNCHANGED use /\ Bip!Next

Spec == Init /\ [][Next]_vars

-----------------------------------------------------------------------------

Bytes == IF use = "array" THEN Array!Contents(b) ELSE Bip!Contents(b)

\* A read(data, count, offset) of a bip that begins within region b gives the
\* first bytes of region b, not those at the offset.
Misread ==
  /\ use = "bip" /\ io'.op = "peek" /\ io'.at > b.an
  /\ io'.data = SubSeq(Bytes, b.an + 1, b.an + Len(io'.data))
  /\ UNCHANGED Bytes

\* An array is a queue of bytes until something is written behind it, and a bip
\* is one but for the reads that begin within region b: whatever is moved,
\* grows, is patched or taken back, every other call takes and gives the bytes
\* that a queue would.
IsQueue == INSTANCE ByteQueue WITH q <- Bytes
QueueButMisreads == IsQueue!Init /\ [][IsQueue!Next \/ Misread]_<<Bytes, io>>

\* Nothing goes wrong before the limit.  The array is overrun only there, and
\* write throws only where the bytes do not fit or the last cell is in use; no
\* byte of a bip is put on another one, and a patch throws only there, across
\* the regions.
SafeBelowLimit ==
  /\ use = "array" => Array!OverrunsOnlyAtLimit /\ Array!ThrowsOnlyWhenFull
  /\ use = "bip" => Bip!NoDamage /\ Bip!PatchThrowsOnlyAcross

\* What is read from a bip at an offset is what was written there, as long as
\* the read begins in region a or at its end.
ReadsBack == use = "bip" => Bip!ReadsBack
=============================================================================
