--------------------------- MODULE MCCircleBuffer ---------------------------
(* Model values for CircleBuffer.                                          *)
EXTENDS CircleBuffer

\* One program writes words only, as the two programs of the repository,
\* whose packets hold a length and an int; the other values of other sizes.
WordsOrOther == {{2}, {1, 3}}
=============================================================================
