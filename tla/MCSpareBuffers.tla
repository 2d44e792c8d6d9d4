--------------------------- MODULE MCSpareBuffers ---------------------------
(* Model values for SpareBuffers.                                          *)
EXTENDS SpareBuffers

AnySizes == {1, 3}
=============================================================================
