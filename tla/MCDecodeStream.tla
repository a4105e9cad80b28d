--------------------------- MODULE MCDecodeStream ---------------------------
(***************************************************************************)
(* DecodeStream with two entropy threads, a window of two and two slots.   *)
(***************************************************************************)
EXTENDS DecodeStream

CONSTANTS t1, t2

TwoThreads == {t1, t2}
AllOutputs == {"none", "tensor", "x264", "dvpp"}
=============================================================================
