----------------------------- MODULE MCRtpFrames -----------------------------
(***************************************************************************)
(* RtpFrames with four streams: one with a reset and an LTR recovery, one  *)
(* that changes configuration, one that changes it twice, and one with     *)
(* more I frames than fit into the window.                                 *)
(***************************************************************************)
EXTENDS RtpFrames

F(type, config) == [type |-> type, config |-> config, store |-> FALSE, long |-> None]
Store(type, config) == [F(type, config) EXCEPT !.store = TRUE]
Ltr(config, long) == [F("ltr", config) EXCEPT !.long = long]

FourStreams ==
  {<<F("I", 1), Store("P", 1), F("reset", 1), F("P", 1), Ltr(1, 1), F("P", 1)>>,
   <<F("I", 1), F("P", 1), F("P", 1), F("I", 2), F("P", 2)>>,
   <<F("I", 1), F("I", 2), F("P", 2), F("I", 3), F("P", 3)>>,
   <<F("I", 1), F("I", 1), F("I", 1), F("I", 1)>>}
=============================================================================
