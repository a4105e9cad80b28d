---------------------------- MODULE MCPlainStreams ----------------------------
(***************************************************************************)
(* PlainStreams with three frames in a file, over UDP two frames that look *)
(* alike to the receiver or these and a third of another size, and one     *)
(* fault of the network.                                                   *)
(***************************************************************************)
EXTENDS PlainStreams

CONSTANTS t1, t2

TwoThreads == {t1, t2}
TwoFragmentsOrThree == [f \in 0..2 |-> IF f = 2 THEN 3 ELSE 2]
FileOrUdp ==
  [medium : {"file"}, prefetch : BOOLEAN, rate : BOOLEAN, frames : {3}]
    \cup {[medium |-> "udp", prefetch |-> FALSE, rate |-> FALSE, frames |-> f] : f \in {2, 3}}
==============================================================================
