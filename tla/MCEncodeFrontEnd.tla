-------------------------- MODULE MCEncodeFrontEnd --------------------------
(***************************************************************************)
(* CameraFrontEnd with one producer thread and two pipeline workers.       *)
(***************************************************************************)
EXTENDS CameraFrontEnd

CONSTANTS p1, w1, w2

OneProducer == {p1}
TwoWorkers == {w1, w2}

\* Two workers that overtake each other; one worker that throws, and a producer
\* that is blocked in AddInput when the consumer fails.
Overtaking == [prefetch |-> FALSE, capacity |-> 2]
Blocking == [prefetch |-> TRUE, capacity |-> 1]
TwoSettings == {Overtaking, Blocking}

\* A file that ends early, one that has all the frames, a camera that waits for its
\* surface, and one with a publisher that may still hold the frame when all else ends.
AllSources ==
  {[options |-> Overtaking, kind |-> "file", frames |-> 2, surfaces |-> 1],
   [options |-> Blocking, kind |-> "file", frames |-> 3, surfaces |-> 1],
   [options |-> Blocking, kind |-> "camera", frames |-> 2, surfaces |-> 1],
   [options |-> Blocking, kind |-> "published camera", frames |-> 1, surfaces |-> 2]}
=============================================================================
