------------------------- MODULE MCStreamingPipeline -------------------------
(***************************************************************************)
(* StreamingPipeline with the threads of one stream: workers, the producer *)
(* thread, the consumer thread and the main thread.                        *)
(***************************************************************************)
EXTENDS StreamingPipeline

CONSTANTS w1, w2, p1, c1, m1

TwoWorkers == {w1, w2}
OneProducer == {p1}
OneConsumer == {c1}
MainThread == {m1}
==============================================================================
