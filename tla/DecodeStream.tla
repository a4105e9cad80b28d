---------------------------- MODULE DecodeStream ----------------------------
(***************************************************************************)
(* RunDecodeStream from the transport to the outputs.  BitstreamProducer   *)
(* reads packets and adds them to the bitstream pipeline; the consumer     *)
(* thread takes them in order, hands each to the entropy decoders and runs *)
(* the model on the frame that has waited longest; the main thread joins   *)
(* both, runs what is left, and runs the destructors.                      *)
(*                                                                         *)
(* The pipeline appears as what it promises (OrderedWindow): its processor *)
(* returns its input.  Anything else may fail: the transport, an entropy   *)
(* decoder, the model, each of the outputs.                                *)
(***************************************************************************)
EXTENDS EntropyWindow, RtspOutput

CONSTANTS
  StreamFrames,   \* frames the transport has: bound of the model
  InputQueue      \* min(queue_capacity, frame_buffer_slots)

ASSUME DecodeAssumption == StreamFrames \in Nat /\ InputQueue \in Nat \ {0}

VARIABLES
  running,   \* bitstream_pipeline_running
  pipe,      \* of the pipeline: accepted and published frames, in_flight_, flags
  prod,      \* the producer thread: where it is, frames it read, error_ is set
  cons,      \* the consumer thread: where it is, Consume's data, error_ is set
  run,       \* run_decoded_frame: where it is and its frame
  main,      \* the main thread: where it is and what the run came to
  decoded,   \* history: frames the model decoded, oldest first
  raised     \* history: something threw an error of its own

entropyVars == <<window, pool>>
threads == <<prod, cons, main>>
vars == <<entropyVars, rtspVars, running, pipe, threads, run, decoded, raised>>

NoFrame == -1
NotRunning == [at |-> "idle", frame |-> NoFrame]

Init ==
  /\ WindowInit /\ RtspInit
  /\ running = TRUE
  /\ pipe = [items |-> <<>>, output |-> <<>>, inFlight |-> 0, inputClosed |-> FALSE,
             outputClosed |-> FALSE, left |-> FALSE]
  /\ prod = [at |-> "read", next |-> 0, error |-> FALSE]
  /\ cons = [at |-> "get", data |-> NoFrame, error |-> FALSE]
  /\ run = NotRunning
  /\ main = [at |-> "joinProducer", outcome |-> "none"]
  /\ decoded = <<>> /\ raised = FALSE
-----------------------------------------------------------------------------
(* The bitstream pipeline.                                                 *)

Quiet == UNCHANGED <<entropyVars, rtspVars, run, decoded>>

\* A result that a closed output queue refuses is dropped.
PipelinePublish ==
  /\ pipe.items # <<>>
  /\ pipe' = IF pipe.outputClosed
             THEN [pipe EXCEPT !.items = Tail(@), !.inFlight = @ - 1]
             ELSE [pipe EXCEPT !.items = Tail(@), !.output = Append(@, Head(pipe.items))]
  /\ Quiet /\ UNCHANGED <<running, threads, raised>>

\* The workers leave and the last one closes the output.
PipelineLeaves ==
  /\ pipe.inputClosed /\ pipe.items = <<>> /\ ~pipe.left
  /\ pipe' = [pipe EXCEPT !.left = TRUE, !.outputClosed = TRUE]
  /\ Quiet /\ UNCHANGED <<running, threads, raised>>

Closed == [pipe EXCEPT !.inputClosed = TRUE]
\* StreamingPipeline::Stop up to the join.
Shut == [pipe EXCEPT !.inputClosed = TRUE, !.outputClosed = TRUE]
-----------------------------------------------------------------------------
(* BitstreamProducer::Produce and DataProducer::RunThread.                 *)

OnlyProducer == Quiet /\ UNCHANGED <<cons, main>>

\* ReceiveFrame returned a frame, or there are no more.
ProdRead ==
  /\ prod.at = "read"
  /\ \/ /\ running /\ prod.next < StreamFrames
        /\ prod' = [prod EXCEPT !.at = "add", !.next = @ + 1]
     \/ /\ ~running \/ prod.next = StreamFrames
        /\ prod' = [prod EXCEPT !.at = "close"]
  /\ OnlyProducer /\ UNCHANGED <<running, pipe, raised>>

\* The transport, or a check of what it delivered, throws.
ProdThrows ==
  /\ prod.at = "read" /\ running
  /\ prod' = [prod EXCEPT !.at = "close", !.error = TRUE]
  /\ running' = FALSE /\ raised' = TRUE
  /\ OnlyProducer /\ UNCHANGED pipe

ProdAdd ==
  /\ prod.at = "add"
  /\ \/ /\ ~pipe.inputClosed /\ pipe.inFlight < InputQueue
        /\ pipe' = [pipe EXCEPT !.items = Append(@, prod.next - 1), !.inFlight = @ + 1]
        /\ prod' = [prod EXCEPT !.at = "read"]
     \/ /\ pipe.inputClosed
        /\ prod' = [prod EXCEPT !.at = "close"] /\ UNCHANGED pipe
  /\ OnlyProducer /\ UNCHANGED <<running, raised>>

\* Mutant: the pipeline is not told that no more packets come.
ProdCloseQuietly ==
  /\ prod.at = "close"
  /\ prod' = [prod EXCEPT !.at = "end"]
  /\ OnlyProducer /\ UNCHANGED <<running, pipe, raised>>

ProdClose ==
  /\ prod.at = "close"
  /\ pipe' = Closed
  /\ prod' = [prod EXCEPT !.at = "end"]
  /\ OnlyProducer /\ UNCHANGED <<running, raised>>

Producer == ProdRead \/ ProdThrows \/ ProdAdd \/ ProdClose
-----------------------------------------------------------------------------
(* run_decoded_frame, on the consumer thread or, later, on the main one.   *)

\* The thread that decodes throws.
CallerThrows ==
  IF main.at = "drain"
  THEN main' = [at |-> "unwind", outcome |-> "failed"] /\ UNCHANGED cons
  ELSE cons' = [cons EXCEPT !.at = "fail", !.data = NoFrame] /\ UNCHANGED main

RunGoto(label) ==
  run' = IF label = "idle" THEN NotRunning ELSE [run EXCEPT !.at = label]

StaysInRun == UNCHANGED <<entropyVars, running, pipe, threads>>

RunModel ==
  /\ run.at = "model"
  /\ decoded' = Append(decoded, run.frame)
  /\ Decode(run.frame)
  /\ RunGoto(CASE output = "none" -> "idle" [] output = "tensor" -> "tensor"
               [] output = "x264" -> "flush" [] output = "dvpp" -> "reserve")
  /\ StaysInRun /\ UNCHANGED raised

RunTensor ==
  /\ run.at = "tensor" /\ WriteTensorFrame(run.frame) /\ RunGoto("idle")
  /\ StaysInRun /\ UNCHANGED <<decoded, raised>>

\* Without a thread of its own, a full pipeline flushes the oldest slot.
RunFlush ==
  /\ run.at = "flush"
  /\ IF Len(nv12.pending) = RtspSlots THEN FlushFront ELSE NothingChanges
  /\ RunGoto("enqueue")
  /\ StaysInRun /\ UNCHANGED <<decoded, raised>>

RunReserve ==
  /\ run.at = "reserve" /\ ReserveSlot /\ RunGoto("enqueue")
  /\ StaysInRun /\ UNCHANGED <<decoded, raised>>

RunEnqueue ==
  /\ run.at = "enqueue" /\ Enqueue(run.frame) /\ RunGoto("idle")
  /\ StaysInRun /\ UNCHANGED <<decoded, raised>>

\* A missing reference, a failing call, or the error of an output.
RunThrows ==
  /\ run.at \notin {"idle", "ready"}
  /\ run.at = "tensor" => CannotWrite
  /\ run.at = "flush" => Len(nv12.pending) = RtspSlots
  /\ run.at = "reserve" => nv12.error
  /\ IF run.at = "enqueue" THEN EnqueueThrows ELSE NothingChanges
  /\ RunGoto("idle") /\ CallerThrows /\ raised' = TRUE
  /\ UNCHANGED <<entropyVars, running, pipe, prod, decoded>>

Run == RunModel \/ RunTensor \/ RunFlush \/ RunReserve \/ RunEnqueue \/ RunThrows
-----------------------------------------------------------------------------
(* CallbackDataConsumer::Consume, consume_packet, DataConsumer::RunThread. *)

ConsGet ==
  /\ cons.at = "get" /\ pipe.output # <<>>
  /\ cons' = [cons EXCEPT !.at = IF WindowFull THEN "pop" ELSE "submit",
                          !.data = Head(pipe.output)]
  /\ pipe' = [pipe EXCEPT !.output = Tail(@), !.inFlight = @ - 1]
  /\ Quiet /\ UNCHANGED <<running, prod, main, raised>>

ConsEnd ==
  /\ cons.at = "get" /\ pipe.output = <<>> /\ pipe.outputClosed
  /\ cons' = [cons EXCEPT !.at = "end"]
  /\ Quiet /\ UNCHANGED <<running, pipe, prod, main, raised>>

\* entropy_window.PopFront: the value is kept for later, an error leaves.
ConsPop ==
  /\ cons.at = "pop"
  /\ \E f \in 0..StreamFrames, ok \in BOOLEAN :
       /\ PopFront(f, ok)
       /\ IF ok THEN /\ cons' = [cons EXCEPT !.at = "submit"]
                     /\ run' = [at |-> "ready", frame |-> f] /\ UNCHANGED raised
          ELSE /\ cons' = [cons EXCEPT !.at = "fail", !.data = NoFrame]
               /\ raised' = TRUE /\ UNCHANGED run
  /\ UNCHANGED <<rtspVars, running, pipe, prod, main, decoded>>

\* SubmitNext, then run_decoded_frame on the frame that was popped.
ConsSubmit ==
  /\ cons.at = "submit"
  /\ SubmitNext(cons.data)
  /\ run' = IF run.at = "ready" THEN [run EXCEPT !.at = "model"] ELSE NotRunning
  /\ cons' = [cons EXCEPT !.at = "run"]
  /\ UNCHANGED <<rtspVars, running, pipe, prod, main, decoded, raised>>

\* consume_packet returned.
ConsRan ==
  /\ cons.at = "run" /\ run = NotRunning
  /\ cons' = [cons EXCEPT !.at = "get"]
  /\ Quiet /\ UNCHANGED <<running, pipe, prod, main, raised>>

\* The catch block of RunThread: there is no cancel callback here.
ConsFail ==
  /\ cons.at = "fail"
  /\ cons' = [cons EXCEPT !.at = "join", !.error = TRUE]
  /\ running' = FALSE /\ pipe' = Shut
  /\ Quiet /\ UNCHANGED <<prod, main, raised>>

ConsJoin ==
  /\ cons.at = "join" /\ pipe.left
  /\ cons' = [cons EXCEPT !.at = "end"]
  /\ Quiet /\ UNCHANGED <<running, pipe, prod, main, raised>>

Consumer == ConsGet \/ ConsEnd \/ ConsPop \/ ConsSubmit \/ ConsRan \/ ConsFail \/ ConsJoin
-----------------------------------------------------------------------------
(* The main thread after it started the others.                            *)

MainGoto(label) == main' = [main EXCEPT !.at = label]
MainThrows == main' = [at |-> "unwind", outcome |-> "failed"]
OnlyMain == UNCHANGED <<prod, cons, decoded>>

\* producer.Join and RethrowIfFailed.
MainJoinsProducer ==
  /\ main.at = "joinProducer" /\ prod.at = "end"
  /\ IF prod.error THEN MainThrows ELSE MainGoto("joinConsumer")
  /\ Quiet /\ UNCHANGED <<running, pipe, prod, cons, raised>>

\* Mutant: the main thread begins to drain the window at once.
MainSkipsConsumer ==
  /\ main.at = "joinConsumer" /\ MainGoto("drain")
  /\ Quiet /\ UNCHANGED <<running, pipe, prod, cons, raised>>

\* consumer.Join and RethrowIfFailed.
MainJoinsConsumer ==
  /\ main.at = "joinConsumer" /\ cons.at = "end"
  /\ IF cons.error THEN MainThrows ELSE MainGoto("drain")
  /\ Quiet /\ UNCHANGED <<running, pipe, prod, cons, raised>>

\* The frames left in the window.
MainDrains ==
  /\ main.at = "drain" /\ run = NotRunning
  /\ \/ /\ WindowEmpty /\ MainGoto("drainOutput")
        /\ UNCHANGED <<entropyVars, run, raised>>
     \/ \E f \in 0..StreamFrames, ok \in BOOLEAN :
          /\ PopFront(f, ok)
          /\ IF ok THEN run' = [at |-> "model", frame |-> f] /\ UNCHANGED <<main, raised>>
             ELSE MainThrows /\ raised' = TRUE /\ UNCHANGED run
  /\ UNCHANGED <<rtspVars, running, pipe>> /\ OnlyMain

\* rtsp_nv12_pipeline->Drain.
MainDrainsOutput ==
  /\ main.at = "drainOutput"
  /\ \/ Drained /\ ~nv12.error /\ MainGoto("stop") /\ NothingChanges /\ UNCHANGED raised
     \/ output = "x264" /\ nv12.pending # <<>> /\ FlushFront /\ UNCHANGED <<main, raised>>
     \/ /\ nv12.error \/ (output = "x264" /\ nv12.pending # <<>>)
        /\ MainThrows /\ raised' = TRUE /\ NothingChanges
  /\ UNCHANGED <<entropyVars, running, pipe, run>> /\ OnlyMain

MainStops ==
  /\ main.at = "stop" /\ MainGoto("joinPipeline") /\ pipe' = Shut
  /\ Quiet /\ UNCHANGED <<running, prod, cons, raised>>

MainJoinsPipeline ==
  /\ main.at = "joinPipeline" /\ pipe.left /\ MainGoto("close")
  /\ IF output = "none" THEN NothingChanges ELSE CloseCall
  /\ UNCHANGED <<entropyVars, running, pipe, run, raised>> /\ OnlyMain

\* The publisher's thread has left; flushing may fail and Close rethrows its error.
MainCloses ==
  /\ main.at = "close" /\ writer.at = "left"
  /\ \/ ~publisher.error /\ main' = [at |-> "unwind", outcome |-> "ok"] /\ UNCHANGED raised
     \/ output # "none" /\ MainThrows /\ raised' = TRUE
  /\ Quiet /\ UNCHANGED <<running, pipe, prod, cons>>

\* ~CallbackDataConsumer: Stop.
MainUnwinds ==
  /\ main.at = "unwind" /\ MainGoto("joinStopped") /\ running' = FALSE /\ pipe' = Shut
  /\ Quiet /\ UNCHANGED <<prod, cons, raised>>

\* The join of Stop, then the consumer thread and the producer thread.
MainJoinsAll ==
  /\ main.at = "joinStopped" /\ pipe.left /\ cons.at = "end" /\ prod.at = "end"
  /\ MainGoto("freeWindow")
  /\ Quiet /\ UNCHANGED <<running, pipe, prod, cons, raised>>

\* ~OrderedFutureWindow, then the entropy decoders go.
MainFreesWindow ==
  /\ main.at = "freeWindow" /\ WindowDestroyed /\ MainGoto("freeOutput")
  /\ Quiet /\ UNCHANGED <<running, pipe, prod, cons, raised>>

\* ~AsyncRtspNv12Pipeline: Drain again, whose errors are swallowed.
MainFreesOutput ==
  /\ main.at = "freeOutput"
  /\ \/ Drained \/ nv12.error \/ (output = "x264" /\ nv12.pending # <<>>)
  /\ \/ MainGoto("joinVenc") /\ StopVenc
     \/ output = "x264" /\ nv12.pending # <<>> /\ FlushFront /\ UNCHANGED main
  /\ UNCHANGED <<entropyVars, running, pipe, run, raised>> /\ OnlyMain

\* The encoder thread is joined; ~RtspVideoPublisher closes.
MainJoinsVenc ==
  /\ main.at = "joinVenc" /\ venc.at = "left" /\ MainGoto("freePublisher")
  /\ IF output = "none" THEN NothingChanges ELSE CloseCall
  /\ UNCHANGED <<entropyVars, running, pipe, run, raised>> /\ OnlyMain

\* ~ThreadPool comes last.
MainFreesPublisher ==
  /\ main.at = "freePublisher" /\ writer.at = "left" /\ MainGoto("freePool") /\ PoolStop
  /\ UNCHANGED <<window, rtspVars, running, pipe, run, raised>> /\ OnlyMain

MainReturns ==
  /\ main.at = "freePool" /\ PoolJoined /\ MainGoto("returned")
  /\ Quiet /\ UNCHANGED <<running, pipe, prod, cons, raised>>

Main == \/ MainJoinsProducer \/ MainJoinsConsumer \/ MainDrains \/ MainDrainsOutput
        \/ MainStops \/ MainJoinsPipeline \/ MainCloses \/ MainUnwinds \/ MainJoinsAll
        \/ MainFreesWindow \/ MainFreesOutput \/ MainJoinsVenc \/ MainFreesPublisher
        \/ MainReturns

Others == UNCHANGED <<running, pipe, threads, run, decoded>>

PoolStep(t) ==
  /\ TaskBegins(t) \/ TaskEnds(t) \/ TaskThreadLeaves(t)
  /\ Others /\ UNCHANGED <<window, rtspVars, raised>>
DeviceStep == Convert /\ Others /\ UNCHANGED <<entropyVars, raised>>
VencStep ==
  /\ Venc /\ Others /\ UNCHANGED entropyVars
  /\ raised' = (raised \/ nv12'.error)
WriterStep ==
  /\ Writer /\ Others /\ UNCHANGED entropyVars
  /\ raised' = (raised \/ publisher'.error)

Next ==
  \/ PipelinePublish \/ PipelineLeaves
  \/ Producer \/ Consumer \/ Run \/ Main
  \/ (\E t \in PoolThreads : PoolStep(t)) \/ DeviceStep \/ VencStep \/ WriterStep

Spec == Init /\ [][Next]_vars

\* Reading a packet, decoding and writing end, and while a thread or a stream can
\* run, one does: no fairness between them is needed.
FairSpec == Spec /\ WF_vars(Next)
-----------------------------------------------------------------------------
(* Properties.                                                             *)

\* The model decodes the frames in the order they were received, each once and
\* none left out, whichever entropy task ends first and whichever of the two
\* threads decodes (consume_packet, then the drain of the main thread). The
\* pictures go out in that order with no gap after the first, which is frame 0
\* unless the hardware encoder's first frames came without SPS and PPS
\* (pending_slots_, the worker of RtspVideoPublisher).
FramesInOrder ==
  /\ \A i \in DOMAIN decoded : decoded[i] = i - 1
  /\ \A i \in DOMAIN shown : shown[i].frame = shown[1].frame + i - 1
  /\ shown # <<>> /\ output # "dvpp" => shown[1].frame = 0

\* An entropy decoder, which has no lock, is used by one task at a time
\* (OrderedFutureWindow's slots), and no task runs on when the decoders have
\* been destroyed, also when an exception leaves RunDecodeStream with tasks
\* queued (~OrderedFutureWindow).
DecodersUsedSafely ==
  /\ \A t, u \in Running : pool.runs[t].slot = pool.runs[u].slot => t = u
  /\ main.at \in {"freeOutput", "joinVenc", "freePublisher", "freePool", "returned"} =>
       Running = {} /\ pool.tasks = <<>>

\* A frame is shown with its own picture: the decoder does not write into a
\* buffer that is still to be read, and a slot is not refilled while the encoder
\* reads it.  In "x264" the decoder keeps its buffer and nothing makes it wait
\* for the conversion: a frame may show the picture of one of the next frames.
ShowsItsFrame ==
  \A i \in DOMAIN shown :
    LET f == shown[i].frame IN
    shown[i].shows \in IF output = "x264" THEN f..(f + RtspSlots) ELSE {f}

\* decode=ok means that nothing failed on any thread, that every frame of the
\* stream was decoded and that the last one was written to the output.
OkMeansComplete ==
  main.outcome = "ok" =>
    /\ ~raised /\ Len(decoded) = StreamFrames
    /\ output # "none" /\ StreamFrames > 0 /\ publisher.header /\ shown # <<>> =>
         Last(shown).frame = StreamFrames - 1

\* The workers of the pipeline are joined by one thread at a time (Stop joins
\* without a lock), except when producer and consumer both fail: the main thread
\* then leaves through ~CallbackDataConsumer, whose Stop meets the consumer's.
StopsAloneUnlessBothFail ==
  cons.at = "join" /\ main.at \in {"joinPipeline", "joinStopped"} => prod.error

\* RunDecodeStream returns, whoever fails and wherever the others wait then.
RunEnds == <>(main.at = "returned")
==============================================================================
