---------------------------- MODULE EncodeFrontEnd ----------------------------
(***************************************************************************)
(* RunEncode from the input queue to the codec: PreparedFrameProducer pops *)
(* frames from the FrameInputQueue and adds them to the frame pipeline,    *)
(* the pipeline's processor checks for errors and prepares motion,         *)
(* CallbackDataConsumer takes the frames in order and encodes them, and    *)
(* the main thread joins everybody, reports the first failure and runs the *)
(* destructors.                                                            *)
(*                                                                         *)
(* The pipeline appears through its operations; its locks, wakeups and     *)
(* queues are the subject of StreamingPipeline.  Anything may fail: the    *)
(* source, the motion search, the codec, the output.                       *)
(***************************************************************************)
EXTENDS FrameInputQueue, SequencesExt

CONSTANTS
  Workers,   \* threads of the frame pipeline
  Settings   \* the options that matter here: motion prefetch and queue_capacity

ASSUME FrontEndAssumption ==
  /\ Workers # {} /\ IsFiniteSet(Workers)
  /\ Cardinality(Poppers) = 1
  /\ Settings \subseteq [prefetch : BOOLEAN, capacity : Nat \ {0}]

VARIABLES
  running,      \* frame_pipeline_running
  items,        \* inputs of the pipeline not yet published: frame and stage
  output,       \* output_queue_: frames
  inFlight,     \* in_flight_
  inputClosed,  \* input_closed_
  outputClosed, \* output_queue_.closed_
  firstError,   \* first_error_ is set
  at,           \* where each worker of the pipeline is
  has,          \* the frame of the packet in a worker's local work item
  prod,         \* where the producer thread is
  prodError,    \* error_ of the producer is set
  cons,         \* where the consumer thread is
  data,         \* the frame of the packet in Consume's local data
  consError,    \* error_ of the consumer is set
  main,         \* where the main thread is
  options,      \* of the program: motion_prefetch_frames > 0, queue_capacity
  outcome,      \* what the run of the program came to
  \* History, read by the properties only.
  encoded,      \* frames the codec took, oldest first
  raised        \* something threw an error of its own

pipeVars == <<items, output, inFlight, inputClosed, outputClosed, firstError, at, has>>
prodVars == <<prod, prodError>>
consVars == <<cons, data, consError>>
mainVars == <<main, outcome, options>>
historyVars == <<encoded, raised>>
vars == <<qvars, running, pipeVars, prodVars, consVars, mainVars, historyVars>>

NoFrame == -1
producer == CHOOSE t \in Poppers : TRUE
worker1 == CHOOSE w \in Workers : TRUE

Init ==
  /\ QInit
  /\ running = TRUE
  /\ items = <<>> /\ output = <<>> /\ inFlight = 0
  /\ inputClosed = FALSE /\ outputClosed = FALSE /\ firstError = FALSE
  \* stream_workers threads, or one when motion is prefetched.
  /\ options \in Settings
  /\ at = [w \in Workers |-> IF options.prefetch /\ w # worker1 THEN "left" ELSE "pop"]
  /\ has = [w \in Workers |-> NoFrame]
  /\ prod = "loop" /\ prodError = FALSE
  /\ cons = "get" /\ data = NoFrame /\ consError = FALSE
  /\ main = "joins" /\ outcome = "none"
  /\ encoded = <<>> /\ raised = FALSE
-----------------------------------------------------------------------------
(* Packets are shared pointers: the last one to let go runs the            *)
(* destructor, which is urgent, so part of the step that let go.           *)

\* Mutant: what waits in the pipeline does not keep its packet.
ReferencedByThreads ==
  Range(has) \cup {data}
    \cup (IF prod = "pop" /\ popper[producer] = "frame" THEN {nextPop - 1} ELSE {})

\* An empty result keeps nothing.
Referenced ==
  {it.frame : it \in {i \in Range(items) : i.stage # "null"}}
    \cup Range(output) \cup Range(has) \cup {data}
    \cup (IF prod = "pop" /\ popper[producer] = "frame" THEN {nextPop - 1} ELSE {})

Unreferenced == live \ Referenced

LastReference ==
  /\ \E f \in Unreferenced : DestroyPacket(f)
  /\ UNCHANGED <<running, pipeVars, prodVars, consVars, mainVars, historyVars>>
-----------------------------------------------------------------------------
(* PreparedFrameProducer::Produce and DataProducer::RunThread.             *)

ProdGoto(label) == prod' = label /\ UNCHANGED prodError

ProdLoop ==
  /\ prod = "loop"
  /\ \/ running /\ PopCall(producer) /\ ProdGoto("pop")
     \/ ~running /\ ProdGoto("close") /\ UNCHANGED qvars
  /\ UNCHANGED <<running, pipeVars, consVars, mainVars, historyVars>>

ProdPop ==
  /\ prod = "pop" /\ Pop(producer)
  /\ UNCHANGED <<running, pipeVars, prodVars, consVars, mainVars, historyVars>>

ProdEof ==
  /\ prod = "pop" /\ popper[producer] = "eof" /\ ProdGoto("close")
  /\ UNCHANGED <<qvars, running, pipeVars, consVars, mainVars, historyVars>>

\* AddInput took the packet.
ProdAdd ==
  /\ prod = "pop" /\ popper[producer] = "frame"
  /\ ~inputClosed /\ inFlight < options.capacity
  /\ items' = Append(items, [frame |-> nextPop - 1, stage |-> "queued"])
  /\ inFlight' = inFlight + 1
  /\ ProdGoto("loop")
  /\ UNCHANGED <<qvars, running, output, inputClosed, outputClosed, firstError, at, has,
                 consVars, mainVars, historyVars>>

\* AddInput returned false and the packet goes.
ProdRefused ==
  /\ prod = "pop" /\ popper[producer] = "frame"
  /\ inputClosed
  /\ ProdGoto("close")
  /\ UNCHANGED <<qvars, running, pipeVars, consVars, mainVars, historyVars>>

CloseInput ==
  /\ inputClosed' = TRUE
  /\ UNCHANGED <<items, output, inFlight, outputClosed, firstError, at, has>>

\* Mutant: only a failing producer closes the input.
ProdCloseWhenFailed ==
  /\ prod = "close"
  /\ IF prodError THEN CloseInput ELSE UNCHANGED pipeVars
  /\ ProdGoto("end")
  /\ UNCHANGED <<qvars, running, consVars, mainVars, historyVars>>

ProdClose ==
  /\ prod = "close" /\ CloseInput /\ ProdGoto("end")
  /\ UNCHANGED <<qvars, running, consVars, mainVars, historyVars>>

\* Pop threw: Cancel keeps the error that is already there.
ProdCancel ==
  /\ prod = "pop" /\ popper[producer] = "error"
  /\ Cancel("client") /\ ProdGoto("fail")
  /\ UNCHANGED <<running, pipeVars, consVars, mainVars, historyVars>>

ProdFail ==
  /\ prod = "fail" /\ prod' = "close"
  /\ prodError' = TRUE /\ running' = FALSE
  /\ UNCHANGED <<qvars, pipeVars, consVars, mainVars, historyVars>>

Producer == \/ ProdLoop \/ ProdPop \/ ProdEof \/ ProdAdd \/ ProdRefused \/ ProdClose
            \/ ProdCancel \/ ProdFail
-----------------------------------------------------------------------------
(* The workers of the frame pipeline and its processor.                    *)

WkGoto(w, label) == at' = [at EXCEPT ![w] = label]
OnlyWorkers == UNCHANGED <<prodVars, consVars, mainVars>>

Queued == {i \in DOMAIN items : items[i].stage = "queued"}

WkPop(w) ==
  /\ at[w] = "pop" /\ Queued # {}
  /\ LET i == Min(Queued) IN
       /\ items' = [items EXCEPT ![i].stage = "busy"]
       /\ has' = [has EXCEPT ![w] = items[i].frame]
  /\ WkGoto(w, "check")
  /\ UNCHANGED <<qvars, running, output, inFlight, inputClosed, outputClosed, firstError,
                 historyVars>>
  /\ OnlyWorkers

\* prepare_queue.RethrowIfFailed
WkCheck(w) ==
  /\ at[w] = "check"
  /\ WkGoto(w, IF exception # "none" THEN "cancel" ELSE "flag")
  /\ UNCHANGED <<qvars, running, items, output, inFlight, inputClosed, outputClosed,
                 firstError, has, historyVars>>
  /\ OnlyWorkers

WkFlag(w) ==
  /\ at[w] = "flag"
  /\ WkGoto(w, IF running THEN "motion" ELSE "null")
  /\ UNCHANGED <<qvars, running, items, output, inFlight, inputClosed, outputClosed,
                 firstError, has, historyVars>>
  /\ OnlyWorkers

\* PrepareMotion throws.
WkMotionThrow(w) ==
  /\ at[w] = "motion" /\ options.prefetch /\ WkGoto(w, "cancel")
  /\ raised' = TRUE
  /\ UNCHANGED <<qvars, running, items, output, inFlight, inputClosed, outputClosed,
                 firstError, has, encoded>>
  /\ OnlyWorkers

\* The catch block of the processor: Cancel, the flag, CloseInput, rethrow.
WkCancel(w) ==
  /\ at[w] = "cancel" /\ WkGoto(w, "halt") /\ Cancel("client")
  /\ UNCHANGED <<running, items, output, inFlight, inputClosed, outputClosed, firstError,
                 has, historyVars>>
  /\ OnlyWorkers

WkHalt(w) ==
  /\ at[w] = "halt" /\ WkGoto(w, "close") /\ running' = FALSE
  /\ UNCHANGED <<qvars, items, output, inFlight, inputClosed, outputClosed, firstError, has,
                 historyVars>>
  /\ OnlyWorkers

WkClose(w) ==
  /\ at[w] = "close" /\ WkGoto(w, "throw") /\ inputClosed' = TRUE
  /\ UNCHANGED <<qvars, running, items, output, inFlight, outputClosed, firstError, has,
                 historyVars>>
  /\ OnlyWorkers

WkThrow(w) ==
  /\ at[w] = "throw" /\ WkGoto(w, "null") /\ firstError' = TRUE
  /\ UNCHANGED <<qvars, running, items, output, inFlight, inputClosed, outputClosed, has,
                 historyVars>>
  /\ OnlyWorkers

\* The items at the front that are finished, and those of them with a result.
Finished(its) ==
  Max({n \in 0..Len(its) : \A i \in 1..n : its[i].stage \in {"done", "null"}})
Results(its) == {i \in 1..Finished(its) : its[i].stage = "done"}

\* The frames of the items with indices I, in their order.
FramesOf(its, I) ==
  [k \in 1..Cardinality(I) |-> its[CHOOSE i \in I : Cardinality(I \cap 1..i) = k].frame]

\* PublishReadyResults: results go out in order, null ones give their slot
\* back, and a closed output queue ends it at the first result.
Publish(its) ==
  LET last == IF outputClosed /\ Results(its) # {} THEN Min(Results(its))
              ELSE Finished(its)
  IN /\ items' = SubSeq(its, last + 1, Len(its))
     /\ output' = IF outputClosed THEN output ELSE output \o FramesOf(its, Results(its))
     /\ inFlight' = inFlight - (last - Len(output') + Len(output))

\* The result of worker w enters the reorder buffer.
WkComplete(w) ==
  /\ at[w] \in {"motion", "null"}
  /\ \E i \in DOMAIN items :
       /\ items[i].frame = has[w]
       /\ Publish([items EXCEPT ![i].stage = IF at[w] = "motion" THEN "done" ELSE "null"])
  /\ WkGoto(w, "pop")
  /\ UNCHANGED <<qvars, running, inputClosed, outputClosed, firstError, has, historyVars>>
  /\ OnlyWorkers

\* The last worker that leaves closes the output.
WkLeave(w) ==
  /\ at[w] = "pop" /\ inputClosed /\ Queued = {}
  /\ WkGoto(w, "left") /\ has' = [has EXCEPT ![w] = NoFrame]
  /\ outputClosed' = (outputClosed \/ \A v \in Workers : at'[v] = "left")
  /\ UNCHANGED <<qvars, running, items, output, inFlight, inputClosed, firstError,
                 historyVars>>
  /\ OnlyWorkers

PipelineWorker(w) ==
  \/ WkPop(w) \/ WkCheck(w) \/ WkFlag(w) \/ WkMotionThrow(w) \/ WkCancel(w)
  \/ WkHalt(w) \/ WkClose(w) \/ WkThrow(w) \/ WkComplete(w) \/ WkLeave(w)

AllLeft == \A w \in Workers : at[w] = "left"
-----------------------------------------------------------------------------
(* CallbackDataConsumer::Consume, consume_frame and DataConsumer::RunThread. *)

ConsGoto(label) == cons' = label
OnlyConsumer == UNCHANGED <<prodVars, mainVars>>

ConsGet ==
  /\ cons = "get" /\ output # <<>> /\ ConsGoto("check")
  /\ data' = Head(output) /\ output' = Tail(output) /\ inFlight' = inFlight - 1
  /\ UNCHANGED <<qvars, running, items, inputClosed, outputClosed, firstError, at, has,
                 consError, historyVars>>
  /\ OnlyConsumer

\* GetOutput returned false; Consume returns and lets go of data.
ConsEnd ==
  /\ cons = "get" /\ output = <<>> /\ outputClosed /\ ConsGoto("end")
  /\ data' = NoFrame
  /\ UNCHANGED <<qvars, running, pipeVars, consError, historyVars>>
  /\ OnlyConsumer

\* RethrowIfFailed of the input queue, then of the pipeline.
ConsCheckInput ==
  /\ cons = "check"
  /\ ConsGoto(IF exception # "none" THEN "cancel" ELSE "check2")
  /\ UNCHANGED <<qvars, running, pipeVars, data, consError, historyVars>>
  /\ OnlyConsumer

ConsCheckPipeline ==
  /\ cons = "check2"
  /\ ConsGoto(IF firstError THEN "cancel" ELSE "process")
  /\ UNCHANGED <<qvars, running, pipeVars, data, consError, historyVars>>
  /\ OnlyConsumer

\* Process encodes the frame and releases its buffer; writing the output of an
\* earlier frame may still fail.
ConsProcess ==
  /\ cons = "process"
  /\ encoded' = Append(encoded, data)
  /\ ReleasePacket(data)
  /\ \/ ConsGoto("get") /\ UNCHANGED raised
     \/ ConsGoto("cancel") /\ raised' = TRUE
  /\ UNCHANGED <<running, pipeVars, data, consError>>
  /\ OnlyConsumer

\* Process throws before the release.
ConsProcessThrow ==
  /\ cons = "process" /\ ConsGoto("cancel") /\ raised' = TRUE
  /\ UNCHANGED <<qvars, running, pipeVars, data, consError, encoded>>
  /\ OnlyConsumer

\* The cancel callback: Cancel, the flag, CloseInput.
ConsCancel ==
  /\ cons = "cancel" /\ ConsGoto("halt") /\ Cancel("client")
  /\ UNCHANGED <<running, pipeVars, data, consError, historyVars>>
  /\ OnlyConsumer

ConsHalt ==
  /\ cons = "halt" /\ ConsGoto("close") /\ running' = FALSE
  /\ UNCHANGED <<qvars, pipeVars, data, consError, historyVars>>
  /\ OnlyConsumer

\* CloseInput; leaving Consume lets go of data.
ConsClose ==
  /\ cons = "close" /\ ConsGoto("fail") /\ CloseInput /\ data' = NoFrame
  /\ UNCHANGED <<qvars, running, consError, historyVars>>
  /\ OnlyConsumer

\* StreamingPipeline::Stop up to the join.
ShutPipeline ==
  /\ inputClosed' = TRUE /\ outputClosed' = TRUE
  /\ UNCHANGED <<items, output, inFlight, firstError, at, has>>

ConsFail ==
  /\ cons = "fail" /\ ConsGoto("join")
  /\ consError' = TRUE /\ running' = FALSE /\ ShutPipeline
  /\ UNCHANGED <<qvars, data, historyVars>>
  /\ OnlyConsumer

ConsJoin ==
  /\ cons = "join" /\ AllLeft /\ ConsGoto("end")
  /\ UNCHANGED <<qvars, running, pipeVars, data, consError, historyVars>>
  /\ OnlyConsumer

Consumer == \/ ConsGet \/ ConsEnd \/ ConsCheckInput \/ ConsCheckPipeline \/ ConsProcess
            \/ ConsProcessThrow \/ ConsCancel \/ ConsHalt \/ ConsClose \/ ConsFail
            \/ ConsJoin
-----------------------------------------------------------------------------
(* The main thread after it started the others.                            *)

OnlyMain == UNCHANGED <<prodVars, consVars, historyVars, options>>

\* Mutant: the producer's error is rethrown before the consumer is joined.
MainJoinsProducerFirst ==
  /\ main = "joins" /\ prod = "end"
  /\ prodError \/ cons = "end"
  /\ IF prodError \/ consError THEN main' = "unwind" /\ outcome' = "failed"
     ELSE main' = "stop" /\ UNCHANGED outcome
  /\ UNCHANGED <<qvars, running, pipeVars>> /\ OnlyMain

\* Both Joins, then both RethrowIfFailed.
MainJoins ==
  /\ main = "joins" /\ prod = "end" /\ cons = "end"
  /\ IF prodError \/ consError THEN main' = "unwind" /\ outcome' = "failed"
     ELSE main' = "stop" /\ UNCHANGED outcome
  /\ UNCHANGED <<qvars, running, pipeVars>> /\ OnlyMain

MainStop ==
  /\ main = "stop" /\ main' = "joinWorkers" /\ ShutPipeline
  /\ UNCHANGED <<qvars, running, outcome>> /\ OnlyMain

\* Mutant: the pipeline's error is not asked for.
MainFinishUnasked ==
  /\ main = "joinWorkers" /\ AllLeft /\ main' = "unwind"
  /\ outcome' \in {"ok", "failed"}
  /\ UNCHANGED <<qvars, running, pipeVars>> /\ OnlyMain

\* frame_pipeline.RethrowIfFailed; the frames still pending are written.
MainFinish ==
  /\ main = "joinWorkers" /\ AllLeft /\ main' = "unwind"
  /\ outcome' \in IF firstError THEN {"failed"} ELSE {"ok", "failed"}
  /\ UNCHANGED <<qvars, running, pipeVars>> /\ OnlyMain

\* ~CallbackDataConsumer stops the pipeline, whose workers have to leave.
MainUnwind ==
  /\ main = "unwind" /\ main' = "joinLast" /\ running' = FALSE /\ ShutPipeline
  /\ UNCHANGED <<qvars, outcome>> /\ OnlyMain

\* ~PreparedFrameProducer cancels the input queue.
MainCancel ==
  /\ main = "joinLast" /\ AllLeft /\ main' = "freePipeline" /\ Cancel("none")
  /\ UNCHANGED <<running, pipeVars, outcome>> /\ OnlyMain

\* ~StreamingPipeline: the packets left in its queues go.
MainFreePipeline ==
  /\ main = "freePipeline" /\ main' = "freeQueue"
  /\ items' = <<>> /\ output' = <<>>
  /\ UNCHANGED <<qvars, running, inFlight, inputClosed, outputClosed, firstError, at, has,
                 outcome>> /\ OnlyMain

\* ~AsyncFrameInputQueue.
MainFreeQueue ==
  /\ main = "freeQueue"
  /\ \/ DestroyCall /\ UNCHANGED main
     \/ DestroyReturn /\ main' = "returned"
  /\ UNCHANGED <<running, pipeVars, outcome>> /\ OnlyMain

Main == \/ MainJoins \/ MainStop \/ MainFinish \/ MainUnwind \/ MainCancel
        \/ MainFreePipeline \/ MainFreeQueue

\* The input queue's worker; an error of the source is one of the program.
SourceWorker ==
  /\ Worker
  /\ raised' = (raised \/ exception' # exception)
  /\ UNCHANGED <<running, pipeVars, prodVars, consVars, mainVars, encoded>>

Wakeup ==
  /\ SpuriousWakeup
  /\ UNCHANGED <<running, pipeVars, prodVars, consVars, mainVars, historyVars>>

RunOver == main = "returned" /\ UNCHANGED vars

Next ==
  \/ LastReference
  \/ /\ Unreferenced = {}
     /\ \/ SourceWorker \/ Wakeup \/ Producer \/ Consumer \/ Main \/ RunOver
        \/ \E w \in Workers : PipelineWorker(w)

Spec == Init /\ [][Next]_vars

\* Every thread runs, and reading, encoding and writing a frame end.
FairSpec ==
  /\ Spec
  /\ WF_vars(LastReference)
  /\ WF_vars(Unreferenced = {} /\ SourceWorker)
  /\ WF_vars(Unreferenced = {} /\ Producer)
  /\ WF_vars(Unreferenced = {} /\ Consumer)
  /\ WF_vars(Unreferenced = {} /\ Main)
  /\ \A w \in Workers : WF_vars(Unreferenced = {} /\ PipelineWorker(w))
-----------------------------------------------------------------------------
(* Properties.                                                             *)

\* The frames reach the codec in source order, none twice and none left out, also
\* while the run is failing, and the codec reads the frame it is told to read: the
\* buffer of the packet in hand has not been released or refilled by the capture
\* thread (Produce, PublishReadyResults, Consume, ~VideoFramePacket).
CodecTakesFrames ==
  /\ \A i \in DOMAIN encoded : encoded[i] = i - 1
  /\ cons = "process" => packet[data] # NoSlot /\ content[packet[data]] = data

\* A run that ends well has encoded every frame of the source; whatever thread
\* failed, and wherever the others were, the failure is reported.
OkMeansComplete ==
  outcome = "ok" => /\ ~raised /\ worker = "done"
                    /\ Len(encoded) = reading

\* The pipeline's worker threads are joined by one thread at a time: the
\* consumer that stops a failing run is joined before the main thread stops
\* the pipeline itself (Stop joins without a lock).
StopsAlone == cons = "join" => main \notin {"joinWorkers", "joinLast"}

\* RunEncode returns, whoever fails and wherever the others wait then.
RunEnds == <>(main = "returned")
==============================================================================
