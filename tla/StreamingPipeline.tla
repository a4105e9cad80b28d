-------------------------- MODULE StreamingPipeline --------------------------
(***************************************************************************)
(* mlvc::StreamingPipeline with its two BoundedQueues: worker threads take *)
(* numbered inputs, process them in parallel and publish the results in    *)
(* input order.  Every in-flight input holds one of Capacity slots from    *)
(* AddInput until GetOutput.                                               *)
(*                                                                         *)
(* The callers are the most general client: a thread of Producers may call *)
(* AddInput, one of Consumers GetOutput and TryGetOutput, one of           *)
(* Controllers Start, Stop and CloseInput, whenever it is at rest.  A call *)
(* runs through the caller's own pc and ends in "idle", or in "true" or    *)
(* "false" when the function returns a value.                              *)
(*                                                                         *)
(* One action is one critical section.  in_flight_mutex_ is held across a  *)
(* step only between the failed test and the wait of AddInput, where       *)
(* running_ can change without it; reorder_mutex_ is held by the worker    *)
(* that is publishing.                                                     *)
(***************************************************************************)
EXTENDS Naturals, Sequences, FiniteSets

CONSTANTS
  Workers,      \* the threads that run ProcessingLoop
  Producers,    \* threads that call AddInput
  Consumers,    \* threads that call GetOutput and TryGetOutput
  Controllers,  \* threads that call Start, Stop and CloseInput
  Capacity,     \* queue_capacity_
  MaxInputs,    \* bound: inputs offered after one Start
  MaxStarts     \* bound: calls of Start

Clients == Producers \cup Consumers \cup Controllers

\* The constructor raises both parameters to at least one.
ASSUME PipelineAssumption ==
  /\ Workers # {} /\ IsFiniteSet(Workers)
  /\ IsFiniteSet(Clients)
  /\ Workers \cap Clients = {}
  /\ Capacity \in Nat \ {0}
  /\ MaxInputs \in Nat /\ MaxStarts \in Nat

VARIABLES
  running,       \* running_
  inputClosed,   \* input_closed_
  inFlight,      \* in_flight_
  waiters,       \* threads asleep on in_flight_cv_
  nextSequence,  \* next_sequence_
  inputQueue,    \* input_queue_: sequence numbers
  inputShut,     \* input_queue_.closed_
  outputQueue,   \* output_queue_: sequence numbers of the results
  outputShut,    \* output_queue_.closed_
  completed,     \* completed_results_: its keys
  nulls,         \* completed_results_: the keys whose value is null
  nextOutput,    \* next_output_sequence_
  activeWorkers, \* active_workers_
  failed,        \* first_error_ is set
  pc,            \* where each thread is
  seq,           \* the sequence number a worker or a producer has in hand
  result,        \* the processor returned a result (not null) to this worker
  wasRunning,    \* Stop's local was_running
  \* History, read by the properties only.
  starts,        \* how often Start succeeded
  accepted,      \* numbers of the inputs for which AddInput returned true
  dropped,       \* numbers released without a result
  delivered,     \* numbers handed out by GetOutput, oldest first
  stopped        \* Stop was called since the last Start

queueVars == <<inputQueue, inputShut, outputQueue, outputShut>>
slotVars == <<inputClosed, inFlight, waiters, nextSequence>>
orderVars == <<completed, nulls, nextOutput, failed>>
localVars == <<seq, result, wasRunning>>
historyVars == <<starts, accepted, dropped, delivered, stopped>>
vars == <<running, slotVars, queueVars, orderVars, activeWorkers, pc, localVars,
          historyVars>>

Threads == Workers \cup Clients
Rest == {"idle", "true", "false"}
AtRest(t) == pc[t] \in Rest

\* pc values between a successful claim of a slot and the end of AddInput.
Claimed == {"add.seq", "add.push", "add.undo"}
InAdd == {"add.lock", "add.block", "add.wait"} \cup Claimed
InStop == {"stop.mark", "stop.input", "stop.output", "stop.join", "stop.end"}
InClose == {"close.mark", "close.input"}
Busy == {"process", "fail", "reorder"}
Labels == Rest \cup InAdd \cup InStop \cup InClose \cup Busy \cup
          {"get", "get.release", "pop", "publish", "exit", "last", "shut", "done"}

Goto(t, label) == pc' = [pc EXCEPT ![t] = label]

Init ==
  /\ running = FALSE /\ inputClosed = TRUE
  /\ inFlight = 0 /\ waiters = {} /\ nextSequence = 0
  /\ inputQueue = <<>> /\ inputShut = FALSE
  /\ outputQueue = <<>> /\ outputShut = FALSE
  /\ completed = {} /\ nulls = {} /\ nextOutput = 0 /\ failed = FALSE
  /\ activeWorkers = 0
  /\ pc = [t \in Threads |-> IF t \in Workers THEN "done" ELSE "idle"]
  /\ seq = [t \in Threads |-> 0]
  /\ result = [w \in Workers |-> FALSE]
  /\ wasRunning = [t \in Controllers |-> FALSE]
  /\ starts = 0 /\ accepted = {} /\ dropped = {} /\ delivered = <<>>
  /\ stopped = FALSE
-----------------------------------------------------------------------------
(* in_flight_mutex_, in_flight_cv_ and reorder_mutex_.                     *)

InFlightMutexFree == \A t \in Producers : pc[t] # "add.block"
ReorderMutexFree == \A w \in Workers : pc[w] # "publish"

\* The pc of every thread after one or all sleepers were woken: a woken
\* thread takes the mutex and tests the predicate again.
Woken(S, base) == [t \in Threads |-> IF t \in S THEN "add.lock" ELSE base[t]]

\* notify_all, together with the step of thread t to label.
WakeAll(t, label) ==
  /\ pc' = Woken(waiters, [pc EXCEPT ![t] = label])
  /\ waiters' = {}

\* Mutant: the slot of a finished input is never given back.
LeakInFlightSlot(t, label) ==
  InFlightMutexFree /\ Goto(t, label) /\ UNCHANGED <<inFlight, waiters>>

\* ReleaseInFlightSlot: the decrement under the mutex and notify_one.  A thread
\* that goes to sleep in between has seen the decremented counter, so the
\* two are one step.
ReleaseInFlightSlot(t, label) ==
  /\ InFlightMutexFree
  /\ inFlight' = IF inFlight > 0 THEN inFlight - 1 ELSE inFlight
  /\ IF waiters = {}
     THEN Goto(t, label) /\ UNCHANGED waiters
     ELSE \E s \in waiters :
            /\ pc' = Woken({s}, [pc EXCEPT ![t] = label])
            /\ waiters' = waiters \ {s}
-----------------------------------------------------------------------------
(* AddInput.                                                               *)

SlotFreeOffByOne == inFlight <= Capacity  \* mutant

SlotFree == inFlight < Capacity

\* MaxInputs bounds the model, not the code.
AddInputCall(t) ==
  /\ AtRest(t)
  /\ nextSequence + Cardinality({p \in Producers : pc[p] \in InAdd}) < MaxInputs
  /\ Goto(t, IF running THEN "add.lock" ELSE "false")
  /\ UNCHANGED <<running, slotVars, queueVars, orderVars, activeWorkers, localVars,
                 historyVars>>

\* Takes in_flight_mutex_ and tests the predicate of the wait.
AddInputTest(t) ==
  /\ pc[t] = "add.lock" /\ InFlightMutexFree
  /\ \/ /\ inputClosed \/ ~running
        /\ Goto(t, "false")
        /\ UNCHANGED inFlight
     \/ /\ ~inputClosed /\ running /\ SlotFree
        /\ Goto(t, "add.seq")
        /\ inFlight' = inFlight + 1
     \/ /\ ~inputClosed /\ running /\ ~SlotFree
        /\ Goto(t, "add.block")
        /\ UNCHANGED inFlight
  /\ UNCHANGED <<running, inputClosed, waiters, nextSequence, queueVars, orderVars,
                 activeWorkers, localVars, historyVars>>

\* condition_variable::wait releases the mutex and sleeps.
AddInputSleep(t) ==
  /\ pc[t] = "add.block"
  /\ Goto(t, "add.wait")
  /\ waiters' = waiters \cup {t}
  /\ UNCHANGED <<running, inputClosed, inFlight, nextSequence, queueVars, orderVars,
                 activeWorkers, localVars, historyVars>>

\* C++ allows a wait to return without a notification.
SpuriousWakeup(t) ==
  /\ t \in waiters
  /\ Goto(t, "add.lock")
  /\ waiters' = waiters \ {t}
  /\ UNCHANGED <<running, inputClosed, inFlight, nextSequence, queueVars, orderVars,
                 activeWorkers, localVars, historyVars>>

\* next_sequence_.fetch_add.
AddInputNumber(t) ==
  /\ pc[t] = "add.seq"
  /\ seq' = [seq EXCEPT ![t] = nextSequence]
  /\ nextSequence' = nextSequence + 1
  /\ Goto(t, "add.push")
  /\ UNCHANGED <<running, inputClosed, inFlight, waiters, queueVars, orderVars,
                 activeWorkers, result, wasRunning, historyVars>>

\* input_queue_.Push blocks while the queue is open and full.
AddInputPush(t) ==
  /\ pc[t] = "add.push"
  /\ \/ /\ ~inputShut /\ Len(inputQueue) < Capacity
        /\ inputQueue' = Append(inputQueue, seq[t])
        /\ accepted' = accepted \cup {seq[t]}
        /\ seq' = [seq EXCEPT ![t] = 0]
        /\ Goto(t, "true")
     \/ /\ inputShut
        /\ Goto(t, "add.undo")
        /\ UNCHANGED <<inputQueue, accepted, seq>>
  /\ UNCHANGED <<running, slotVars, inputShut, outputQueue, outputShut, orderVars,
                 activeWorkers, result, wasRunning, starts, dropped, delivered, stopped>>

AddInputUndo(t) ==
  /\ pc[t] = "add.undo"
  /\ ReleaseInFlightSlot(t, "false")
  /\ dropped' = dropped \cup {seq[t]}
  /\ seq' = [seq EXCEPT ![t] = 0]
  /\ UNCHANGED <<running, inputClosed, nextSequence, queueVars, orderVars,
                 activeWorkers, result, wasRunning, starts, accepted, delivered, stopped>>
-----------------------------------------------------------------------------
(* ProcessingLoop and PublishReadyResults.                                 *)

InputEndedUndrained == inputShut  \* mutant
InputEndedUnnoticed == FALSE       \* mutant: a worker that sleeps in Pop is not woken

InputEnded == inputQueue = <<>> /\ inputShut

\* input_queue_.Pop: a closed queue is drained before it reports its end.
WorkerPop(w) ==
  /\ pc[w] = "pop"
  /\ \/ /\ inputQueue # <<>>
        /\ seq' = [seq EXCEPT ![w] = Head(inputQueue)]
        /\ inputQueue' = Tail(inputQueue)
        /\ Goto(w, "process")
     \/ /\ InputEnded
        /\ Goto(w, "exit")
        /\ UNCHANGED <<seq, inputQueue>>
  /\ UNCHANGED <<running, slotVars, inputShut, outputQueue, outputShut, orderVars,
                 activeWorkers, result, wasRunning, historyVars>>

\* processor_ returns a result or null, or throws.
WorkerProcess(w) ==
  /\ pc[w] = "process"
  /\ \/ \E r \in BOOLEAN : result' = [result EXCEPT ![w] = r] /\ Goto(w, "reorder")
     \/ result' = [result EXCEPT ![w] = FALSE] /\ Goto(w, "fail")
  /\ UNCHANGED <<running, slotVars, queueVars, orderVars, activeWorkers, seq,
                 wasRunning, historyVars>>

\* The catch block records the first exception under reorder_mutex_.
WorkerFail(w) ==
  /\ pc[w] = "fail" /\ ReorderMutexFree
  /\ failed' = TRUE
  /\ Goto(w, "reorder")
  /\ UNCHANGED <<running, slotVars, queueVars, completed, nulls, nextOutput, activeWorkers,
                 localVars, historyVars>>

\* completed_results_.emplace keeps an entry that is already there.
WorkerComplete(w) ==
  /\ pc[w] = "reorder" /\ ReorderMutexFree
  /\ completed' = completed \cup {seq[w]}
  /\ nulls' = IF result[w] \/ seq[w] \in completed THEN nulls ELSE nulls \cup {seq[w]}
  /\ seq' = [seq EXCEPT ![w] = 0]
  /\ result' = [result EXCEPT ![w] = FALSE]
  /\ Goto(w, "publish")
  /\ UNCHANGED <<running, slotVars, queueVars, nextOutput, failed, activeWorkers,
                 wasRunning, historyVars>>

\* Mutant: whatever has completed is published.
NewestCompleted ==
  IF completed = {} THEN nextOutput
  ELSE CHOOSE n \in completed : \A m \in completed : m <= n

\* The only result that may be published.
NextCompleted == nextOutput

\* Erases the next entry and steps next_output_sequence_.
TakeNext ==
  /\ NextCompleted \in completed
  /\ completed' = completed \ {NextCompleted}
  /\ nulls' = nulls \ {NextCompleted}
  /\ nextOutput' = nextOutput + 1
  /\ UNCHANGED failed

\* output_queue_.Push while reorder_mutex_ is held: it blocks on a full queue.
PublishResult(w) ==
  /\ pc[w] = "publish" /\ TakeNext /\ NextCompleted \notin nulls
  /\ ~outputShut /\ Len(outputQueue) < Capacity
  /\ outputQueue' = Append(outputQueue, NextCompleted)
  /\ UNCHANGED <<running, slotVars, inputQueue, inputShut, outputShut, activeWorkers,
                 pc, localVars, historyVars>>

\* The output queue is closed: the slot is released and publishing ends, with
\* later results left in completed_results_.
PublishRefused(w) ==
  /\ pc[w] = "publish" /\ TakeNext /\ NextCompleted \notin nulls
  /\ outputShut
  /\ ReleaseInFlightSlot(w, "pop")
  /\ dropped' = dropped \cup {NextCompleted}
  /\ UNCHANGED <<running, inputClosed, nextSequence, queueVars, activeWorkers,
                 localVars, starts, accepted, delivered, stopped>>

\* A null result only gives its slot back.
PublishNull(w) ==
  /\ pc[w] = "publish" /\ TakeNext /\ NextCompleted \in nulls
  /\ ReleaseInFlightSlot(w, "publish")
  /\ dropped' = dropped \cup {NextCompleted}
  /\ UNCHANGED <<running, inputClosed, nextSequence, queueVars, activeWorkers,
                 localVars, starts, accepted, delivered, stopped>>

\* Nothing more to publish: reorder_mutex_ is released.
PublishEnd(w) ==
  /\ pc[w] = "publish" /\ NextCompleted \notin completed
  /\ Goto(w, "pop")
  /\ UNCHANGED <<running, slotVars, queueVars, orderVars, activeWorkers, localVars,
                 historyVars>>

WorkerExit(w) ==
  /\ pc[w] = "exit"
  /\ activeWorkers' = activeWorkers - 1
  /\ Goto(w, IF activeWorkers = 1 THEN "last" ELSE "done")
  /\ UNCHANGED <<running, slotVars, queueVars, orderVars, localVars, historyVars>>

\* The last worker ends the run: running_ changes without in_flight_mutex_.
WorkerEndRun(w) ==
  /\ pc[w] = "last"
  /\ running' = FALSE
  /\ WakeAll(w, "shut")
  /\ UNCHANGED <<inputClosed, inFlight, nextSequence, queueVars, orderVars,
                 activeWorkers, localVars, historyVars>>

WorkerShutOutput(w) ==
  /\ pc[w] = "shut"
  /\ outputShut' = TRUE
  /\ Goto(w, "done")
  /\ UNCHANGED <<running, slotVars, inputQueue, inputShut, outputQueue, orderVars,
                 activeWorkers, localVars, historyVars>>
-----------------------------------------------------------------------------
(* GetOutput and TryGetOutput.                                             *)

GetOutputCall(t) ==
  /\ AtRest(t)
  /\ Goto(t, "get")
  /\ UNCHANGED <<running, slotVars, queueVars, orderVars, activeWorkers, localVars,
                 historyVars>>

\* Mutant: the newest result is handed out first.
TakeNewestOutput(t) ==
  /\ outputQueue # <<>>
  /\ delivered' = Append(delivered, outputQueue[Len(outputQueue)])
  /\ outputQueue' = SubSeq(outputQueue, 1, Len(outputQueue) - 1)
  /\ Goto(t, "get.release")

TakeOutput(t) ==
  /\ outputQueue # <<>>
  /\ delivered' = Append(delivered, Head(outputQueue))
  /\ outputQueue' = Tail(outputQueue)
  /\ Goto(t, "get.release")

GetOutputPop(t) ==
  /\ pc[t] = "get"
  /\ \/ TakeOutput(t)
     \/ /\ outputQueue = <<>> /\ outputShut
        /\ Goto(t, "false")
        /\ UNCHANGED <<delivered, outputQueue>>
  /\ UNCHANGED <<running, slotVars, inputQueue, inputShut, outputShut, orderVars,
                 activeWorkers, localVars, starts, accepted, dropped, stopped>>

TryGetOutput(t) ==
  /\ AtRest(t)
  /\ \/ TakeOutput(t)
     \/ /\ outputQueue = <<>>
        /\ Goto(t, "false")
        /\ UNCHANGED <<delivered, outputQueue>>
  /\ UNCHANGED <<running, slotVars, inputQueue, inputShut, outputShut, orderVars,
                 activeWorkers, localVars, starts, accepted, dropped, stopped>>

GetOutputRelease(t) ==
  /\ pc[t] = "get.release"
  /\ ReleaseInFlightSlot(t, "true")
  /\ UNCHANGED <<running, inputClosed, nextSequence, queueVars, orderVars,
                 activeWorkers, localVars, historyVars>>
-----------------------------------------------------------------------------
(* CloseInput, Stop and Start.                                             *)

CloseInputCall(t) ==
  /\ AtRest(t)
  /\ Goto(t, "close.mark")
  /\ UNCHANGED <<running, slotVars, queueVars, orderVars, activeWorkers, localVars,
                 historyVars>>

CloseInputMark(t) ==
  /\ pc[t] = "close.mark" /\ InFlightMutexFree
  /\ inputClosed' = TRUE
  /\ WakeAll(t, "close.input")
  /\ UNCHANGED <<running, inFlight, nextSequence, queueVars, orderVars, activeWorkers,
                 localVars, historyVars>>

CloseInputShut(t) ==
  /\ pc[t] = "close.input"
  /\ inputShut' = TRUE
  /\ Goto(t, "idle")
  /\ UNCHANGED <<running, slotVars, inputQueue, outputQueue, outputShut, orderVars,
                 activeWorkers, localVars, historyVars>>

\* running_.exchange(false).
StopCall(t) ==
  /\ AtRest(t)
  /\ wasRunning' = [wasRunning EXCEPT ![t] = running]
  /\ running' = FALSE
  /\ stopped' = TRUE
  /\ Goto(t, "stop.mark")
  /\ UNCHANGED <<slotVars, queueVars, orderVars, activeWorkers, seq, result, starts,
                 accepted, dropped, delivered>>

StopMark(t) ==
  /\ pc[t] = "stop.mark" /\ InFlightMutexFree
  /\ inputClosed' = TRUE
  /\ WakeAll(t, IF wasRunning[t] THEN "stop.input" ELSE "stop.join")
  /\ UNCHANGED <<running, inFlight, nextSequence, queueVars, orderVars, activeWorkers,
                 localVars, historyVars>>

StopShutInput(t) ==
  /\ pc[t] = "stop.input"
  /\ inputShut' = TRUE
  /\ Goto(t, "stop.output")
  /\ UNCHANGED <<running, slotVars, inputQueue, outputQueue, outputShut, orderVars,
                 activeWorkers, localVars, historyVars>>

StopShutOutput(t) ==
  /\ pc[t] = "stop.output"
  /\ outputShut' = TRUE
  /\ Goto(t, "stop.join")
  /\ UNCHANGED <<running, slotVars, inputQueue, inputShut, outputQueue, orderVars,
                 activeWorkers, localVars, historyVars>>

AllJoinable == \A w \in Workers : pc[w] = "done"

StopJoin(t) ==
  /\ pc[t] = "stop.join" /\ AllJoinable
  /\ Goto(t, "stop.end")
  /\ UNCHANGED <<running, slotVars, queueVars, orderVars, activeWorkers, localVars,
                 historyVars>>

StopEnd(t) ==
  /\ pc[t] = "stop.end"
  /\ outputShut' = TRUE
  /\ wasRunning' = [wasRunning EXCEPT ![t] = FALSE]
  /\ Goto(t, "idle")
  /\ UNCHANGED <<running, slotVars, inputQueue, inputShut, outputQueue, orderVars,
                 activeWorkers, seq, result, historyVars>>

LaunchedWorkers == Cardinality(Workers)

\* Start joins the old threads, resets everything and spawns the workers.  It
\* is never called while another call is in progress.
Start(t) ==
  /\ \A c \in Clients : AtRest(c)
  /\ ~running /\ AllJoinable
  /\ starts < MaxStarts
  /\ running' = TRUE /\ inputClosed' = FALSE
  /\ inFlight' = 0 /\ nextSequence' = 0
  /\ inputQueue' = <<>> /\ inputShut' = FALSE
  /\ outputQueue' = <<>> /\ outputShut' = FALSE
  /\ completed' = {} /\ nulls' = {} /\ nextOutput' = 0 /\ failed' = FALSE
  /\ activeWorkers' = LaunchedWorkers
  /\ pc' = [c \in Threads |-> IF c \in Workers THEN "pop"
                              ELSE IF c = t THEN "idle" ELSE pc[c]]
  /\ starts' = starts + 1
  /\ accepted' = {} /\ dropped' = {} /\ delivered' = <<>> /\ stopped' = FALSE
  /\ UNCHANGED <<waiters, localVars>>
-----------------------------------------------------------------------------
ProducerStep(t) ==
  \/ AddInputTest(t) \/ AddInputSleep(t)
  \/ AddInputNumber(t) \/ AddInputPush(t) \/ AddInputUndo(t)

WorkerStep(w) ==
  \/ WorkerPop(w) \/ WorkerProcess(w) \/ WorkerFail(w) \/ WorkerComplete(w)
  \/ PublishResult(w) \/ PublishRefused(w) \/ PublishNull(w) \/ PublishEnd(w)
  \/ WorkerExit(w) \/ WorkerEndRun(w) \/ WorkerShutOutput(w)

ConsumerStep(t) == GetOutputPop(t) \/ GetOutputRelease(t)

ControllerStep(t) ==
  \/ CloseInputMark(t) \/ CloseInputShut(t)
  \/ StopMark(t) \/ StopShutInput(t) \/ StopShutOutput(t) \/ StopJoin(t) \/ StopEnd(t)

\* Stop joins std::thread objects, so no two calls of it may overlap.
NoStopActive == \A c \in Controllers : pc[c] \notin InStop

Next ==
  \/ \E t \in Producers : AddInputCall(t) \/ SpuriousWakeup(t) \/ ProducerStep(t)
  \/ \E w \in Workers : WorkerStep(w)
  \/ \E t \in Consumers : GetOutputCall(t) \/ TryGetOutput(t) \/ ConsumerStep(t)
  \/ \E t \in Controllers :
       \/ CloseInputCall(t)
       \/ NoStopActive /\ StopCall(t)
       \/ Start(t)
       \/ ControllerStep(t)

Spec == Init /\ [][Next]_vars

\* Threads that are inside the library keep running; the callers may stay at
\* rest for ever.  Only a mutex can disable a step that is enabled, and it is held
\* for a few steps.  Once the input is closed nobody sleeps at the wait again, so
\* weak fairness is enough for all but the thread that closes it: a producer
\* that is woken spuriously takes in_flight_mutex_ again and again.
Fairness ==
  /\ \A t \in Producers : WF_vars(ProducerStep(t))
  /\ \A w \in Workers : WF_vars(WorkerStep(w))
  /\ \A t \in Consumers : WF_vars(ConsumerStep(t))
  /\ \A t \in Controllers : SF_vars(ControllerStep(t))

FairSpec == Spec /\ Fairness
-----------------------------------------------------------------------------
TypeOK ==
  /\ running \in BOOLEAN /\ inputClosed \in BOOLEAN
  /\ inFlight \in Nat /\ waiters \subseteq Producers /\ nextSequence \in Nat
  /\ inputQueue \in Seq(Nat) /\ inputShut \in BOOLEAN
  /\ outputQueue \in Seq(Nat) /\ outputShut \in BOOLEAN
  /\ completed \subseteq Nat /\ nulls \subseteq completed
  /\ nextOutput \in Nat /\ failed \in BOOLEAN
  /\ activeWorkers \in 0..Cardinality(Workers)
  /\ pc \in [Threads -> Labels]
  /\ seq \in [Threads -> Nat]
  /\ result \in [Workers -> BOOLEAN]
  /\ wasRunning \in [Controllers -> BOOLEAN]
  /\ starts \in 0..MaxStarts
  /\ accepted \subseteq Nat /\ dropped \subseteq Nat
  /\ delivered \in Seq(Nat) /\ stopped \in BOOLEAN

\* A worker is counted in active_workers_ until it has executed its fetch_sub.
Counted == {w \in Workers : pc[w] \notin {"last", "shut", "done"}}
ActiveCounted == activeWorkers = Cardinality(Counted)

\* Threads whose in-flight slot is not in a queue or in completed_results_.
SlotHolders ==
  {t \in Clients : pc[t] \in Claimed \cup {"get.release"}} \cup
  {w \in Workers : pc[w] \in Busy}

\* Every claimed slot is in exactly one place and none is lost or released
\* twice, whatever fails: the counter is what AddInput blocks on.
SlotsAccounted ==
  inFlight = Cardinality(SlotHolders) + Len(inputQueue) +
             Cardinality(completed) + Len(outputQueue)

\* The total backlog is bounded, so neither Push ever waits for room: not the
\* producer's, and not the worker's, which would wait holding reorder_mutex_.
NoPushBlocks ==
  /\ inFlight <= Capacity
  /\ \A t \in Producers : pc[t] = "add.push" => Len(inputQueue) < Capacity
  /\ \A w \in Workers :
       pc[w] = "publish" /\ nextOutput \in completed => Len(outputQueue) < Capacity

\* What the consumer has read, followed by what is ready for it.
Published == delivered \o outputQueue

\* Results come out in input order, each once, however the workers interleave.
OutputInInputOrder ==
  /\ \A i, j \in DOMAIN Published : i < j => Published[i] < Published[j]
  /\ \A i \in DOMAIN Published : Published[i] < nextOutput

\* The numbers of accepted inputs have a gap: the Push of another producer was
\* refused after it had taken a number (next_sequence_.fetch_add, then Push).
NumberWasted == accepted # 0..Cardinality(accepted) - 1

\* When the workers have ended without a Stop, each input that AddInput accepted
\* was published or had no result: closing the input loses nothing, unless a
\* second producer has wasted a number.
NothingAcceptedIsLost ==
  (starts > 0 /\ ~stopped /\ AllJoinable /\ ~NumberWasted) =>
    accepted \subseteq dropped \cup {Published[i] : i \in DOMAIN Published}

\* A thread sleeps at the wait of AddInput, so a wakeup sends it back to the test.
WaitersAsleep == \A t \in waiters : pc[t] = "add.wait"

\* Threads with a number in hand that is on its way to completed_results_.
Carriers ==
  {t \in Producers : pc[t] = "add.push"} \cup {w \in Workers : pc[w] \in Busy}

\* No two inputs under way have the same number, so emplace never meets an
\* entry that is already there.
UniqueNumbers ==
  /\ \A n \in completed : n < nextSequence
  /\ \A t \in Carriers :
       /\ seq[t] < nextSequence /\ seq[t] \notin completed
       /\ \A i \in DOMAIN inputQueue : inputQueue[i] # seq[t]
       /\ \A u \in Carriers : u # t => seq[u] # seq[t]
  /\ \A i \in DOMAIN inputQueue :
       /\ inputQueue[i] < nextSequence /\ inputQueue[i] \notin completed
       /\ \A j \in DOMAIN inputQueue : j # i => inputQueue[j] # inputQueue[i]

\* The inductive invariant behind the safety properties: every part is needed
\* to show that a step keeps another one.
PipelineInv ==
  /\ ActiveCounted /\ WaitersAsleep /\ UniqueNumbers
  /\ IsFiniteSet(completed)
  /\ SlotsAccounted
  /\ inFlight <= Capacity
  /\ OutputInInputOrder

\* A call in progress, or a run whose input is closed, stays so until it ends, so
\* that "P ~> it has ended" is the same as "again and again it is not in progress".

\* An input queue that is closed ends the run even if nobody reads a result.
CloseEndsRun == []<>(inputShut => AllJoinable)

InGet == {"get", "get.release"}

\* Closing ends the run and blocked calls return.  Stop returns whatever the workers and the other callers
\* are doing.  A thread inside AddInput is released once the input is closed,
\* although the last worker clears running_ without the mutex.  A reader that waits
\* for output then gets a result or sees the closed output queue.
CallsReturn ==
  /\ CloseEndsRun
  /\ \A t \in Controllers : []<>(pc[t] \notin InStop)
  /\ \A t \in Producers : []<>(inputClosed => pc[t] \notin InAdd)
  /\ \A t \in Consumers : []<>(starts > 0 /\ inputShut => pc[t] \notin InGet)
-----------------------------------------------------------------------------
(* The pipeline implements OrderedWindow.                                  *)

InsideNumbers ==
  {seq[t] : t \in {p \in Producers : pc[p] \in {"add.push", "add.undo"}}} \cup
  {inputQueue[i] : i \in DOMAIN inputQueue} \cup
  {seq[w] : w \in {v \in Workers : pc[v] \in Busy}} \cup
  completed \cup
  {outputQueue[i] : i \in DOMAIN outputQueue}

Window == INSTANCE OrderedWindow WITH sent <- nextSequence, window <- InsideNumbers

ImplementsWindow == Window!Spec
==============================================================================
