------------------------- MODULE DecodeStreamProofs --------------------------
(***************************************************************************)
(* The safety theorems of DecodeStream, for any number of entropy threads, *)
(* slots of the window, slots of the output, frames and queue capacities.  *)
(*                                                                         *)
(* The invariants build on one another: who may do what (Control), the     *)
(* entropy decoders and the frames on their way to the model (StreamInv),  *)
(* the buffers and slots of the output and the frames on their way through *)
(* it (OutputInv), and the end of a run (EndingInv).                       *)
(* At the end, the operators that run on the device, as the conversion to  *)
(* NV12 for the output does: their cores share out all of the work, the    *)
(* rows of a picture for every picture, so that its buffer is filled, and  *)
(* the elements of the prior's operators as long as no core begins behind  *)
(* the end.                                                                *)
(***************************************************************************)
EXTENDS DecodeStream, Nv12, FiniteSetTheorems, WellFoundedInduction, TLAPS

-----------------------------------------------------------------------------
(* Who may do what.                                                        *)

RunAt == {"idle", "ready", "model", "tensor", "flush", "reserve", "enqueue"}
Reading == {"get", "pop", "submit", "run"}
Before == {"joinProducer", "joinConsumer", "drain", "drainOutput", "stop", "joinPipeline",
           "close"}
Middle == {"unwind", "joinStopped", "freeWindow"}
After == {"freeOutput", "joinVenc", "freePublisher", "freePool", "returned"}

Pipe == [items : Seq(Nat), output : Seq(Nat), inFlight : Int, inputClosed : BOOLEAN,
         outputClosed : BOOLEAN, left : BOOLEAN]

\* What the variables of the threads range over.
ThreadsTyped ==
  /\ output \in {"none", "tensor", "x264", "dvpp"}
  /\ running \in BOOLEAN /\ decoded \in Seq(Nat)
  /\ pipe \in Pipe
  /\ prod \in [at : {"read", "add", "close", "end"}, next : 0..StreamFrames, error : BOOLEAN]
  /\ cons \in [at : Reading \cup {"fail", "join", "end"}, data : Nat \cup {NoFrame},
               error : BOOLEAN]
  /\ run \in [at : RunAt, frame : Nat \cup {NoFrame}]
  /\ main \in [at : Before \cup Middle \cup After, outcome : {"none", "ok", "failed"}]
  /\ prod.at = "add" => prod.next >= 1
  /\ cons.at \in {"pop", "submit"} => cons.data \in Nat
  /\ run.at # "idle" => run.frame \in Nat

\* The main thread has seen the others end before it goes on, and run_decoded_frame is
\* on one of the two threads that call it.
Control ==
  /\ main.at \in Before \ {"joinProducer"} => prod.at = "end" /\ ~prod.error
  /\ main.at \in Before \ {"joinProducer", "joinConsumer"} => cons.at = "end" /\ ~cons.error
  /\ main.at \in Before <=> main.outcome = "none"
  /\ main.at \in {"unwind", "joinStopped"} =>
       prod.at = "end" /\ (cons.at = "end" \/ prod.error)
  /\ main.at \in After \cup {"freeWindow"} => prod.at = "end" /\ cons.at = "end"
  /\ main.outcome = "ok" => prod.at = "end" /\ ~prod.error /\ cons.at = "end" /\ ~cons.error
  /\ cons.error => cons.at \in {"join", "end"}
  /\ cons.at = "join" => cons.error
  /\ run.at = "ready" => cons.at = "submit"
  /\ run.at \notin {"idle", "ready"} => cons.at = "run" \/ main.at = "drain"
  /\ run.at = "idle" => run = NotRunning

LEMMA ControlInit == Init => ThreadsTyped /\ Control
BY DecodeAssumption, OutputAssumption
   DEF Init, RtspInit, ThreadsTyped, Pipe, Control, NotRunning, NoFrame, RunAt, Reading, Before,
     Middle, After

\* What a step on the pipeline does to its record.
LEMMA PipeTyped ==
  ASSUME pipe \in Pipe
  PROVE  /\ Closed \in Pipe /\ Shut \in Pipe
         /\ PipelinePublish \/ PipelineLeaves => pipe' \in Pipe
         /\ ProdAdd /\ prod.next \in Nat \ {0} => pipe' \in Pipe
         /\ ConsGet => pipe' \in Pipe /\ Head(pipe.output) \in Nat
<1> USE DEF Pipe
<1>1. Closed \in Pipe /\ Shut \in Pipe
  BY DEF Closed, Shut
<1>2. ASSUME PipelinePublish PROVE pipe' \in Pipe
  <2>1. Tail(pipe.items) \in Seq(Nat) /\ Append(pipe.output, Head(pipe.items)) \in Seq(Nat)
    BY <1>2 DEF PipelinePublish
  <2>2. pipe.inFlight - 1 \in Int
    OBVIOUS
  <2>3. CASE pipe.outputClosed
    <3>1. pipe' = [pipe EXCEPT !.items = Tail(pipe.items), !.inFlight = pipe.inFlight - 1]
      BY <1>2, <2>3 DEF PipelinePublish
    <3> QED
      BY <2>1, <2>2, <3>1
  <2>4. CASE ~pipe.outputClosed
    <3>1. pipe' = [pipe EXCEPT !.items = Tail(pipe.items),
                               !.output = Append(pipe.output, Head(pipe.items))]
      BY <1>2, <2>4 DEF PipelinePublish
    <3> QED
      BY <2>1, <3>1
  <2> QED
    BY <2>3, <2>4
<1>3. PipelineLeaves => pipe' \in Pipe
  BY DEF PipelineLeaves
<1>4. ASSUME ProdAdd, prod.next \in Nat \ {0} PROVE pipe' \in Pipe
  <2>1. Append(pipe.items, prod.next - 1) \in Seq(Nat) /\ pipe.inFlight + 1 \in Int
    <3>1. prod.next - 1 \in Nat
      BY <1>4
    <3> QED
      BY <3>1
  <2>2. \/ pipe' = [pipe EXCEPT !.items = Append(pipe.items, prod.next - 1),
                               !.inFlight = pipe.inFlight + 1]
        \/ pipe' = pipe
    BY <1>4 DEF ProdAdd
  <2> QED
    BY <2>1, <2>2
<1>5. ASSUME ConsGet PROVE pipe' \in Pipe /\ Head(pipe.output) \in Nat
  <2>1. Tail(pipe.output) \in Seq(Nat) /\ Head(pipe.output) \in Nat
    BY <1>5 DEF ConsGet
  <2>2. pipe.inFlight - 1 \in Int
    OBVIOUS
  <2>3. pipe' = [pipe EXCEPT !.output = Tail(pipe.output), !.inFlight = pipe.inFlight - 1]
    BY <1>5 DEF ConsGet
  <2> QED
    BY <2>1, <2>2, <2>3
<1> QED
  BY <1>1, <1>2, <1>3, <1>4, <1>5

LEMMA ControlPipeline ==
  ASSUME ThreadsTyped, Control, PipelinePublish \/ PipelineLeaves
  PROVE  ThreadsTyped' /\ Control'
<1>1. pipe' \in Pipe
  BY PipeTyped DEF ThreadsTyped
<1>2. UNCHANGED <<output, running, prod, cons, main, run, decoded>>
  BY DEF PipelinePublish, PipelineLeaves, Quiet, threads, rtspVars
<1> QED
  BY <1>1, <1>2 DEF ThreadsTyped, Control

LEMMA ControlProducer ==
  ASSUME ThreadsTyped, Control, Producer
  PROVE  ThreadsTyped' /\ Control'
<1>1. UNCHANGED <<output, run, decoded, cons, main>>
  BY DEF Producer, ProdRead, ProdThrows, ProdAdd, ProdClose, OnlyProducer, Quiet, rtspVars
<1>2. /\ prod.at # "end" /\ prod'.at = "end" => prod' = [prod EXCEPT !.at = "end"]
      /\ prod'.error = prod.error \/ prod'.at # "end"
      /\ prod' \in [at : {"read", "add", "close", "end"}, next : 0..StreamFrames, error : BOOLEAN]
      /\ prod'.at = "add" => prod'.next >= 1
      /\ running' \in BOOLEAN
  <2> USE DecodeAssumption DEF ThreadsTyped
  <2>1. CASE ProdRead
    <3>1. \/ /\ running /\ prod.next + 1 \in 0..StreamFrames /\ prod.next + 1 >= 1
             /\ prod' = [prod EXCEPT !.at = "add", !.next = prod.next + 1]
          \/ prod' = [prod EXCEPT !.at = "close"]
      BY <2>1 DEF ProdRead
    <3>2. running' = running
      BY <2>1 DEF ProdRead
    <3> QED
      BY <3>1, <3>2
  <2>2. CASE ProdThrows
    BY <2>2 DEF ProdThrows
  <2>3. CASE ProdAdd
    BY <2>3 DEF ProdAdd
  <2>4. CASE ProdClose
    BY <2>4 DEF ProdClose
  <2> QED
    BY <2>1, <2>2, <2>3, <2>4 DEF Producer
<1>3. prod.at # "end"
  BY DEF Producer, ProdRead, ProdThrows, ProdAdd, ProdClose
<1>4. pipe' \in Pipe
  <2>1. ProdAdd => prod.next \in Nat \ {0}
    BY DecodeAssumption DEF ProdAdd, ThreadsTyped
  <2> QED
    BY <2>1, PipeTyped DEF Producer, ProdRead, ProdThrows, ProdAdd, ProdClose, ThreadsTyped
<1>5. ThreadsTyped'
  BY <1>1, <1>2, <1>4 DEF ThreadsTyped
<1>6. Control'
  BY <1>1, <1>3 DEF Control, Before, Middle, After
<1> QED
  BY <1>5, <1>6

LEMMA ControlConsumer ==
  ASSUME ThreadsTyped, Control, Consumer
  PROVE  ThreadsTyped' /\ Control'
<1> USE DecodeAssumption
    DEF ThreadsTyped, Control, Quiet, rtspVars, Reading, RunAt, Before, Middle, After, NotRunning, NoFrame
<1>1. CASE ConsGet
  <2>1. pipe' \in Pipe /\ Head(pipe.output) \in Nat
    BY <1>1, PipeTyped
  <2>2. /\ UNCHANGED <<output, run, decoded, running, prod, main>>
        /\ cons.at = "get"
        /\ cons' \in [at : {"pop", "submit"}, data : Nat, error : BOOLEAN]
        /\ cons'.error = cons.error
    BY <1>1, <2>1 DEF ConsGet
  <2>3. ThreadsTyped'
    BY <2>1, <2>2
  <2>4. Control'
    BY <2>2
  <2> QED
    BY <2>3, <2>4
<1>2. CASE ConsEnd
  BY <1>2 DEF ConsEnd
<1>3. CASE ConsPop
  <2>1. PICK f \in 0..StreamFrames, ok \in BOOLEAN :
          IF ok THEN cons' = [cons EXCEPT !.at = "submit"] /\ run' = [at |-> "ready", frame |-> f]
          ELSE cons' = [cons EXCEPT !.at = "fail", !.data = NoFrame] /\ UNCHANGED run
    BY <1>3 DEF ConsPop
  <2>2. UNCHANGED <<output, decoded, running, pipe, prod, main>> /\ cons.at = "pop" /\ f \in Nat
    BY <1>3 DEF ConsPop
  <2>3. CASE ok
    BY <2>1, <2>2, <2>3
  <2>4. CASE ~ok
    <3>1. /\ cons' = [cons EXCEPT !.at = "fail", !.data = NoFrame] /\ run' = run
          /\ cons'.at = "fail" /\ cons'.error = cons.error
      BY <2>1, <2>4
    <3>2. ThreadsTyped'
      BY <2>2, <3>1
    <3>3. Control'
      BY <2>2, <3>1
    <3> QED
      BY <3>2, <3>3
  <2> QED
    BY <2>3, <2>4
<1>4. CASE ConsSubmit
  <2>1. /\ UNCHANGED <<output, running, pipe, prod, main, decoded>>
        /\ cons.at = "submit" /\ cons'.at = "run" /\ cons'.error = cons.error
        /\ cons' \in [at : {"run"}, data : Nat \cup {NoFrame}, error : BOOLEAN]
    BY <1>4 DEF ConsSubmit
  <2>2. \/ run.at = "ready" /\ run' = [at |-> "model", frame |-> run.frame]
        \/ run' = [at |-> "idle", frame |-> -1]
    BY <1>4 DEF ConsSubmit
  <2>3. ThreadsTyped'
    BY <2>1, <2>2
  <2>4. Control'
    BY <2>1, <2>2
  <2> QED
    BY <2>3, <2>4
<1>5. CASE ConsRan
  <2>1. /\ UNCHANGED <<output, run, decoded, running, pipe, prod, main>>
        /\ cons.at = "run" /\ run = NotRunning /\ cons' = [cons EXCEPT !.at = "get"]
    BY <1>5 DEF ConsRan
  <2>2. ThreadsTyped'
    BY <2>1
  <2>3. Control'
    BY <2>1
  <2> QED
    BY <2>2, <2>3
<1>6. CASE ConsFail
  BY <1>6, PipeTyped DEF ConsFail
<1>7. CASE ConsJoin
  BY <1>7 DEF ConsJoin
<1> QED
  BY <1>1, <1>2, <1>3, <1>4, <1>5, <1>6, <1>7 DEF Consumer

\* A step of run_decoded_frame ends in the state its label says.
LEMMA RunGoes ==
  ASSUME ThreadsTyped, NEW label \in RunAt, RunGoto(label)
  PROVE  /\ run' \in [at : RunAt, frame : Nat \cup {NoFrame}] /\ run'.at = label
         /\ label # "idle" => run'.frame = run.frame
         /\ label = "idle" => run' = NotRunning
BY DEF ThreadsTyped, RunGoto, NotRunning, RunAt, NoFrame

LEMMA ControlRun ==
  ASSUME ThreadsTyped, Control, Run
  PROVE  ThreadsTyped' /\ Control'
<1> USE DEF StaysInRun, threads
<1>1. ASSUME NEW label \in RunAt \ {"ready"}, RunGoto(label), run.at \notin {"idle", "ready"},
             output' = output, decoded' \in Seq(Nat), StaysInRun
      PROVE  ThreadsTyped' /\ Control'
  <2>1. /\ run' \in [at : RunAt, frame : Nat \cup {NoFrame}] /\ run'.at = label
        /\ label # "idle" => run'.frame = run.frame
        /\ label = "idle" => run' = NotRunning
    BY <1>1, RunGoes
  <2> QED
    BY <1>1, <2>1 DEF ThreadsTyped, Control
<1>2. CASE RunModel
  <2>1. Append(decoded, run.frame) \in Seq(Nat)
    BY <1>2 DEF RunModel, ThreadsTyped
  <2>2. output' = output
    BY <1>2 DEF RunModel, Decode
  <2>3. PICK label \in RunAt \ {"ready"} : RunGoto(label)
    BY <1>2 DEF RunModel, RunAt, ThreadsTyped
  <2> QED
    BY <1>1, <1>2, <2>1, <2>2, <2>3 DEF RunModel
<1>3. CASE RunTensor
  BY <1>1, <1>3 DEF RunTensor, WriteTensorFrame, RunAt, ThreadsTyped
<1>4. CASE RunFlush
  BY <1>1, <1>4 DEF RunFlush, FlushFront, NothingChanges, rtspVars, RunAt, ThreadsTyped
<1>5. CASE RunReserve
  BY <1>1, <1>5 DEF RunReserve, ReserveSlot, RunAt, ThreadsTyped
<1>6. CASE RunEnqueue
  BY <1>1, <1>6 DEF RunEnqueue, Enqueue, RunAt, ThreadsTyped
<1>7. CASE RunThrows
  <2>1. run' = NotRunning /\ output' = output
        /\ UNCHANGED <<running, pipe, prod, decoded>>
    BY <1>7 DEF RunThrows, RunGoto, EnqueueThrows, NothingChanges, rtspVars
  <2> USE <2>1 DEF ThreadsTyped, Control, NotRunning, RunAt, NoFrame, Reading, Before, Middle, After
  <2>2. CASE main.at = "drain"
    <3>1. main' = [at |-> "unwind", outcome |-> "failed"] /\ cons' = cons
      BY <1>7, <2>2 DEF RunThrows, CallerThrows
    <3> QED
      BY <2>2, <3>1
  <2>3. CASE main.at # "drain"
    <3>1. cons' = [cons EXCEPT !.at = "fail", !.data = NoFrame] /\ main' = main
      BY <1>7, <2>3 DEF RunThrows, CallerThrows
    <3>2. cons.at = "run"
      BY <1>7, <2>3 DEF RunThrows
    <3> QED
      BY <2>3, <3>1, <3>2
  <2> QED
    BY <2>2, <2>3
<1> QED
  BY <1>2, <1>3, <1>4, <1>5, <1>6, <1>7 DEF Run

LEMMA ControlMain ==
  ASSUME ThreadsTyped, Control, Main
  PROVE  ThreadsTyped' /\ Control'
<1> USE DecodeAssumption DEF ThreadsTyped, Control, Quiet, OnlyMain, MainGoto, MainThrows, rtspVars,
      NothingChanges, Before, Middle, After, NotRunning, RunAt
<1>1. CASE MainJoinsProducer
  BY <1>1 DEF MainJoinsProducer
<1>2. CASE MainJoinsConsumer
  BY <1>2 DEF MainJoinsConsumer
<1>3. CASE MainDrains
  BY <1>3 DEF MainDrains
<1>4. CASE MainDrainsOutput
  <2>1. ThreadsTyped'
    BY <1>4 DEF MainDrainsOutput, FlushFront
  <2>2. Control'
    BY <1>4 DEF MainDrainsOutput, FlushFront
  <2> QED
    BY <2>1, <2>2
<1>5. CASE MainStops
  BY <1>5, PipeTyped DEF MainStops
<1>6. CASE MainJoinsPipeline
  BY <1>6 DEF MainJoinsPipeline, CloseCall
<1>7. CASE MainCloses
  BY <1>7 DEF MainCloses
<1>8. CASE MainUnwinds
  <2>1. Shut \in Pipe
    BY PipeTyped
  <2>2. ThreadsTyped'
    BY <1>8, <2>1 DEF MainUnwinds
  <2>3. Control'
    BY <1>8 DEF MainUnwinds
  <2> QED
    BY <2>2, <2>3
<1>9. CASE MainJoinsAll
  BY <1>9 DEF MainJoinsAll
<1>10. CASE MainFreesWindow
  BY <1>10 DEF MainFreesWindow
<1>11. CASE MainFreesOutput
  BY <1>11 DEF MainFreesOutput, FlushFront, StopVenc
<1>12. CASE MainJoinsVenc
  BY <1>12 DEF MainJoinsVenc, CloseCall
<1>13. CASE MainFreesPublisher
  BY <1>13 DEF MainFreesPublisher
<1>14. CASE MainReturns
  BY <1>14 DEF MainReturns
<1> QED
  BY <1>1, <1>2, <1>3, <1>4, <1>5, <1>6, <1>7, <1>8, <1>9, <1>10, <1>11, <1>12, <1>13, <1>14
     DEF Main

\* The streams, the encoder thread, the publisher's thread and the pool decide nothing.
LEMMA OutputKept == (DeviceStep \/ VencStep \/ WriterStep) => output' = output
BY DEF DeviceStep, Convert, VencStep, Venc, VencTake, VencFlush, VencRelease, VencFails,
     VencLeaves, WriterStep, Writer, WriterTake, WriterWrites, WriterSkips, WriterFails,
     WriterLeaves

LEMMA ControlOthers ==
  ASSUME ThreadsTyped, Control,
         (\E t \in PoolThreads : PoolStep(t)) \/ DeviceStep \/ VencStep \/ WriterStep
  PROVE  ThreadsTyped' /\ Control'
<1>1. output' = output
  BY OutputKept DEF PoolStep, rtspVars
<1>2. Others
  BY DEF PoolStep, DeviceStep, VencStep, WriterStep
<1> QED
  BY <1>1, <1>2 DEF Others, threads, ThreadsTyped, Control

LEMMA ControlStep == ThreadsTyped /\ Control /\ [Next]_vars => ThreadsTyped' /\ Control'
<1> SUFFICES ASSUME ThreadsTyped, Control, [Next]_vars
             PROVE  ThreadsTyped' /\ Control'
  OBVIOUS
<1>1. CASE UNCHANGED vars
  BY <1>1 DEF vars, rtspVars, threads, ThreadsTyped, Control
<1> QED
  BY <1>1, ControlPipeline, ControlProducer, ControlConsumer, ControlRun, ControlMain,
     ControlOthers DEF Next

\* The workers of the pipeline are joined by one thread at a time, except when producer
\* and consumer both fail (StreamingPipeline::Stop).
THEOREM StopsAloneCorrect == Spec => []StopsAloneUnlessBothFail
<1>1. ThreadsTyped /\ Control => StopsAloneUnlessBothFail
  BY DEF Control, StopsAloneUnlessBothFail, Before, Middle, After
<1> QED
  BY <1>1, ControlInit, ControlStep, PTL DEF Spec
-----------------------------------------------------------------------------
(* The entropy decoders.                                                   *)

Job == [slot : 1..WindowSlots, frame : Nat]

PoolTyped ==
  /\ pool \in [tasks : Seq(Job), runs : [PoolThreads -> Job \cup {Idle, Left}],
               kept : SUBSET [frame : Nat, ok : BOOLEAN], stopping : BOOLEAN]
  /\ window \in [pending : Seq(Job), inUse : SUBSET (1..WindowSlots)]

\* The jobs of a window have different slots and frames, and the slots in use are theirs.
Fits(pending, used) ==
  /\ \A i, j \in DOMAIN pending :
       \/ i = j
       \/ pending[i].slot # pending[j].slot /\ pending[i].frame # pending[j].frame
  /\ used = {pending[i].slot : i \in DOMAIN pending}
  /\ Cardinality(used) = Len(pending)

WindowInv == Fits(window.pending, window.inUse)

\* A job that waits in the window and has not kept its promise.
Awaits(pending, kept, job) ==
  /\ \E i \in DOMAIN pending : pending[i] = job
  /\ \A ok \in BOOLEAN : [frame |-> job.frame, ok |-> ok] \notin kept
Awaited(job) == Awaits(window.pending, pool.kept, job)

\* A task that is queued or runs is a job of the window that has not kept its promise,
\* and no other task is the same job.
TasksInv ==
  /\ \A i \in DOMAIN pool.tasks : Awaited(pool.tasks[i])
  /\ \A t \in Running : Awaited(pool.runs[t])
  /\ \A i, j \in DOMAIN pool.tasks : pool.tasks[i] = pool.tasks[j] => i = j
  /\ \A t, u \in Running : pool.runs[t] = pool.runs[u] => t = u
  /\ \A i \in DOMAIN pool.tasks, t \in Running : pool.tasks[i] # pool.runs[t]

EntropyInv == PoolTyped /\ WindowInv /\ TasksInv

\* Every nonempty set of natural numbers has a least element, which is Min.
LEMMA MinIsLeast ==
  ASSUME NEW S, S \subseteq Nat, S # {}
  PROVE  Min(S) \in S /\ \A y \in S : Min(S) <= y
<1>1. PICK x \in S : \A y \in S : ~ (<<y, x>> \in OpToRel(<, Nat))
  BY NatLessThanWellFounded, WFMin
<1>2. \A y \in S : y < x => <<y, x>> \in OpToRel(<, Nat)
  BY DEF OpToRel
<1>3. \A y \in S : ~(y < x)
  BY <1>1, <1>2, Zenon
<1>4. \A y \in S : x <= y
  BY <1>3
<1> QED
  BY <1>4 DEF Min

\* Head and Tail of the window.
LEMMA TakeFront ==
  ASSUME NEW T, NEW s \in Seq(T), s # <<>>
  PROVE  /\ Tail(s) \in Seq(T) /\ Head(s) = s[1] /\ Head(s) \in T
         /\ Len(s) \in Nat \ {0} /\ Len(Tail(s)) = Len(s) - 1
         /\ DOMAIN s = 1..Len(s) /\ DOMAIN Tail(s) = 1..(Len(s) - 1)
         /\ \A i \in 1..(Len(s) - 1) : Tail(s)[i] = s[i + 1]
OBVIOUS

\* Appending to a queue.
LEMMA PutBack ==
  ASSUME NEW T, NEW s \in Seq(T), NEW x \in T
  PROVE  /\ Append(s, x) \in Seq(T) /\ Len(s) \in Nat /\ Len(Append(s, x)) = Len(s) + 1
         /\ DOMAIN s = 1..Len(s) /\ DOMAIN Append(s, x) = 1..(Len(s) + 1)
         /\ Append(s, x)[Len(s) + 1] = x
         /\ \A i \in 1..Len(s) : Append(s, x)[i] = s[i]
OBVIOUS

\* SubmitNext finds a slot that is not in use.
LEMMA SlotFree ==
  ASSUME EntropyInv, ~WindowFull
  PROVE  NextSlot \in (1..WindowSlots) \ window.inUse
<1>1. WindowSlots \in Nat /\ window.inUse \subseteq 1..WindowSlots
  BY WindowAssumption DEF EntropyInv, PoolTyped
<1>2. Cardinality(1..WindowSlots) = WindowSlots
  BY <1>1, FS_Interval
<1>3. window.inUse # 1..WindowSlots
  BY <1>2 DEF EntropyInv, WindowInv, Fits, WindowFull
<1>4. (1..WindowSlots) \ window.inUse # {} /\ (1..WindowSlots) \ window.inUse \subseteq Nat
  <2>1. \A n \in 1..WindowSlots : n \in Nat
    BY <1>1
  <2> QED
    BY <1>1, <1>3, <2>1
<1> QED
  BY <1>4, MinIsLeast DEF NextSlot

LEMMA SubmitKeeps ==
  ASSUME EntropyInv, NEW f \in Nat, SubmitNext(f), ~Ready(f),
         \A i \in DOMAIN window.pending : window.pending[i].frame # f
  PROVE  /\ EntropyInv' /\ pool'.kept = pool.kept
         /\ Len(window'.pending) = Len(window.pending) + 1
         /\ \A i \in 1..Len(window.pending) : window'.pending[i] = window.pending[i]
         /\ window'.pending[Len(window.pending) + 1].frame = f
<1>0. PICK job, s, q, r, u :
        /\ job = [slot |-> NextSlot, frame |-> f]
        /\ s = window.pending /\ u = window.inUse /\ q = pool.tasks /\ r = pool.runs
  OBVIOUS
<1> USE <1>0
<1>1. NextSlot \in 1..WindowSlots /\ NextSlot \notin u
  BY SlotFree DEF SubmitNext
<1>2. job \in Job /\ job.slot = NextSlot /\ job.frame = f
  BY <1>1 DEF Job
<1>3. /\ pool' = [pool EXCEPT !.tasks = Append(q, job)]
      /\ window' = [pending |-> Append(s, job), inUse |-> u \cup {NextSlot}]
  BY DEF SubmitNext, PoolEnqueue
<1>4. /\ s \in Seq(Job) /\ q \in Seq(Job) /\ u \subseteq 1..WindowSlots /\ r \in [PoolThreads -> Job \cup {Idle, Left}]
      /\ pool.kept \subseteq [frame : Nat, ok : BOOLEAN]
  BY DEF EntropyInv, PoolTyped
<1>5. /\ pool'.tasks = Append(q, job) /\ pool'.runs = r /\ pool'.kept = pool.kept
      /\ window'.pending = Append(s, job) /\ window'.inUse = u \cup {NextSlot}
  BY <1>3 DEF EntropyInv, PoolTyped
<1>6. /\ Append(s, job) \in Seq(Job) /\ Len(s) \in Nat /\ Len(Append(s, job)) = Len(s) + 1
      /\ DOMAIN s = 1..Len(s) /\ DOMAIN Append(s, job) = 1..(Len(s) + 1)
      /\ Append(s, job)[Len(s) + 1] = job
      /\ \A i \in 1..Len(s) : Append(s, job)[i] = s[i]
  BY <1>2, <1>4, PutBack
<1>7. /\ Append(q, job) \in Seq(Job) /\ Len(q) \in Nat /\ Len(Append(q, job)) = Len(q) + 1
      /\ DOMAIN q = 1..Len(q) /\ DOMAIN Append(q, job) = 1..(Len(q) + 1)
      /\ Append(q, job)[Len(q) + 1] = job
      /\ \A i \in 1..Len(q) : Append(q, job)[i] = q[i]
  BY <1>2, <1>4, PutBack
<1>8. PoolTyped'
  BY <1>1, <1>3, <1>4, <1>6, <1>7 DEF EntropyInv, PoolTyped
<1>9. \A i \in 1..Len(s) : s[i].slot \in u /\ s[i].frame # f
  BY <1>6 DEF EntropyInv, WindowInv, Fits
<1>10. WindowInv'
  <2>1. ASSUME NEW i \in 1..(Len(s) + 1), NEW j \in 1..(Len(s) + 1), i # j
        PROVE  /\ Append(s, job)[i].slot # Append(s, job)[j].slot
               /\ Append(s, job)[i].frame # Append(s, job)[j].frame
    <3>1. i = Len(s) + 1 \/ i \in 1..Len(s)
      BY <1>6
    <3>2. j = Len(s) + 1 \/ j \in 1..Len(s)
      BY <1>6
    <3>3. CASE i \in 1..Len(s) /\ j \in 1..Len(s)
      <4>1. i \in DOMAIN s /\ j \in DOMAIN s
        BY <1>6, <3>3
      <4>2. s[i].slot # s[j].slot /\ s[i].frame # s[j].frame
        BY <2>1, <4>1 DEF EntropyInv, WindowInv, Fits
      <4>3. Append(s, job)[i] = s[i] /\ Append(s, job)[j] = s[j]
        BY <1>6, <3>3
      <4> QED
        BY <4>2, <4>3
    <3> QED
      BY <1>1, <1>2, <1>6, <1>9, <2>1, <3>1, <3>2, <3>3
  <2>2. u \cup {NextSlot} = {Append(s, job)[i].slot : i \in 1..(Len(s) + 1)}
    <3>1. u = {s[i].slot : i \in 1..Len(s)}
      BY <1>6 DEF EntropyInv, WindowInv, Fits
    <3>2. \A i \in 1..(Len(s) + 1) : i \in 1..Len(s) \/ i = Len(s) + 1
      BY <1>6
    <3>3. Len(s) + 1 \in 1..(Len(s) + 1) /\ \A i \in 1..Len(s) : i \in 1..(Len(s) + 1)
      BY <1>6
    <3> QED
      BY <1>2, <1>6, <3>1, <3>2, <3>3
  <2>3. Cardinality(u \cup {NextSlot}) = Len(s) + 1
    <3>1. WindowSlots \in Int /\ 1 \in Int
      BY WindowAssumption
    <3>2. IsFiniteSet(1..WindowSlots)
      BY <3>1, FS_Interval
    <3>3. IsFiniteSet(u)
      BY <1>4, <3>2, FS_Subset
    <3> QED
      BY <1>1, <3>3, FS_AddElement DEF EntropyInv, WindowInv, Fits
  <2>4. PICK longer : longer = Append(s, job)
    OBVIOUS
  <2>5. DOMAIN longer = 1..(Len(s) + 1) /\ Len(longer) = Len(s) + 1
    BY <1>6, <2>4
  <2>6. /\ u \cup {NextSlot} = {longer[i].slot : i \in DOMAIN longer}
        /\ Cardinality(u \cup {NextSlot}) = Len(longer)
    BY <2>2, <2>3, <2>4, <2>5
  <2>7. ASSUME NEW i \in DOMAIN longer, NEW j \in DOMAIN longer, i # j
        PROVE  longer[i].slot # longer[j].slot /\ longer[i].frame # longer[j].frame
    <3>1. i \in 1..(Len(s) + 1) /\ j \in 1..(Len(s) + 1)
      BY <2>5
    <3> QED
      BY <2>1, <2>4, <2>7, <3>1
  <2>8. Fits(longer, u \cup {NextSlot})
    BY <2>6, <2>7 DEF Fits
  <2> QED
    BY <1>5, <2>4, <2>8 DEF WindowInv
<1>11. PICK k : k = pool.kept
  OBVIOUS
<1>12. Running' = Running /\ Running \subseteq PoolThreads
  BY <1>5 DEF Running
<1>13. \A x : Awaits(s, k, x) => Awaits(Append(s, job), k, x) /\ x # job
  <2>1. \A i \in 1..Len(s) : i \in 1..(Len(s) + 1) /\ Append(s, job)[i] = s[i]
    BY <1>6
  <2> QED
    BY <1>2, <1>6, <1>9, <2>1 DEF Awaits
<1>14. Awaits(Append(s, job), k, job)
  <2>1. Len(s) + 1 \in 1..(Len(s) + 1)
    BY <1>6
  <2> QED
    BY <1>2, <1>6, <1>11, <2>1 DEF Awaits, Ready, Kept
<1>15. /\ \A i \in 1..Len(q) : Awaits(s, k, q[i])
       /\ \A t \in Running : Awaits(s, k, r[t])
       /\ \A i, j \in 1..Len(q) : q[i] = q[j] => i = j
       /\ \A t, v \in Running : r[t] = r[v] => t = v
       /\ \A i \in 1..Len(q), t \in Running : q[i] # r[t]
  BY <1>7, <1>11 DEF EntropyInv, TasksInv, Awaited
<1>16. ASSUME NEW i \in 1..(Len(q) + 1)
       PROVE  /\ Awaits(Append(s, job), k, Append(q, job)[i])
              /\ \A j \in 1..(Len(q) + 1) : Append(q, job)[i] = Append(q, job)[j] => i = j
              /\ \A t \in Running : Append(q, job)[i] # r[t]
  <2>1. \A j \in 1..(Len(q) + 1) : j \in 1..Len(q) \/ j = Len(q) + 1
    BY <1>7
  <2>2. CASE i \in 1..Len(q)
    BY <1>7, <1>13, <1>15, <2>1, <2>2
  <2>3. CASE i = Len(q) + 1
    BY <1>7, <1>13, <1>14, <1>15, <2>1, <2>3
  <2> QED
    BY <2>1, <2>2, <2>3
<1>17. TasksInv'
  BY <1>5, <1>7, <1>11, <1>12, <1>13, <1>15, <1>16 DEF TasksInv, Awaited
<1> QED
  BY <1>2, <1>5, <1>6, <1>8, <1>10, <1>17 DEF EntropyInv

LEMMA PopKeeps ==
  ASSUME EntropyInv, NEW f, NEW ok \in BOOLEAN, PopFront(f, ok)
  PROVE  /\ EntropyInv' /\ pool' = pool
         /\ Len(window.pending) \in Nat \ {0}
         /\ f = window.pending[1].frame
         /\ Len(window'.pending) = Len(window.pending) - 1
         /\ \A i \in 1..(Len(window.pending) - 1) : window'.pending[i] = window.pending[i + 1]
<1>0. PICK s, q, r, u, k :
        /\ s = window.pending /\ u = window.inUse /\ q = pool.tasks /\ r = pool.runs
        /\ k = pool.kept
  OBVIOUS
<1> USE <1>0
<1>1. /\ s \in Seq(Job) /\ q \in Seq(Job) /\ u \subseteq 1..WindowSlots
      /\ pool' = pool /\ s # <<>>
      /\ window'.pending = Tail(s) /\ window'.inUse = u \ {Head(s).slot}
      /\ window' \in [pending : {Tail(s)}, inUse : {u \ {Head(s).slot}}]
      /\ f = Head(s).frame /\ [frame |-> f, ok |-> ok] \in k
  BY DEF EntropyInv, PoolTyped, PopFront, WindowEmpty, Kept
<1>2. /\ Tail(s) \in Seq(Job) /\ Head(s) = s[1] /\ Head(s) \in Job
      /\ Len(s) \in Nat \ {0} /\ Len(Tail(s)) = Len(s) - 1
      /\ DOMAIN s = 1..Len(s) /\ DOMAIN Tail(s) = 1..(Len(s) - 1)
      /\ \A i \in 1..(Len(s) - 1) : Tail(s)[i] = s[i + 1]
  BY <1>1, TakeFront
<1>3. \A i \in 1..(Len(s) - 1) : i + 1 \in 1..Len(s) /\ i + 1 # 1
  BY <1>2
<1>4. 1 \in 1..Len(s) /\ \A i \in 1..Len(s) : i = 1 \/ (i - 1 \in 1..(Len(s) - 1) /\ (i - 1) + 1 = i)
  BY <1>2
<1>5. PoolTyped'
  BY <1>1, <1>2 DEF EntropyInv, PoolTyped
<1>6. /\ \A i, j \in 1..Len(s) : i = j \/ (s[i].slot # s[j].slot /\ s[i].frame # s[j].frame)
      /\ u = {s[i].slot : i \in 1..Len(s)} /\ Cardinality(u) = Len(s)
  BY <1>2 DEF EntropyInv, WindowInv, Fits
<1>7. WindowInv'
  <2>1. ASSUME NEW i \in 1..(Len(s) - 1), NEW j \in 1..(Len(s) - 1), i # j
        PROVE  Tail(s)[i].slot # Tail(s)[j].slot /\ Tail(s)[i].frame # Tail(s)[j].frame
    <3>1. i + 1 # j + 1
      BY <2>1
    <3>2. Tail(s)[i] = s[i + 1] /\ Tail(s)[j] = s[j + 1]
      BY <1>2
    <3>3. i + 1 \in 1..Len(s) /\ j + 1 \in 1..Len(s)
      BY <1>3
    <3> QED
      BY <1>6, <3>1, <3>2, <3>3
  <2>2. u \ {s[1].slot} = {Tail(s)[i].slot : i \in 1..(Len(s) - 1)}
    <3>1. \A i \in 1..(Len(s) - 1) : Tail(s)[i].slot \in u /\ Tail(s)[i].slot # s[1].slot
      BY <1>2, <1>3, <1>4, <1>6
    <3>2. \A i \in 1..Len(s) : s[i].slot = s[1].slot
             \/ \E j \in 1..(Len(s) - 1) : s[i].slot = Tail(s)[j].slot
      BY <1>2, <1>4
    <3>3. ASSUME NEW x \in u \ {s[1].slot}
          PROVE  \E j \in 1..(Len(s) - 1) : x = Tail(s)[j].slot
      BY <1>6, <3>2, <3>3
    <3> QED
      BY <3>1, <3>3
  <2>3. Cardinality(u \ {s[1].slot}) = Len(s) - 1
    <3>1. WindowSlots \in Int /\ 1 \in Int
      BY WindowAssumption
    <3>2. IsFiniteSet(1..WindowSlots)
      BY <3>1, FS_Interval
    <3>3. IsFiniteSet(u)
      BY <1>1, <3>2, FS_Subset
    <3>4. s[1].slot \in u
      BY <1>4, <1>6
    <3>5. Cardinality(u \ {s[1].slot}) = Cardinality(u) - 1
      BY <3>3, <3>4, FS_RemoveElement
    <3> QED
      BY <1>6, <3>5
  <2>4. PICK rest : rest = Tail(s)
    OBVIOUS
  <2>5. DOMAIN rest = 1..(Len(s) - 1) /\ Len(rest) = Len(s) - 1
    BY <1>2, <2>4
  <2>6. /\ u \ {s[1].slot} = {rest[i].slot : i \in DOMAIN rest}
        /\ Cardinality(u \ {s[1].slot}) = Len(rest)
    BY <2>2, <2>3, <2>4, <2>5
  <2>7. ASSUME NEW i \in DOMAIN rest, NEW j \in DOMAIN rest, i # j
        PROVE  rest[i].slot # rest[j].slot /\ rest[i].frame # rest[j].frame
    <3>1. i \in 1..(Len(s) - 1) /\ j \in 1..(Len(s) - 1)
      BY <2>5
    <3> QED
      BY <2>1, <2>4, <2>7, <3>1
  <2>8. Fits(rest, u \ {s[1].slot})
    BY <2>6, <2>7 DEF Fits
  <2> QED
    BY <1>1, <1>2, <2>4, <2>8 DEF WindowInv
<1>8. ASSUME NEW x, Awaits(s, k, x)
      PROVE  Awaits(Tail(s), k, x)
  <2>1. PICK i \in 1..Len(s) : s[i] = x
    BY <1>2, <1>8 DEF Awaits
  <2>2. i # 1
    BY <1>1, <1>2, <1>8, <2>1 DEF Awaits
  <2>3. i - 1 \in 1..(Len(s) - 1) /\ Tail(s)[i - 1] = s[i]
    BY <1>2, <1>4, <2>2
  <2> QED
    BY <1>2, <1>8, <2>1, <2>3 DEF Awaits
<1>9. TasksInv'
  <2>1. /\ \A i \in DOMAIN q : Awaits(s, k, q[i])
        /\ \A t \in Running : Awaits(s, k, r[t])
        /\ \A i, j \in DOMAIN q : q[i] = q[j] => i = j
        /\ \A t, v \in Running : r[t] = r[v] => t = v
        /\ \A i \in DOMAIN q, t \in Running : q[i] # r[t]
    BY DEF EntropyInv, TasksInv, Awaited
  <2>2. Running' = Running
    BY <1>1 DEF Running
  <2> QED
    BY <1>1, <1>8, <2>1, <2>2 DEF TasksInv, Awaited
<1> QED
  BY <1>1, <1>2, <1>5, <1>7, <1>9 DEF EntropyInv

\* What a thread of the pool does: it takes the first task, or keeps the promise of
\* one, or leaves.
LEMMA TaskKeeps ==
  ASSUME EntropyInv, NEW t \in PoolThreads, TaskBegins(t) \/ TaskEnds(t) \/ TaskThreadLeaves(t),
         UNCHANGED window
  PROVE  /\ EntropyInv'
         /\ \A k \in pool'.kept \ pool.kept :
              \E i \in DOMAIN window.pending : k.frame = window.pending[i].frame
         /\ Running = {} /\ pool.tasks = <<>> => Running' = {} /\ pool'.tasks = <<>>
<1>0. PICK s, q, r, k :
        s = window.pending /\ q = pool.tasks /\ r = pool.runs /\ k = pool.kept
  OBVIOUS
<1> USE <1>0
<1>1. /\ s \in Seq(Job) /\ q \in Seq(Job) /\ r \in [PoolThreads -> Job \cup {Idle, Left}]
      /\ k \subseteq [frame : Nat, ok : BOOLEAN] /\ pool.stopping \in BOOLEAN
      /\ window'.pending = s /\ Running \subseteq PoolThreads
      /\ \A v \in PoolThreads : v \in Running <=> r[v] \notin {Idle, Left}
  BY DEF EntropyInv, PoolTyped, Running
<1>2. \A job \in Job : job \notin {Idle, Left}
  BY DEF Job, Idle, Left
<1>3. /\ \A i \in DOMAIN q : Awaits(s, k, q[i])
      /\ \A v \in Running : Awaits(s, k, r[v])
      /\ \A i, j \in DOMAIN q : q[i] = q[j] => i = j
      /\ \A v, w \in Running : r[v] = r[w] => v = w
      /\ \A i \in DOMAIN q, v \in Running : q[i] # r[v]
  BY DEF EntropyInv, TasksInv, Awaited
<1>4. WindowInv'
  BY DEF EntropyInv, WindowInv
<1>5. CASE TaskBegins(t)
  <2>1. /\ r[t] = Idle /\ q # <<>> /\ pool' = [pool EXCEPT !.runs[t] = Head(q), !.tasks = Tail(q)]
    BY <1>5 DEF TaskBegins
  <2>2. /\ Tail(q) \in Seq(Job) /\ Head(q) = q[1] /\ Head(q) \in Job
        /\ Len(q) \in Nat \ {0} /\ Len(Tail(q)) = Len(q) - 1
        /\ DOMAIN q = 1..Len(q) /\ DOMAIN Tail(q) = 1..(Len(q) - 1)
        /\ \A i \in 1..(Len(q) - 1) : Tail(q)[i] = q[i + 1]
    BY <1>1, <2>1, TakeFront
  <2>3. /\ pool'.runs = [r EXCEPT ![t] = q[1]] /\ pool'.tasks = Tail(q) /\ pool'.kept = k
        /\ PoolTyped'
    BY <1>1, <2>1, <2>2 DEF EntropyInv, PoolTyped
  <2>4. PICK new : new = [r EXCEPT ![t] = q[1]]
    OBVIOUS
  <2>5. /\ \A v \in PoolThreads : new[v] = IF v = t THEN q[1] ELSE r[v]
        /\ t \notin Running
    BY <1>1, <2>1, <2>4
  <2>6. Running' = Running \cup {t}
    BY <1>1, <1>2, <2>2, <2>3, <2>4, <2>5 DEF Running
  <2>7. 1 \in 1..Len(q) /\ \A i \in 1..(Len(q) - 1) : i + 1 \in 1..Len(q) /\ i + 1 # 1
    BY <2>2
  <2>8. \A i, j \in 1..(Len(q) - 1) : i + 1 = j + 1 => i = j
    OBVIOUS
  <2>9. /\ \A i \in DOMAIN Tail(q) : Awaits(s, k, Tail(q)[i])
        /\ \A i, j \in DOMAIN Tail(q) : Tail(q)[i] = Tail(q)[j] => i = j
        /\ \A i \in DOMAIN Tail(q), v \in Running \cup {t} : Tail(q)[i] # new[v]
    <3>1. ASSUME NEW i \in DOMAIN Tail(q)
          PROVE  /\ Awaits(s, k, Tail(q)[i]) /\ i + 1 \in DOMAIN q
                 /\ Tail(q)[i] = q[i + 1] /\ Tail(q)[i] # q[1]
                 /\ \A v \in Running : Tail(q)[i] # r[v]
      BY <1>3, <2>2, <2>7
    <3>2. ASSUME NEW i \in DOMAIN Tail(q), NEW j \in DOMAIN Tail(q), Tail(q)[i] = Tail(q)[j]
          PROVE  i = j
      BY <1>3, <2>2, <2>8, <3>1, <3>2
    <3> QED
      BY <1>1, <2>5, <3>1, <3>2
  <2>10. /\ \A v \in Running \cup {t} : Awaits(s, k, new[v])
         /\ \A v, w \in Running \cup {t} : new[v] = new[w] => v = w
    BY <1>1, <1>3, <2>2, <2>5, <2>7
  <2>11. TasksInv'
    BY <1>1, <2>3, <2>4, <2>6, <2>9, <2>10 DEF TasksInv, Awaited
  <2> QED
    BY <1>4, <2>1, <2>3, <2>11 DEF EntropyInv
<1>6. CASE TaskEnds(t)
  <2>1. PICK ok \in BOOLEAN :
          pool' = [pool EXCEPT !.runs[t] = Idle, !.kept = k \cup {[frame |-> r[t].frame, ok |-> ok]}]
    BY <1>6 DEF TaskEnds
  <2>2. t \in Running /\ r[t] \in Job /\ r[t].frame \in Nat
    BY <1>1, <1>6 DEF TaskEnds, Job
  <2>3. PICK new, more : /\ new = [r EXCEPT ![t] = Idle]
                         /\ more = k \cup {[frame |-> r[t].frame, ok |-> ok]}
    OBVIOUS
  <2>4. /\ pool'.runs = new /\ pool'.tasks = q /\ pool'.kept = more
        /\ more \subseteq [frame : Nat, ok : BOOLEAN]
        /\ new \in [PoolThreads -> Job \cup {Idle, Left}]
    BY <1>1, <2>1, <2>2, <2>3 DEF EntropyInv, PoolTyped
  <2>5. PoolTyped'
    BY <1>1, <2>1, <2>3, <2>4 DEF EntropyInv, PoolTyped
  <2>6. \A v \in PoolThreads : new[v] = IF v = t THEN Idle ELSE r[v]
    BY <1>1, <2>3
  <2>7. Running' = Running \ {t}
    BY <1>1, <2>4, <2>6 DEF Running
  <2>8. PICK i \in DOMAIN s : s[i] = r[t]
    BY <1>3, <2>2 DEF Awaits
  <2>9. ASSUME NEW x, Awaits(s, k, x), x # r[t]
        PROVE  Awaits(s, more, x)
    <3>1. PICK j \in DOMAIN s : s[j] = x
      BY <2>9 DEF Awaits
    <3>2. x.frame # r[t].frame
      BY <2>8, <2>9, <3>1 DEF EntropyInv, WindowInv, Fits
    <3> QED
      BY <2>3, <2>9, <3>2 DEF Awaits
  <2>10. TasksInv'
    BY <1>1, <1>3, <2>2, <2>4, <2>6, <2>7, <2>9 DEF TasksInv, Awaited
  <2>11. \A j \in more \ k : j.frame = s[i].frame
    BY <2>3, <2>8
  <2> QED
    BY <1>4, <2>2, <2>4, <2>5, <2>10, <2>11 DEF EntropyInv
<1>7. CASE TaskThreadLeaves(t)
  <2>1. r[t] = Idle /\ pool' = [pool EXCEPT !.runs[t] = Left]
    BY <1>7 DEF TaskThreadLeaves
  <2>2. PICK new : new = [r EXCEPT ![t] = Left]
    OBVIOUS
  <2>3. pool'.runs = new /\ pool'.tasks = q /\ pool'.kept = k /\ PoolTyped'
    BY <1>1, <2>1, <2>2 DEF EntropyInv, PoolTyped
  <2>4. \A v \in PoolThreads : new[v] = IF v = t THEN Left ELSE r[v]
    BY <1>1, <2>2
  <2>5. Running' = Running /\ t \notin Running
    BY <1>1, <2>1, <2>3, <2>4 DEF Running
  <2>6. TasksInv'
    BY <1>1, <1>3, <2>3, <2>4, <2>5 DEF TasksInv, Awaited
  <2> QED
    BY <1>4, <2>3, <2>5, <2>6 DEF EntropyInv
<1> QED
  BY <1>5, <1>6, <1>7
-----------------------------------------------------------------------------
(* The frames on their way to the model.                                   *)

One(b) == IF b THEN 1 ELSE 0

\* s lists the numbers from n on; the jobs of s are for the frames from n on.
Counts(s, n) == \A i \in DOMAIN s : s[i] = n + i - 1
CountsJobs(s, n) == \A i \in DOMAIN s : s[i].frame = n + i - 1

\* Somebody may still decode.
Flows == cons.at \in Reading \/ (cons.at = "end" /\ ~cons.error /\ main.outcome # "failed")

\* How many frames left the window, entered it and reached the consumer.
Popped == Len(decoded) + One(run.at \in {"ready", "model"})
Submitted == Popped + Len(window.pending)
Handed == Submitted + One(cons.at \in {"pop", "submit"})

WindowFlow ==
  /\ Counts(decoded, 0)
  /\ Flows =>
       /\ run.at \in {"ready", "model"} => run.frame = Len(decoded)
       /\ run.at \in {"tensor", "flush", "reserve", "enqueue"} => run.frame = Len(decoded) - 1
       /\ CountsJobs(window.pending, Popped)
       /\ \A k \in pool.kept : k.frame < Submitted
       /\ cons.at \in {"pop", "submit"} => cons.data = Submitted

\* Nothing has stopped the stream before its end.
Undisturbed == main.at \in {"joinProducer", "joinConsumer", "drain"} /\ Flows

\* The producer closed the input, and what it read has gone to the consumer, waits or is
\* being added.
Complete ==
  /\ running \/ prod.error
  /\ pipe.outputClosed => pipe.left
  /\ pipe.inputClosed => prod.at = "end"
  /\ prod.at \in {"close", "end"} /\ ~prod.error => prod.next = StreamFrames
  /\ prod.next = Handed + Len(pipe.output) + Len(pipe.items) + One(prod.at = "add")
  /\ cons.at = "end" => pipe.output = <<>> /\ pipe.outputClosed

PipeFlow ==
  /\ cons.at \in Reading => Counts(pipe.output, Handed)
  /\ cons.at \in Reading /\ ~pipe.outputClosed =>
       Counts(pipe.items, Handed + Len(pipe.output))
  /\ pipe.left => pipe.items = <<>> /\ pipe.outputClosed /\ pipe.inputClosed
  /\ Undisturbed => Complete

\* When the window is gone, so are its tasks.
Freed == main.at \in After => Running = {} /\ pool.tasks = <<>>

StreamInv == ThreadsTyped /\ Control /\ EntropyInv /\ WindowFlow /\ PipeFlow /\ Freed

LEMMA CountsTail ==
  ASSUME NEW s \in Seq(Nat), s # <<>>, NEW n \in Nat, Counts(s, n)
  PROVE  Head(s) = n /\ Counts(Tail(s), n + 1) /\ Len(Tail(s)) = Len(s) - 1
<1>1. /\ Head(s) = s[1] /\ Len(s) \in Nat \ {0} /\ Len(Tail(s)) = Len(s) - 1
      /\ DOMAIN s = 1..Len(s) /\ DOMAIN Tail(s) = 1..(Len(s) - 1)
      /\ \A i \in 1..(Len(s) - 1) : Tail(s)[i] = s[i + 1]
  BY TakeFront
<1>2. \A i \in 1..(Len(s) - 1) : i + 1 \in 1..Len(s) /\ n + (i + 1) - 1 = (n + 1) + i - 1
  BY <1>1
<1>3. \A i \in 1..Len(s) : s[i] = n + i - 1
  BY <1>1 DEF Counts
<1>4. s[1] = n
  BY <1>1, <1>3
<1> QED
  BY <1>1, <1>2, <1>3, <1>4 DEF Counts

LEMMA CountsMore ==
  ASSUME NEW s \in Seq(Nat), NEW n \in Nat, Counts(s, n)
  PROVE  /\ Counts(Append(s, n + Len(s)), n) /\ Len(Append(s, n + Len(s))) = Len(s) + 1
         /\ Append(s, n + Len(s)) \in Seq(Nat)
<1> DEFINE x == n + Len(s)
<1>1. x \in Nat
  OBVIOUS
<1> HIDE DEF x
<1>2. /\ Append(s, x) \in Seq(Nat) /\ Len(s) \in Nat /\ Len(Append(s, x)) = Len(s) + 1
      /\ DOMAIN s = 1..Len(s) /\ DOMAIN Append(s, x) = 1..(Len(s) + 1)
      /\ Append(s, x)[Len(s) + 1] = x
      /\ \A i \in 1..Len(s) : Append(s, x)[i] = s[i]
  BY <1>1, PutBack
<1>3. \A i \in 1..(Len(s) + 1) : i \in 1..Len(s) \/ i = Len(s) + 1
  BY <1>2
<1>4. Counts(Append(s, x), n)
  BY <1>2, <1>3 DEF Counts, x
<1> QED
  BY <1>2, <1>4 DEF x

\* The numbers of the flow.
LEMMA FlowTyped ==
  ASSUME ThreadsTyped, EntropyInv
  PROVE  /\ Len(decoded) \in Nat /\ Popped \in Nat /\ Submitted \in Nat /\ Handed \in Nat
         /\ Len(window.pending) \in Nat /\ DOMAIN window.pending = 1..Len(window.pending)
         /\ pipe.items \in Seq(Nat) /\ pipe.output \in Seq(Nat)
         /\ Len(pipe.items) \in Nat /\ Len(pipe.output) \in Nat
<1>1. /\ decoded \in Seq(Nat) /\ window.pending \in Seq(Job)
      /\ pipe.items \in Seq(Nat) /\ pipe.output \in Seq(Nat)
  BY DEF ThreadsTyped, EntropyInv, PoolTyped, Pipe
<1>2. /\ Len(decoded) \in Nat /\ Len(window.pending) \in Nat
      /\ DOMAIN window.pending = 1..Len(window.pending)
      /\ Len(pipe.items) \in Nat /\ Len(pipe.output) \in Nat
  BY <1>1
<1>4. One(run.at \in {"ready", "model"}) \in Nat /\ One(cons.at \in {"pop", "submit"}) \in Nat
  BY DEF One
<1>5. Popped \in Nat /\ Submitted \in Nat
  BY <1>2, <1>4 DEF Popped, Submitted
<1>6. Handed \in Nat
  BY <1>4, <1>5 DEF Handed
<1> QED
  BY <1>1, <1>2, <1>5, <1>6

LEMMA StreamInit == Init => StreamInv
<1> SUFFICES ASSUME Init PROVE StreamInv
  OBVIOUS
<1>1. PoolTyped
  BY PoolAssumption, WindowAssumption DEF Init, WindowInit, PoolInit, PoolTyped, Idle
<1>2. WindowInv
  BY FS_EmptySet DEF Init, WindowInit, WindowInv, Fits
<1>3. Running = {} /\ TasksInv
  BY DEF Init, WindowInit, PoolInit, Running, TasksInv, Idle
<1>4. WindowFlow
  BY DEF Init, WindowInit, PoolInit, WindowFlow, Counts, CountsJobs, Flows, Popped, Submitted, One,
    NotRunning
<1>5. PipeFlow
  BY DecodeAssumption
     DEF Init, WindowInit, PipeFlow, Complete, Counts, Handed, Popped, Submitted, One, NotRunning
<1> QED
  BY <1>1, <1>2, <1>3, <1>4, <1>5, ControlInit DEF StreamInv, EntropyInv, Freed, Init, After

\* Steps that leave the frames from the window on alone.
LEMMA WindowFlowKept ==
  ASSUME WindowFlow, UNCHANGED <<decoded, run, cons, window>>, pool'.kept = pool.kept,
         Flows' => Flows
  PROVE  WindowFlow' /\ Handed' = Handed
BY DEF WindowFlow, Handed, Submitted, Popped

\* The tasks' part of a step that does not touch them.
LEMMA EntropyKept ==
  ASSUME EntropyInv, UNCHANGED entropyVars
  PROVE  EntropyInv' /\ Running' = Running /\ pool'.kept = pool.kept
<1>1. window' = window /\ pool' = pool
  BY DEF entropyVars
<1>2. Running' = Running
  BY <1>1 DEF Running
<1>3. PoolTyped' /\ WindowInv'
  BY <1>1 DEF EntropyInv, PoolTyped, WindowInv
<1>4. TasksInv'
  BY <1>1, <1>2 DEF EntropyInv, TasksInv, Awaited
<1> QED
  BY <1>1, <1>2, <1>3, <1>4 DEF EntropyInv

LEMMA StreamPipeline ==
  ASSUME StreamInv, PipelinePublish \/ PipelineLeaves
  PROVE  StreamInv'
<1> USE DEF StreamInv
<1>1. UNCHANGED <<entropyVars, running, prod, cons, main, run, decoded>>
  BY DEF PipelinePublish, PipelineLeaves, Quiet, threads
<1>2. EntropyInv' /\ Running' = Running /\ window' = window /\ pool' = pool
  BY <1>1, EntropyKept DEF entropyVars
<1>3. WindowFlow' /\ Handed' = Handed /\ Flows' = Flows /\ Undisturbed' = Undisturbed
  BY <1>1, <1>2, WindowFlowKept DEF Flows, Undisturbed
<1>4. Handed \in Nat /\ pipe.items \in Seq(Nat) /\ pipe.output \in Seq(Nat)
      /\ Len(pipe.items) \in Nat /\ Len(pipe.output) \in Nat
  BY FlowTyped
<1>5. pipe \in Pipe
  BY DEF ThreadsTyped
<1>6. CASE PipelinePublish /\ pipe.outputClosed
  <2>1. /\ pipe'.output = pipe.output /\ pipe'.outputClosed /\ pipe'.left = pipe.left
        /\ pipe'.inputClosed = pipe.inputClosed /\ pipe.items # <<>>
    BY <1>5, <1>6 DEF PipelinePublish, Pipe
  <2>2. ~pipe.left /\ ~Undisturbed
    BY <1>6, <2>1 DEF PipeFlow, Complete
  <2>3. PipeFlow'
    BY <1>1, <1>3, <2>1, <2>2 DEF PipeFlow
  <2> QED
    BY <1>1, <1>2, <1>3, <2>3, ControlPipeline DEF Freed
<1>7. CASE PipelinePublish /\ ~pipe.outputClosed
  <2>1. /\ pipe'.items = Tail(pipe.items) /\ pipe'.output = Append(pipe.output, Head(pipe.items))
        /\ pipe'.outputClosed = pipe.outputClosed /\ pipe'.left = pipe.left
        /\ pipe'.inputClosed = pipe.inputClosed /\ pipe.items # <<>>
    BY <1>5, <1>7 DEF PipelinePublish, Pipe
  <2>2. /\ ~pipe.left
        /\ cons.at \in Reading => Counts(pipe.output, Handed)
                                    /\ Counts(pipe.items, Handed + Len(pipe.output))
    BY <1>7, <2>1 DEF PipeFlow
  <2>3. Len(pipe'.output) = Len(pipe.output) + 1 /\ Len(pipe'.items) = Len(pipe.items) - 1
    BY <1>4, <2>1, TakeFront, PutBack
  <2>4. ASSUME cons.at \in Reading
        PROVE  Counts(pipe'.output, Handed) /\ Counts(pipe'.items, Handed + Len(pipe'.output))
    <3>1. Handed + Len(pipe.output) \in Nat
      BY <1>4
    <3>2. Head(pipe.items) = Handed + Len(pipe.output)
          /\ Counts(Tail(pipe.items), Handed + Len(pipe.output) + 1)
      BY <1>4, <2>1, <2>2, <2>4, <3>1, CountsTail
    <3>3. Counts(Append(pipe.output, Handed + Len(pipe.output)), Handed)
      BY <1>4, <2>2, <2>4, CountsMore
    <3>4. Handed + Len(pipe'.output) = Handed + Len(pipe.output) + 1
      BY <1>4, <2>3
    <3> QED
      BY <2>1, <3>2, <3>3, <3>4
  <2>5. Complete /\ Undisturbed => Complete'
    <3>1. ASSUME Complete, Undisturbed PROVE cons.at # "end"
      BY <1>7, <3>1 DEF Complete
    <3>2. Complete => prod'.next = Handed' + Len(pipe'.output) + Len(pipe'.items)
                                     + One(prod'.at = "add")
      <4>1. \A o \in {0, 1} : Handed + Len(pipe.output) + Len(pipe.items) + o
                               = Handed + Len(pipe'.output) + Len(pipe'.items) + o
        <5>1. \A h, a, b \in Nat, o \in {0, 1} : h + a + b + o = h + (a + 1) + (b - 1) + o
          OBVIOUS
        <5>2. PICK a \in Nat, b \in Nat : a = Len(pipe.output) /\ b = Len(pipe.items)
          BY <1>4
        <5>3. Len(pipe'.output) = a + 1 /\ Len(pipe'.items) = b - 1
          BY <2>3, <5>2
        <5>4. \A o \in {0, 1} : Handed + a + b + o = Handed + (a + 1) + (b - 1) + o
          BY <1>4, <5>1
        <5> QED
          BY <5>2, <5>3, <5>4
      <4>2. One(prod.at = "add") \in {0, 1}
        BY DEF One
      <4> QED
        BY <1>1, <1>3, <4>1, <4>2 DEF Complete
    <3> QED
      BY <1>1, <1>3, <2>1, <3>1, <3>2 DEF Complete
  <2>6. PipeFlow'
    BY <1>1, <1>3, <2>1, <2>2, <2>4, <2>5 DEF PipeFlow
  <2> QED
    BY <1>1, <1>2, <1>3, <2>6, ControlPipeline DEF Freed
<1>8. CASE PipelineLeaves
  <2>1. /\ pipe'.items = pipe.items /\ pipe'.output = pipe.output /\ pipe.items = <<>>
        /\ pipe'.outputClosed /\ pipe'.left /\ pipe'.inputClosed = pipe.inputClosed
        /\ pipe.inputClosed
    BY <1>5, <1>8 DEF PipelineLeaves, Pipe
  <2>2. Complete /\ Undisturbed => Complete'
    BY <1>1, <1>3, <2>1 DEF Complete
  <2>3. PipeFlow'
    BY <1>1, <1>3, <2>1, <2>2 DEF PipeFlow
  <2> QED
    BY <1>1, <1>2, <1>3, <2>3, ControlPipeline DEF Freed
<1> QED
  BY <1>6, <1>7, <1>8

LEMMA StreamProducer ==
  ASSUME StreamInv, Producer
  PROVE  StreamInv'
<1> USE DEF StreamInv
<1>1. UNCHANGED <<entropyVars, cons, main, run, decoded>>
  BY DEF Producer, ProdRead, ProdThrows, ProdAdd, ProdClose, OnlyProducer, Quiet
<1>2. EntropyInv' /\ Running' = Running /\ window' = window /\ pool' = pool
  BY <1>1, EntropyKept DEF entropyVars
<1>3. WindowFlow' /\ Handed' = Handed /\ Flows' = Flows /\ Undisturbed' = Undisturbed
  BY <1>1, <1>2, WindowFlowKept DEF Flows, Undisturbed
<1>4. Handed \in Nat /\ pipe.items \in Seq(Nat) /\ pipe.output \in Seq(Nat)
      /\ Len(pipe.items) \in Nat /\ Len(pipe.output) \in Nat
  BY FlowTyped
<1>5. /\ pipe \in Pipe
      /\ prod \in [at : {"read", "add", "close", "end"}, next : 0..StreamFrames, error : BOOLEAN]
      /\ running \in BOOLEAN /\ prod.next \in Nat
  BY DecodeAssumption DEF ThreadsTyped
<1>6. main.at \notin Before \ {"joinProducer"} /\ (Flows => Undisturbed)
  <2>1. prod.at # "end"
    BY DEF Producer, ProdRead, ProdThrows, ProdAdd, ProdClose
  <2> QED
    BY <2>1 DEF Control, Before, Middle, After, Undisturbed, Flows, ThreadsTyped
<1>7. PipeFlow'
  <2>1. CASE ProdRead
    <3>1. pipe' = pipe /\ running' = running
          /\ prod.at = "read" /\ prod'.error = prod.error
          /\ \/ prod'.at = "add" /\ prod'.next = prod.next + 1
             \/ /\ prod'.at = "close" /\ prod'.next = prod.next
                /\ ~running \/ prod.next = StreamFrames
      BY <1>5, <2>1 DEF ProdRead
    <3>2. ASSUME Complete PROVE Complete'
      <4>1. prod'.next = Handed + Len(pipe.output) + Len(pipe.items) + One(prod'.at = "add")
        <5>1. prod.next = Handed + Len(pipe.output) + Len(pipe.items) + 0
          BY <3>1, <3>2 DEF Complete, One
        <5>2. CASE prod'.at = "add" /\ prod'.next = prod.next + 1
          BY <1>4, <5>1, <5>2 DEF One
        <5>3. CASE prod'.at = "close" /\ prod'.next = prod.next
          BY <5>1, <5>3 DEF One
        <5> QED
          BY <3>1, <5>2, <5>3
      <4>2. prod'.at = "close" /\ ~prod'.error => prod'.next = StreamFrames
        BY <3>1, <3>2 DEF Complete
      <4> QED
        BY <1>1, <1>3, <3>1, <3>2, <4>1, <4>2 DEF Complete
    <3> QED
      BY <1>1, <1>3, <3>1, <3>2 DEF PipeFlow
  <2>2. CASE ProdThrows
    <3>1. pipe' = pipe /\ prod.at = "read" /\ prod'.error /\ prod'.at = "close"
          /\ prod'.next = prod.next
      BY <1>5, <2>2 DEF ProdThrows
    <3>2. Complete => Complete'
      BY <1>1, <1>3, <1>4, <1>5, <3>1 DEF Complete, One
    <3> QED
      BY <1>1, <1>3, <3>1, <3>2 DEF PipeFlow
  <2>3. CASE ProdAdd /\ ~pipe.inputClosed
    <3> DEFINE x == prod.next - 1
    <3>1. /\ prod.at = "add" /\ prod' = [prod EXCEPT !.at = "read"] /\ running' = running
          /\ pipe' = [pipe EXCEPT !.items = Append(@, x), !.inFlight = @ + 1]
      BY <2>3 DEF ProdAdd
    <3>2. /\ prod'.at = "read" /\ prod'.next = prod.next /\ prod'.error = prod.error
          /\ pipe'.items = Append(pipe.items, x) /\ pipe'.output = pipe.output
          /\ pipe'.outputClosed = pipe.outputClosed /\ pipe'.left = pipe.left
          /\ pipe'.inputClosed = pipe.inputClosed
      BY <1>5, <3>1 DEF Pipe
    <3>3. x \in Nat
      BY <1>5, <3>1 DEF ThreadsTyped
    <3>4. Len(pipe'.items) = Len(pipe.items) + 1
      BY <1>4, <3>2, <3>3, PutBack
    <3>5. Complete => Complete'
      <4>1. /\ One(prod.at = "add") = 1 /\ One(prod'.at = "add") = 0
            /\ \A h, a, b \in Nat : h + a + b + 1 = h + a + (b + 1) + 0
        BY <3>1, <3>2 DEF One
      <4>2. Handed + Len(pipe.output) + Len(pipe.items) + 1
              = Handed + Len(pipe.output) + (Len(pipe.items) + 1) + 0
        BY <1>4, <4>1
      <4> QED
        BY <1>1, <1>3, <3>1, <3>2, <3>4, <4>1, <4>2 DEF Complete
    <3>6. ASSUME cons.at \in Reading, ~pipe.outputClosed
          PROVE  Counts(pipe'.items, Handed + Len(pipe.output))
      <4>1. Complete /\ Counts(pipe.items, Handed + Len(pipe.output))
        BY <1>6, <3>6 DEF PipeFlow, Flows
      <4>2. x = (Handed + Len(pipe.output)) + Len(pipe.items)
        BY <1>4, <1>5, <3>1, <4>1 DEF Complete, One
      <4>3. Handed + Len(pipe.output) \in Nat
        BY <1>4
      <4> QED
        BY <1>4, <3>2, <4>1, <4>2, <4>3, CountsMore
    <3>7. ~pipe.left
      BY <2>3 DEF PipeFlow
    <3> QED
      BY <1>1, <1>3, <3>1, <3>2, <3>5, <3>6, <3>7 DEF PipeFlow
  <2>4. CASE ProdAdd /\ pipe.inputClosed
    <3>1. prod.at = "add" /\ pipe' = pipe
      BY <2>4 DEF ProdAdd
    <3>2. ~Undisturbed
      BY <2>4, <3>1 DEF PipeFlow, Complete
    <3> QED
      BY <1>1, <1>3, <3>1, <3>2 DEF PipeFlow
  <2>5. CASE ProdClose
    <3>1. /\ prod.at = "close" /\ prod'.at = "end" /\ prod'.next = prod.next
          /\ prod'.error = prod.error /\ running' = running
          /\ pipe'.items = pipe.items /\ pipe'.output = pipe.output
          /\ pipe'.outputClosed = pipe.outputClosed /\ pipe'.left = pipe.left /\ pipe'.inputClosed
      BY <1>5, <2>5 DEF ProdClose, Closed, Pipe
    <3>2. Complete => Complete'
      BY <1>1, <1>3, <1>4, <1>5, <3>1 DEF Complete, One
    <3> QED
      BY <1>1, <1>3, <3>1, <3>2 DEF PipeFlow
  <2> QED
    BY <2>1, <2>2, <2>3, <2>4, <2>5 DEF Producer
<1> QED
  BY <1>1, <1>2, <1>3, <1>7, ControlProducer DEF Freed

\* After a failure nothing more is decoded.
LEMMA DecodingFailed ==
  ASSUME StreamInv, UNCHANGED decoded, cons'.at \notin Reading, ~Flows',
         \/ pipe' = pipe
         \/ /\ pipe'.items = pipe.items /\ pipe'.left = pipe.left /\ pipe'.inputClosed
            /\ pipe'.outputClosed
  PROVE  WindowFlow' /\ PipeFlow'
BY DEF StreamInv, WindowFlow, PipeFlow, Undisturbed

\* A step that changes where the consumer is, and neither the pipeline nor the number of
\* frames that reached the consumer.
LEMMA PipeFlowKept ==
  ASSUME PipeFlow, UNCHANGED <<pipe, running, prod>>, Handed' = Handed,
         cons'.at \in Reading => cons.at \in Reading, Undisturbed' => Undisturbed,
         cons'.at = "end" => cons.at = "end"
  PROVE  PipeFlow'
BY DEF PipeFlow, Complete

\* The frame that leaves the window is the next one to decode.
LEMMA PopFlows ==
  ASSUME StreamInv, NEW f, PopFront(f, TRUE), Flows, run.at = "idle", decoded' = decoded,
         run'.at \in {"ready", "model"}
  PROVE  /\ Popped' = Popped + 1 /\ Submitted' = Submitted /\ f = Len(decoded)
         /\ CountsJobs(window'.pending, Popped + 1)
<1> DEFINE n == Len(window.pending)
<1>1. /\ EntropyInv' /\ n \in Nat \ {0} /\ f = window.pending[1].frame
      /\ Len(window'.pending) = n - 1
      /\ \A i \in 1..(n - 1) : window'.pending[i] = window.pending[i + 1]
  BY PopKeeps DEF StreamInv
<1>2. /\ Popped \in Nat /\ Len(decoded) \in Nat /\ DOMAIN window.pending = 1..n
  BY FlowTyped DEF StreamInv
<1> HIDE DEF n
<1>3. Popped = Len(decoded) /\ Popped' = Popped + 1
  <2>1. One(run.at \in {"ready", "model"}) = 0 /\ One(run'.at \in {"ready", "model"}) = 1
    BY DEF One
  <2> QED
    BY <1>2, <2>1 DEF Popped
<1>4. Submitted' = Submitted
  <2>1. \A a, b \in Nat : (a + 1) + (b - 1) = a + b
    OBVIOUS
  <2>2. (Popped + 1) + (n - 1) = Popped + n
    BY <1>1, <1>2, <2>1
  <2> QED
    BY <1>1, <1>3, <2>2 DEF Submitted, n
<1>5. \A i \in 1..n : window.pending[i].frame = Popped + i - 1
  BY <1>2 DEF StreamInv, WindowFlow, CountsJobs
<1>6. f = Len(decoded)
  <2>1. window.pending[1].frame = Popped + 1 - 1
    BY <1>1, <1>5
  <2> QED
    BY <1>1, <1>2, <1>3, <2>1
<1>7. DOMAIN window'.pending = 1..(n - 1)
  <2>1. window'.pending \in Seq(Job)
    BY <1>1 DEF EntropyInv, PoolTyped
  <2> QED
    BY <1>1, <2>1
<1>8. ASSUME NEW i \in 1..(n - 1)
      PROVE  window'.pending[i].frame = (Popped + 1) + i - 1
  <2>1. i + 1 \in 1..n
    BY <1>1
  <2>2. window'.pending[i].frame = Popped + (i + 1) - 1
    BY <1>1, <1>5, <2>1
  <2> QED
    BY <1>2, <2>2
<1> QED
  BY <1>3, <1>4, <1>6, <1>7, <1>8 DEF CountsJobs

LEMMA StreamConsumer ==
  ASSUME StreamInv, Consumer
  PROVE  StreamInv'
<1> USE DEF StreamInv
<1>1. UNCHANGED <<prod, main, decoded>> /\ cons.at # "end" /\ main.at \notin After
  <2>1. UNCHANGED <<prod, main, decoded>> /\ cons.at # "end"
    BY DEF Consumer, ConsGet, ConsEnd, ConsPop, ConsSubmit, ConsRan, ConsFail, ConsJoin, Quiet
  <2> QED
    BY <2>1 DEF Control
<1>2. SUFFICES EntropyInv' /\ WindowFlow' /\ PipeFlow'
  BY <1>1, ControlConsumer DEF Freed
<1>3. /\ Popped \in Nat /\ Submitted \in Nat /\ Handed \in Nat /\ Len(decoded) \in Nat
      /\ pipe.output \in Seq(Nat) /\ Len(pipe.items) \in Nat /\ Len(pipe.output) \in Nat
      /\ Len(window.pending) \in Nat /\ DOMAIN window.pending = 1..Len(window.pending)
  BY FlowTyped
<1>4. /\ pipe \in Pipe
      /\ cons \in [at : Reading \cup {"fail", "join", "end"}, data : Nat \cup {NoFrame},
                   error : BOOLEAN]
  BY DEF ThreadsTyped
<1>5. cons.at \in Reading => Flows /\ ~cons.error
  BY DEF Flows, Control, Reading
<1>6. cons.at \in {"get", "pop"} => run.at = "idle"
  <2>1. cons.at \in {"get", "pop"} => main.at # "drain"
    BY DEF Control, Before
  <2> QED
    BY <2>1 DEF Control
<1>7. CASE ConsGet
  <2>1. /\ cons.at = "get" /\ pipe.output # <<>> /\ cons'.at \in {"pop", "submit"}
        /\ cons'.data = Head(pipe.output) /\ cons'.error = cons.error
        /\ pipe'.output = Tail(pipe.output) /\ pipe'.items = pipe.items
        /\ pipe'.inputClosed = pipe.inputClosed /\ pipe'.outputClosed = pipe.outputClosed
        /\ pipe'.left = pipe.left /\ UNCHANGED <<window, pool, running, run>>
    BY <1>4, <1>7 DEF ConsGet, Quiet, Pipe, entropyVars
  <2>2. Handed = Submitted /\ Handed' = Handed + 1 /\ Submitted' = Submitted /\ Popped' = Popped
        /\ Flows' = Flows /\ Flows /\ cons.at \in Reading /\ Undisturbed' = Undisturbed
    BY <1>1, <1>3, <1>5, <2>1 DEF Handed, Submitted, Popped, One, Flows, Reading, Undisturbed
  <2>3. /\ Head(pipe.output) = Handed /\ Counts(Tail(pipe.output), Handed + 1)
        /\ Len(Tail(pipe.output)) = Len(pipe.output) - 1
    BY <1>3, <2>1, <2>2, CountsTail DEF PipeFlow
  <2>4. EntropyInv'
    BY <2>1, EntropyKept DEF entropyVars
  <2>5. WindowFlow'
    BY <1>1, <2>1, <2>2, <2>3 DEF WindowFlow
  <2>6. /\ Handed' + Len(pipe'.output) = Handed + Len(pipe.output)
        /\ Handed' + Len(pipe'.output) + Len(pipe'.items)
             = Handed + Len(pipe.output) + Len(pipe.items)
    <3>1. \A h, o, i \in Nat : (h + 1) + (o - 1) = h + o /\ (h + 1) + (o - 1) + i = h + o + i
      OBVIOUS
    <3>2. PICK h \in Nat, o \in Nat, i \in Nat :
            h = Handed /\ o = Len(pipe.output) /\ i = Len(pipe.items)
      BY <1>3
    <3>3. Handed' = h + 1 /\ Len(pipe'.output) = o - 1 /\ Len(pipe'.items) = i
      BY <2>1, <2>2, <2>3, <3>2
    <3>4. (h + 1) + (o - 1) = h + o /\ (h + 1) + (o - 1) + i = h + o + i
      BY <3>1
    <3> QED
      BY <3>2, <3>3, <3>4
  <2>7. Complete => Complete'
    BY <1>1, <2>1, <2>6 DEF Complete
  <2>8. PipeFlow'
    BY <1>1, <2>1, <2>2, <2>3, <2>6, <2>7 DEF PipeFlow
  <2> QED
    BY <2>4, <2>5, <2>8
<1>8. CASE ConsEnd
  <2>1. /\ cons.at = "get" /\ pipe.output = <<>> /\ pipe.outputClosed /\ cons'.at = "end"
        /\ cons'.error = cons.error /\ UNCHANGED <<window, pool, running, run, pipe>>
    BY <1>4, <1>8 DEF ConsEnd, Quiet, entropyVars
  <2>2. Handed' = Handed /\ Submitted' = Submitted /\ Popped' = Popped
        /\ (Flows' => Flows) /\ (Undisturbed' => Undisturbed)
    BY <1>1, <1>5, <2>1 DEF Handed, Submitted, Popped, One, Flows, Reading, Undisturbed
  <2>3. EntropyInv'
    BY <2>1, EntropyKept DEF entropyVars
  <2>4. WindowFlow'
    BY <1>1, <2>1, <2>2 DEF WindowFlow
  <2>5. Complete => Complete'
    BY <1>1, <2>1, <2>2 DEF Complete
  <2>6. PipeFlow'
    BY <1>1, <2>1, <2>2, <2>5 DEF PipeFlow, Reading
  <2> QED
    BY <2>3, <2>4, <2>6
<1>9. CASE ConsPop
  <2>1. PICK f \in 0..StreamFrames, ok \in BOOLEAN :
          /\ PopFront(f, ok) /\ cons.at = "pop" /\ UNCHANGED <<running, pipe>>
          /\ ok => cons' = [cons EXCEPT !.at = "submit"] /\ run' = [at |-> "ready", frame |-> f]
          /\ ~ok => cons' = [cons EXCEPT !.at = "fail", !.data = NoFrame]
    BY <1>9 DEF ConsPop
  <2>2. /\ EntropyInv' /\ pool' = pool
        /\ Len(window.pending) \in Nat \ {0} /\ f = window.pending[1].frame
        /\ Len(window'.pending) = Len(window.pending) - 1
        /\ \A i \in 1..(Len(window.pending) - 1) : window'.pending[i] = window.pending[i + 1]
    BY <2>1, PopKeeps
  <2>3. CASE ~ok
    <3>1. cons'.at = "fail"
      BY <1>4, <2>1, <2>3
    <3> QED
      BY <1>1, <2>1, <2>2, <3>1, DecodingFailed DEF Flows, Reading
  <2>4. CASE ok
    <3>1. /\ cons'.at = "submit" /\ cons'.data = cons.data /\ cons'.error = cons.error
          /\ run'.at = "ready" /\ run'.frame = f
      BY <1>4, <2>1, <2>4
    <3>2. /\ Popped' = Popped + 1 /\ Submitted' = Submitted /\ f = Len(decoded)
          /\ CountsJobs(window'.pending, Popped + 1)
      BY <1>1, <1>5, <1>6, <2>1, <2>4, <3>1, PopFlows DEF Reading
    <3>4. Handed' = Handed
      <4>1. One(cons.at \in {"pop", "submit"}) = 1 /\ One(cons'.at \in {"pop", "submit"}) = 1
        BY <2>1, <3>1 DEF One
      <4> QED
        BY <3>2, <4>1 DEF Handed
    <3>3. Flows /\ Flows' /\ Undisturbed' = Undisturbed
      BY <1>1, <1>5, <2>1, <3>1 DEF Flows, Reading, Undisturbed
    <3>7. WindowFlow'
      BY <1>1, <2>1, <2>2, <3>1, <3>2, <3>3 DEF WindowFlow
    <3>8. PipeFlow'
      BY <1>1, <2>1, <3>1, <3>3, <3>4, PipeFlowKept DEF Reading
    <3> QED
      BY <2>2, <3>7, <3>8
  <2> QED
    BY <2>3, <2>4
<1>10. CASE ConsSubmit
  <2>1. /\ cons.at = "submit" /\ SubmitNext(cons.data) /\ UNCHANGED <<running, pipe>>
        /\ run' = IF run.at = "ready" THEN [run EXCEPT !.at = "model"] ELSE NotRunning
        /\ cons' = [cons EXCEPT !.at = "run"]
    BY <1>10 DEF ConsSubmit
  <2>2. Flows /\ Flows' /\ Undisturbed' = Undisturbed /\ cons'.at = "run"
    BY <1>1, <1>4, <1>5, <2>1 DEF Flows, Reading, Undisturbed
  <2>3. cons.data = Submitted /\ cons.data \in Nat
    BY <1>3, <2>1, <2>2 DEF WindowFlow
  <2>4. ~Ready(cons.data)
    <3>1. \A k \in pool.kept : k.frame < Submitted
      BY <2>2 DEF WindowFlow
    <3>2. ASSUME NEW ok, [frame |-> cons.data, ok |-> ok] \in pool.kept PROVE cons.data < Submitted
      BY <3>1, <3>2
    <3>3. ~(cons.data < Submitted)
      BY <1>3, <2>3
    <3> QED
      BY <3>2, <3>3 DEF Ready, Kept
  <2>5. \A i \in 1..Len(window.pending) : window.pending[i].frame = Popped + i - 1
    BY <1>3, <2>2 DEF WindowFlow, CountsJobs
  <2>6. \A i \in DOMAIN window.pending : window.pending[i].frame # cons.data
    BY <1>3, <2>3, <2>5 DEF Submitted
  <2>7. /\ EntropyInv' /\ pool'.kept = pool.kept
        /\ Len(window'.pending) = Len(window.pending) + 1
        /\ \A i \in 1..Len(window.pending) : window'.pending[i] = window.pending[i]
        /\ window'.pending[Len(window.pending) + 1].frame = cons.data
    BY <2>1, <2>3, <2>4, <2>6, SubmitKeeps
  <2>8. /\ run.at = "ready" => run'.at = "model" /\ run'.frame = run.frame
        /\ run.at # "ready" => run.at = "idle" /\ run'.at = "idle"
    <3>1. run.at # "ready" => run.at = "idle"
      BY <1>1, <2>1 DEF Control, Before
    <3> QED
      BY <2>1, <3>1 DEF NotRunning, ThreadsTyped
  <2>9. Popped' = Popped /\ Submitted' = Submitted + 1 /\ Handed' = Handed
    <3>1. Popped' = Popped
      BY <1>1, <2>8 DEF Popped, One
    <3>2. Submitted' = Submitted + 1
      BY <1>3, <2>7, <3>1 DEF Submitted
    <3>3. One(cons.at \in {"pop", "submit"}) = 1 /\ One(cons'.at \in {"pop", "submit"}) = 0
      BY <2>1, <2>2 DEF One
    <3> QED
      BY <1>3, <3>1, <3>2, <3>3 DEF Handed
  <2>10. CountsJobs(window'.pending, Popped)
    <3>1. DOMAIN window'.pending = 1..(Len(window.pending) + 1)
      <4>1. window'.pending \in Seq(Job)
        BY <2>7 DEF EntropyInv, PoolTyped
      <4> QED
        BY <2>7, <4>1
    <3>2. \A i \in 1..(Len(window.pending) + 1) : i \in 1..Len(window.pending)
                                                  \/ i = Len(window.pending) + 1
      BY <1>3
    <3>3. cons.data = Popped + (Len(window.pending) + 1) - 1
      BY <1>3, <2>3 DEF Submitted
    <3> QED
      BY <2>5, <2>7, <3>1, <3>2, <3>3 DEF CountsJobs
  <2>11. \A k \in pool'.kept : k.frame < Submitted + 1
    <3>1. \A k \in pool.kept : k.frame < Submitted /\ k.frame \in Nat
      BY <2>2 DEF WindowFlow, EntropyInv, PoolTyped
    <3> QED
      BY <1>3, <2>7, <3>1
  <2>12. WindowFlow'
    BY <1>1, <2>2, <2>8, <2>9, <2>10, <2>11 DEF WindowFlow
  <2>13. PipeFlow'
    BY <1>1, <2>1, <2>2, <2>9, PipeFlowKept DEF Reading
  <2> QED
    BY <2>7, <2>12, <2>13
<1>11. CASE ConsRan
  <2>1. /\ cons.at = "run" /\ cons'.at = "get" /\ cons'.error = cons.error
        /\ UNCHANGED <<window, pool, running, run, pipe>>
    BY <1>4, <1>11 DEF ConsRan, Quiet, entropyVars
  <2>2. Handed' = Handed /\ Submitted' = Submitted /\ Popped' = Popped
        /\ Flows' = Flows /\ Undisturbed' = Undisturbed
    BY <1>1, <2>1 DEF Handed, Submitted, Popped, One, Flows, Reading, Undisturbed
  <2>3. EntropyInv'
    BY <2>1, EntropyKept DEF entropyVars
  <2>4. WindowFlow'
    BY <1>1, <2>1, <2>2 DEF WindowFlow
  <2>5. PipeFlow'
    BY <1>1, <2>1, <2>2, PipeFlowKept DEF Reading
  <2> QED
    BY <2>3, <2>4, <2>5
<1>12. CASE ConsFail
  <2>1. /\ cons'.at = "join" /\ UNCHANGED <<window, pool>>
        /\ pipe'.items = pipe.items /\ pipe'.left = pipe.left /\ pipe'.inputClosed
        /\ pipe'.outputClosed
    BY <1>4, <1>12 DEF ConsFail, Quiet, entropyVars, Shut, Pipe
  <2>2. EntropyInv'
    BY <2>1, EntropyKept DEF entropyVars
  <2> QED
    BY <1>1, <2>1, <2>2, DecodingFailed DEF Flows, Reading
<1>13. CASE ConsJoin
  <2>1. cons'.at = "end" /\ cons'.error /\ UNCHANGED <<window, pool, pipe>>
    BY <1>4, <1>13 DEF ConsJoin, Quiet, entropyVars, Control
  <2>2. EntropyInv'
    BY <2>1, EntropyKept DEF entropyVars
  <2> QED
    BY <1>1, <2>1, <2>2, DecodingFailed DEF Flows, Reading
<1> QED
  BY <1>7, <1>8, <1>9, <1>10, <1>11, <1>12, <1>13 DEF Consumer

\* Who decodes has not failed.
LEMMA RunFlows ==
  ASSUME ThreadsTyped, Control, run.at \notin {"idle", "ready"}
  PROVE  Flows /\ main.at \notin After
BY DEF ThreadsTyped, Control, Flows, Reading, Before, Middle, After

LEMMA StreamRun ==
  ASSUME StreamInv, Run
  PROVE  StreamInv'
<1> USE DEF StreamInv
<1>1. run.at \notin {"idle", "ready"} /\ UNCHANGED <<window, pool, running, pipe, prod>>
  BY DEF Run, RunModel, RunTensor, RunFlush, RunReserve, RunEnqueue, RunThrows, StaysInRun,
    entropyVars, threads
<1>2. Flows /\ main.at \notin After
  BY <1>1, RunFlows
<1>3. EntropyInv' /\ Running' = Running
  BY <1>1, EntropyKept DEF entropyVars
<1>4. SUFFICES WindowFlow' /\ PipeFlow' /\ main'.at \notin After
  BY <1>3, ControlRun DEF Freed
<1>5. ASSUME NEW label \in RunAt \ {"ready", "model"}, RunGoto(label), UNCHANGED <<cons, main>>,
             \/ decoded' = decoded /\ run.at # "model"
             \/ decoded' = Append(decoded, run.frame) /\ run.at = "model"
      PROVE  WindowFlow' /\ PipeFlow' /\ main'.at \notin After
  <2>1. /\ run'.at = label
        /\ label # "idle" => run'.frame = run.frame
        /\ decoded \in Seq(Nat)
    BY <1>5, RunGoes DEF ThreadsTyped
  <2>2. Flows' = Flows /\ Undisturbed' = Undisturbed
    BY <1>5 DEF Flows, Undisturbed
  <2>3. Popped' = Popped /\ Submitted' = Submitted /\ Handed' = Handed
    <3>1. Popped' = Popped
      <4>1. CASE run.at = "model"
        <5>1. Len(decoded') = Len(decoded) + 1
          BY <1>5, <2>1, <4>1
        <5>2. One(run.at \in {"ready", "model"}) = 1 /\ One(run'.at \in {"ready", "model"}) = 0
          BY <1>5, <2>1, <4>1 DEF One
        <5> QED
          BY <2>1, <5>1, <5>2 DEF Popped
      <4>2. CASE run.at # "model"
        BY <1>1, <1>5, <2>1, <4>2 DEF Popped, One
      <4> QED
        BY <4>1, <4>2
    <3> QED
      BY <1>1, <1>5, <3>1 DEF Submitted, Handed
  <2>4. Counts(decoded', 0) /\ (label # "idle" => run'.frame = Len(decoded') - 1)
    <3>1. CASE run.at = "model"
      <4>1. run.frame = 0 + Len(decoded) /\ Len(decoded) \in Nat /\ Counts(decoded, 0)
        BY <1>2, <2>1, <3>1 DEF WindowFlow
      <4>2. Counts(Append(decoded, 0 + Len(decoded)), 0)
            /\ Len(Append(decoded, 0 + Len(decoded))) = Len(decoded) + 1
        BY <2>1, <4>1, CountsMore
      <4>3. 0 + Len(decoded) = Len(decoded) /\ (Len(decoded) + 1) - 1 = Len(decoded)
        BY <4>1
      <4>4. decoded' = Append(decoded, 0 + Len(decoded)) /\ run.frame = Len(decoded)
        BY <1>5, <3>1, <4>1, <4>3
      <4> QED
        BY <2>1, <4>2, <4>3, <4>4
    <3>2. CASE run.at # "model"
      BY <1>1, <1>2, <1>5, <2>1, <3>2 DEF WindowFlow, ThreadsTyped, RunAt
    <3> QED
      BY <3>1, <3>2
  <2>5. WindowFlow'
    BY <1>1, <1>2, <1>5, <2>1, <2>2, <2>3, <2>4 DEF WindowFlow, RunAt
  <2>6. PipeFlow'
    BY <1>1, <1>5, <2>2, <2>3, PipeFlowKept
  <2> QED
    BY <1>2, <1>5, <2>5, <2>6
<1>6. CASE RunModel
  <2>1. PICK label \in RunAt \ {"ready", "model"} : RunGoto(label)
    BY <1>6 DEF RunModel, RunAt, ThreadsTyped
  <2> QED
    BY <1>5, <1>6, <2>1 DEF RunModel, StaysInRun, threads
<1>7. CASE RunTensor
  BY <1>5, <1>7 DEF RunTensor, StaysInRun, threads, RunAt
<1>8. CASE RunFlush
  BY <1>5, <1>8 DEF RunFlush, StaysInRun, threads, RunAt
<1>9. CASE RunReserve
  BY <1>5, <1>9 DEF RunReserve, StaysInRun, threads, RunAt
<1>10. CASE RunEnqueue
  BY <1>5, <1>10 DEF RunEnqueue, StaysInRun, threads, RunAt
<1>11. CASE RunThrows
  <2>1. decoded' = decoded /\ CallerThrows
    BY <1>11 DEF RunThrows
  <2>2. cons'.at \notin Reading /\ ~Flows' /\ main'.at \notin After
    <3>1. CASE main.at = "drain"
      BY <2>1, <3>1 DEF CallerThrows, Control, Before, Flows, Reading, After
    <3>2. CASE main.at # "drain"
      BY <1>2, <2>1, <3>2 DEF CallerThrows, ThreadsTyped, Flows, Reading
    <3> QED
      BY <3>1, <3>2
  <2> QED
    BY <1>1, <2>1, <2>2, DecodingFailed
<1> QED
  BY <1>6, <1>7, <1>8, <1>9, <1>10, <1>11 DEF Run

\* What the main thread does besides draining the window.
MainElse ==
  \/ MainJoinsProducer \/ MainJoinsConsumer \/ MainDrainsOutput \/ MainStops
  \/ MainJoinsPipeline \/ MainCloses \/ MainUnwinds \/ MainJoinsAll \/ MainFreesWindow
  \/ MainFreesOutput \/ MainJoinsVenc \/ MainFreesPublisher \/ MainReturns

LEMMA MainElseGoes ==
  ASSUME ThreadsTyped, Control, MainElse
  PROVE  /\ UNCHANGED <<prod, cons, run, decoded, window>>
         /\ \/ UNCHANGED <<pipe, running>>
            \/ /\ pipe'.items = pipe.items /\ pipe'.output = pipe.output
               /\ pipe'.left = pipe.left /\ pipe'.inputClosed /\ pipe'.outputClosed
               /\ main'.at \notin {"joinProducer", "joinConsumer", "drain"}
         /\ main'.at \in {"joinProducer", "joinConsumer", "drain"} =>
              main.at \in {"joinProducer", "joinConsumer", "drain"}
         /\ main'.outcome # "failed" => main.outcome # "failed"
         /\ main'.at \in After => main.at \in After \/ MainFreesWindow
         /\ pool' = pool \/ pool' = [pool EXCEPT !.stopping = TRUE]
<1> USE DEF Quiet, OnlyMain, MainGoto, MainThrows, entropyVars, After, Middle, Before
<1>1. main \in [at : Before \cup Middle \cup After, outcome : {"none", "ok", "failed"}]
  BY DEF ThreadsTyped
<1>2. /\ Shut.items = pipe.items /\ Shut.output = pipe.output /\ Shut.left = pipe.left
      /\ Shut.inputClosed /\ Shut.outputClosed
  BY DEF ThreadsTyped, Pipe, Shut
<1>3. MainJoinsProducer \/ MainJoinsConsumer => main.outcome = "none"
  BY DEF Control, MainJoinsProducer, MainJoinsConsumer
<1>4. CASE MainJoinsProducer \/ MainJoinsConsumer
  BY <1>1, <1>3, <1>4 DEF MainJoinsProducer, MainJoinsConsumer
<1>5. CASE MainDrainsOutput
  BY <1>1, <1>5 DEF MainDrainsOutput
<1>6. CASE MainStops \/ MainUnwinds
  BY <1>1, <1>2, <1>6 DEF MainStops, MainUnwinds
<1>7. CASE MainJoinsPipeline \/ MainReturns \/ MainJoinsAll
  BY <1>1, <1>7 DEF MainJoinsPipeline, MainReturns, MainJoinsAll
<1>8. CASE MainCloses
  BY <1>1, <1>8 DEF MainCloses, Control
<1>9. CASE MainFreesWindow
  BY <1>1, <1>9 DEF MainFreesWindow
<1>10. CASE MainFreesOutput
  BY <1>1, <1>10 DEF MainFreesOutput
<1>11. CASE MainJoinsVenc
  BY <1>1, <1>11 DEF MainJoinsVenc
<1>12. CASE MainFreesPublisher
  BY <1>1, <1>12 DEF MainFreesPublisher, PoolStop
<1> QED
  BY <1>4, <1>5, <1>6, <1>7, <1>8, <1>9, <1>10, <1>11, <1>12 DEF MainElse

\* Stopping the pool changes no task.
LEMMA EntropyStopped ==
  ASSUME EntropyInv, window' = window, pool' = [pool EXCEPT !.stopping = TRUE]
  PROVE  EntropyInv' /\ Running' = Running /\ pool'.kept = pool.kept /\ pool'.tasks = pool.tasks
<1>1. /\ pool'.kept = pool.kept /\ pool'.tasks = pool.tasks /\ pool'.runs = pool.runs
      /\ PoolTyped'
  BY DEF EntropyInv, PoolTyped
<1>2. Running' = Running
  BY <1>1 DEF Running
<1>3. WindowInv'
  BY DEF EntropyInv, WindowInv
<1>4. TasksInv'
  BY <1>1, <1>2 DEF EntropyInv, TasksInv, Awaited
<1> QED
  BY <1>1, <1>2, <1>3, <1>4 DEF EntropyInv

\* ~OrderedFutureWindow has waited for every task.
LEMMA WindowGone ==
  ASSUME EntropyInv, WindowDestroyed
  PROVE  Running = {} /\ pool.tasks = <<>>
<1>1. \A job : ~Awaited(job)
  BY DEF Awaited, Awaits, WindowDestroyed, Ready, Kept
<1>2. Running = {}
  BY <1>1 DEF EntropyInv, TasksInv
<1>3. pool.tasks \in Seq(Job)
  BY DEF EntropyInv, PoolTyped
<1>4. DOMAIN pool.tasks = {}
  BY <1>1 DEF EntropyInv, TasksInv
<1>5. Len(pool.tasks) = 0
  <2>1. Len(pool.tasks) \in Nat /\ DOMAIN pool.tasks = 1..Len(pool.tasks)
    BY <1>3
  <2>2. Len(pool.tasks) # 0 => 1 \in 1..Len(pool.tasks)
    BY <2>1
  <2> QED
    BY <1>4, <2>1, <2>2
<1> QED
  BY <1>2, <1>3, <1>5

LEMMA StreamMain ==
  ASSUME StreamInv, Main
  PROVE  StreamInv'
<1> USE DEF StreamInv
<1>1. CASE MainDrains
  <2>1. /\ main.at = "drain" /\ run.at = "idle" /\ UNCHANGED <<running, pipe, prod, cons, decoded>>
        /\ cons.at = "end" /\ Flows /\ main.outcome = "none"
    BY <1>1 DEF MainDrains, OnlyMain, NotRunning, Control, Before, Flows
  <2>2. CASE WindowEmpty /\ MainGoto("drainOutput") /\ UNCHANGED <<entropyVars, run>>
    <3>1. EntropyInv' /\ UNCHANGED <<window, run>> /\ pool'.kept = pool.kept
      BY <2>2, EntropyKept DEF entropyVars
    <3>2. main'.at = "drainOutput" /\ main'.outcome = main.outcome
      BY <2>2 DEF MainGoto, ThreadsTyped
    <3>3. WindowFlow' /\ Handed' = Handed
      BY <2>1, <3>1, WindowFlowKept
    <3>4. PipeFlow'
      BY <2>1, <3>2, <3>3, PipeFlowKept DEF Undisturbed
    <3> QED
      BY <1>1, <3>1, <3>2, <3>3, <3>4, ControlMain DEF Freed, After, Main
  <2>3. CASE ~(WindowEmpty /\ MainGoto("drainOutput") /\ UNCHANGED <<entropyVars, run>>)
    <3>1. PICK f \in 0..StreamFrames, ok \in BOOLEAN :
            /\ PopFront(f, ok)
            /\ ok => run' = [at |-> "model", frame |-> f] /\ main' = main
            /\ ~ok => MainThrows
      BY <1>1, <2>3 DEF MainDrains
    <3>2. EntropyInv' /\ pool' = pool
      BY <3>1, PopKeeps
    <3>3. CASE ok
      <4>1. run'.at = "model" /\ run'.frame = f /\ main' = main
        BY <3>1, <3>3
      <4>2. /\ Popped' = Popped + 1 /\ Submitted' = Submitted /\ f = Len(decoded)
            /\ CountsJobs(window'.pending, Popped + 1)
        BY <2>1, <3>1, <3>3, <4>1, PopFlows
      <4>3. Handed' = Handed /\ Flows' = Flows /\ Undisturbed' = Undisturbed
        BY <2>1, <4>1, <4>2 DEF Handed, Flows, Undisturbed
      <4>4. WindowFlow'
        BY <2>1, <3>2, <4>1, <4>2, <4>3 DEF WindowFlow
      <4>5. PipeFlow'
        BY <2>1, <4>1, <4>3, PipeFlowKept
      <4> QED
        BY <1>1, <2>1, <3>2, <4>1, <4>4, <4>5, ControlMain DEF Freed, After, Main
    <3>4. CASE ~ok
      <4>1. main'.at = "unwind" /\ main'.outcome = "failed"
        BY <3>1, <3>4 DEF MainThrows
      <4>2. WindowFlow' /\ PipeFlow'
        BY <2>1, <4>1, DecodingFailed DEF Flows, Reading
      <4> QED
        BY <1>1, <3>2, <4>1, <4>2, ControlMain DEF Freed, After, Main
    <3> QED
      BY <3>3, <3>4
  <2> QED
    BY <2>2, <2>3
<1>2. CASE MainElse
  <2>1. /\ UNCHANGED <<prod, cons, run, decoded, window>>
        /\ \/ UNCHANGED <<pipe, running>>
           \/ /\ pipe'.items = pipe.items /\ pipe'.output = pipe.output
              /\ pipe'.left = pipe.left /\ pipe'.inputClosed /\ pipe'.outputClosed
              /\ main'.at \notin {"joinProducer", "joinConsumer", "drain"}
        /\ main'.at \in {"joinProducer", "joinConsumer", "drain"} =>
             main.at \in {"joinProducer", "joinConsumer", "drain"}
        /\ main'.outcome # "failed" => main.outcome # "failed"
        /\ main'.at \in After => main.at \in After \/ MainFreesWindow
        /\ pool' = pool \/ pool' = [pool EXCEPT !.stopping = TRUE]
    BY <1>2, MainElseGoes
  <2>2. EntropyInv' /\ Running' = Running /\ pool'.kept = pool.kept /\ pool'.tasks = pool.tasks
    BY <2>1, EntropyKept, EntropyStopped DEF entropyVars
  <2>3. (Flows' => Flows) /\ (Undisturbed' => Undisturbed)
    BY <2>1 DEF Flows, Undisturbed
  <2>4. WindowFlow' /\ Handed' = Handed
    BY <2>1, <2>2, <2>3, WindowFlowKept
  <2>5. PipeFlow'
    <3>1. CASE UNCHANGED <<pipe, running>>
      BY <2>1, <2>3, <2>4, <3>1, PipeFlowKept
    <3>2. CASE ~UNCHANGED <<pipe, running>>
      BY <2>1, <2>4, <3>2 DEF PipeFlow, Undisturbed
    <3> QED
      BY <3>1, <3>2
  <2>6. Freed'
    <3>1. MainFreesWindow => WindowDestroyed
      BY DEF MainFreesWindow
    <3> QED
      BY <2>1, <2>2, <3>1, WindowGone DEF Freed
  <2> QED
    BY <2>2, <2>4, <2>5, <2>6, ControlMain
<1> QED
  BY <1>1, <1>2 DEF Main, MainElse

LEMMA StreamOthers ==
  ASSUME StreamInv, (\E t \in PoolThreads : PoolStep(t)) \/ DeviceStep \/ VencStep \/ WriterStep
  PROVE  StreamInv'
<1> USE DEF StreamInv
<1>1. UNCHANGED <<running, pipe, prod, cons, main, run, decoded>>
  BY DEF PoolStep, DeviceStep, VencStep, WriterStep, Others, threads
<1>2. Flows' = Flows /\ Undisturbed' = Undisturbed
  BY <1>1 DEF Flows, Undisturbed
<1>3. CASE UNCHANGED entropyVars
  <2>1. EntropyInv' /\ Running' = Running /\ UNCHANGED <<window, pool>>
    BY <1>3, EntropyKept DEF entropyVars
  <2>2. WindowFlow' /\ Handed' = Handed
    BY <1>1, <1>2, <2>1, WindowFlowKept
  <2> QED
    BY <1>1, <1>2, <2>1, <2>2, PipeFlowKept, ControlOthers DEF Freed
<1>4. ASSUME NEW t \in PoolThreads, PoolStep(t)
      PROVE  StreamInv'
  <2>1. (TaskBegins(t) \/ TaskEnds(t) \/ TaskThreadLeaves(t)) /\ window' = window
    BY <1>4 DEF PoolStep
  <2>2. /\ EntropyInv'
        /\ \A k \in pool'.kept \ pool.kept :
             \E i \in DOMAIN window.pending : k.frame = window.pending[i].frame
        /\ Running = {} /\ pool.tasks = <<>> => Running' = {} /\ pool'.tasks = <<>>
    BY <2>1, TaskKeeps
  <2>3. Popped' = Popped /\ Submitted' = Submitted /\ Handed' = Handed
    BY <1>1, <2>1 DEF Popped, Submitted, Handed
  <2>4. ASSUME Flows, NEW k \in pool'.kept
        PROVE  k.frame < Submitted
    <3>1. CASE k \in pool.kept
      BY <2>4, <3>1 DEF WindowFlow
    <3>2. ASSUME NEW i \in DOMAIN window.pending, k.frame = window.pending[i].frame
          PROVE  k.frame < Submitted
      <4>1. window.pending[i].frame = Popped + i - 1
        BY <2>4 DEF WindowFlow, CountsJobs
      <4>2. /\ Popped \in Nat /\ Len(window.pending) \in Nat
            /\ DOMAIN window.pending = 1..Len(window.pending)
        BY FlowTyped
      <4> QED
        BY <3>2, <4>1, <4>2 DEF Submitted
    <3> QED
      BY <2>2, <3>1, <3>2
  <2>5. WindowFlow'
    BY <1>1, <1>2, <2>1, <2>3, <2>4 DEF WindowFlow
  <2>6. PipeFlow'
    BY <1>1, <1>2, <2>3, PipeFlowKept
  <2>7. Freed'
    BY <1>1, <2>2 DEF Freed
  <2> QED
    BY <1>4, <2>2, <2>5, <2>6, <2>7, ControlOthers
<1> QED
  BY <1>3, <1>4 DEF DeviceStep, VencStep, WriterStep

LEMMA StreamStep == StreamInv /\ [Next]_vars => StreamInv'
<1> SUFFICES ASSUME StreamInv, [Next]_vars
             PROVE  StreamInv'
  OBVIOUS
<1>1. CASE UNCHANGED vars
  <2>1. UNCHANGED <<running, pipe, prod, cons, main, run, decoded, entropyVars, output>>
    BY <1>1 DEF vars, threads, rtspVars
  <2>2. EntropyInv' /\ Running' = Running /\ UNCHANGED <<window, pool>>
    BY <2>1, EntropyKept DEF StreamInv, entropyVars
  <2>3. WindowFlow' /\ Handed' = Handed /\ Undisturbed' = Undisturbed
    BY <2>1, <2>2, WindowFlowKept DEF StreamInv, Flows, Undisturbed
  <2>4. PipeFlow'
    BY <2>1, <2>3, PipeFlowKept DEF StreamInv
  <2> QED
    BY <1>1, <2>1, <2>2, <2>3, <2>4, ControlStep DEF StreamInv, Freed
<1> QED
  BY <1>1, StreamPipeline, StreamProducer, StreamConsumer, StreamRun, StreamMain, StreamOthers
     DEF Next

\* An entropy decoder is used by one task at a time, and none runs on when the decoders
\* have gone (OrderedFutureWindow's slots and its destructor).
THEOREM DecodersCorrect == Spec => []DecodersUsedSafely
<1>1. StreamInv => DecodersUsedSafely
  <2> SUFFICES ASSUME StreamInv, NEW t \in Running, NEW u \in Running,
                      pool.runs[t].slot = pool.runs[u].slot
               PROVE  t = u
    BY DEF DecodersUsedSafely, StreamInv, Freed, After
  <2>1. PICK i \in DOMAIN window.pending : window.pending[i] = pool.runs[t]
    BY DEF StreamInv, EntropyInv, TasksInv, Awaited, Awaits
  <2>2. PICK j \in DOMAIN window.pending : window.pending[j] = pool.runs[u]
    BY DEF StreamInv, EntropyInv, TasksInv, Awaited, Awaits
  <2>3. i = j
    BY <2>1, <2>2 DEF StreamInv, EntropyInv, WindowInv, Fits
  <2> QED
    BY <2>1, <2>2, <2>3 DEF StreamInv, EntropyInv, TasksInv
<1> QED
  BY <1>1, StreamInit, StreamStep, PTL DEF Spec
-----------------------------------------------------------------------------
(* The output: what its variables range over, and who owns which buffer.   *)

Picture == Nat \cup {NoPicture}
Item == [frame : Nat, shows : Picture]
Slot == [fp16 : Buffers \cup {NoBuffer}, picture : Picture, busy : BOOLEAN, frame : Picture]

OutputTyped ==
  /\ device \in [out : Buffers, holds : [Buffers -> Picture],
                 converting : Seq([slot : SlotNumbers, input : Buffers])]
  /\ slots \in [SlotNumbers -> Slot]
  /\ nv12 \in [pending : Seq(SlotNumbers), next : SlotNumbers, error : BOOLEAN,
               stopping : BOOLEAN]
  /\ venc \in [at : {"wait", "flush", "release", "left"}, slot : SlotNumbers \cup {0}]
  /\ publisher \in [queue : Seq(Item), error : BOOLEAN, stopping : BOOLEAN,
                    closed : BOOLEAN, header : BOOLEAN]
  /\ writer \in [at : {"wait", "write", "left"}, item : Item \cup {<<>>}]
  /\ shown \in Seq(Item)

\* The slot that Enqueue used j frames before it uses next.
Back(next, j) == IF next - j >= 1 THEN next - j ELSE next - j + RtspSlots

\* The slot behind the last one is the first one.
LEMMA NextInRing ==
  ASSUME NEW s \in SlotNumbers
  PROVE  (s % RtspSlots) + 1 = IF s = RtspSlots THEN 1 ELSE s + 1
BY OutputAssumption DEF SlotNumbers

LEMMA BackIn ==
  ASSUME NEW next \in SlotNumbers, NEW j \in 0..RtspSlots
  PROVE  Back(next, j) \in SlotNumbers
BY OutputAssumption DEF Back, SlotNumbers

LEMMA BackDiffers ==
  ASSUME NEW next \in SlotNumbers, NEW i \in 1..RtspSlots, NEW j \in 1..RtspSlots,
         Back(next, i) = Back(next, j)
  PROVE  i = j
BY OutputAssumption DEF Back, SlotNumbers

LEMMA BackAround ==
  ASSUME NEW next \in SlotNumbers
  PROVE  /\ Back(next, RtspSlots) = next
         /\ \A j \in 1..RtspSlots : j # RtspSlots => Back(next, j) # next
BY OutputAssumption DEF Back, SlotNumbers

\* One more frame: every slot is one further back.
LEMMA BackMoves ==
  ASSUME NEW next \in SlotNumbers
  PROVE  /\ (next % RtspSlots) + 1 \in SlotNumbers
         /\ Back((next % RtspSlots) + 1, 1) = next
         /\ \A j \in 1..RtspSlots : j # RtspSlots =>
              Back((next % RtspSlots) + 1, j + 1) = Back(next, j)
<1>1. (next % RtspSlots) + 1 = IF next = RtspSlots THEN 1 ELSE next + 1
  BY NextInRing
<1> QED
  BY <1>1, OutputAssumption DEF Back, SlotNumbers

\* The buffers of the decoder and of the slots are different; while some slot has none,
\* the slots before the next one have their own numbers.
BuffersInv ==
  /\ output # "dvpp" => device.out = 1 /\ \A s \in SlotNumbers : slots[s].fp16 = NoBuffer
  /\ \A s \in SlotNumbers : slots[s].fp16 # NoBuffer =>
       /\ slots[s].fp16 # device.out
       /\ \A t \in SlotNumbers : slots[t].fp16 = slots[s].fp16 => t = s
  /\ output = "dvpp" =>
       \/ \A s \in SlotNumbers : slots[s].fp16 # NoBuffer
       \/ /\ device.out = nv12.next
          /\ \A s \in SlotNumbers : slots[s].fp16 = IF s < nv12.next THEN s ELSE NoBuffer

LEMMA BuffersInit == RtspInit => OutputTyped /\ BuffersInv
<1> SUFFICES ASSUME RtspInit PROVE OutputTyped /\ BuffersInv
  OBVIOUS
<1>1. 1 \in SlotNumbers /\ 1 \in Buffers
  BY OutputAssumption DEF SlotNumbers, Buffers
<1>2. OutputTyped
  BY <1>1 DEF RtspInit, OutputTyped, Slot, Picture, Item
<1>3. BuffersInv
  BY OutputAssumption DEF RtspInit, BuffersInv, SlotNumbers, NoBuffer
<1> QED
  BY <1>2, <1>3

\* The fields of the variables.
LEMMA OutputFields ==
  ASSUME OutputTyped
  PROVE  /\ device.out \in Buffers /\ device.holds \in [Buffers -> Picture]
         /\ device.converting \in Seq([slot : SlotNumbers, input : Buffers])
         /\ \A s \in SlotNumbers : slots[s] \in Slot
         /\ nv12.pending \in Seq(SlotNumbers) /\ nv12.next \in SlotNumbers
         /\ nv12.error \in BOOLEAN /\ publisher.queue \in Seq(Item)
         /\ publisher.error \in BOOLEAN /\ publisher.stopping \in BOOLEAN
         /\ publisher.header \in BOOLEAN
BY DEF OutputTyped

\* In the first round the decoder gets the next new buffer.
LEMMA FreshBuffer ==
  ASSUME OutputTyped, BuffersInv, output = "dvpp", slots[nv12.next].fp16 = NoBuffer
  PROVE  /\ Fresh = nv12.next + 1 /\ device.out = nv12.next
         /\ \A s \in SlotNumbers : slots[s].fp16 = IF s < nv12.next THEN s ELSE NoBuffer
<1>1. nv12.next \in SlotNumbers /\ nv12.next \in Nat /\ nv12.next + 1 \in Buffers
  BY OutputFields, OutputAssumption DEF SlotNumbers, Buffers
<1>2. /\ device.out = nv12.next
      /\ \A s \in SlotNumbers : slots[s].fp16 = IF s < nv12.next THEN s ELSE NoBuffer
  BY <1>1 DEF BuffersInv
<1> DEFINE S == {b \in Buffers : b # device.out /\ \A s \in SlotNumbers : slots[s].fp16 # b}
<1>3. nv12.next + 1 \in S
  BY <1>1, <1>2, OutputAssumption DEF SlotNumbers, NoBuffer
<1>4. \A b \in S : b >= nv12.next + 1 /\ b \in Nat
  <2> SUFFICES ASSUME NEW b \in Buffers, b # device.out, \A s \in SlotNumbers : slots[s].fp16 # b
               PROVE  b >= nv12.next + 1 /\ b \in Nat
    OBVIOUS
  <2>1. b \in Nat /\ b >= 1
    BY OutputAssumption DEF Buffers
  <2>2. ~(b < nv12.next)
    <3> SUFFICES ASSUME b < nv12.next PROVE FALSE
      OBVIOUS
    <3>1. b \in SlotNumbers
      BY <1>1, <2>1, OutputAssumption DEF SlotNumbers
    <3> QED
      BY <1>2, <3>1
  <2> QED
    BY <1>1, <1>2, <2>1, <2>2
<1>5. S \subseteq Nat /\ S # {}
  BY <1>3, <1>4
<1>6. Min(S) \in S /\ \A b \in S : Min(S) <= b
  BY <1>5, MinIsLeast
<1>a. Fresh = Min(S)
  BY DEF Fresh
<1> HIDE DEF S
<1>7. Min(S) = nv12.next + 1
  <2>1. Min(S) \in Nat /\ Min(S) >= nv12.next + 1 /\ Min(S) <= nv12.next + 1
    BY <1>3, <1>4, <1>6
  <2> QED
    BY <1>1, <2>1
<1> QED
  BY <1>2, <1>7, <1>a

Device == [out : Buffers, holds : [Buffers -> Picture],
           converting : Seq([slot : SlotNumbers, input : Buffers])]

\* What the operations of the output do, field by field.
LEMMA DecodeFields ==
  ASSUME OutputTyped, NEW f \in Nat, Decode(f)
  PROVE  /\ OutputTyped' /\ UNCHANGED <<output, slots, nv12, venc, publisher, writer, shown>>
         /\ device'.out = device.out /\ device'.converting = device.converting
         /\ \A b \in Buffers : device'.holds[b] = IF b = device.out THEN f ELSE device.holds[b]
<1>1. f \in Picture
  BY DEF Picture
<1>2. PICK h : h = [device.holds EXCEPT ![device.out] = f]
  OBVIOUS
<1>3. /\ h \in [Buffers -> Picture]
      /\ \A b \in Buffers : h[b] = IF b = device.out THEN f ELSE device.holds[b]
  BY <1>1, <1>2, OutputFields
<1>4. /\ device' = [device EXCEPT !.holds = h]
      /\ UNCHANGED <<output, slots, nv12, venc, publisher, writer, shown>>
  BY <1>2 DEF Decode
<1>5. PICK d, e : d = device /\ e = device'
  OBVIOUS
<1>6. /\ e.out = d.out /\ e.converting = d.converting /\ e.holds = h
      /\ e \in Device
  <2>1. d \in Device /\ e = [d EXCEPT !.holds = h]
    BY <1>4, <1>5 DEF OutputTyped, Device
  <2> QED
    BY <1>3, <2>1 DEF Device
<1>7. OutputTyped'
  BY <1>4, <1>5, <1>6 DEF OutputTyped, Device
<1> QED
  BY <1>3, <1>4, <1>5, <1>6, <1>7

LEMMA QueuedFields ==
  ASSUME OutputTyped, NEW i \in Item
  PROVE  /\ Queued(i) \in [queue : Seq(Item), error : BOOLEAN, stopping : BOOLEAN,
                           closed : BOOLEAN, header : BOOLEAN]
         /\ Queued(i).queue = Append(publisher.queue, i) /\ Queued(i).error = publisher.error
         /\ Queued(i).stopping = publisher.stopping /\ Queued(i).header = publisher.header
<1>1. Append(publisher.queue, i) \in Seq(Item)
  BY OutputFields
<1> QED
  BY <1>1 DEF Queued, OutputTyped

LEMMA ConvertFields ==
  ASSUME OutputTyped, Convert
  PROVE  /\ OutputTyped' /\ UNCHANGED <<output, nv12, venc, publisher, writer, shown>>
         /\ device'.out = device.out /\ device'.holds = device.holds
         /\ device.converting # <<>> /\ device'.converting = Tail(device.converting)
         /\ \A s \in SlotNumbers :
              /\ slots'[s].fp16 = slots[s].fp16 /\ slots'[s].busy = slots[s].busy
              /\ slots'[s].frame = slots[s].frame
              /\ slots'[s].picture = IF s = device.converting[1].slot
                                     THEN device.holds[device.converting[1].input]
                                     ELSE slots[s].picture
<1> DEFINE c == Head(device.converting)
<1>1. /\ c \in [slot : SlotNumbers, input : Buffers] /\ c = device.converting[1]
      /\ Tail(device.converting) \in Seq([slot : SlotNumbers, input : Buffers])
  BY OutputFields, TakeFront DEF Convert
<1>2. device.holds[c.input] \in Picture
  BY <1>1, OutputFields
<1>3. /\ device' = [device EXCEPT !.converting = Tail(device.converting)]
      /\ slots' = [slots EXCEPT ![c.slot].picture = device.holds[c.input]]
      /\ device.converting # <<>>
  BY DEF Convert
<1> HIDE DEF c
<1>4. PICK n, v : n = c.slot /\ v = device.holds[c.input]
  OBVIOUS
<1>5. n \in SlotNumbers /\ v \in Picture /\ slots' = [slots EXCEPT ![n].picture = v]
  BY <1>1, <1>2, <1>3, <1>4
<1>6. ASSUME NEW s \in SlotNumbers
      PROVE  /\ slots'[s] \in Slot
             /\ slots'[s].fp16 = slots[s].fp16 /\ slots'[s].busy = slots[s].busy
             /\ slots'[s].frame = slots[s].frame
             /\ slots'[s].picture = IF s = n THEN v ELSE slots[s].picture
  <2>1. PICK x, y : x = slots[s] /\ y = slots'[s]
    OBVIOUS
  <2>2. x \in Slot /\ y = IF s = n THEN [x EXCEPT !.picture = v] ELSE x
    BY <1>5, <2>1 DEF OutputTyped
  <2>3. /\ y \in Slot /\ y.fp16 = x.fp16 /\ y.busy = x.busy /\ y.frame = x.frame
        /\ y.picture = IF s = n THEN v ELSE x.picture
    BY <1>5, <2>2 DEF Slot
  <2> QED
    BY <2>1, <2>3
<1>7. slots' \in [SlotNumbers -> Slot]
  BY <1>3, <1>6 DEF OutputTyped
<1>8. PICK d, e : d = device /\ e = device'
  OBVIOUS
<1>9. /\ e \in Device /\ e.out = d.out /\ e.holds = d.holds
      /\ e.converting = Tail(device.converting)
  <2>1. PICK q : q = Tail(device.converting)
    OBVIOUS
  <2>2. /\ d \in Device /\ e = [d EXCEPT !.converting = q]
        /\ q \in Seq([slot : SlotNumbers, input : Buffers])
    BY <1>1, <1>3, <1>8, <2>1 DEF OutputTyped, Device
  <2> QED
    BY <2>1, <2>2 DEF Device
<1>10. UNCHANGED <<output, nv12, venc, publisher, writer, shown>>
  BY DEF Convert
<1>11. OutputTyped'
  BY <1>7, <1>8, <1>9, <1>10 DEF OutputTyped, Device
<1>12. /\ device'.out = device.out /\ device'.holds = device.holds
       /\ device.converting # <<>> /\ device'.converting = Tail(device.converting)
  BY <1>3, <1>8, <1>9
<1>13. n = device.converting[1].slot /\ v = device.holds[device.converting[1].input]
  BY <1>1, <1>4
<1> QED
  BY <1>6, <1>10, <1>11, <1>12, <1>13

LEMMA ReserveFields ==
  ASSUME OutputTyped, ReserveSlot
  PROVE  /\ OutputTyped' /\ UNCHANGED <<output, device, nv12, venc, publisher, writer, shown>>
         /\ \A s \in SlotNumbers :
              /\ slots'[s].fp16 = slots[s].fp16 /\ slots'[s].picture = slots[s].picture
              /\ slots'[s].frame = slots[s].frame
              /\ slots'[s].busy <=> slots[s].busy \/ s = nv12.next
<1>1. nv12.next \in SlotNumbers /\ \A s \in SlotNumbers : slots[s] \in Slot
  BY OutputFields
<1>2. \A s \in SlotNumbers :
         slots'[s] = IF s = nv12.next THEN [slots[s] EXCEPT !.busy = TRUE] ELSE slots[s]
  BY <1>1 DEF ReserveSlot, OutputTyped
<1>3. \A s \in SlotNumbers : slots'[s] \in Slot
  <2>1. \A r \in Slot : [r EXCEPT !.busy = TRUE] \in Slot
    BY DEF Slot
  <2> QED
    BY <1>1, <1>2, <2>1
<1>4. slots' \in [SlotNumbers -> Slot]
  BY <1>3 DEF ReserveSlot, OutputTyped
<1>5. OutputTyped'
  BY <1>4 DEF ReserveSlot, OutputTyped
<1> QED
  BY <1>1, <1>2, <1>5 DEF ReserveSlot, Slot

LEMMA EnqueueThrowsFields ==
  ASSUME OutputTyped, EnqueueThrows
  PROVE  /\ OutputTyped' /\ UNCHANGED <<output, device, nv12, venc, publisher, writer, shown>>
         /\ \A s \in SlotNumbers :
              /\ slots'[s].fp16 = slots[s].fp16 /\ slots'[s].picture = slots[s].picture
              /\ slots'[s].frame = slots[s].frame
              /\ slots'[s].busy <=> slots[s].busy /\ (output = "dvpp" => s # nv12.next)
<1>1. nv12.next \in SlotNumbers /\ \A s \in SlotNumbers : slots[s] \in Slot
  BY OutputFields
<1>2. \A s \in SlotNumbers :
         slots'[s] = IF output = "dvpp" /\ s = nv12.next THEN [slots[s] EXCEPT !.busy = FALSE]
                     ELSE slots[s]
  BY <1>1 DEF EnqueueThrows, OutputTyped
<1>3. ASSUME NEW s \in SlotNumbers
      PROVE  slots'[s] \in Slot
  <2>1. PICK x, y : x = slots[s] /\ y = slots'[s]
    OBVIOUS
  <2>2. x \in Slot /\ (y = [x EXCEPT !.busy = FALSE] \/ y = x)
    BY <1>1, <1>2, <2>1
  <2>3. y \in Slot
    BY <2>2 DEF Slot
  <2> QED
    BY <2>1, <2>3
<1>4. slots' \in [SlotNumbers -> Slot]
  BY <1>3 DEF EnqueueThrows, OutputTyped
<1>5. OutputTyped'
  BY <1>4 DEF EnqueueThrows, OutputTyped
<1> QED
  BY <1>1, <1>2, <1>5 DEF EnqueueThrows, Slot

LEMMA EnqueueFields ==
  ASSUME OutputTyped, BuffersInv, NEW f \in Nat, Enqueue(f)
  PROVE  /\ OutputTyped' /\ BuffersInv' /\ ~nv12.error
         /\ UNCHANGED <<output, venc, publisher, writer, shown>>
         /\ nv12'.pending = Append(nv12.pending, nv12.next) /\ nv12'.error = nv12.error
         /\ nv12'.next = (nv12.next % RtspSlots) + 1
         /\ device'.holds = device.holds /\ (output # "dvpp" => device'.out = device.out)
         /\ device'.converting = Append(device.converting, [slot |-> nv12.next, input |-> device.out])
         /\ \A s \in SlotNumbers :
              /\ slots'[s].picture = slots[s].picture /\ slots'[s].busy = slots[s].busy
              /\ slots'[s].frame = IF s = nv12.next THEN f ELSE slots[s].frame
              /\ slots'[s].fp16 = IF output = "dvpp" /\ s = nv12.next THEN device.out
                                  ELSE slots[s].fp16
<1> DEFINE n == nv12.next
           c == [slot |-> n, input |-> device.out]
           out == IF output = "dvpp" THEN OutputAfter(n) ELSE device.out
<1>1. /\ n \in SlotNumbers /\ device.out \in Buffers /\ \A s \in SlotNumbers : slots[s] \in Slot
      /\ nv12.pending \in Seq(SlotNumbers) /\ f \in Picture
      /\ device.converting \in Seq([slot : SlotNumbers, input : Buffers])
  BY OutputFields DEF Picture
<1>2. /\ device' = [device EXCEPT !.out = out, !.converting = Append(device.converting, c)]
      /\ nv12' = [nv12 EXCEPT !.pending = Append(nv12.pending, n), !.next = (n % RtspSlots) + 1]
      /\ slots' = IF output = "dvpp" THEN [slots EXCEPT ![n].fp16 = device.out, ![n].frame = f]
                  ELSE [slots EXCEPT ![n].frame = f]
      /\ ~nv12.error /\ UNCHANGED <<output, venc, publisher, writer, shown>>
  BY DEF Enqueue
<1>3. /\ (n % RtspSlots) + 1 = IF n = RtspSlots THEN 1 ELSE n + 1
      /\ (n % RtspSlots) + 1 \in SlotNumbers
  <2>1. (n % RtspSlots) + 1 = IF n = RtspSlots THEN 1 ELSE n + 1
    BY <1>1, NextInRing
  <2> QED
    BY <1>1, <2>1, OutputAssumption DEF SlotNumbers
<1>4. c \in [slot : SlotNumbers, input : Buffers] /\ Append(nv12.pending, n) \in Seq(SlotNumbers)
      /\ Append(device.converting, c) \in Seq([slot : SlotNumbers, input : Buffers])
  BY <1>1
<1>5. \A s \in SlotNumbers :
        slots'[s] = IF s = n THEN IF output = "dvpp"
                                  THEN [slots[s] EXCEPT !.fp16 = device.out, !.frame = f]
                                  ELSE [slots[s] EXCEPT !.frame = f]
                    ELSE slots[s]
  BY <1>1, <1>2 DEF OutputTyped
<1>6. \A s \in SlotNumbers :
        /\ slots'[s] \in Slot
        /\ slots'[s].picture = slots[s].picture /\ slots'[s].busy = slots[s].busy
        /\ slots'[s].frame = IF s = n THEN f ELSE slots[s].frame
        /\ slots'[s].fp16 = IF output = "dvpp" /\ s = n THEN device.out ELSE slots[s].fp16
  <2> SUFFICES ASSUME NEW s \in SlotNumbers
               PROVE  /\ slots'[s] \in Slot
                      /\ slots'[s].picture = slots[s].picture /\ slots'[s].busy = slots[s].busy
                      /\ slots'[s].frame = IF s = n THEN f ELSE slots[s].frame
                      /\ slots'[s].fp16 = IF output = "dvpp" /\ s = n THEN device.out
                                          ELSE slots[s].fp16
    OBVIOUS
  <2>1. PICK x, y, b : x = slots[s] /\ y = slots'[s] /\ b = device.out
    OBVIOUS
  <2>2. /\ x \in Slot /\ b \in Buffers /\ f \in Picture
        /\ y = IF s = n THEN IF output = "dvpp" THEN [x EXCEPT !.fp16 = b, !.frame = f]
                             ELSE [x EXCEPT !.frame = f]
               ELSE x
    BY <1>1, <1>5, <2>1 DEF Picture
  <2>3. /\ y \in Slot /\ y.picture = x.picture /\ y.busy = x.busy
        /\ y.frame = IF s = n THEN f ELSE x.frame
        /\ y.fp16 = IF output = "dvpp" /\ s = n THEN b ELSE x.fp16
    BY <2>2 DEF Slot
  <2> QED
    BY <2>1, <2>3
<1>7. slots' \in [SlotNumbers -> Slot]
  <2>1. DOMAIN slots' = SlotNumbers /\ slots' = [s \in SlotNumbers |-> slots'[s]]
    BY <1>2 DEF OutputTyped
  <2> QED
    BY <1>6, <2>1
<1>8. output = "dvpp" /\ slots[n].fp16 = NoBuffer =>
        /\ out = n + 1 /\ device.out = n
        /\ \A s \in SlotNumbers : slots[s].fp16 = IF s < n THEN s ELSE NoBuffer
  BY FreshBuffer DEF OutputAfter
<1>9. output = "dvpp" /\ slots[n].fp16 # NoBuffer => out = slots[n].fp16
  BY DEF OutputAfter
<1>10. output # "dvpp" => out = device.out
  OBVIOUS
<1>11. out \in Buffers
  <2>1. n + 1 \in Buffers
    BY <1>1, OutputAssumption DEF SlotNumbers, Buffers
  <2>2. slots[n].fp16 # NoBuffer => slots[n].fp16 \in Buffers
    BY <1>1 DEF Slot
  <2> QED
    BY <1>1, <1>8, <1>9, <1>10, <2>1, <2>2
<1> HIDE DEF n, c, out
<1>12. /\ device'.out = out /\ device'.holds = device.holds
       /\ device'.converting = Append(device.converting, c)
       /\ nv12'.pending = Append(nv12.pending, n) /\ nv12'.error = nv12.error
       /\ nv12'.next = (n % RtspSlots) + 1
  BY <1>2 DEF OutputTyped
<1>13. OutputTyped'
  BY <1>2, <1>3, <1>4, <1>7, <1>11 DEF OutputTyped
<1>14. BuffersInv'
  <2>1. CASE output # "dvpp"
    BY <1>2, <1>6, <1>10, <1>12, <2>1 DEF BuffersInv
  <2>2. CASE output = "dvpp" /\ slots[n].fp16 = NoBuffer
    <3>1. /\ out = n + 1 /\ device.out = n /\ n \in Nat /\ n # NoBuffer
          /\ \A s \in SlotNumbers : s \in Nat /\ s # NoBuffer
                                    /\ slots'[s].fp16 = IF s <= n THEN s ELSE NoBuffer
      <4>1. \A s \in SlotNumbers : s \in Nat /\ s # NoBuffer
        BY DEF SlotNumbers, NoBuffer
      <4> QED
        BY <1>1, <1>6, <1>8, <2>2, <4>1 DEF n
    <3>2. \A s \in SlotNumbers : slots'[s].fp16 # NoBuffer =>
            /\ slots'[s].fp16 = s /\ s <= n /\ s # out
      BY <3>1
    <3>3. \/ n = RtspSlots /\ \A s \in SlotNumbers : slots'[s].fp16 # NoBuffer
          \/ /\ n # RtspSlots /\ nv12'.next = n + 1
             /\ \A s \in SlotNumbers : slots'[s].fp16 = IF s < n + 1 THEN s ELSE NoBuffer
      <4>1. n = RtspSlots => \A s \in SlotNumbers : s <= n
        BY DEF SlotNumbers
      <4>2. n # RtspSlots => nv12'.next = n + 1
        BY <1>3, <1>12
      <4>3. \A s \in SlotNumbers : s <= n <=> s < n + 1
        BY <3>1
      <4> QED
        BY <3>1, <4>1, <4>2, <4>3
    <3>4. ASSUME NEW s \in SlotNumbers, slots'[s].fp16 # NoBuffer
          PROVE  /\ slots'[s].fp16 # device'.out
                 /\ \A t \in SlotNumbers : slots'[t].fp16 = slots'[s].fp16 => t = s
      BY <1>12, <3>2, <3>4
    <3>5. \/ \A s \in SlotNumbers : slots'[s].fp16 # NoBuffer
          \/ /\ device'.out = nv12'.next
             /\ \A s \in SlotNumbers : slots'[s].fp16 = IF s < nv12'.next THEN s ELSE NoBuffer
      BY <1>12, <3>1, <3>3
    <3> QED
      BY <1>2, <2>2, <3>4, <3>5 DEF BuffersInv
  <2>3. CASE output = "dvpp" /\ slots[n].fp16 # NoBuffer
    <3>1. \A s \in SlotNumbers : slots[s].fp16 # NoBuffer
      BY <1>1, <2>3, <1>3, OutputAssumption DEF BuffersInv, n
    <3>2. device.out # NoBuffer
      BY <1>1, OutputAssumption DEF Buffers, NoBuffer
    <3>3. \A s \in SlotNumbers :
            /\ slots[s].fp16 # device.out
            /\ \A t \in SlotNumbers : slots[t].fp16 = slots[s].fp16 => t = s
      BY <3>1 DEF BuffersInv
    <3>4. out = slots[n].fp16 /\ n \in SlotNumbers
      BY <1>1, <1>9, <2>3
    <3>5. \A s \in SlotNumbers :
            /\ slots'[s].fp16 = IF s = n THEN device.out ELSE slots[s].fp16
            /\ slots'[s].fp16 # NoBuffer /\ slots'[s].fp16 # out
      BY <1>6, <2>3, <3>1, <3>2, <3>3, <3>4
    <3>6. \A s, t \in SlotNumbers : slots'[t].fp16 = slots'[s].fp16 => t = s
      BY <3>3, <3>5
    <3> QED
      BY <1>2, <1>12, <2>3, <3>5, <3>6 DEF BuffersInv
  <2> QED
    BY <2>1, <2>2, <2>3
<1> QED
  BY <1>2, <1>6, <1>10, <1>12, <1>13, <1>14 DEF n, c

LEMMA FlushFields ==
  ASSUME OutputTyped, FlushFront, nv12.pending # <<>>,
         slots[Head(nv12.pending)].frame \in Nat
  PROVE  /\ OutputTyped' /\ UNCHANGED <<output, device, slots, venc, writer, shown>>
         /\ nv12'.pending = Tail(nv12.pending) /\ nv12'.error = nv12.error
         /\ nv12'.next = nv12.next /\ CanWrite /\ Converted(Head(nv12.pending))
         /\ publisher'.queue = Append(publisher.queue,
              [frame |-> slots[Head(nv12.pending)].frame,
               shows |-> slots[Head(nv12.pending)].picture])
         /\ publisher'.error = publisher.error /\ publisher'.header = publisher.header
         /\ publisher'.stopping = publisher.stopping
<1> DEFINE s == Head(nv12.pending)
           i == [frame |-> slots[s].frame, shows |-> slots[s].picture]
<1>1. s \in SlotNumbers /\ Tail(nv12.pending) \in Seq(SlotNumbers)
  BY OutputFields, TakeFront
<1>2. i \in Item
  BY <1>1, OutputFields DEF Item, Slot
<1>3. /\ publisher' = Queued(i) /\ nv12' = [nv12 EXCEPT !.pending = Tail(nv12.pending)]
      /\ CanWrite /\ Converted(s)
      /\ UNCHANGED <<output, device, slots, venc, writer, shown>>
  BY DEF FlushFront
<1> HIDE DEF i, s
<1>4. /\ Queued(i) \in [queue : Seq(Item), error : BOOLEAN, stopping : BOOLEAN,
                        closed : BOOLEAN, header : BOOLEAN]
      /\ Queued(i).queue = Append(publisher.queue, i) /\ Queued(i).error = publisher.error
      /\ Queued(i).stopping = publisher.stopping /\ Queued(i).header = publisher.header
  BY <1>2, QueuedFields
<1>5. OutputTyped'
  BY <1>1, <1>3, <1>4 DEF OutputTyped
<1>6. nv12'.pending = Tail(nv12.pending) /\ nv12'.error = nv12.error /\ nv12'.next = nv12.next
  BY <1>3 DEF OutputTyped
<1> QED
  BY <1>3, <1>4, <1>5, <1>6 DEF i, s

LEMMA TensorFields ==
  ASSUME OutputTyped, NEW f \in Nat, WriteTensorFrame(f)
  PROVE  /\ OutputTyped' /\ UNCHANGED <<output, device, slots, nv12, venc, writer, shown>>
         /\ CanWrite
         /\ publisher'.queue = Append(publisher.queue,
              [frame |-> f, shows |-> device.holds[device.out]])
         /\ publisher'.error = publisher.error /\ publisher'.header = publisher.header
         /\ publisher'.stopping = publisher.stopping
<1> DEFINE i == [frame |-> f, shows |-> device.holds[device.out]]
<1>1. i \in Item
  BY OutputFields DEF Item
<1>2. publisher' = Queued(i) /\ CanWrite
      /\ UNCHANGED <<output, device, slots, nv12, venc, writer, shown>>
  BY DEF WriteTensorFrame
<1> HIDE DEF i
<1>3. /\ Queued(i) \in [queue : Seq(Item), error : BOOLEAN, stopping : BOOLEAN,
                        closed : BOOLEAN, header : BOOLEAN]
      /\ Queued(i).queue = Append(publisher.queue, i) /\ Queued(i).error = publisher.error
      /\ Queued(i).stopping = publisher.stopping /\ Queued(i).header = publisher.header
  BY <1>1, QueuedFields
<1>4. OutputTyped'
  BY <1>2, <1>3 DEF OutputTyped
<1> QED
  BY <1>2, <1>3, <1>4 DEF i

\* The encoder thread.
LEMMA VencTakeFields ==
  ASSUME OutputTyped, VencTake
  PROVE  /\ OutputTyped' /\ UNCHANGED <<output, device, slots, publisher, writer, shown>>
         /\ venc.at = "wait" /\ venc'.at = "flush" /\ venc'.slot = Head(nv12.pending)
         /\ nv12.pending # <<>> /\ nv12'.pending = Tail(nv12.pending)
         /\ nv12'.error = nv12.error /\ nv12'.next = nv12.next
<1>1. Head(nv12.pending) \in SlotNumbers /\ Tail(nv12.pending) \in Seq(SlotNumbers)
  BY OutputFields, TakeFront DEF VencTake
<1> QED
  BY <1>1 DEF VencTake, OutputTyped

LEMMA VencFlushFields ==
  ASSUME OutputTyped, VencFlush, venc.slot \in SlotNumbers, slots[venc.slot].frame \in Nat
  PROVE  /\ OutputTyped' /\ UNCHANGED <<output, device, slots, nv12, writer, shown>>
         /\ venc.at = "flush" /\ venc'.at = "release" /\ venc'.slot = venc.slot
         /\ Converted(venc.slot) /\ CanWrite
         /\ publisher'.queue = Append(publisher.queue,
              [frame |-> slots[venc.slot].frame, shows |-> slots[venc.slot].picture])
         /\ publisher'.error = publisher.error /\ publisher'.header = publisher.header
         /\ publisher'.stopping = publisher.stopping
<1> DEFINE s == venc.slot
           i == [frame |-> slots[s].frame, shows |-> slots[s].picture]
<1>1. i \in Item
  BY OutputFields DEF Item, Slot
<1>2. /\ publisher' = Queued(i) /\ venc' = [venc EXCEPT !.at = "release"] /\ venc.at = "flush"
      /\ CanWrite /\ Converted(s) /\ UNCHANGED <<output, device, slots, nv12, writer, shown>>
  BY DEF VencFlush
<1> HIDE DEF i, s
<1>3. /\ Queued(i) \in [queue : Seq(Item), error : BOOLEAN, stopping : BOOLEAN,
                        closed : BOOLEAN, header : BOOLEAN]
      /\ Queued(i).queue = Append(publisher.queue, i) /\ Queued(i).error = publisher.error
      /\ Queued(i).stopping = publisher.stopping /\ Queued(i).header = publisher.header
  BY <1>1, QueuedFields
<1>4. OutputTyped'
  BY <1>2, <1>3 DEF OutputTyped
<1>5. venc'.at = "release" /\ venc'.slot = venc.slot
  BY <1>2 DEF OutputTyped
<1> QED
  BY <1>2, <1>3, <1>4, <1>5 DEF i, s

LEMMA VencReleaseFields ==
  ASSUME OutputTyped, VencRelease
  PROVE  /\ OutputTyped' /\ UNCHANGED <<output, device, nv12, publisher, writer, shown>>
         /\ venc.at = "release" /\ venc'.at = "wait"
         /\ \A s \in SlotNumbers :
              /\ slots'[s].fp16 = slots[s].fp16 /\ slots'[s].picture = slots[s].picture
              /\ slots'[s].frame = slots[s].frame
              /\ slots'[s].busy <=> slots[s].busy /\ s # venc.slot
<1>1. \A s \in SlotNumbers : slots[s] \in Slot
  BY OutputFields
<1>2. \A s \in SlotNumbers :
         slots'[s] = IF s = venc.slot THEN [slots[s] EXCEPT !.busy = FALSE] ELSE slots[s]
  BY DEF VencRelease, OutputTyped
<1>3. ASSUME NEW s \in SlotNumbers
      PROVE  slots'[s] \in Slot
  <2>1. PICK x, y : x = slots[s] /\ y = slots'[s]
    OBVIOUS
  <2>2. x \in Slot /\ y = IF s = venc.slot THEN [x EXCEPT !.busy = FALSE] ELSE x
    BY <1>1, <1>2, <2>1
  <2>3. y \in Slot
    BY <2>2 DEF Slot
  <2> QED
    BY <2>1, <2>3
<1>4. slots' \in [SlotNumbers -> Slot]
  <2>1. slots' = [s \in SlotNumbers |-> slots'[s]]
    BY DEF VencRelease, OutputTyped
  <2> QED
    BY <1>3, <2>1
<1>5. OutputTyped'
  BY <1>4 DEF VencRelease, OutputTyped
<1> QED
  BY <1>1, <1>2, <1>5 DEF VencRelease, OutputTyped, Slot

LEMMA VencFailsFields ==
  ASSUME OutputTyped, VencFails
  PROVE  /\ OutputTyped' /\ UNCHANGED <<output, device, publisher, writer, shown>>
         /\ venc.at = "flush" /\ venc'.at = "left"
         /\ nv12'.error /\ nv12'.pending = <<>> /\ nv12'.next = nv12.next
         /\ \A s \in SlotNumbers :
              /\ slots'[s].fp16 = slots[s].fp16 /\ slots'[s].picture = slots[s].picture
              /\ slots'[s].frame = slots[s].frame
<1>1. \A s \in SlotNumbers : slots[s] \in Slot
  BY OutputFields
<1>2. PICK busy \in [SlotNumbers -> BOOLEAN] :
         slots' = [s \in SlotNumbers |-> [slots[s] EXCEPT !.busy = busy[s]]]
  <2> DEFINE busy == [s \in SlotNumbers |-> slots[s].busy /\ s # venc.slot /\ s \notin Range(nv12.pending)]
  <2>1. busy \in [SlotNumbers -> BOOLEAN]
    OBVIOUS
  <2>2. slots' = [s \in SlotNumbers |-> [slots[s] EXCEPT !.busy = busy[s]]]
    BY DEF VencFails
  <2> QED
    BY <2>1, <2>2
<1>3. \A s \in SlotNumbers : slots'[s] = [slots[s] EXCEPT !.busy = busy[s]]
  BY <1>2
<1>4. \A s \in SlotNumbers : slots'[s] \in Slot
  BY <1>1, <1>3 DEF Slot
<1>5. slots' \in [SlotNumbers -> Slot]
  BY <1>2, <1>4
<1>6. /\ venc.at = "flush" /\ venc' = [venc EXCEPT !.at = "left"]
      /\ nv12' = [nv12 EXCEPT !.error = TRUE, !.stopping = TRUE, !.pending = <<>>]
      /\ UNCHANGED <<output, device, publisher, writer, shown>>
  BY DEF VencFails
<1>7. <<>> \in Seq(SlotNumbers)
  OBVIOUS
<1>8. OutputTyped'
  BY <1>5, <1>6, <1>7 DEF OutputTyped
<1>9. venc'.at = "left" /\ nv12'.error /\ nv12'.pending = <<>> /\ nv12'.next = nv12.next
  BY <1>6 DEF OutputTyped
<1> QED
  BY <1>1, <1>3, <1>6, <1>8, <1>9 DEF Slot

LEMMA VencLeavesFields ==
  ASSUME OutputTyped, VencLeaves
  PROVE  /\ OutputTyped' /\ UNCHANGED <<output, device, slots, nv12, publisher, writer, shown>>
         /\ venc.at = "wait" /\ venc'.at = "left"
BY DEF VencLeaves, OutputTyped

\* The main thread tells the threads to stop.
LEMMA StopFields ==
  ASSUME OutputTyped, StopVenc
  PROVE  /\ OutputTyped' /\ UNCHANGED <<output, device, slots, venc, publisher, writer, shown>>
         /\ nv12'.pending = nv12.pending /\ nv12'.error = nv12.error /\ nv12'.next = nv12.next
BY DEF StopVenc, OutputTyped

LEMMA CloseFields ==
  ASSUME OutputTyped, CloseCall
  PROVE  /\ OutputTyped' /\ UNCHANGED <<output, device, slots, nv12, venc, writer, shown>>
         /\ publisher'.queue = publisher.queue /\ publisher'.error = publisher.error
         /\ publisher'.header = publisher.header /\ publisher'.stopping
BY DEF CloseCall, OutputTyped

\* The publisher's thread.
LEMMA WriterTakeFields ==
  ASSUME OutputTyped, WriterTake
  PROVE  /\ OutputTyped' /\ UNCHANGED <<output, device, slots, nv12, venc, shown>>
         /\ publisher.queue # <<>> /\ writer.at = "wait" /\ writer'.at = "write"
         /\ writer'.item = Head(publisher.queue) /\ writer'.item \in Item
         /\ publisher'.queue = Tail(publisher.queue) /\ publisher'.error = publisher.error
         /\ publisher'.header = publisher.header /\ publisher'.stopping = publisher.stopping
<1>1. Head(publisher.queue) \in Item /\ Tail(publisher.queue) \in Seq(Item)
  BY OutputFields, TakeFront DEF WriterTake
<1> QED
  BY <1>1 DEF WriterTake, OutputTyped

LEMMA WriterWritesFields ==
  ASSUME OutputTyped, WriterWrites, writer.item \in Item
  PROVE  /\ OutputTyped' /\ UNCHANGED <<output, device, slots, nv12, venc>>
         /\ writer.at = "write" /\ writer'.at = "wait" /\ shown' = Append(shown, writer.item)
         /\ publisher'.queue = publisher.queue /\ publisher'.error = publisher.error
         /\ publisher'.header /\ publisher'.stopping = publisher.stopping
<1>1. Append(shown, writer.item) \in Seq(Item)
  BY DEF OutputTyped
<1> QED
  BY <1>1 DEF WriterWrites, OutputTyped

LEMMA WriterEndsFields ==
  ASSUME OutputTyped, WriterSkips \/ WriterFails \/ WriterLeaves
  PROVE  /\ OutputTyped' /\ UNCHANGED <<output, device, slots, nv12, venc, shown>>
         /\ publisher'.queue = publisher.queue /\ publisher'.header = publisher.header
         /\ WriterSkips => /\ writer.at = "write" /\ ~publisher.header /\ writer'.at = "wait"
                           /\ publisher' = publisher
         /\ WriterFails => /\ writer.at = "write" /\ writer'.at = "left"
                           /\ publisher'.error /\ publisher'.stopping
         /\ WriterLeaves => /\ writer.at = "wait" /\ writer'.at = "left" /\ publisher' = publisher
                            /\ publisher.queue = <<>> /\ publisher.stopping
<1>1. CASE WriterSkips
  BY <1>1 DEF WriterSkips, WriterFails, WriterLeaves, OutputTyped
<1>2. CASE WriterFails
  BY <1>2 DEF WriterSkips, WriterFails, WriterLeaves, OutputTyped
<1>3. CASE WriterLeaves
  BY <1>3 DEF WriterSkips, WriterFails, WriterLeaves, OutputTyped
<1> QED
  BY <1>1, <1>2, <1>3

\* The slots of the last w frames.
Behind(next, w) == {Back(next, j) : j \in 1..w}

LEMMA BehindLess ==
  ASSUME NEW next \in SlotNumbers, NEW w \in 1..RtspSlots
  PROVE  /\ Behind(next, w) = Behind(next, w - 1) \cup {Back(next, w)}
         /\ Back(next, w) \notin Behind(next, w - 1)
<1>1. w \in Nat /\ RtspSlots \in Nat
  BY OutputAssumption
<1>2. \A j \in 1..w : j \in 1..(w - 1) \/ j = w
  BY <1>1
<1>3. \A j \in 1..(w - 1) : j \in 1..w /\ j \in 1..RtspSlots /\ j # w
  BY <1>1
<1>4. w \in 1..w
  BY <1>1
<1>5. Behind(next, w) = Behind(next, w - 1) \cup {Back(next, w)}
  BY <1>2, <1>3, <1>4 DEF Behind
<1>6. ASSUME NEW j \in 1..(w - 1) PROVE Back(next, j) # Back(next, w)
  BY <1>3, BackDiffers
<1> QED
  BY <1>5, <1>6 DEF Behind

LEMMA BehindMore ==
  ASSUME NEW next \in SlotNumbers, NEW w \in 0..(RtspSlots - 1)
  PROVE  /\ Behind((next % RtspSlots) + 1, w + 1) = Behind(next, w) \cup {next}
         /\ next \notin Behind(next, w)
<1>1. w \in Nat /\ RtspSlots \in Nat
  BY OutputAssumption
<1>2. \A j \in 1..w : j \in 1..RtspSlots /\ j # RtspSlots
  BY <1>1
<1>3. next \notin Behind(next, w)
  BY <1>2, BackAround DEF Behind
<1> DEFINE new == (next % RtspSlots) + 1
<1>4. Back(new, 1) = next /\ \A j \in 1..w : Back(new, j + 1) = Back(next, j)
  BY <1>2, BackMoves
<1> HIDE DEF new
<1>5. /\ 1 \in 1..(w + 1) /\ \A j \in 1..w : j + 1 \in 1..(w + 1)
      /\ \A j \in 1..(w + 1) : j = 1 \/ (j - 1 \in 1..w /\ (j - 1) + 1 = j)
  BY <1>1
<1>6. ASSUME NEW j \in 1..(w + 1)
      PROVE  Back(new, j) = next \/ \E i \in 1..w : Back(new, j) = Back(next, i)
  <2>1. CASE j = 1
    BY <1>4, <2>1
  <2>2. CASE j - 1 \in 1..w /\ (j - 1) + 1 = j
    <3>1. Back(new, (j - 1) + 1) = Back(next, j - 1)
      BY <1>4, <2>2
    <3> QED
      BY <2>2, <3>1
  <2> QED
    BY <1>5, <2>1, <2>2
<1>7. Behind(new, w + 1) = Behind(next, w) \cup {next}
  BY <1>4, <1>5, <1>6 DEF Behind
<1> QED
  BY <1>3, <1>7 DEF new

\* s lists the slots of the last frames, oldest first.
LastUsed(s, next) == \A i \in DOMAIN s : s[i] = Back(next, Len(s) + 1 - i)

LEMMA LastTail ==
  ASSUME NEW next \in SlotNumbers, NEW s \in Seq(SlotNumbers), s # <<>>, LastUsed(s, next)
  PROVE  /\ Head(s) = Back(next, Len(s)) /\ LastUsed(Tail(s), next)
         /\ Len(s) \in Nat \ {0} /\ Len(Tail(s)) = Len(s) - 1
<1>1. /\ Head(s) = s[1] /\ Len(s) \in Nat \ {0} /\ Len(Tail(s)) = Len(s) - 1
      /\ DOMAIN s = 1..Len(s) /\ DOMAIN Tail(s) = 1..(Len(s) - 1)
      /\ \A i \in 1..(Len(s) - 1) : Tail(s)[i] = s[i + 1]
  BY TakeFront
<1>2. /\ 1 \in 1..Len(s) /\ Len(s) + 1 - 1 = Len(s)
      /\ \A i \in 1..(Len(s) - 1) :
           i + 1 \in 1..Len(s) /\ Len(s) + 1 - (i + 1) = (Len(s) - 1) + 1 - i
  <2>1. PICK n \in Nat \ {0} : n = Len(s)
    BY <1>1
  <2>2. /\ 1 \in 1..n /\ n + 1 - 1 = n
        /\ \A i \in 1..(n - 1) : i + 1 \in 1..n /\ n + 1 - (i + 1) = (n - 1) + 1 - i
    OBVIOUS
  <2> QED
    BY <2>1, <2>2
<1>3. \A i \in 1..Len(s) : s[i] = Back(next, Len(s) + 1 - i)
  BY <1>1 DEF LastUsed
<1>4. ASSUME NEW i \in 1..(Len(s) - 1) PROVE Tail(s)[i] = Back(next, (Len(s) - 1) + 1 - i)
  BY <1>1, <1>2, <1>3
<1>5. s[1] = Back(next, Len(s))
  BY <1>2, <1>3
<1> QED
  BY <1>1, <1>4, <1>5 DEF LastUsed

LEMMA LastMore ==
  ASSUME NEW next \in SlotNumbers, NEW s \in Seq(SlotNumbers), Len(s) < RtspSlots,
         LastUsed(s, next)
  PROVE  /\ LastUsed(Append(s, next), (next % RtspSlots) + 1)
         /\ Len(s) \in Nat /\ Len(Append(s, next)) = Len(s) + 1
<1> DEFINE new == (next % RtspSlots) + 1
<1>1. /\ Append(s, next) \in Seq(SlotNumbers) /\ Len(s) \in Nat
      /\ Len(Append(s, next)) = Len(s) + 1
      /\ DOMAIN s = 1..Len(s) /\ DOMAIN Append(s, next) = 1..(Len(s) + 1)
      /\ Append(s, next)[Len(s) + 1] = next
      /\ \A i \in 1..Len(s) : Append(s, next)[i] = s[i]
  BY PutBack
<1>2. Back(new, 1) = next
      /\ \A j \in 1..RtspSlots : j # RtspSlots => Back(new, j + 1) = Back(next, j)
  BY BackMoves
<1> HIDE DEF new
<1>3. ASSUME NEW i \in 1..Len(s)
      PROVE  Append(s, next)[i] = Back(new, (Len(s) + 1) + 1 - i)
  <2>1. /\ Len(s) + 1 - i \in 1..RtspSlots /\ Len(s) + 1 - i # RtspSlots
        /\ (Len(s) + 1 - i) + 1 = (Len(s) + 1) + 1 - i
    BY <1>1, OutputAssumption
  <2>2. s[i] = Back(next, Len(s) + 1 - i)
    BY <1>1 DEF LastUsed
  <2>3. Back(new, (Len(s) + 1 - i) + 1) = Back(next, Len(s) + 1 - i)
    BY <1>2, <2>1
  <2> QED
    BY <1>1, <2>1, <2>2, <2>3
<1>4. Append(s, next)[Len(s) + 1] = Back(new, (Len(s) + 1) + 1 - (Len(s) + 1))
  BY <1>1, <1>2
<1>5. \A i \in 1..(Len(s) + 1) : i \in 1..Len(s) \/ i = Len(s) + 1
  BY <1>1
<1>6. LastUsed(Append(s, next), new)
  BY <1>1, <1>3, <1>4, <1>5 DEF LastUsed
<1> QED
  BY <1>1, <1>6 DEF new

-----------------------------------------------------------------------------
(* The frames on their way to the output.                                  *)

Flushing == One(venc.at = "flush")
Written == One(writer.at = "write")
\* How many slots wait for the publisher, and how many are not given back.
Waits == Len(nv12.pending) + Flushing
Keeps == Len(nv12.pending) + One(venc.at \in {"flush", "release"})

OutAt == {"tensor", "flush", "reserve", "enqueue"}

\* What each kind of output leaves alone, and how its threads end.
KindsInv ==
  /\ venc.at # "left" => output = "dvpp"
  /\ nv12.error => output = "dvpp" /\ nv12.pending = <<>> /\ venc.at = "left"
  /\ output \in {"none", "tensor"} => nv12.pending = <<>> /\ device.converting = <<>>
  /\ run.at = "tensor" => output = "tensor"
  /\ run.at = "flush" => output = "x264"
  /\ run.at = "reserve" => output = "dvpp"
  /\ run.at = "enqueue" => output \in {"x264", "dvpp"}
  /\ output = "none" => publisher.queue = <<>> /\ writer.at = "left" /\ shown = <<>>
  /\ ~publisher.header => shown = <<>> /\ output = "dvpp"
  /\ writer.at = "write" => writer.item \in Item
  /\ publisher.error => writer.at = "left"
  /\ writer.at = "left" /\ output # "none" =>
       publisher.stopping /\ (publisher.error \/ publisher.queue = <<>>)

\* The slots that wait are the last ones used, oldest first, the encoder thread has the
\* one before them, and what is converted is for one of these.
RingInv ==
  ~nv12.error =>
    /\ Keeps <= RtspSlots
    /\ run.at = "enqueue" => Keeps < RtspSlots
    /\ LastUsed(nv12.pending, nv12.next)
    /\ venc.at \in {"flush", "release"} =>
         venc.slot = Back(nv12.next, Len(nv12.pending) + 1)
    /\ \A i \in DOMAIN device.converting :
         device.converting[i].slot \in Behind(nv12.next, Waits)

\* in_flight is set for the slots that are not given back and for the one reserved.
BusyInv ==
  ~nv12.error =>
    \A s \in SlotNumbers :
      slots[s].busy <=> \/ output = "dvpp" /\ s \in Behind(nv12.next, Keeps)
                        \/ output = "dvpp" /\ run.at = "enqueue" /\ s = nv12.next

\* The frames before k were written or skipped, those before m left the slots, and those
\* before n entered them.
ShownTo(k) ==
  /\ Len(shown) <= k /\ CountsJobs(shown, k - Len(shown))
  /\ output # "dvpp" => k = Len(shown)
QueuedTo(k, m) ==
  /\ writer.at = "write" => writer.item.frame = k
  /\ CountsJobs(publisher.queue, k + Written)
  /\ m = k + Written + Len(publisher.queue)
InSlotsTo(m, n) ==
  /\ n = m + Waits
  /\ \A j \in 1..Waits : slots[Back(nv12.next, j)].frame = n - j
\* A frame that was decoded enters a slot, unless that throws.
DecodedTo(n) ==
  /\ Len(decoded) - 1 <= n /\ n <= Len(decoded)
  /\ Flows => n = Len(decoded) - One(run.at \in OutAt)

Line(k, m, n) ==
  /\ ShownTo(k)
  /\ ~publisher.error => QueuedTo(k, m)
  /\ ~publisher.error /\ ~nv12.error /\ output # "none" => InSlotsTo(m, n) /\ DecodedTo(n)
LineInv == \E k, m, n \in Nat : Line(k, m, n)

\* An item shows its picture.  In "x264" the decoder may be some frames ahead.
Shows(item) ==
  item.shows \in IF output = "x264" THEN item.frame..(item.frame + RtspSlots) ELSE {item.frame}

\* A conversion has the input it was started with.
Intact(x) ==
  IF output = "x264" THEN x.input = device.out
  ELSE /\ x.input = slots[x.slot].fp16 /\ x.input # NoBuffer
       /\ device.holds[x.input] = slots[x.slot].frame

\* What was written, is being written or waits to be written.
ItemsShow ==
  /\ \A i \in DOMAIN shown : Shows(shown[i])
  /\ \A i \in DOMAIN publisher.queue : Shows(publisher.queue[i])
  /\ writer.at = "write" => Shows(writer.item)

\* The decoder's buffer holds the last frame, in "dvpp" until the slot takes it.
DecoderHolds ==
  /\ output # "dvpp" /\ decoded # <<>> => device.holds[device.out] = Len(decoded) - 1
  /\ output = "dvpp" /\ run.at \in {"reserve", "enqueue"} =>
       device.holds[device.out] = run.frame

\* A slot that waits and is converted has its picture.
SlotsShow ==
  ~nv12.error /\ ~publisher.error =>
    /\ \A i \in DOMAIN device.converting : Intact(device.converting[i])
    /\ \A s \in Behind(nv12.next, Waits) :
         Converted(s) => Shows([frame |-> slots[s].frame, shows |-> slots[s].picture])

PicturesInv == ItemsShow /\ DecoderHolds /\ SlotsShow

OutputInv ==
  OutputTyped /\ BuffersInv /\ KindsInv /\ RingInv /\ BusyInv /\ LineInv /\ PicturesInv


\* The elements of a sequence.
LEMMA ElementsIn ==
  ASSUME NEW T, NEW s \in Seq(T)
  PROVE  \A i \in DOMAIN s : s[i] \in T
OBVIOUS

\* What is being converted is for a slot, from a buffer.
LEMMA ConversionTyped ==
  ASSUME OutputTyped
  PROVE  \A i \in DOMAIN device.converting :
           device.converting[i].slot \in SlotNumbers /\ device.converting[i].input \in Buffers
<1>1. \A i \in DOMAIN device.converting :
        device.converting[i] \in [slot : SlotNumbers, input : Buffers]
  BY OutputFields, ElementsIn
<1> QED
  BY <1>1

\* The counters of the slots.
LEMMA CountersTyped ==
  ASSUME OutputTyped
  PROVE  /\ Len(nv12.pending) \in Nat /\ Flushing \in {0, 1} /\ Written \in {0, 1}
         /\ Waits \in Nat /\ Keeps \in Nat /\ Waits <= Keeps
         /\ DOMAIN nv12.pending = 1..Len(nv12.pending)
         /\ DOMAIN device.converting = 1..Len(device.converting)
         /\ Len(device.converting) \in Nat
         /\ Len(publisher.queue) \in Nat /\ DOMAIN publisher.queue = 1..Len(publisher.queue)
         /\ Len(shown) \in Nat /\ DOMAIN shown = 1..Len(shown) /\ shown \in Seq(Item)
<1>1. /\ nv12.pending \in Seq(SlotNumbers) /\ publisher.queue \in Seq(Item)
      /\ device.converting \in Seq([slot : SlotNumbers, input : Buffers])
  BY OutputFields
<1>2. shown \in Seq(Item)
  BY DEF OutputTyped
<1>3. Flushing \in {0, 1} /\ Written \in {0, 1} /\ One(venc.at \in {"flush", "release"}) \in {0, 1}
      /\ Flushing <= One(venc.at \in {"flush", "release"})
  BY DEF Flushing, Written, One
<1>4. Len(nv12.pending) \in Nat
  BY <1>1
<1>5. Waits \in Nat /\ Keeps \in Nat /\ Waits <= Keeps
  BY <1>3, <1>4 DEF Waits, Keeps
<1> QED
  BY <1>1, <1>2, <1>3, <1>4, <1>5

\* The slots that wait are slots, and the one that comes next is none of them unless all
\* are in use.
LEMMA WaitingSlots ==
  ASSUME OutputTyped, RingInv, ~nv12.error
  PROVE  /\ Behind(nv12.next, Waits) \subseteq SlotNumbers
         /\ Behind(nv12.next, Keeps) \subseteq SlotNumbers
         /\ \A j \in 1..Waits : Back(nv12.next, j) \in SlotNumbers
         /\ Waits <= RtspSlots /\ Keeps <= RtspSlots /\ RtspSlots \in Nat
         /\ run.at = "enqueue" => /\ nv12.next \notin Behind(nv12.next, Waits)
                                  /\ nv12.next \notin Behind(nv12.next, Keeps)
<1>1. nv12.next \in SlotNumbers /\ RtspSlots \in Nat
  BY OutputFields, OutputAssumption
<1>2. Waits \in Nat /\ Keeps \in Nat /\ Waits <= Keeps
  BY CountersTyped
<1>3. Keeps <= RtspSlots /\ (run.at = "enqueue" => Keeps < RtspSlots)
  BY DEF RingInv
<1>4. ASSUME NEW j \in 1..Keeps PROVE Back(nv12.next, j) \in SlotNumbers
  <2>1. j \in 0..RtspSlots
    BY <1>1, <1>2, <1>3
  <2> QED
    BY <1>1, <2>1, BackIn
<1>5. \A j \in 1..Waits : j \in 1..Keeps
  BY <1>2
<1>6. ASSUME run.at = "enqueue" PROVE nv12.next \notin Behind(nv12.next, Waits)
                                       /\ nv12.next \notin Behind(nv12.next, Keeps)
  <2>1. Waits \in 0..(RtspSlots - 1) /\ Keeps \in 0..(RtspSlots - 1)
    BY <1>1, <1>2, <1>3, <1>6
  <2> QED
    BY <1>1, <2>1, BehindMore
<1> QED
  BY <1>1, <1>2, <1>3, <1>4, <1>5, <1>6 DEF Behind

\* The invariants, where a step changes nothing that they are about.
LEMMA BuffersKept ==
  ASSUME BuffersInv, output' = output, device'.out = device.out, nv12'.next = nv12.next,
         \A s \in SlotNumbers : slots'[s].fp16 = slots[s].fp16
  PROVE  BuffersInv'
BY DEF BuffersInv

LEMMA RingKept ==
  ASSUME RingInv, nv12'.pending = nv12.pending, nv12'.next = nv12.next,
         nv12'.error = nv12.error, venc' = venc, device'.converting = device.converting,
         run'.at = "enqueue" => run.at = "enqueue"
  PROVE  RingInv' /\ Waits' = Waits /\ Keeps' = Keeps
<1>1. Waits' = Waits /\ Keeps' = Keeps
  BY DEF Waits, Keeps, Flushing
<1> QED
  BY <1>1 DEF RingInv

LEMMA BusyKept ==
  ASSUME BusyInv, output' = output, nv12'.next = nv12.next, nv12'.error = nv12.error,
         Keeps' = Keeps, run'.at = "enqueue" <=> run.at = "enqueue",
         \A s \in SlotNumbers : slots'[s].busy = slots[s].busy
  PROVE  BusyInv'
BY DEF BusyInv

LEMMA ShownKept ==
  ASSUME NEW k \in Nat, ShownTo(k), shown' = shown, output' = output
  PROVE  ShownTo(k)'
BY DEF ShownTo

LEMMA QueuedKept ==
  ASSUME NEW k \in Nat, NEW m \in Nat, QueuedTo(k, m), writer' = writer,
         publisher'.queue = publisher.queue
  PROVE  QueuedTo(k, m)'
BY DEF QueuedTo, Written

LEMMA InSlotsKept ==
  ASSUME OutputTyped, RingInv, ~nv12.error, NEW m \in Nat, NEW n \in Nat, InSlotsTo(m, n),
         Waits' = Waits, nv12'.next = nv12.next,
         \A s \in SlotNumbers : slots'[s].frame = slots[s].frame
  PROVE  InSlotsTo(m, n)'
BY WaitingSlots DEF InSlotsTo

LEMMA DecodedKept ==
  ASSUME NEW n \in Nat, DecodedTo(n), decoded' = decoded, Flows' => Flows,
         run'.at \in OutAt <=> run.at \in OutAt
  PROVE  DecodedTo(n)'
<1>1. One(run'.at \in OutAt) = One(run.at \in OutAt)
  BY DEF One
<1> QED
  BY <1>1 DEF DecodedTo

LEMMA ItemsKept ==
  ASSUME ItemsShow, output' = output, shown' = shown, writer' = writer,
         publisher'.queue = publisher.queue
  PROVE  ItemsShow'
BY DEF ItemsShow, Shows

LEMMA HoldsKept ==
  ASSUME DecoderHolds, output' = output, decoded' = decoded, device'.out = device.out,
         device'.holds = device.holds,
         run'.at \in {"reserve", "enqueue"} =>
           run.at \in {"reserve", "enqueue"} /\ run'.frame = run.frame
  PROVE  DecoderHolds'
BY DEF DecoderHolds

LEMMA SlotsShowKept ==
  ASSUME OutputTyped, RingInv, SlotsShow, output' = output, device' = device,
         nv12'.error = nv12.error, publisher'.error = publisher.error,
         nv12'.next = nv12.next, Waits' = Waits,
         \A s \in SlotNumbers : /\ slots'[s].frame = slots[s].frame
                                /\ slots'[s].picture = slots[s].picture
                                /\ slots'[s].fp16 = slots[s].fp16
  PROVE  SlotsShow'
<1> SUFFICES ASSUME ~nv12.error, ~publisher.error
             PROVE  /\ \A i \in DOMAIN device.converting : Intact(device.converting[i])'
                    /\ \A s \in Behind(nv12.next, Waits) : Converted(s)' =>
                         Shows([frame |-> slots[s].frame, shows |-> slots[s].picture])'
  BY DEF SlotsShow
<1>1. \A i \in DOMAIN device.converting : device.converting[i].slot \in SlotNumbers
  BY ConversionTyped
<1>2. \A i \in DOMAIN device.converting : Intact(device.converting[i])'
  BY <1>1 DEF SlotsShow, Intact
<1>3. ASSUME NEW s \in Behind(nv12.next, Waits), Converted(s)'
      PROVE  Shows([frame |-> slots[s].frame, shows |-> slots[s].picture])'
  <2>1. Converted(s) /\ s \in SlotNumbers
    BY <1>3, WaitingSlots DEF Converted
  <2>2. slots'[s].frame = slots[s].frame /\ slots'[s].picture = slots[s].picture
    BY <2>1
  <2> QED
    BY <1>3, <2>1, <2>2 DEF SlotsShow, Shows
<1> QED
  BY <1>2, <1>3

\* A step of the threads that leaves the output alone.
LEMMA OutputIdle ==
  ASSUME OutputInv, UNCHANGED rtspVars, decoded' = decoded, Flows' => Flows,
         run' = run \/ (run.at \notin OutAt /\ run'.at \notin OutAt)
  PROVE  OutputInv'
<1> USE DEF OutputInv
<1>1. UNCHANGED <<output, device, slots, nv12, venc, publisher, writer, shown>>
  BY DEF rtspVars
<1>2. /\ run'.at \in OutAt <=> run.at \in OutAt
      /\ run'.at \in OutAt => run' = run
  OBVIOUS
<1>3. /\ run'.at = "enqueue" <=> run.at = "enqueue"
      /\ run'.at \in {"reserve", "enqueue"} =>
           run.at \in {"reserve", "enqueue"} /\ run'.frame = run.frame
  BY <1>2 DEF OutAt
<1>4. OutputTyped' /\ BuffersInv'
  BY <1>1, BuffersKept DEF OutputTyped
<1>5. KindsInv'
  BY <1>1, <1>2 DEF KindsInv, OutAt
<1>6. RingInv' /\ Waits' = Waits /\ Keeps' = Keeps
  BY <1>1, <1>3, RingKept
<1>7. BusyInv'
  BY <1>1, <1>3, <1>6, BusyKept
<1>8. LineInv'
  <2>1. PICK k \in Nat, m \in Nat, n \in Nat : Line(k, m, n)
    BY DEF LineInv
  <2>2. Line(k, m, n)'
    BY <1>1, <1>2, <1>6, <2>1, ShownKept, QueuedKept, InSlotsKept, DecodedKept DEF Line
  <2> QED
    BY <2>2 DEF LineInv
<1>9. PicturesInv'
  BY <1>1, <1>3, <1>6, ItemsKept, HoldsKept, SlotsShowKept DEF PicturesInv
<1> QED
  BY <1>4, <1>5, <1>6, <1>7, <1>8, <1>9

\* The model decoder writes the next frame into its buffer, which no slot has.
LEMMA OutputModel ==
  ASSUME OutputInv, Decode(run.frame), run.at = "model", run.frame = Len(decoded),
         decoded \in Seq(Nat), decoded' = Append(decoded, run.frame), Flows,
         output \in {"none", "tensor", "x264", "dvpp"},
         run'.at = CASE output = "none" -> "idle" [] output = "tensor" -> "tensor"
                     [] output = "x264" -> "flush" [] output = "dvpp" -> "reserve",
         run'.at = "reserve" => run'.frame = run.frame
  PROVE  OutputInv'
<1> USE DEF OutputInv
<1>0. Len(decoded) \in Nat /\ run.frame \in Nat /\ Len(decoded') = Len(decoded) + 1
  OBVIOUS
<1>1. /\ OutputTyped' /\ UNCHANGED <<output, slots, nv12, venc, publisher, writer, shown>>
      /\ device'.out = device.out /\ device'.converting = device.converting
      /\ \A b \in Buffers :
           device'.holds[b] = IF b = device.out THEN run.frame ELSE device.holds[b]
  BY <1>0, DecodeFields
<1>2. /\ run'.at # "enqueue" /\ run.at # "enqueue" /\ run.at \notin OutAt
      /\ output # "none" => run'.at \in OutAt
  BY DEF OutAt
<1>3. BuffersInv'
  BY <1>1, BuffersKept
<1>4. KindsInv'
  BY <1>1 DEF KindsInv
<1>5. RingInv' /\ Waits' = Waits /\ Keeps' = Keeps
  BY <1>1, <1>2, RingKept
<1>6. BusyInv'
  BY <1>1, <1>2, <1>5, BusyKept
<1>7. LineInv'
  <2>1. PICK k \in Nat, m \in Nat, n \in Nat : Line(k, m, n)
    BY DEF LineInv
  <2>2. ASSUME output # "none", DecodedTo(n) PROVE DecodedTo(n)'
    <3>1. One(run.at \in OutAt) = 0 /\ One(run'.at \in OutAt) = 1
      BY <1>2, <2>2 DEF One
    <3>2. n = Len(decoded)
      BY <1>0, <2>2, <3>1 DEF DecodedTo
    <3> QED
      BY <1>0, <3>1, <3>2 DEF DecodedTo
  <2>3. Line(k, m, n)'
    BY <1>1, <1>5, <2>1, <2>2, ShownKept, QueuedKept, InSlotsKept DEF Line
  <2> QED
    BY <2>3 DEF LineInv
<1>8. ItemsShow'
  BY <1>1, ItemsKept DEF PicturesInv
<1>9. DecoderHolds'
  <2>1. device'.holds[device'.out] = run.frame
    BY <1>1, OutputFields
  <2> QED
    BY <1>0, <1>1, <2>1 DEF DecoderHolds
<1>10. SlotsShow'
  <2> SUFFICES ASSUME ~nv12.error, ~publisher.error
               PROVE  /\ \A i \in DOMAIN device.converting : Intact(device.converting[i])'
                      /\ \A s \in Behind(nv12.next, Waits) : Converted(s)' =>
                           Shows([frame |-> slots[s].frame, shows |-> slots[s].picture])'
    BY <1>1, <1>5 DEF SlotsShow
  <2>1. ASSUME NEW i \in DOMAIN device.converting PROVE Intact(device.converting[i])'
    <3>1. /\ device.converting[i].slot \in SlotNumbers /\ device.converting[i].input \in Buffers
          /\ Intact(device.converting[i])
      BY <2>1, ConversionTyped DEF PicturesInv, SlotsShow
    <3>2. CASE output = "x264"
      BY <1>1, <3>1, <3>2 DEF Intact
    <3>3. CASE output # "x264"
      <4>1. device.converting[i].input # device.out
        BY <3>1, <3>3 DEF Intact, BuffersInv
      <4> QED
        BY <1>1, <3>1, <3>3, <4>1 DEF Intact
    <3> QED
      BY <3>2, <3>3
  <2>2. ASSUME NEW s \in Behind(nv12.next, Waits), Converted(s)'
        PROVE  Shows([frame |-> slots[s].frame, shows |-> slots[s].picture])'
    <3>1. Converted(s)
      BY <1>1, <2>2 DEF Converted
    <3>2. Shows([frame |-> slots[s].frame, shows |-> slots[s].picture])
      BY <2>2, <3>1 DEF PicturesInv, SlotsShow
    <3> QED
      BY <1>1, <3>2 DEF Shows
  <2> QED
    BY <2>1, <2>2
<1> QED
  BY <1>1, <1>3, <1>4, <1>5, <1>6, <1>7, <1>8, <1>9, <1>10 DEF PicturesInv

\* An item that goes to the publisher's queue is the next one there, and shows its picture.
LEMMA QueueMore ==
  ASSUME OutputTyped, NEW k \in Nat, NEW m \in Nat, QueuedTo(k, m), ItemsShow,
         NEW item \in Item, item.frame = m, Shows(item), output' = output, shown' = shown,
         writer' = writer, publisher'.queue = Append(publisher.queue, item)
  PROVE  QueuedTo(k, m + 1)' /\ ItemsShow'
<1> DEFINE q == publisher.queue
<1>1. /\ Len(q) \in Nat /\ Len(Append(q, item)) = Len(q) + 1
      /\ DOMAIN q = 1..Len(q) /\ DOMAIN Append(q, item) = 1..(Len(q) + 1)
      /\ Append(q, item)[Len(q) + 1] = item
      /\ \A i \in 1..Len(q) : Append(q, item)[i] = q[i]
  BY PutBack, OutputFields
<1> HIDE DEF q
<1>2. Written \in Nat /\ Written' = Written
  BY CountersTyped DEF Written
<1>3. CountsJobs(q, k + Written) /\ m = k + Written + Len(q)
  BY DEF QueuedTo, q
<1>4. \A i \in 1..(Len(q) + 1) : i \in 1..Len(q) \/ i = Len(q) + 1
  BY <1>1
<1>5. CountsJobs(Append(q, item), k + Written)
  <2> SUFFICES ASSUME NEW i \in 1..(Len(q) + 1)
               PROVE  Append(q, item)[i].frame = (k + Written) + i - 1
    BY <1>1 DEF CountsJobs
  <2>1. CASE i \in 1..Len(q)
    BY <1>1, <1>3, <2>1 DEF CountsJobs
  <2>2. CASE i = Len(q) + 1
    BY <1>1, <1>2, <1>3, <2>2
  <2> QED
    BY <1>4, <2>1, <2>2
<1>6. QueuedTo(k, m + 1)'
  <2>1. m + 1 = k + Written + (Len(q) + 1)
    BY <1>1, <1>2, <1>3
  <2>2. publisher'.queue = Append(q, item)
    BY DEF q
  <2>3. writer.at = "write" => writer.item.frame = k
    BY DEF QueuedTo
  <2> QED
    BY <1>1, <1>2, <1>5, <2>1, <2>2, <2>3 DEF QueuedTo
<1>7. \A i \in 1..(Len(q) + 1) : Shows(Append(q, item)[i])
  BY <1>1, <1>4 DEF ItemsShow, q
<1>8. ItemsShow'
  BY <1>1, <1>7 DEF ItemsShow, Shows, q
<1> QED
  BY <1>6, <1>8

\* WriteTensorFrame.
LEMMA OutputTensor ==
  ASSUME OutputInv, WriteTensorFrame(run.frame), run.at = "tensor",
         run.frame = Len(decoded) - 1, run.frame \in Nat, decoded \in Seq(Nat),
         decoded' = decoded, run'.at = "idle", Flows
  PROVE  OutputInv'
<1> USE DEF OutputInv
<1>1. /\ OutputTyped' /\ UNCHANGED <<output, device, slots, nv12, venc, writer, shown>>
      /\ CanWrite
      /\ publisher'.queue = Append(publisher.queue,
           [frame |-> run.frame, shows |-> device.holds[device.out]])
      /\ publisher'.error = publisher.error /\ publisher'.header = publisher.header
      /\ publisher'.stopping = publisher.stopping
  BY TensorFields
<1>2. /\ output = "tensor" /\ ~publisher.error /\ ~publisher.stopping /\ ~nv12.error
      /\ nv12.pending = <<>> /\ device.converting = <<>> /\ Flushing = 0
  BY <1>1 DEF KindsInv, CanWrite, Flushing, One
<1>3. /\ run'.at \notin OutAt /\ run'.at # "enqueue" /\ run.at # "enqueue" /\ run.at \in OutAt
  BY DEF OutAt
<1>4. BuffersInv'
  BY <1>1, BuffersKept
<1>5. KindsInv'
  BY <1>1, <1>2 DEF KindsInv
<1>6. RingInv' /\ Waits' = Waits /\ Keeps' = Keeps
  BY <1>1, <1>3, RingKept
<1>7. BusyInv'
  BY <1>1, <1>3, <1>6, BusyKept
<1>8. PICK k \in Nat, m \in Nat, n \in Nat : Line(k, m, n)
  BY DEF LineInv
<1>9. /\ ShownTo(k) /\ QueuedTo(k, m) /\ InSlotsTo(m, n) /\ DecodedTo(n)
  BY <1>2, <1>8 DEF Line
<1>10. Waits = 0
  BY <1>2 DEF Waits
<1>11. n = m /\ n = run.frame
  <2>1. One(run.at \in OutAt) = 1
    BY <1>3 DEF One
  <2> QED
    BY <1>9, <1>10, <2>1 DEF InSlotsTo, DecodedTo
<1> DEFINE item == [frame |-> run.frame, shows |-> device.holds[device.out]]
<1>12. item \in Item /\ item.frame = m
  BY <1>11, OutputFields DEF Item
<1>13. Shows(item)
  <2>1. decoded # <<>>
    OBVIOUS
  <2>2. item.shows = run.frame /\ item.frame = run.frame
    BY <1>2, <2>1 DEF PicturesInv, DecoderHolds
  <2> QED
    BY <1>2, <2>2 DEF Shows
<1> HIDE DEF item
<1>14. QueuedTo(k, m + 1)' /\ ItemsShow'
  BY <1>1, <1>9, <1>12, <1>13, QueueMore DEF PicturesInv, item
<1>15. ShownTo(k)' /\ InSlotsTo(m + 1, n + 1)' /\ DecodedTo(n + 1)'
  <2>1. InSlotsTo(m + 1, n + 1)'
    BY <1>6, <1>10, <1>11 DEF InSlotsTo
  <2>2. One(run'.at \in OutAt) = 0
    BY <1>3 DEF One
  <2>3. DecodedTo(n + 1)'
    BY <1>11, <2>2 DEF DecodedTo
  <2> QED
    BY <1>1, <1>9, <2>1, <2>3, ShownKept
<1>16. LineInv'
  <2>1. Line(k, m + 1, n + 1)'
    BY <1>14, <1>15 DEF Line
  <2> QED
    BY <2>1 DEF LineInv
<1>17. DecoderHolds' /\ SlotsShow'
  BY <1>1, <1>2, <1>6, HoldsKept, SlotsShowKept DEF PicturesInv
<1> QED
  BY <1>1, <1>4, <1>5, <1>6, <1>7, <1>14, <1>16, <1>17 DEF PicturesInv

\* The oldest slot that waits.
LEMMA OldestSlot ==
  ASSUME OutputInv, ~nv12.error, Waits # 0, NEW m \in Nat, NEW n \in Nat, InSlotsTo(m, n)
  PROVE  /\ Back(nv12.next, Waits) \in Behind(nv12.next, Waits)
         /\ Back(nv12.next, Waits) \in SlotNumbers /\ slots[Back(nv12.next, Waits)].frame = m
         /\ Waits \in 1..RtspSlots
         /\ Behind(nv12.next, Waits) =
              Behind(nv12.next, Waits - 1) \cup {Back(nv12.next, Waits)}
<1>1. Waits \in Nat /\ RtspSlots \in Nat /\ Waits <= RtspSlots /\ nv12.next \in SlotNumbers
      /\ \A j \in 1..Waits : Back(nv12.next, j) \in SlotNumbers
  BY WaitingSlots, CountersTyped, OutputFields DEF OutputInv
<1>2. Waits \in 1..Waits /\ Waits \in 1..RtspSlots
  BY <1>1
<1>3. slots[Back(nv12.next, Waits)].frame = n - Waits /\ n = m + Waits
  BY <1>2 DEF InSlotsTo
<1>4. n - Waits = m
  BY <1>1, <1>3
<1> QED
  BY <1>1, <1>2, <1>3, <1>4, BehindLess DEF Behind

\* When the oldest slot leaves, the others stay as they are.
LEMMA InSlotsLess ==
  ASSUME OutputInv, ~nv12.error, Waits # 0, NEW m \in Nat, NEW n \in Nat, InSlotsTo(m, n),
         Waits' = Waits - 1, nv12'.next = nv12.next, slots' = slots
  PROVE  InSlotsTo(m + 1, n)'
<1>1. Waits \in Nat
  BY CountersTyped DEF OutputInv
<1>2. n = (m + 1) + (Waits - 1) /\ \A j \in 1..(Waits - 1) : j \in 1..Waits
  BY <1>1 DEF InSlotsTo
<1> QED
  BY <1>2 DEF InSlotsTo

LEMMA SlotsShowLess ==
  ASSUME OutputInv, Waits # 0, NEW m \in Nat, NEW n \in Nat, InSlotsTo(m, n),
         Waits' = Waits - 1, nv12'.next = nv12.next, nv12'.error = nv12.error,
         publisher'.error = publisher.error, UNCHANGED <<output, device, slots>>
  PROVE  SlotsShow'
<1> SUFFICES ASSUME ~nv12.error, ~publisher.error
             PROVE  /\ \A i \in DOMAIN device.converting : Intact(device.converting[i])'
                    /\ \A s \in Behind(nv12.next, Waits - 1) : Converted(s)' =>
                         Shows([frame |-> slots[s].frame, shows |-> slots[s].picture])'
  BY DEF SlotsShow
<1>1. \A i \in DOMAIN device.converting : Intact(device.converting[i])'
  BY DEF OutputInv, PicturesInv, SlotsShow, Intact
<1>2. \A s \in Behind(nv12.next, Waits - 1) : s \in Behind(nv12.next, Waits)
  BY OldestSlot
<1>3. \A s \in Behind(nv12.next, Waits) : Converted(s) =>
        Shows([frame |-> slots[s].frame, shows |-> slots[s].picture])
  BY DEF OutputInv, PicturesInv, SlotsShow
<1> QED
  BY <1>1, <1>2, <1>3 DEF Converted, Shows

\* FlushOne on the thread that decodes, or that drains.
LEMMA OutputFlush ==
  ASSUME OutputInv, FlushFront, output = "x264", nv12.pending # <<>>, decoded' = decoded,
         Flows' => Flows, run'.at \in OutAt <=> run.at \in OutAt,
         run'.at \in {"idle", "enqueue"}
  PROVE  OutputInv'
<1> USE DEF OutputInv
<1>1. ~nv12.error /\ ~publisher.error /\ ~publisher.stopping /\ venc.at = "left"
  BY DEF KindsInv, FlushFront, CanWrite
<1>2. PICK k \in Nat, m \in Nat, n \in Nat : Line(k, m, n)
  BY DEF LineInv
<1>3. ShownTo(k) /\ QueuedTo(k, m) /\ InSlotsTo(m, n) /\ DecodedTo(n)
  BY <1>1, <1>2 DEF Line
<1> DEFINE s == Head(nv12.pending)
<1>4. Flushing = 0 /\ Waits = Len(nv12.pending) /\ Keeps = Len(nv12.pending)
  BY <1>1, CountersTyped DEF Waits, Keeps, Flushing, One
<1>5. /\ s = Back(nv12.next, Waits) /\ LastUsed(Tail(nv12.pending), nv12.next)
      /\ Waits \in Nat \ {0} /\ Len(Tail(nv12.pending)) = Waits - 1
  BY <1>1, <1>4, LastTail, OutputFields DEF RingInv
<1>6. /\ s \in Behind(nv12.next, Waits) /\ s \in SlotNumbers /\ slots[s].frame = m
      /\ Waits \in 1..RtspSlots
      /\ Behind(nv12.next, Waits) = Behind(nv12.next, Waits - 1) \cup {s}
  BY <1>1, <1>3, <1>5, OldestSlot
<1>7. /\ OutputTyped' /\ UNCHANGED <<output, device, slots, venc, writer, shown>>
      /\ nv12'.pending = Tail(nv12.pending) /\ nv12'.error = nv12.error
      /\ nv12'.next = nv12.next /\ CanWrite /\ Converted(s)
      /\ publisher'.queue = Append(publisher.queue,
           [frame |-> slots[s].frame, shows |-> slots[s].picture])
      /\ publisher'.error = publisher.error /\ publisher'.header = publisher.header
      /\ publisher'.stopping = publisher.stopping
  BY <1>6, FlushFields
<1> DEFINE item == [frame |-> slots[s].frame, shows |-> slots[s].picture]
<1>8. item \in Item /\ item.frame = m /\ Shows(item)
  <2>1. Shows(item)
    BY <1>1, <1>6, <1>7 DEF PicturesInv, SlotsShow
  <2>2. slots[s] \in Slot
    BY <1>6, OutputFields
  <2>3. slots[s].picture \in Picture
    BY <2>2 DEF Slot
  <2> QED
    BY <1>6, <2>1, <2>3 DEF Item
<1> HIDE DEF item, s
<1>9. QueuedTo(k, m + 1)' /\ ItemsShow'
  BY <1>3, <1>7, <1>8, QueueMore DEF PicturesInv, item
<1>10. Flushing' = 0 /\ Waits' = Waits - 1 /\ Keeps' = Waits - 1
  <2>1. One(venc'.at \in {"flush", "release"}) = 0 /\ One(venc'.at = "flush") = 0
    BY <1>1, <1>7 DEF One
  <2> QED
    BY <1>5, <1>7, <2>1 DEF Waits, Keeps, Flushing
<1>11. BuffersInv'
  BY <1>7, BuffersKept
<1>12. KindsInv'
  BY <1>1, <1>7 DEF KindsInv
<1>13. RingInv'
  <2>1. Keeps' < RtspSlots
    BY <1>6, <1>10, OutputAssumption
  <2>2. ASSUME NEW i \in DOMAIN device.converting
        PROVE  device.converting[i].slot \in Behind(nv12.next, Waits - 1)
    BY <1>1, <1>6, <1>7, <2>2 DEF RingInv, Converted
  <2>3. Keeps' <= RtspSlots
    BY <1>5, <1>10, <2>1, OutputAssumption
  <2> QED
    BY <1>1, <1>5, <1>7, <1>10, <2>1, <2>2, <2>3 DEF RingInv
<1>14. BusyInv'
  BY <1>1, <1>7 DEF BusyInv
<1>15. LineInv'
  <2>1. InSlotsTo(m + 1, n)' /\ ShownTo(k)' /\ DecodedTo(n)'
    BY <1>1, <1>3, <1>5, <1>7, <1>10, InSlotsLess, ShownKept, DecodedKept
  <2>2. Line(k, m + 1, n)'
    BY <1>9, <2>1 DEF Line
  <2> QED
    BY <2>2 DEF LineInv
<1>16. DecoderHolds' /\ SlotsShow'
  <2>1. Waits # 0
    BY <1>5
  <2> QED
    BY <1>3, <1>7, <1>10, <2>1, SlotsShowLess DEF PicturesInv, DecoderHolds
<1> QED
  BY <1>7, <1>9, <1>11, <1>12, <1>13, <1>14, <1>15, <1>16 DEF PicturesInv

\* A pipeline that is not full has a slot for the next picture.
LEMMA OutputRoom ==
  ASSUME OutputInv, NothingChanges, run.at = "flush", run'.at = "enqueue",
         Len(nv12.pending) # RtspSlots, decoded' = decoded, Flows' => Flows
  PROVE  OutputInv'
<1> USE DEF OutputInv
<1>1. UNCHANGED <<output, device, slots, nv12, venc, publisher, writer, shown>>
  BY DEF NothingChanges, rtspVars
<1>2. output = "x264" /\ venc.at = "left" /\ ~nv12.error
  BY DEF KindsInv
<1>3. run'.at \in OutAt /\ run.at \in OutAt
  BY DEF OutAt
<1>4. OutputTyped' /\ BuffersInv'
  BY <1>1, BuffersKept DEF OutputTyped
<1>5. KindsInv'
  BY <1>1, <1>2 DEF KindsInv
<1>6. Waits' = Waits /\ Keeps' = Keeps
  BY <1>1 DEF Waits, Keeps, Flushing
<1>7. RingInv'
  <2>1. Keeps = Len(nv12.pending)
    <3>1. One(venc.at \in {"flush", "release"}) = 0
      BY <1>2 DEF One
    <3> QED
      BY <3>1, CountersTyped DEF Keeps
  <2>2. Keeps < RtspSlots
    BY <1>2, <2>1, CountersTyped, OutputAssumption DEF RingInv
  <2> QED
    BY <1>1, <1>2, <1>6, <2>2 DEF RingInv
<1>8. BusyInv'
  BY <1>1, <1>2 DEF BusyInv
<1>9. LineInv'
  <2>1. PICK k \in Nat, m \in Nat, n \in Nat : Line(k, m, n)
    BY DEF LineInv
  <2>2. Line(k, m, n)'
    BY <1>1, <1>3, <1>6, <2>1, ShownKept, QueuedKept, InSlotsKept, DecodedKept DEF Line
  <2> QED
    BY <2>2 DEF LineInv
<1>10. PicturesInv'
  <2>1. DecoderHolds'
    BY <1>1, <1>2 DEF PicturesInv, DecoderHolds
  <2> QED
    BY <1>1, <1>6, <2>1, ItemsKept, SlotsShowKept DEF PicturesInv
<1> QED
  BY <1>4, <1>5, <1>7, <1>8, <1>9, <1>10

\* ReserveSlot: the encoder thread has given the slot back.
LEMMA OutputReserve ==
  ASSUME OutputInv, ReserveSlot, run.at = "reserve", run'.at = "enqueue",
         run'.frame = run.frame, decoded' = decoded, Flows' => Flows
  PROVE  OutputInv'
<1> USE DEF OutputInv
<1>1. /\ OutputTyped' /\ UNCHANGED <<output, device, nv12, venc, publisher, writer, shown>>
      /\ \A s \in SlotNumbers :
           /\ slots'[s].fp16 = slots[s].fp16 /\ slots'[s].picture = slots[s].picture
           /\ slots'[s].frame = slots[s].frame
           /\ slots'[s].busy <=> slots[s].busy \/ s = nv12.next
  BY ReserveFields
<1>2. output = "dvpp" /\ ~nv12.error /\ ~slots[nv12.next].busy
  BY DEF KindsInv, ReserveSlot
<1>3. run'.at \in OutAt /\ run.at \in OutAt
  BY DEF OutAt
<1>4. BuffersInv'
  BY <1>1, BuffersKept
<1>5. KindsInv'
  BY <1>1, <1>2 DEF KindsInv
<1>6. Waits' = Waits /\ Keeps' = Keeps
  BY <1>1 DEF Waits, Keeps, Flushing
<1>7. RingInv'
  <2>1. nv12.next \in SlotNumbers /\ RtspSlots \in Nat \ {0} /\ Keeps \in Nat
    BY OutputFields, OutputAssumption, CountersTyped
  <2>2. Keeps # RtspSlots
    <3>1. SUFFICES ASSUME Keeps = RtspSlots PROVE FALSE
      OBVIOUS
    <3>2. RtspSlots \in 1..Keeps /\ Back(nv12.next, RtspSlots) = nv12.next
      BY <2>1, <3>1, BackAround
    <3>3. nv12.next \in Behind(nv12.next, Keeps)
      BY <3>2 DEF Behind
    <3> QED
      BY <1>2, <2>1, <3>3 DEF BusyInv
  <2>3. Keeps < RtspSlots
    BY <1>2, <2>1, <2>2 DEF RingInv
  <2> QED
    BY <1>1, <1>2, <1>6, <2>3 DEF RingInv
<1>8. BusyInv'
  BY <1>1, <1>2, <1>6 DEF BusyInv
<1>9. LineInv'
  <2>1. PICK k \in Nat, m \in Nat, n \in Nat : Line(k, m, n)
    BY DEF LineInv
  <2>2. Line(k, m, n)'
    BY <1>1, <1>3, <1>6, <2>1, ShownKept, QueuedKept, InSlotsKept, DecodedKept DEF Line
  <2> QED
    BY <2>2 DEF LineInv
<1>10. PicturesInv'
  BY <1>1, <1>6, ItemsKept, HoldsKept, SlotsShowKept DEF PicturesInv
<1> QED
  BY <1>1, <1>4, <1>5, <1>7, <1>8, <1>9, <1>10

\* What throws gives the slot back, and nobody decodes any more.
LEMMA OutputThrows ==
  ASSUME OutputInv, IF run.at = "enqueue" THEN EnqueueThrows ELSE NothingChanges,
         run'.at = "idle", decoded' = decoded, ~Flows'
  PROVE  OutputInv'
<1> USE DEF OutputInv
<1>1. /\ OutputTyped' /\ UNCHANGED <<output, device, nv12, venc, publisher, writer, shown>>
      /\ \A s \in SlotNumbers :
           /\ slots'[s].fp16 = slots[s].fp16 /\ slots'[s].picture = slots[s].picture
           /\ slots'[s].frame = slots[s].frame
           /\ slots'[s].busy <=> slots[s].busy /\ (output = "dvpp" /\ run.at = "enqueue" => s # nv12.next)
  <2>1. CASE run.at = "enqueue"
    BY <2>1, EnqueueThrowsFields
  <2>2. CASE run.at # "enqueue"
    <3>1. UNCHANGED <<output, device, slots, nv12, venc, publisher, writer, shown>>
      BY <2>2 DEF NothingChanges, rtspVars
    <3>2. \A s \in SlotNumbers : slots[s].busy \in BOOLEAN
      BY OutputFields DEF Slot
    <3> QED
      BY <2>2, <3>1, <3>2 DEF OutputTyped
  <2> QED
    BY <2>1, <2>2
<1>2. BuffersInv'
  BY <1>1, BuffersKept
<1>3. KindsInv'
  BY <1>1 DEF KindsInv
<1>4. RingInv' /\ Waits' = Waits /\ Keeps' = Keeps
  BY <1>1, RingKept
<1>5. BusyInv'
  <2>1. ~nv12.error /\ run.at = "enqueue" => nv12.next \notin Behind(nv12.next, Keeps)
    BY WaitingSlots
  <2> QED
    BY <1>1, <1>4, <2>1 DEF BusyInv
<1>6. LineInv'
  <2>1. PICK k \in Nat, m \in Nat, n \in Nat : Line(k, m, n)
    BY DEF LineInv
  <2>2. DecodedTo(n) => DecodedTo(n)'
    BY DEF DecodedTo
  <2>3. Line(k, m, n)'
    BY <1>1, <1>4, <2>1, <2>2, ShownKept, QueuedKept, InSlotsKept DEF Line
  <2> QED
    BY <2>3 DEF LineInv
<1>7. PicturesInv'
  BY <1>1, <1>4, ItemsKept, HoldsKept, SlotsShowKept DEF PicturesInv
<1> QED
  BY <1>1, <1>2, <1>3, <1>4, <1>5, <1>6, <1>7

\* One frame more: the slots that waited are one further back, and the next one joins them.
LEMMA RingMoves ==
  ASSUME OutputTyped, RingInv, ~nv12.error, run.at = "enqueue",
         nv12'.next = (nv12.next % RtspSlots) + 1,
         nv12'.pending = Append(nv12.pending, nv12.next), venc' = venc
  PROVE  /\ Waits' = Waits + 1 /\ Keeps' = Keeps + 1 /\ Keeps + 1 <= RtspSlots
         /\ Behind(nv12'.next, Waits + 1) = Behind(nv12.next, Waits) \cup {nv12.next}
         /\ Behind(nv12'.next, Keeps + 1) = Behind(nv12.next, Keeps) \cup {nv12.next}
         /\ LastUsed(nv12'.pending, nv12'.next)
         /\ venc.at \in {"flush", "release"} =>
              venc.slot = Back(nv12'.next, Len(nv12'.pending) + 1)
         /\ Back(nv12'.next, 1) = nv12.next
         /\ \A j \in 1..Waits : Back(nv12'.next, j + 1) = Back(nv12.next, j)
         /\ \A j \in 1..Waits : Back(nv12.next, j) \in SlotNumbers \ {nv12.next}
<1>1. /\ nv12.next \in SlotNumbers /\ RtspSlots \in Nat /\ Waits \in Nat /\ Keeps \in Nat
      /\ Waits <= Keeps /\ Keeps < RtspSlots /\ nv12.pending \in Seq(SlotNumbers)
  BY OutputFields, CountersTyped, OutputAssumption DEF RingInv
<1>2. PICK p, e : p = Len(nv12.pending) /\ e = One(venc.at \in {"flush", "release"})
  OBVIOUS
<1>3. /\ p \in Nat /\ e \in {0, 1} /\ Keeps = p + e /\ p < RtspSlots
      /\ venc.at \in {"flush", "release"} => e = 1
  <2>1. p \in Nat /\ e \in {0, 1} /\ Keeps = p + e
        /\ (venc.at \in {"flush", "release"} => e = 1)
    BY <1>2, CountersTyped DEF Keeps, One
  <2> QED
    BY <1>1, <2>1
<1>4. LastUsed(nv12'.pending, nv12'.next) /\ Len(nv12'.pending) = p + 1
  BY <1>1, <1>2, <1>3, LastMore DEF RingInv
<1>5. Waits' = Waits + 1 /\ Keeps' = Keeps + 1
  <2>1. Flushing' = Flushing /\ Flushing \in {0, 1}
    BY CountersTyped DEF Flushing
  <2>2. Keeps' = (p + 1) + e
    BY <1>2, <1>4 DEF Keeps
  <2>3. Waits' = (p + 1) + Flushing /\ Waits = p + Flushing
    BY <1>2, <1>4, <2>1 DEF Waits
  <2> QED
    BY <1>3, <2>1, <2>2, <2>3
<1>6. /\ Behind(nv12'.next, Waits + 1) = Behind(nv12.next, Waits) \cup {nv12.next}
      /\ Behind(nv12'.next, Keeps + 1) = Behind(nv12.next, Keeps) \cup {nv12.next}
  <2>1. Waits \in 0..(RtspSlots - 1) /\ Keeps \in 0..(RtspSlots - 1)
    BY <1>1
  <2> QED
    BY <1>1, <2>1, BehindMore
<1>7. /\ Back(nv12'.next, 1) = nv12.next
      /\ \A j \in 1..RtspSlots : j # RtspSlots => Back(nv12'.next, j + 1) = Back(nv12.next, j)
  BY <1>1, BackMoves
<1>8. \A j \in 1..Waits : j \in 1..RtspSlots /\ j # RtspSlots
  BY <1>1
<1>9. \A j \in 1..Waits : Back(nv12.next, j) \in SlotNumbers \ {nv12.next}
  BY <1>1, <1>8, BackAround, WaitingSlots
<1>10. ASSUME venc.at \in {"flush", "release"}
       PROVE  venc.slot = Back(nv12'.next, (p + 1) + 1)
  <2>1. p + 1 \in 1..RtspSlots /\ p + 1 # RtspSlots
    BY <1>1, <1>3, <1>10
  <2>2. venc.slot = Back(nv12.next, p + 1)
    BY <1>2, <1>10 DEF RingInv
  <2> QED
    BY <1>7, <2>1, <2>2
<1>11. Keeps + 1 <= RtspSlots
  BY <1>1
<1> QED
  BY <1>4, <1>5, <1>6, <1>7, <1>8, <1>9, <1>10, <1>11

LEMMA OutputEnqueue ==
  ASSUME OutputInv, Enqueue(run.frame), run.at = "enqueue", run.frame = Len(decoded) - 1,
         run.frame \in Nat, decoded \in Seq(Nat), decoded' = decoded, run'.at = "idle", Flows
  PROVE  OutputInv'
<1> USE DEF OutputInv
<1>0. PICK new, c, q : /\ new = nv12.next /\ q = device.converting
                      /\ c = [slot |-> new, input |-> device.out]
  OBVIOUS
<1> USE <1>0
<1>1. /\ OutputTyped' /\ BuffersInv' /\ ~nv12.error
      /\ UNCHANGED <<output, venc, publisher, writer, shown>>
      /\ nv12'.pending = Append(nv12.pending, new) /\ nv12'.error = nv12.error
      /\ nv12'.next = (new % RtspSlots) + 1
      /\ device'.holds = device.holds /\ (output # "dvpp" => device'.out = device.out)
      /\ device'.converting = Append(q, c)
      /\ \A s \in SlotNumbers :
           /\ slots'[s].picture = slots[s].picture /\ slots'[s].busy = slots[s].busy
           /\ slots'[s].frame = IF s = new THEN run.frame ELSE slots[s].frame
           /\ slots'[s].fp16 = IF output = "dvpp" /\ s = new THEN device.out
                               ELSE slots[s].fp16
  BY EnqueueFields
<1>2. output \in {"x264", "dvpp"}
  BY DEF KindsInv
<1>3. /\ Waits' = Waits + 1 /\ Keeps' = Keeps + 1 /\ Keeps + 1 <= RtspSlots
      /\ Behind(nv12'.next, Waits + 1) = Behind(new, Waits) \cup {new}
      /\ Behind(nv12'.next, Keeps + 1) = Behind(new, Keeps) \cup {new}
      /\ LastUsed(nv12'.pending, nv12'.next)
      /\ venc.at \in {"flush", "release"} =>
           venc.slot = Back(nv12'.next, Len(nv12'.pending) + 1)
      /\ Back(nv12'.next, 1) = new
      /\ \A j \in 1..Waits : Back(nv12'.next, j + 1) = Back(new, j)
      /\ \A j \in 1..Waits : Back(new, j) \in SlotNumbers \ {new}
  BY <1>1, RingMoves
<1>4. new \in SlotNumbers /\ device.out \in Buffers /\ Waits \in Nat
  BY OutputFields, CountersTyped
<1>5. /\ Len(q) \in Nat /\ DOMAIN q = 1..Len(q) /\ DOMAIN Append(q, c) = 1..(Len(q) + 1)
      /\ Append(q, c)[Len(q) + 1] = c /\ \A i \in 1..Len(q) : Append(q, c)[i] = q[i]
      /\ c.slot = new /\ c.input = device.out
  <2>1. c \in [slot : SlotNumbers, input : Buffers]
    BY <1>4
  <2> QED
    BY <2>1, PutBack, OutputFields
<1>6. device'.converting = Append(q, c)
  BY <1>1
<1>7. \A i \in 1..(Len(q) + 1) : i \in 1..Len(q) \/ i = Len(q) + 1
  BY <1>5
<1>8. \A i \in 1..Len(q) : q[i].slot \in Behind(new, Waits) /\ q[i].slot \in SlotNumbers
  BY <1>1, <1>5, ConversionTyped DEF RingInv
<1>9. new \notin Behind(new, Waits) /\ Behind(new, Waits) \subseteq SlotNumbers
  BY <1>1, WaitingSlots
<1>10. KindsInv'
  BY <1>1, <1>2 DEF KindsInv
<1>11. RingInv'
  <2>1. \A i \in 1..(Len(q) + 1) : Append(q, c)[i].slot \in Behind(new, Waits) \cup {new}
    BY <1>5, <1>7, <1>8
  <2> QED
    BY <1>1, <1>3, <1>5, <1>6, <2>1 DEF RingInv
<1>12. BusyInv'
  <2>1. ASSUME NEW s \in SlotNumbers
        PROVE  slots'[s].busy <=> output = "dvpp" /\ s \in Behind(new, Keeps) \cup {new}
    BY <1>1, <2>1 DEF BusyInv
  <2> QED
    BY <1>1, <1>3, <2>1 DEF BusyInv
<1>13. LineInv'
  <2>1. PICK k \in Nat, m \in Nat, n \in Nat : Line(k, m, n)
    BY DEF LineInv
  <2>2. CASE publisher.error
    BY <1>1, <2>1, <2>2, ShownKept DEF Line, LineInv
  <2>3. CASE ~publisher.error
    <3>1. ShownTo(k) /\ QueuedTo(k, m) /\ InSlotsTo(m, n) /\ DecodedTo(n)
      BY <1>1, <1>2, <2>1, <2>3 DEF Line
    <3>2. n = run.frame
      <4>1. One(run.at \in OutAt) = 1
        BY DEF One, OutAt
      <4> QED
        BY <3>1, <4>1 DEF DecodedTo
    <3>3. DecodedTo(n + 1)'
      <4>1. One(run'.at \in OutAt) = 0
        BY DEF One, OutAt
      <4> QED
        BY <3>2, <4>1 DEF DecodedTo
    <3>4. ASSUME NEW j \in 1..(Waits + 1)
          PROVE  slots'[Back(nv12'.next, j)].frame = (n + 1) - j
      <4>1. CASE j = 1
        BY <1>1, <1>3, <1>4, <3>2, <4>1
      <4>2. CASE j # 1
        <5>1. j - 1 \in 1..Waits /\ (j - 1) + 1 = j /\ n - (j - 1) = (n + 1) - j
          BY <1>4, <4>2
        <5>2. Back(nv12'.next, j) = Back(new, j - 1) /\ Back(new, j - 1) \in SlotNumbers \ {new}
          BY <1>3, <5>1
        <5>3. slots[Back(new, j - 1)].frame = n - (j - 1)
          BY <3>1, <5>1 DEF InSlotsTo
        <5> QED
          BY <1>1, <5>1, <5>2, <5>3
      <4> QED
        BY <4>1, <4>2
    <3>5. InSlotsTo(m, n + 1)'
      <4>1. n + 1 = m + (Waits + 1)
        BY <1>4, <3>1 DEF InSlotsTo
      <4> QED
        BY <1>3, <3>4, <4>1 DEF InSlotsTo
    <3>6. Line(k, m, n + 1)'
      BY <1>1, <3>1, <3>3, <3>5, ShownKept, QueuedKept DEF Line
    <3> QED
      BY <3>6 DEF LineInv
  <2> QED
    BY <2>2, <2>3
<1>14. ItemsShow' /\ DecoderHolds'
  BY <1>1, <1>2, ItemsKept DEF PicturesInv, DecoderHolds
<1>15. SlotsShow'
  <2> SUFFICES ASSUME ~publisher.error
               PROVE  /\ \A i \in 1..(Len(q) + 1) : Intact(Append(q, c)[i])'
                      /\ \A s \in Behind(new, Waits) \cup {new} : Converted(s)' =>
                           Shows([frame |-> slots[s].frame, shows |-> slots[s].picture])'
    BY <1>1, <1>3, <1>5, <1>6 DEF SlotsShow
  <2>1. ASSUME NEW i \in 1..Len(q) PROVE Intact(q[i])'
    <3>1. Intact(q[i]) /\ q[i].slot \in SlotNumbers /\ q[i].slot # new
      BY <1>1, <1>5, <1>8, <1>9 DEF PicturesInv, SlotsShow
    <3> QED
      BY <1>1, <3>1 DEF Intact
  <2>2. Intact(c)'
    <3>1. CASE output = "x264"
      BY <1>1, <1>5, <3>1 DEF Intact
    <3>2. CASE output = "dvpp"
      <4>1. device.out # NoBuffer
        BY <1>4 DEF Buffers, NoBuffer
      <4>2. device.holds[device.out] = run.frame
        BY <3>2 DEF PicturesInv, DecoderHolds
      <4> QED
        BY <1>1, <1>4, <1>5, <3>2, <4>1, <4>2 DEF Intact
    <3> QED
      BY <1>2, <3>1, <3>2
  <2>3. ASSUME NEW s \in Behind(new, Waits) \cup {new}, Converted(s)'
        PROVE  Shows([frame |-> slots[s].frame, shows |-> slots[s].picture])'
    <3>1. Len(q) + 1 \in 1..(Len(q) + 1) /\ \A i \in 1..Len(q) : i \in 1..(Len(q) + 1)
      BY <1>5
    <3>2. \A i \in 1..(Len(q) + 1) : Append(q, c)[i].slot # s
      BY <1>5, <1>6, <2>3 DEF Converted
    <3>3. s # new
      BY <1>5, <3>1, <3>2
    <3>4. s \in Behind(new, Waits) /\ s \in SlotNumbers
      BY <1>9, <3>3
    <3>5. Converted(s)
      BY <1>5, <3>1, <3>2 DEF Converted
    <3>6. Shows([frame |-> slots[s].frame, shows |-> slots[s].picture])
      BY <1>1, <3>4, <3>5 DEF PicturesInv, SlotsShow
    <3>7. slots'[s].frame = slots[s].frame /\ slots'[s].picture = slots[s].picture
      BY <1>1, <3>3, <3>4
    <3> QED
      BY <1>1, <3>6, <3>7 DEF Shows
  <2>4. \A i \in 1..(Len(q) + 1) : Append(q, c)[i] = c \/ \E j \in 1..Len(q) : Append(q, c)[i] = q[j]
    BY <1>5, <1>7
  <2> QED
    BY <2>1, <2>2, <2>3, <2>4
<1> QED
  BY <1>1, <1>10, <1>11, <1>12, <1>13, <1>14, <1>15 DEF PicturesInv

\* The frames whose slots wait are among the last ones decoded.
LEMMA WaitingFrames ==
  ASSUME OutputInv, decoded \in Seq(Nat), NEW m \in Nat, NEW n \in Nat, InSlotsTo(m, n),
         DecodedTo(n), ~nv12.error, NEW s \in Behind(nv12.next, Waits)
  PROVE  /\ decoded # <<>> /\ slots[s].frame \in Nat /\ s \in SlotNumbers
         /\ Len(decoded) - 1 \in slots[s].frame..(slots[s].frame + RtspSlots)
<1>1. PICK j \in 1..Waits : s = Back(nv12.next, j)
  BY DEF Behind
<1>2. /\ Waits \in Nat /\ Waits <= RtspSlots /\ RtspSlots \in Nat
      /\ Behind(nv12.next, Waits) \subseteq SlotNumbers
  BY WaitingSlots, CountersTyped DEF OutputInv
<1>3. slots[s].frame = n - j /\ n = m + Waits
  BY <1>1 DEF InSlotsTo
<1>4. Len(decoded) - 1 <= n /\ n <= Len(decoded) /\ Len(decoded) \in Nat
  BY DEF DecodedTo
<1>5. n - j \in Nat /\ Len(decoded) - 1 >= n - j /\ Len(decoded) - 1 <= (n - j) + RtspSlots
      /\ Len(decoded) >= 1
  <2>1. PICK d, w \in Nat : d = Len(decoded) /\ w = Waits
    BY <1>2, <1>4
  <2>2. j \in 1..w /\ w <= RtspSlots /\ n = m + w /\ d - 1 <= n /\ n <= d
    BY <1>2, <1>3, <1>4, <2>1
  <2>3. n - j \in Nat /\ d - 1 >= n - j /\ d - 1 <= (n - j) + RtspSlots /\ d >= 1
    BY <1>2, <2>2
  <2> QED
    BY <2>1, <2>3
<1> QED
  BY <1>2, <1>3, <1>4, <1>5

\* convert_stream_ reads the picture it was started for.
LEMMA OutputConvert ==
  ASSUME OutputInv, Convert, decoded \in Seq(Nat), UNCHANGED <<run, decoded>>,
         Flows' => Flows
  PROVE  OutputInv'
<1> USE DEF OutputInv
<1>0. PICK q, c : q = device.converting /\ c = device.converting[1]
  OBVIOUS
<1> USE <1>0
<1>1. /\ OutputTyped' /\ UNCHANGED <<output, nv12, venc, publisher, writer, shown>>
      /\ device'.out = device.out /\ device'.holds = device.holds
      /\ q # <<>> /\ device'.converting = Tail(q)
      /\ \A s \in SlotNumbers :
           /\ slots'[s].fp16 = slots[s].fp16 /\ slots'[s].busy = slots[s].busy
           /\ slots'[s].frame = slots[s].frame
           /\ slots'[s].picture = IF s = c.slot THEN device.holds[c.input]
                                  ELSE slots[s].picture
  BY ConvertFields
<1>2. /\ Len(q) \in Nat \ {0} /\ DOMAIN q = 1..Len(q) /\ DOMAIN Tail(q) = 1..(Len(q) - 1)
      /\ \A i \in 1..(Len(q) - 1) : Tail(q)[i] = q[i + 1]
  BY <1>1, OutputFields, TakeFront
<1>3. \A i \in 1..(Len(q) - 1) : i + 1 \in 1..Len(q)
  BY <1>2
<1>4. BuffersInv'
  BY <1>1, BuffersKept
<1>5. KindsInv'
  BY <1>1 DEF KindsInv
<1>6. Waits' = Waits /\ Keeps' = Keeps
  BY <1>1 DEF Waits, Keeps, Flushing
<1>7. RingInv'
  <2>1. ~nv12.error => \A i \in 1..(Len(q) - 1) : Tail(q)[i].slot \in Behind(nv12.next, Waits)
    BY <1>2, <1>3 DEF RingInv
  <2> QED
    BY <1>1, <1>2, <1>6, <2>1 DEF RingInv
<1>8. BusyInv'
  BY <1>1, <1>6, BusyKept
<1>9. LineInv'
  <2>1. PICK k \in Nat, m \in Nat, n \in Nat : Line(k, m, n)
    BY DEF LineInv
  <2>2. Line(k, m, n)'
    BY <1>1, <1>6, <2>1, ShownKept, QueuedKept, InSlotsKept, DecodedKept DEF Line
  <2> QED
    BY <2>2 DEF LineInv
<1>10. ItemsShow' /\ DecoderHolds'
  BY <1>1, ItemsKept, HoldsKept DEF PicturesInv
<1>11. SlotsShow'
  <2> SUFFICES ASSUME ~nv12.error, ~publisher.error
               PROVE  /\ \A i \in 1..(Len(q) - 1) : Intact(q[i + 1])'
                      /\ \A s \in Behind(nv12.next, Waits) : Converted(s)' =>
                           Shows([frame |-> slots[s].frame, shows |-> slots[s].picture])'
    BY <1>1, <1>2, <1>6 DEF SlotsShow
  <2>1. \A i \in 1..Len(q) : Intact(q[i]) /\ q[i].slot \in SlotNumbers
    BY <1>2, ConversionTyped DEF PicturesInv, SlotsShow
  <2>2. ASSUME NEW i \in 1..(Len(q) - 1) PROVE Intact(q[i + 1])'
    <3>1. Intact(q[i + 1]) /\ q[i + 1].slot \in SlotNumbers
      BY <1>3, <2>1
    <3> QED
      BY <1>1, <3>1 DEF Intact
  <2>3. ASSUME NEW s \in Behind(nv12.next, Waits), Converted(s)'
        PROVE  Shows([frame |-> slots[s].frame, shows |-> slots[s].picture])'
    <3>1. s \in SlotNumbers
      BY <2>3, WaitingSlots
    <3>2. CASE s # c.slot
      <4>1. \A i \in 1..(Len(q) - 1) : q[i + 1].slot # s
        <5>1. \A i \in DOMAIN Tail(q) : Tail(q)[i].slot # s
          BY <1>1, <2>3 DEF Converted
        <5> QED
          BY <1>2, <5>1
      <4>2. \A i \in 1..Len(q) : i = 1 \/ (i - 1 \in 1..(Len(q) - 1) /\ (i - 1) + 1 = i)
        BY <1>2
      <4>3. Converted(s)
        <5> SUFFICES ASSUME NEW i \in 1..Len(q) PROVE q[i].slot # s
          BY <1>2 DEF Converted
        <5>1. CASE i = 1
          BY <3>2, <5>1
        <5>2. CASE i - 1 \in 1..(Len(q) - 1) /\ (i - 1) + 1 = i
          <6>1. q[(i - 1) + 1].slot # s
            BY <4>1, <5>2
          <6> QED
            BY <5>2, <6>1
        <5> QED
          BY <4>2, <5>1, <5>2
      <4>4. Shows([frame |-> slots[s].frame, shows |-> slots[s].picture])
        BY <2>3, <4>3 DEF PicturesInv, SlotsShow
      <4>5. slots'[s].frame = slots[s].frame /\ slots'[s].picture = slots[s].picture
        BY <1>1, <3>1, <3>2
      <4> QED
        BY <1>1, <4>4, <4>5 DEF Shows
    <3>3. CASE s = c.slot
      <4>1. Intact(c) /\ slots'[s].frame = slots[s].frame
            /\ slots'[s].picture = device.holds[c.input]
        BY <1>1, <1>2, <2>1, <3>1, <3>3
      <4>2. CASE output = "x264"
        <5>1. PICK k \in Nat, m \in Nat, n \in Nat : Line(k, m, n)
          BY DEF LineInv
        <5>2. /\ decoded # <<>>
              /\ Len(decoded) - 1 \in slots[s].frame..(slots[s].frame + RtspSlots)
          BY <2>3, <4>2, <5>1, WaitingFrames DEF Line
        <5>3. device.holds[c.input] = Len(decoded) - 1
          BY <4>1, <4>2, <5>2 DEF Intact, PicturesInv, DecoderHolds
        <5> QED
          BY <1>1, <4>1, <4>2, <5>2, <5>3 DEF Shows
      <4>3. CASE output # "x264"
        BY <1>1, <3>3, <4>1, <4>3 DEF Shows, Intact
      <4> QED
        BY <4>2, <4>3
    <3> QED
      BY <3>2, <3>3
  <2> QED
    BY <2>2, <2>3
<1> QED
  BY <1>1, <1>4, <1>5, <1>7, <1>8, <1>9, <1>10, <1>11 DEF PicturesInv

\* EncoderWorker takes the oldest slot.
LEMMA OutputVencTake ==
  ASSUME OutputInv, VencTake, UNCHANGED <<run, decoded>>, Flows' => Flows
  PROVE  OutputInv'
<1> USE DEF OutputInv
<1>1. /\ OutputTyped' /\ UNCHANGED <<output, device, slots, publisher, writer, shown>>
      /\ venc.at = "wait" /\ venc'.at = "flush" /\ venc'.slot = Head(nv12.pending)
      /\ nv12.pending # <<>> /\ nv12'.pending = Tail(nv12.pending)
      /\ nv12'.error = nv12.error /\ nv12'.next = nv12.next
  BY VencTakeFields
<1>2. ~nv12.error /\ output = "dvpp"
  BY <1>1 DEF KindsInv
<1>3. PICK p : p = Len(nv12.pending)
  OBVIOUS
<1>4. /\ Head(nv12.pending) = Back(nv12.next, p) /\ LastUsed(Tail(nv12.pending), nv12.next)
      /\ p \in Nat \ {0} /\ Len(Tail(nv12.pending)) = p - 1
  BY <1>1, <1>2, <1>3, LastTail, OutputFields DEF RingInv
<1>5. Waits' = Waits /\ Keeps' = Keeps
  <2>1. /\ One(venc.at = "flush") = 0 /\ One(venc.at \in {"flush", "release"}) = 0
        /\ One(venc'.at = "flush") = 1 /\ One(venc'.at \in {"flush", "release"}) = 1
    BY <1>1 DEF One
  <2>2. (p - 1) + 1 = p + 0
    BY <1>4
  <2> QED
    BY <1>1, <1>3, <1>4, <2>1, <2>2 DEF Waits, Keeps, Flushing
<1>6. BuffersInv'
  BY <1>1, BuffersKept
<1>7. KindsInv'
  BY <1>1, <1>2 DEF KindsInv
<1>8. RingInv'
  <2>1. venc'.slot = Back(nv12.next, (p - 1) + 1)
    <3>1. (p - 1) + 1 = p
      BY <1>4
    <3> QED
      BY <1>1, <1>4, <3>1
  <2> QED
    BY <1>1, <1>4, <1>5, <2>1 DEF RingInv
<1>9. BusyInv'
  BY <1>1, <1>5, BusyKept
<1>10. LineInv'
  <2>1. PICK k \in Nat, m \in Nat, n \in Nat : Line(k, m, n)
    BY DEF LineInv
  <2>2. Line(k, m, n)'
    BY <1>1, <1>5, <2>1, ShownKept, QueuedKept, InSlotsKept, DecodedKept DEF Line
  <2> QED
    BY <2>2 DEF LineInv
<1>11. PicturesInv'
  BY <1>1, <1>5, ItemsKept, HoldsKept, SlotsShowKept DEF PicturesInv
<1> QED
  BY <1>1, <1>6, <1>7, <1>8, <1>9, <1>10, <1>11

\* It hands the picture to the publisher.
LEMMA OutputVencFlush ==
  ASSUME OutputInv, VencFlush, UNCHANGED <<run, decoded>>, Flows' => Flows
  PROVE  OutputInv'
<1> USE DEF OutputInv
<1>1. ~nv12.error /\ ~publisher.error /\ output = "dvpp" /\ venc.at = "flush"
  BY DEF KindsInv, VencFlush, CanWrite
<1>2. PICK k \in Nat, m \in Nat, n \in Nat : Line(k, m, n)
  BY DEF LineInv
<1>3. ShownTo(k) /\ QueuedTo(k, m) /\ InSlotsTo(m, n) /\ DecodedTo(n)
  BY <1>1, <1>2 DEF Line
<1>4. PICK p \in Nat : p = Len(nv12.pending)
  BY CountersTyped
<1>5. Waits = p + 1 /\ Keeps = p + 1
  BY <1>1, <1>4 DEF Waits, Keeps, Flushing, One
<1>6. PICK s : s = venc.slot
  OBVIOUS
<1>7. /\ s \in Behind(nv12.next, Waits) /\ s \in SlotNumbers /\ slots[s].frame = m
      /\ Waits \in 1..RtspSlots
      /\ Behind(nv12.next, Waits) = Behind(nv12.next, Waits - 1) \cup {s}
  <2>1. Waits # 0 /\ s = Back(nv12.next, Waits)
    BY <1>1, <1>4, <1>5, <1>6 DEF RingInv
  <2> QED
    BY <1>1, <1>3, <2>1, OldestSlot
<1>8. /\ OutputTyped' /\ UNCHANGED <<output, device, slots, nv12, writer, shown>>
      /\ venc.at = "flush" /\ venc'.at = "release" /\ venc'.slot = s
      /\ Converted(s) /\ CanWrite
      /\ publisher'.queue = Append(publisher.queue,
           [frame |-> slots[s].frame, shows |-> slots[s].picture])
      /\ publisher'.error = publisher.error /\ publisher'.header = publisher.header
      /\ publisher'.stopping = publisher.stopping
  BY <1>6, <1>7, VencFlushFields
<1>9. PICK item : item = [frame |-> slots[s].frame, shows |-> slots[s].picture]
  OBVIOUS
<1>10. item \in Item /\ item.frame = m /\ Shows(item)
  <2>1. Shows(item)
    BY <1>1, <1>7, <1>8, <1>9 DEF PicturesInv, SlotsShow
  <2>2. slots[s] \in Slot
    BY <1>7, OutputFields
  <2>3. slots[s].picture \in Picture
    BY <2>2 DEF Slot
  <2> QED
    BY <1>7, <1>9, <2>1, <2>3 DEF Item
<1>11. QueuedTo(k, m + 1)' /\ ItemsShow'
  BY <1>3, <1>8, <1>9, <1>10, QueueMore DEF PicturesInv
<1>12. Waits' = Waits - 1 /\ Keeps' = Keeps
  <2>1. One(venc'.at \in {"flush", "release"}) = 1 /\ One(venc'.at = "flush") = 0
    BY <1>8 DEF One
  <2>2. Waits' = p + 0 /\ Keeps' = p + 1
    BY <1>4, <1>8, <2>1 DEF Waits, Keeps, Flushing
  <2> QED
    BY <1>5, <2>2
<1>13. BuffersInv'
  BY <1>8, BuffersKept
<1>14. KindsInv'
  <2>1. writer.at # "left" /\ ~publisher.stopping
    BY <1>1, <1>8 DEF KindsInv, CanWrite
  <2> QED
    BY <1>1, <1>8, <2>1 DEF KindsInv
<1>15. RingInv'
  <2>1. ASSUME NEW i \in DOMAIN device.converting
        PROVE  device.converting[i].slot \in Behind(nv12.next, Waits - 1)
    BY <1>1, <1>7, <1>8, <2>1 DEF RingInv, Converted
  <2>2. venc'.slot = venc.slot
    BY <1>6, <1>8
  <2> QED
    BY <1>1, <1>8, <1>12, <2>1, <2>2 DEF RingInv
<1>16. BusyInv'
  BY <1>8, <1>12, BusyKept
<1>17. LineInv'
  <2>0. Waits # 0
    BY <1>7
  <2>1. InSlotsTo(m + 1, n)' /\ ShownTo(k)' /\ DecodedTo(n)'
    BY <1>1, <1>3, <1>8, <1>12, <2>0, InSlotsLess, ShownKept, DecodedKept
  <2>2. Line(k, m + 1, n)'
    BY <1>11, <2>1 DEF Line
  <2> QED
    BY <2>2 DEF LineInv
<1>18. DecoderHolds' /\ SlotsShow'
  <2>1. Waits # 0
    BY <1>7
  <2> QED
    BY <1>3, <1>8, <1>12, <2>1, SlotsShowLess DEF PicturesInv, DecoderHolds
<1> QED
  BY <1>8, <1>11, <1>13, <1>14, <1>15, <1>16, <1>17, <1>18 DEF PicturesInv

\* It gives the slot back.
LEMMA OutputVencRelease ==
  ASSUME OutputInv, VencRelease, UNCHANGED <<run, decoded>>, Flows' => Flows
  PROVE  OutputInv'
<1> USE DEF OutputInv
<1>1. /\ OutputTyped' /\ UNCHANGED <<output, device, nv12, publisher, writer, shown>>
      /\ venc.at = "release" /\ venc'.at = "wait"
      /\ \A s \in SlotNumbers :
           /\ slots'[s].fp16 = slots[s].fp16 /\ slots'[s].picture = slots[s].picture
           /\ slots'[s].frame = slots[s].frame
           /\ slots'[s].busy <=> slots[s].busy /\ s # venc.slot
  BY VencReleaseFields
<1>2. ~nv12.error /\ output = "dvpp"
  BY <1>1 DEF KindsInv
<1>3. PICK p, s : p = Len(nv12.pending) /\ s = venc.slot /\ p \in Nat
  BY CountersTyped
<1>4. Waits = p /\ Keeps = p + 1 /\ Waits' = p /\ Keeps' = p
  <2>1. /\ One(venc.at = "flush") = 0 /\ One(venc.at \in {"flush", "release"}) = 1
        /\ One(venc'.at = "flush") = 0 /\ One(venc'.at \in {"flush", "release"}) = 0
    BY <1>1 DEF One
  <2> QED
    BY <1>1, <1>3, <2>1 DEF Waits, Keeps, Flushing
<1>5. /\ Behind(nv12.next, p + 1) = Behind(nv12.next, p) \cup {s}
      /\ s \notin Behind(nv12.next, p)
  <2>1. p + 1 \in 1..RtspSlots /\ nv12.next \in SlotNumbers /\ (p + 1) - 1 = p
    BY <1>2, <1>3, <1>4, OutputAssumption, OutputFields DEF RingInv
  <2>2. s = Back(nv12.next, p + 1)
    BY <1>1, <1>2, <1>3 DEF RingInv
  <2> QED
    BY <2>1, <2>2, BehindLess
<1>6. BuffersInv'
  BY <1>1, BuffersKept
<1>7. KindsInv'
  BY <1>1, <1>2 DEF KindsInv
<1>8. RingInv'
  BY <1>1, <1>2, <1>3, <1>4, OutputAssumption DEF RingInv
<1>9. BusyInv'
  <2>1. run.at = "enqueue" => nv12.next # s
    BY <1>2, <1>4, <1>5, WaitingSlots
  <2> QED
    BY <1>1, <1>2, <1>3, <1>4, <1>5, <2>1 DEF BusyInv
<1>10. LineInv'
  <2>1. PICK k \in Nat, m \in Nat, n \in Nat : Line(k, m, n)
    BY DEF LineInv
  <2>2. Line(k, m, n)'
    BY <1>1, <1>4, <2>1, ShownKept, QueuedKept, InSlotsKept, DecodedKept DEF Line
  <2> QED
    BY <2>2 DEF LineInv
<1>11. PicturesInv'
  BY <1>1, <1>4, ItemsKept, HoldsKept, SlotsShowKept DEF PicturesInv
<1> QED
  BY <1>1, <1>6, <1>7, <1>8, <1>9, <1>10, <1>11

\* SetWorkerError: what waits is given up.
LEMMA OutputVencFails ==
  ASSUME OutputInv, VencFails, UNCHANGED <<run, decoded>>
  PROVE  OutputInv'
<1> USE DEF OutputInv
<1>1. /\ OutputTyped' /\ UNCHANGED <<output, device, publisher, writer, shown>>
      /\ venc.at = "flush" /\ venc'.at = "left"
      /\ nv12'.error /\ nv12'.pending = <<>> /\ nv12'.next = nv12.next
      /\ \A s \in SlotNumbers :
           /\ slots'[s].fp16 = slots[s].fp16 /\ slots'[s].picture = slots[s].picture
           /\ slots'[s].frame = slots[s].frame
  BY VencFailsFields
<1>2. ~nv12.error /\ output = "dvpp"
  BY <1>1 DEF KindsInv
<1>3. BuffersInv'
  BY <1>1, BuffersKept
<1>4. KindsInv'
  BY <1>1, <1>2 DEF KindsInv
<1>5. RingInv' /\ BusyInv'
  BY <1>1 DEF RingInv, BusyInv
<1>6. LineInv'
  <2>1. PICK k \in Nat, m \in Nat, n \in Nat : Line(k, m, n)
    BY DEF LineInv
  <2>2. Line(k, m, n)'
    BY <1>1, <2>1, ShownKept, QueuedKept DEF Line
  <2> QED
    BY <2>2 DEF LineInv
<1>7. PicturesInv'
  BY <1>1, ItemsKept, HoldsKept DEF PicturesInv, SlotsShow
<1> QED
  BY <1>1, <1>3, <1>4, <1>5, <1>6, <1>7

\* Steps that move no frame.
LEMMA OutputStays ==
  ASSUME OutputInv, OutputTyped', KindsInv', UNCHANGED <<output, device, slots, shown>>,
         nv12'.pending = nv12.pending, nv12'.next = nv12.next, nv12'.error = nv12.error,
         publisher'.queue = publisher.queue, publisher'.error = publisher.error,
         Waits' = Waits, Keeps' = Keeps,
         venc' = venc \/ venc'.at = "left",
         writer' = writer \/ (writer.at # "write" /\ writer'.at # "write"),
         UNCHANGED <<run, decoded>>, Flows' => Flows
  PROVE  OutputInv'
<1> USE DEF OutputInv
<1>1. BuffersInv'
  BY BuffersKept
<1>2. RingInv' /\ BusyInv'
  BY DEF RingInv, BusyInv
<1>3. LineInv'
  <2>1. PICK k \in Nat, m \in Nat, n \in Nat : Line(k, m, n)
    BY DEF LineInv
  <2>2. ASSUME QueuedTo(k, m) PROVE QueuedTo(k, m)'
    <3>1. Written' = Written
      BY DEF Written
    <3> QED
      BY <2>2, <3>1 DEF QueuedTo
  <2>3. Line(k, m, n)'
    BY <2>1, <2>2, ShownKept, InSlotsKept, DecodedKept DEF Line
  <2> QED
    BY <2>3 DEF LineInv
<1>4. PicturesInv'
  <2>1. ItemsShow'
    BY DEF PicturesInv, ItemsShow, Shows
  <2> QED
    BY <2>1, HoldsKept, SlotsShowKept DEF PicturesInv
<1> QED
  BY <1>1, <1>2, <1>3, <1>4

LEMMA OutputEnds ==
  ASSUME OutputInv, VencLeaves \/ StopVenc \/ CloseCall \/ WriterLeaves,
         UNCHANGED <<run, decoded>>, Flows' => Flows
  PROVE  OutputInv'
<1> USE DEF OutputInv
<1>1. CASE VencLeaves
  <2>1. /\ OutputTyped' /\ UNCHANGED <<output, device, slots, nv12, publisher, writer, shown>>
        /\ venc.at = "wait" /\ venc'.at = "left"
    BY <1>1, VencLeavesFields
  <2>2. Waits' = Waits /\ Keeps' = Keeps
    <3>1. /\ One(venc'.at = "flush") = One(venc.at = "flush")
          /\ One(venc'.at \in {"flush", "release"}) = One(venc.at \in {"flush", "release"})
      BY <2>1 DEF One
    <3> QED
      BY <2>1, <3>1 DEF Waits, Keeps, Flushing
  <2>3. KindsInv'
    BY <2>1 DEF KindsInv
  <2> QED
    BY <2>1, <2>2, <2>3, OutputStays
<1>2. CASE StopVenc
  <2>1. /\ OutputTyped' /\ UNCHANGED <<output, device, slots, venc, publisher, writer, shown>>
        /\ nv12'.pending = nv12.pending /\ nv12'.error = nv12.error /\ nv12'.next = nv12.next
    BY <1>2, StopFields
  <2>2. Waits' = Waits /\ Keeps' = Keeps
    BY <2>1 DEF Waits, Keeps, Flushing
  <2>3. KindsInv'
    BY <2>1 DEF KindsInv
  <2> QED
    BY <2>1, <2>2, <2>3, OutputStays
<1>3. CASE CloseCall
  <2>1. /\ OutputTyped' /\ UNCHANGED <<output, device, slots, nv12, venc, writer, shown>>
        /\ publisher'.queue = publisher.queue /\ publisher'.error = publisher.error
        /\ publisher'.header = publisher.header /\ publisher'.stopping
    BY <1>3, CloseFields
  <2>2. Waits' = Waits /\ Keeps' = Keeps
    BY <2>1 DEF Waits, Keeps, Flushing
  <2>3. KindsInv'
    BY <2>1 DEF KindsInv
  <2> QED
    BY <2>1, <2>2, <2>3, OutputStays
<1>4. CASE WriterLeaves
  <2>1. /\ OutputTyped' /\ UNCHANGED <<output, device, slots, nv12, venc, shown>>
        /\ publisher' = publisher /\ writer.at = "wait" /\ writer'.at = "left"
        /\ publisher.queue = <<>> /\ publisher.stopping
    BY <1>4, WriterEndsFields
  <2>2. Waits' = Waits /\ Keeps' = Keeps
    BY <2>1 DEF Waits, Keeps, Flushing
  <2>3. KindsInv'
    BY <2>1 DEF KindsInv
  <2> QED
    BY <2>1, <2>2, <2>3, OutputStays
<1> QED
  BY <1>1, <1>2, <1>3, <1>4

\* The publisher's thread takes the next item.
LEMMA OutputTake ==
  ASSUME OutputInv, WriterTake, UNCHANGED <<run, decoded>>, Flows' => Flows
  PROVE  OutputInv'
<1> USE DEF OutputInv
<1>1. /\ OutputTyped' /\ UNCHANGED <<output, device, slots, nv12, venc, shown>>
      /\ publisher.queue # <<>> /\ writer.at = "wait" /\ writer'.at = "write"
      /\ writer'.item = Head(publisher.queue) /\ writer'.item \in Item
      /\ publisher'.queue = Tail(publisher.queue) /\ publisher'.error = publisher.error
      /\ publisher'.header = publisher.header /\ publisher'.stopping = publisher.stopping
  BY WriterTakeFields
<1>2. ~publisher.error /\ output # "none"
  BY <1>1 DEF KindsInv
<1>3. PICK q : q = publisher.queue
  OBVIOUS
<1>4. /\ Head(q) = q[1] /\ Len(q) \in Nat \ {0} /\ Len(Tail(q)) = Len(q) - 1
      /\ DOMAIN q = 1..Len(q) /\ DOMAIN Tail(q) = 1..(Len(q) - 1)
      /\ \A i \in 1..(Len(q) - 1) : Tail(q)[i] = q[i + 1]
  BY <1>1, <1>3, OutputFields, TakeFront
<1>5. 1 \in 1..Len(q) /\ \A i \in 1..(Len(q) - 1) : i + 1 \in 1..Len(q)
  BY <1>4
<1>6. BuffersInv'
  BY <1>1, BuffersKept
<1>7. KindsInv'
  BY <1>1, <1>2 DEF KindsInv
<1>8. RingInv' /\ Waits' = Waits /\ Keeps' = Keeps
  BY <1>1, RingKept
<1>9. BusyInv'
  BY <1>1, <1>8, BusyKept
<1>10. LineInv'
  <2>1. PICK k \in Nat, m \in Nat, n \in Nat : Line(k, m, n)
    BY DEF LineInv
  <2>2. QueuedTo(k, m)
    BY <1>2, <2>1 DEF Line
  <2>3. Written = 0 /\ Written' = 1
    BY <1>1 DEF Written, One
  <2>4. \A i \in 1..Len(q) : q[i].frame = k + i - 1
    BY <1>3, <1>4, <2>2, <2>3 DEF QueuedTo, CountsJobs
  <2>5. q[1].frame = k /\ m = k + Len(q)
    BY <1>3, <1>4, <1>5, <2>2, <2>3, <2>4 DEF QueuedTo
  <2>6. CountsJobs(Tail(q), k + 1)
    BY <1>4, <1>5, <2>4 DEF CountsJobs
  <2>7. QueuedTo(k, m)'
    <3>1. m = k + 1 + (Len(q) - 1)
      BY <1>4, <2>5
    <3> QED
      BY <1>1, <1>3, <1>4, <2>3, <2>5, <2>6, <3>1 DEF QueuedTo
  <2>8. Line(k, m, n)'
    BY <1>1, <1>8, <2>1, <2>7, ShownKept, InSlotsKept, DecodedKept DEF Line
  <2> QED
    BY <2>8 DEF LineInv
<1>11. ItemsShow'
  <2>1. \A i \in 1..Len(q) : Shows(q[i])
    BY <1>3, <1>4 DEF PicturesInv, ItemsShow
  <2>2. Shows(Head(q)) /\ \A i \in DOMAIN Tail(q) : Shows(Tail(q)[i])
    BY <1>4, <1>5, <2>1
  <2>3. \A i \in DOMAIN shown : Shows(shown[i])
    BY DEF PicturesInv, ItemsShow
  <2> QED
    BY <1>1, <1>3, <2>2, <2>3 DEF ItemsShow, Shows
<1>12. DecoderHolds' /\ SlotsShow'
  BY <1>1, <1>8, HoldsKept, SlotsShowKept DEF PicturesInv
<1> QED
  BY <1>1, <1>6, <1>7, <1>8, <1>9, <1>10, <1>11, <1>12 DEF PicturesInv

\* It writes the item, or skips it while no header was written.
LEMMA OutputWrites ==
  ASSUME OutputInv, WriterWrites \/ WriterSkips, UNCHANGED <<run, decoded>>,
         Flows' => Flows
  PROVE  OutputInv'
<1> USE DEF OutputInv
<1>1. writer.at = "write" /\ writer.item \in Item /\ ~publisher.error /\ output # "none"
  BY DEF KindsInv, WriterWrites, WriterSkips
<1>2. /\ OutputTyped' /\ UNCHANGED <<output, device, slots, nv12, venc>>
      /\ writer'.at = "wait" /\ publisher'.queue = publisher.queue
      /\ publisher'.error = publisher.error /\ publisher'.stopping = publisher.stopping
      /\ \/ WriterWrites /\ shown' = Append(shown, writer.item) /\ publisher'.header
         \/ WriterSkips /\ shown' = shown /\ ~publisher.header
            /\ publisher'.header = publisher.header
  BY <1>1, WriterWritesFields, WriterEndsFields
<1>3. PICK s, item : s = shown /\ item = writer.item
  OBVIOUS
<1>4. /\ s \in Seq(Item) /\ Len(s) \in Nat /\ Len(Append(s, item)) = Len(s) + 1
      /\ DOMAIN s = 1..Len(s) /\ DOMAIN Append(s, item) = 1..(Len(s) + 1)
      /\ Append(s, item)[Len(s) + 1] = item
      /\ \A i \in 1..Len(s) : Append(s, item)[i] = s[i]
  BY <1>1, <1>3, CountersTyped, PutBack
<1>5. \A i \in 1..(Len(s) + 1) : i \in 1..Len(s) \/ i = Len(s) + 1
  BY <1>4
<1>6. BuffersInv'
  BY <1>2, BuffersKept
<1>7. KindsInv'
  BY <1>1, <1>2 DEF KindsInv
<1>8. RingInv' /\ Waits' = Waits /\ Keeps' = Keeps
  BY <1>2, RingKept
<1>9. BusyInv'
  BY <1>2, <1>8, BusyKept
<1>10. LineInv'
  <2>1. PICK k \in Nat, m \in Nat, n \in Nat : Line(k, m, n)
    BY DEF LineInv
  <2>2. ShownTo(k) /\ QueuedTo(k, m)
    BY <1>1, <2>1 DEF Line
  <2>3. Written = 1 /\ Written' = 0
    BY <1>1, <1>2 DEF Written, One
  <2>4. QueuedTo(k + 1, m)'
    <3>1. (k + 1) + 0 = k + 1 /\ item.frame = k
      BY <1>1, <1>3, <2>2 DEF QueuedTo
    <3> QED
      BY <1>1, <1>2, <2>2, <2>3, <3>1 DEF QueuedTo
  <2>5. ShownTo(k + 1)'
    <3>1. Len(s) <= k /\ CountsJobs(s, k - Len(s)) /\ (output # "dvpp" => k = Len(s))
      BY <1>3, <2>2 DEF ShownTo
    <3>2. item.frame = k
      BY <1>1, <1>3, <2>2 DEF QueuedTo
    <3>3. CASE WriterWrites /\ shown' = Append(s, item)
      <4>1. /\ (k + 1) - (Len(s) + 1) = k - Len(s) /\ Len(s) + 1 <= k + 1
            /\ (k - Len(s)) + (Len(s) + 1) - 1 = k
        <5>1. \A l \in Nat : l <= k => /\ (k + 1) - (l + 1) = k - l /\ l + 1 <= k + 1
                                       /\ (k - l) + (l + 1) - 1 = k
          OBVIOUS
        <5> QED
          BY <1>4, <3>1, <5>1
      <4>2. CountsJobs(Append(s, item), k - Len(s))
        BY <1>4, <1>5, <3>1, <3>2, <4>1 DEF CountsJobs
      <4>3. output # "dvpp" => k + 1 = Len(s) + 1
        BY <3>1
      <4> QED
        BY <1>2, <1>4, <3>3, <4>1, <4>2, <4>3 DEF ShownTo
    <3>4. CASE shown' = s /\ ~publisher.header
      <4>1. s = <<>> /\ output = "dvpp"
        BY <1>3, <3>4 DEF KindsInv
      <4>2. Len(s) = 0 /\ DOMAIN s = {}
        BY <4>1
      <4>3. CountsJobs(s, (k + 1) - 0) /\ 0 <= k + 1
        BY <4>2 DEF CountsJobs
      <4> QED
        BY <1>2, <3>4, <4>1, <4>2, <4>3 DEF ShownTo
    <3> QED
      BY <1>2, <1>3, <3>3, <3>4
  <2>6. Line(k + 1, m, n)'
    BY <1>2, <1>8, <2>1, <2>4, <2>5, InSlotsKept, DecodedKept DEF Line
  <2> QED
    BY <2>6 DEF LineInv
<1>11. ItemsShow'
  <2>1. Shows(item) /\ \A i \in 1..Len(s) : Shows(s[i])
    BY <1>1, <1>3, <1>4 DEF PicturesInv, ItemsShow
  <2>2. \A i \in 1..(Len(s) + 1) : Shows(Append(s, item)[i])
    BY <1>4, <1>5, <2>1
  <2>3. \A i \in DOMAIN publisher.queue : Shows(publisher.queue[i])
    BY DEF PicturesInv, ItemsShow
  <2>4. \A i \in DOMAIN shown' : Shows(shown'[i])
    BY <1>2, <1>3, <1>4, <2>1, <2>2
  <2> QED
    BY <1>2, <2>3, <2>4 DEF ItemsShow, Shows
<1>12. DecoderHolds' /\ SlotsShow'
  BY <1>2, <1>8, HoldsKept, SlotsShowKept DEF PicturesInv
<1> QED
  BY <1>2, <1>6, <1>7, <1>8, <1>9, <1>10, <1>11, <1>12 DEF PicturesInv

\* A Write that throws ends the thread.
LEMMA OutputWriterFails ==
  ASSUME OutputInv, WriterFails, UNCHANGED <<run, decoded>>
  PROVE  OutputInv'
<1> USE DEF OutputInv
<1>1. /\ OutputTyped' /\ UNCHANGED <<output, device, slots, nv12, venc, shown>>
      /\ publisher'.queue = publisher.queue /\ publisher'.header = publisher.header
      /\ writer'.at = "left" /\ publisher'.error /\ publisher'.stopping /\ writer.at = "write"
  BY WriterEndsFields
<1>2. BuffersInv'
  BY <1>1, BuffersKept
<1>3. KindsInv'
  BY <1>1 DEF KindsInv
<1>4. RingInv' /\ Waits' = Waits /\ Keeps' = Keeps
  BY <1>1, RingKept
<1>5. BusyInv'
  BY <1>1, <1>4, BusyKept
<1>6. LineInv'
  BY <1>1, ShownKept DEF LineInv, Line
<1>7. PicturesInv'
  BY <1>1, HoldsKept DEF PicturesInv, ItemsShow, SlotsShow, Shows
<1> QED
  BY <1>1, <1>2, <1>3, <1>4, <1>5, <1>6, <1>7

\* Nobody decodes again once that failed.
LEMMA FlowsOnce ==
  ASSUME ThreadsTyped, Control, [Next]_vars
  PROVE  Flows' => Flows
<1> SUFFICES ASSUME Flows' PROVE Flows
  OBVIOUS
<1> USE DEF Flows, Reading
<1>1. /\ cons \in [at : Reading \cup {"fail", "join", "end"}, data : Nat \cup {NoFrame},
                   error : BOOLEAN]
      /\ main \in [at : Before \cup Middle \cup After, outcome : {"none", "ok", "failed"}]
      /\ cons.error => cons.at \in {"join", "end"}
      /\ cons.at = "join" => cons.error
      /\ main.at \in Before => main.outcome = "none"
  BY DEF ThreadsTyped, Control
<1>2. CASE UNCHANGED <<cons, main>>
  BY <1>2
<1>3. CASE Consumer
  <2>1. main' = main
    BY <1>3 DEF Consumer, ConsGet, ConsEnd, ConsPop, ConsSubmit, ConsRan, ConsFail, ConsJoin
  <2>2. /\ cons.at = "fail" => ConsFail
        /\ cons.at = "join" => ConsJoin
        /\ cons.at # "end"
    BY <1>3 DEF Consumer, ConsGet, ConsEnd, ConsPop, ConsSubmit, ConsRan, ConsFail, ConsJoin
  <2>3. /\ ConsFail => cons'.at = "join"
        /\ ConsJoin => cons'.at = "end" /\ cons'.error = cons.error
    BY <1>1 DEF ConsFail, ConsJoin
  <2> QED
    BY <1>1, <2>1, <2>2, <2>3
<1>4. CASE Run
  BY <1>4, RunFlows DEF Run, RunModel, RunTensor, RunFlush, RunReserve, RunEnqueue, RunThrows,
    StaysInRun, threads
<1>5. CASE Main
  <2>1. CASE MainElse
    BY <2>1, MainElseGoes
  <2>2. CASE MainDrains
    BY <1>1, <2>2 DEF MainDrains, OnlyMain, Before
  <2> QED
    BY <1>5, <2>1, <2>2 DEF Main, MainElse
<1>6. CASE PipelinePublish \/ PipelineLeaves \/ Producer \/ (\E t \in PoolThreads : PoolStep(t))
           \/ DeviceStep \/ VencStep \/ WriterStep \/ UNCHANGED vars
  <2>1. UNCHANGED <<cons, main>>
    BY <1>6 DEF PipelinePublish, PipelineLeaves, Producer, ProdRead, ProdThrows, ProdAdd, ProdClose,
      OnlyProducer, PoolStep, DeviceStep, VencStep, WriterStep, Others, threads, vars
  <2> QED
    BY <1>2, <2>1
<1> QED
  BY <1>3, <1>4, <1>5, <1>6 DEF Next

LEMMA OutputInit == Init => OutputInv
<1> SUFFICES ASSUME Init PROVE OutputInv
  OBVIOUS
<1>1. OutputTyped /\ BuffersInv
  BY BuffersInit DEF Init
<1>2. KindsInv
  BY OutputAssumption DEF Init, RtspInit, NotRunning, KindsInv
<1>3. /\ nv12.pending = <<>> /\ venc.at \notin {"flush", "release"} /\ run.at \notin OutAt
      /\ device.converting = <<>> /\ decoded = <<>> /\ shown = <<>> /\ publisher.queue = <<>>
      /\ writer.at # "write" /\ \A s \in SlotNumbers : ~slots[s].busy
  BY DEF Init, RtspInit, NotRunning, OutAt
<1>4. Waits = 0 /\ Keeps = 0 /\ Written = 0
  BY <1>3 DEF Waits, Keeps, Flushing, Written, One
<1>5. RingInv
  BY <1>3, <1>4, OutputAssumption DEF RingInv, LastUsed, OutAt
<1>6. BusyInv
  BY <1>3, <1>4 DEF BusyInv, Behind, OutAt
<1>7. LineInv
  <2>1. Line(0, 0, 0)
    BY <1>3, <1>4 DEF Line, ShownTo, QueuedTo, InSlotsTo, DecodedTo, CountsJobs, One
  <2> QED
    BY <2>1 DEF LineInv
<1>8. PicturesInv
  BY <1>3, <1>4 DEF PicturesInv, ItemsShow, DecoderHolds, SlotsShow, Behind, OutAt
<1> QED
  BY <1>1, <1>2, <1>5, <1>6, <1>7, <1>8 DEF OutputInv

LEMMA OutputRun ==
  ASSUME StreamInv, OutputInv, Run, [Next]_vars
  PROVE  OutputInv'
<1> USE DEF StreamInv
<1>1. /\ decoded \in Seq(Nat) /\ Len(decoded) \in Nat /\ run.at \notin {"idle", "ready"}
      /\ run.frame \in Nat /\ output \in {"none", "tensor", "x264", "dvpp"}
  BY DEF Run, RunModel, RunTensor, RunFlush, RunReserve, RunEnqueue, RunThrows, ThreadsTyped
<1>2. Flows /\ (Flows' => Flows)
  BY <1>1, RunFlows, FlowsOnce
<1>3. /\ run.at = "model" => run.frame = Len(decoded)
      /\ run.at \in {"tensor", "enqueue"} => run.frame = Len(decoded) - 1
  BY <1>2 DEF WindowFlow
<1>4. \A label \in RunAt : RunGoto(label) =>
        run'.at = label /\ (label # "idle" => run'.frame = run.frame)
  BY RunGoes
<1>5. CASE RunModel
  <2>1. PICK label \in RunAt :
          /\ label = CASE output = "none" -> "idle" [] output = "tensor" -> "tensor"
                       [] output = "x264" -> "flush" [] output = "dvpp" -> "reserve"
          /\ RunGoto(label)
    BY <1>1, <1>5 DEF RunModel, RunAt
  <2> QED
    BY <1>1, <1>2, <1>3, <1>4, <1>5, <2>1, OutputModel DEF RunModel
<1>6. CASE RunTensor
  <2>1. run'.at = "idle"
    BY <1>4, <1>6 DEF RunTensor, RunAt
  <2> QED
    BY <1>1, <1>2, <1>3, <1>6, <2>1, OutputTensor DEF RunTensor
<1>7. CASE RunFlush
  <2>1. run'.at = "enqueue" /\ output = "x264"
    BY <1>4, <1>7 DEF RunFlush, RunAt, OutputInv, KindsInv
  <2>2. CASE Len(nv12.pending) = RtspSlots
    <3>1. nv12.pending # <<>>
      BY <2>2, OutputAssumption
    <3> QED
      BY <1>2, <1>7, <2>1, <2>2, <3>1, OutputFlush DEF RunFlush, OutAt
  <2>3. CASE Len(nv12.pending) # RtspSlots
    BY <1>2, <1>7, <2>1, <2>3, OutputRoom DEF RunFlush
  <2> QED
    BY <2>2, <2>3
<1>8. CASE RunReserve
  <2>1. run'.at = "enqueue" /\ run'.frame = run.frame
    BY <1>4, <1>8 DEF RunReserve, RunAt
  <2> QED
    BY <1>2, <1>8, <2>1, OutputReserve DEF RunReserve
<1>9. CASE RunEnqueue
  <2>1. run'.at = "idle"
    BY <1>4, <1>9 DEF RunEnqueue, RunAt
  <2> QED
    BY <1>1, <1>2, <1>3, <1>9, <2>1, OutputEnqueue DEF RunEnqueue
<1>10. CASE RunThrows
  <2>1. run'.at = "idle" /\ decoded' = decoded /\ CallerThrows
    BY <1>4, <1>10 DEF RunThrows, RunAt
  <2>2. ~Flows'
    <3>1. CASE main.at = "drain"
      BY <2>1, <3>1 DEF CallerThrows, Control, Before, Flows, Reading
    <3>2. CASE main.at # "drain"
      BY <2>1, <3>2 DEF CallerThrows, ThreadsTyped, Flows, Reading
    <3> QED
      BY <3>1, <3>2
  <2> QED
    BY <1>10, <2>1, <2>2, OutputThrows DEF RunThrows
<1> QED
  BY <1>5, <1>6, <1>7, <1>8, <1>9, <1>10 DEF Run

\* The main thread drains and closes the output.
LEMMA OutputMain ==
  ASSUME StreamInv, OutputInv, MainElse, [Next]_vars
  PROVE  OutputInv'
<1> USE DEF StreamInv
<1>1. Flows' => Flows
  BY FlowsOnce
<1>2. UNCHANGED <<run, decoded>>
  BY MainElseGoes
<1>3. UNCHANGED rtspVars => OutputInv'
  BY <1>1, <1>2, OutputIdle
<1>4. ASSUME FlushFront, output = "x264", nv12.pending # <<>>, main.at \in {"drainOutput", "freeOutput"}
      PROVE  OutputInv'
  <2>1. run.at = "idle"
    BY <1>4 DEF Control, ThreadsTyped, Before, Middle, After, RunAt
  <2> QED
    BY <1>1, <1>2, <1>4, <2>1, OutputFlush
<1>5. StopVenc \/ CloseCall => OutputInv'
  BY <1>1, <1>2, OutputEnds
<1>6. CASE MainDrainsOutput
  BY <1>3, <1>4, <1>6 DEF MainDrainsOutput, NothingChanges
<1>7. CASE MainFreesOutput
  BY <1>4, <1>5, <1>7 DEF MainFreesOutput
<1>8. CASE MainJoinsPipeline \/ MainJoinsVenc
  BY <1>3, <1>5, <1>8 DEF MainJoinsPipeline, MainJoinsVenc, NothingChanges
<1>9. CASE MainJoinsProducer \/ MainJoinsConsumer \/ MainStops \/ MainCloses \/ MainUnwinds
           \/ MainJoinsAll \/ MainFreesWindow \/ MainFreesPublisher \/ MainReturns
  BY <1>3, <1>9 DEF MainJoinsProducer, MainJoinsConsumer, MainStops, MainCloses, MainUnwinds,
    MainJoinsAll, MainFreesWindow, MainFreesPublisher, MainReturns, Quiet
<1> QED
  BY <1>6, <1>7, <1>8, <1>9 DEF MainElse

LEMMA OutputStep == StreamInv /\ OutputInv /\ [Next]_vars => OutputInv'
<1> SUFFICES ASSUME StreamInv, OutputInv, [Next]_vars
             PROVE  OutputInv'
  OBVIOUS
<1> USE DEF StreamInv
<1>1. Flows' => Flows
  BY FlowsOnce
<1>2. decoded \in Seq(Nat)
  BY DEF ThreadsTyped
<1>3. CASE PipelinePublish \/ PipelineLeaves \/ Producer \/ (\E t \in PoolThreads : PoolStep(t))
           \/ UNCHANGED vars
  <2>1. UNCHANGED <<rtspVars, run, decoded>>
    BY <1>3 DEF PipelinePublish, PipelineLeaves, Producer, ProdRead, ProdThrows, ProdAdd, ProdClose,
      OnlyProducer, PoolStep, Others, Quiet, vars
  <2> QED
    BY <1>1, <2>1, OutputIdle
<1>4. CASE Consumer
  <2>1. UNCHANGED <<rtspVars, decoded>>
    BY <1>4 DEF Consumer, ConsGet, ConsEnd, ConsPop, ConsSubmit, ConsRan, ConsFail, ConsJoin, Quiet
  <2>2. run' = run \/ (run.at \notin OutAt /\ run'.at \notin OutAt)
    <3>1. CASE ConsPop
      <4>1. run.at \notin OutAt
        BY <3>1 DEF ConsPop, Control, ThreadsTyped, RunAt, OutAt, Before
      <4>2. run' = run \/ run'.at = "ready"
        BY <3>1 DEF ConsPop
      <4> QED
        BY <4>1, <4>2 DEF OutAt
    <3>2. CASE ConsSubmit
      <4>1. run.at \notin OutAt
        BY <3>2 DEF ConsSubmit, Control, ThreadsTyped, RunAt, OutAt, Before
      <4>2. run'.at \in {"model", "idle"}
        BY <3>2 DEF ConsSubmit, NotRunning, ThreadsTyped
      <4> QED
        BY <4>1, <4>2 DEF OutAt
    <3>3. CASE ~ConsPop /\ ~ConsSubmit
      BY <1>4, <3>3 DEF Consumer, ConsGet, ConsEnd, ConsRan, ConsFail, ConsJoin, Quiet
    <3> QED
      BY <3>1, <3>2, <3>3
  <2> QED
    BY <1>1, <2>1, <2>2, OutputIdle
<1>5. CASE Main
  <2>1. CASE MainElse
    BY <2>1, OutputMain
  <2>2. CASE MainDrains
    <3>1. UNCHANGED <<rtspVars, decoded>> /\ run.at = "idle"
      BY <2>2 DEF MainDrains, OnlyMain, NotRunning
    <3>2. run' = run \/ run'.at = "model"
      BY <2>2 DEF MainDrains
    <3> QED
      BY <1>1, <3>1, <3>2, OutputIdle DEF OutAt
  <2> QED
    BY <1>5, <2>1, <2>2 DEF Main, MainElse
<1>6. CASE DeviceStep \/ VencStep \/ WriterStep
  <2>1. UNCHANGED <<run, decoded>>
    BY <1>6 DEF DeviceStep, VencStep, WriterStep, Others
  <2> QED
    BY <1>1, <1>2, <1>6, <2>1, OutputConvert, OutputVencTake, OutputVencFlush, OutputVencRelease,
      OutputVencFails, OutputEnds, OutputTake, OutputWrites, OutputWriterFails
      DEF DeviceStep, VencStep, Venc, WriterStep, Writer
<1>7. CASE Run
  BY <1>7, OutputRun
<1> QED
  BY <1>3, <1>4, <1>5, <1>6, <1>7 DEF Next

\* The main thread drains an empty window: every frame of the stream was decoded.
LEMMA DrainedIsAll ==
  ASSUME StreamInv, main.at = "drain", run.at = "idle", WindowEmpty
  PROVE  Len(decoded) = StreamFrames
<1> USE DEF StreamInv
<1>1. /\ cons.at = "end" /\ ~cons.error /\ prod.at = "end" /\ ~prod.error
      /\ main.outcome = "none"
  BY DEF Control, Before
<1>2. Complete
  BY <1>1 DEF PipeFlow, Undisturbed, Flows
<1>3. /\ Len(decoded) \in Nat /\ Len(pipe.items) \in Nat /\ Len(pipe.output) \in Nat
  BY FlowTyped
<1>4. pipe.output = <<>> /\ pipe.items = <<>>
  BY <1>1, <1>2 DEF Complete, PipeFlow
<1>5. Handed = Len(decoded)
  <2>1. Popped = Len(decoded)
    <3>1. One(run.at \in {"ready", "model"}) = 0
      BY DEF One
    <3> QED
      BY <1>3, <3>1 DEF Popped
  <2>2. Len(window.pending) = 0
    BY DEF WindowEmpty
  <2>3. One(cons.at \in {"pop", "submit"}) = 0
    BY <1>1 DEF One
  <2> QED
    BY <1>3, <2>1, <2>2, <2>3 DEF Handed, Submitted
<1>6. prod.next = StreamFrames /\ One(prod.at = "add") = 0
  BY <1>1, <1>2 DEF Complete, One
<1>7. prod.next = Handed + Len(pipe.output) + Len(pipe.items) + One(prod.at = "add")
  BY <1>2 DEF Complete
<1>8. Len(pipe.output) = 0 /\ Len(pipe.items) = 0
  BY <1>4
<1> QED
  BY <1>3, <1>5, <1>6, <1>7, <1>8

\* Without an error of the encoder thread, drained means that no slot is in use.
LEMMA DrainedIsEmpty ==
  ASSUME OutputInv, Drained, ~nv12.error, run.at = "idle"
  PROVE  nv12.pending = <<>> /\ venc.at \in {"wait", "left"}
<1> USE DEF OutputInv
<1>1. nv12.pending = <<>> /\ \A s \in SlotNumbers : ~slots[s].busy
  BY DEF Drained
<1>2. venc.at \in {"flush", "release"} => FALSE
  <2> SUFFICES ASSUME venc.at \in {"flush", "release"} PROVE FALSE
    OBVIOUS
  <2>1. output = "dvpp" /\ Keeps = 1
    BY <1>1 DEF KindsInv, Keeps, One
  <2>2. Back(nv12.next, 1) \in Behind(nv12.next, Keeps)
    BY <2>1 DEF Behind
  <2>3. Back(nv12.next, 1) \in SlotNumbers
    BY <2>2, WaitingSlots
  <2> QED
    BY <1>1, <2>1, <2>2, <2>3 DEF BusyInv
<1> QED
  BY <1>1, <1>2 DEF OutputTyped

Ends == {"stop", "joinPipeline", "close"}

\* Where the main thread is behind the drain, nobody decodes and no slot is filled.
LEMMA EndingQuiet ==
  ASSUME StreamInv, main.at \in {"drainOutput"} \cup Ends \/ main.outcome = "ok",
         run.at = "idle", [Next]_vars
  PROVE  /\ UNCHANGED <<prod, cons, run, decoded>>
         /\ Main \/ PipelinePublish \/ PipelineLeaves \/ (\E t \in PoolThreads : PoolStep(t))
            \/ DeviceStep \/ VencStep \/ WriterStep \/ UNCHANGED vars
         /\ Main => MainElse
<1> USE DEF StreamInv
<1>1. prod.at = "end" /\ cons.at = "end" /\ main.at # "drain"
  BY DEF Control, Before, Ends
<1>2. ~Producer /\ ~Consumer /\ ~Run
  BY <1>1 DEF Producer, ProdRead, ProdThrows, ProdAdd, ProdClose, Consumer, ConsGet, ConsEnd,
    ConsPop, ConsSubmit, ConsRan, ConsFail, ConsJoin, Run, RunModel, RunTensor, RunFlush,
    RunReserve, RunEnqueue, RunThrows
<1>3. Main => MainElse
  BY <1>1 DEF Main, MainElse, MainDrains
<1>4. CASE MainElse
  BY <1>2, <1>3, <1>4, MainElseGoes DEF MainElse, Main
<1>5. CASE PipelinePublish \/ PipelineLeaves \/ (\E t \in PoolThreads : PoolStep(t))
           \/ DeviceStep \/ VencStep \/ WriterStep \/ UNCHANGED vars
  BY <1>3, <1>5 DEF PipelinePublish, PipelineLeaves, PoolStep, DeviceStep, VencStep, WriterStep,
    Others, threads, Quiet, vars
<1> QED
  BY <1>2, <1>3, <1>4, <1>5 DEF Next

\* The error of an output stays.
LEMMA OutputErrorsStay ==
  ASSUME OutputTyped, [Next]_vars
  PROVE  (nv12.error => nv12'.error) /\ (publisher.error => publisher'.error)
<1> DEFINE Stays == (nv12.error => nv12'.error) /\ (publisher.error => publisher'.error)
<1>1. UNCHANGED rtspVars \/ NothingChanges \/ UNCHANGED <<nv12, publisher>> => Stays
  BY DEF rtspVars, NothingChanges
<1>2. /\ nv12 \in [pending : Seq(SlotNumbers), next : SlotNumbers, error : BOOLEAN,
                   stopping : BOOLEAN]
      /\ publisher \in [queue : Seq(Item), error : BOOLEAN, stopping : BOOLEAN,
                        closed : BOOLEAN, header : BOOLEAN]
  BY DEF OutputTyped
<1>3. /\ FlushFront => Stays
      /\ (\A f : WriteTensorFrame(f) => Stays)
      /\ StopVenc => Stays
      /\ CloseCall => Stays
      /\ (\A f : Enqueue(f) => Stays)
  BY <1>2 DEF FlushFront, WriteTensorFrame, Queued, Enqueue, StopVenc, CloseCall
<1>4. VencTake \/ VencFlush \/ VencFails => Stays
  BY <1>2 DEF VencTake, VencFlush, Queued, VencFails
<1>5. WriterTake \/ WriterWrites \/ WriterSkips \/ WriterFails \/ WriterLeaves => Stays
  BY <1>2 DEF WriterTake, WriterWrites, WriterSkips, WriterFails, WriterLeaves
<1>6. Decode(run.frame) \/ Convert \/ ReserveSlot \/ EnqueueThrows \/ VencRelease \/ VencLeaves =>
        UNCHANGED <<nv12, publisher>>
  BY DEF Decode, Convert, ReserveSlot, EnqueueThrows, VencRelease, VencLeaves
<1> SUFFICES Stays
  OBVIOUS
<1> HIDE DEF Stays
<1>7. CASE PipelinePublish \/ PipelineLeaves \/ Producer \/ Consumer
           \/ (\E t \in PoolThreads : PoolStep(t)) \/ UNCHANGED vars
  <2>1. UNCHANGED rtspVars
    BY <1>7 DEF PipelinePublish, PipelineLeaves, Producer, ProdRead, ProdThrows, ProdAdd,
      ProdClose, OnlyProducer, Consumer, ConsGet, ConsEnd, ConsPop, ConsSubmit, ConsRan, ConsFail,
      ConsJoin, PoolStep, Quiet, vars
  <2> QED
    BY <1>1, <2>1
<1>8. CASE Run
  <2>1. \/ Decode(run.frame) \/ WriteTensorFrame(run.frame) \/ FlushFront \/ NothingChanges
        \/ ReserveSlot \/ Enqueue(run.frame) \/ EnqueueThrows
    BY <1>8 DEF Run, RunModel, RunTensor, RunFlush, RunReserve, RunEnqueue, RunThrows
  <2> QED
    BY <1>1, <1>3, <1>6, <2>1
<1>9. CASE DeviceStep \/ VencStep \/ WriterStep
  <2>1. Convert \/ Venc \/ Writer
    BY <1>9 DEF DeviceStep, VencStep, WriterStep
  <2> QED
    BY <1>1, <1>4, <1>5, <1>6, <2>1 DEF Venc, Writer
<1>10. CASE Main
  <2>1. CASE MainDrainsOutput \/ MainJoinsPipeline \/ MainFreesOutput \/ MainJoinsVenc
    <3>1. NothingChanges \/ FlushFront \/ StopVenc \/ CloseCall
      BY <2>1 DEF MainDrainsOutput, MainJoinsPipeline, MainFreesOutput, MainJoinsVenc
    <3> QED
      BY <1>1, <1>3, <3>1
  <2>2. CASE ~(MainDrainsOutput \/ MainJoinsPipeline \/ MainFreesOutput \/ MainJoinsVenc)
    <3>1. UNCHANGED rtspVars
      BY <1>10, <2>2 DEF Main, MainJoinsProducer, MainJoinsConsumer, MainDrains, MainStops,
        MainCloses, MainUnwinds, MainJoinsAll, MainFreesWindow, MainFreesPublisher, MainReturns,
        Quiet
    <3> QED
      BY <1>1, <3>1
  <2> QED
    BY <2>1, <2>2
<1> QED
  BY <1>7, <1>8, <1>9, <1>10 DEF Next

\* Whoever raises an error keeps it for the main thread.
Noted == \/ prod.error \/ cons.error \/ cons.at = "fail" \/ main.outcome = "failed"
         \/ nv12.error \/ publisher.error

LEMMA CallerNoted ==
  ASSUME ThreadsTyped, CallerThrows
  PROVE  Noted'
<1>1. CASE main.at = "drain"
  <2>1. main'.outcome = "failed"
    BY <1>1 DEF CallerThrows
  <2> QED
    BY <2>1 DEF Noted
<1>2. CASE main.at # "drain"
  <2>1. cons' = [cons EXCEPT !.at = "fail", !.data = NoFrame]
    BY <1>2 DEF CallerThrows
  <2>2. cons \in [at : Reading \cup {"fail", "join", "end"}, data : Nat \cup {NoFrame},
                  error : BOOLEAN]
    BY DEF ThreadsTyped
  <2>3. cons'.at = "fail"
    BY <2>1, <2>2
  <2> QED
    BY <2>3 DEF Noted
<1> QED
  BY <1>1, <1>2

LEMMA ErrorsStay ==
  ASSUME ThreadsTyped, Control, OutputTyped, Noted, [Next]_vars
  PROVE  Noted'
<1>1. /\ prod \in [at : {"read", "add", "close", "end"}, next : 0..StreamFrames, error : BOOLEAN]
      /\ cons \in [at : Reading \cup {"fail", "join", "end"}, data : Nat \cup {NoFrame},
                   error : BOOLEAN]
      /\ main \in [at : Before \cup Middle \cup After, outcome : {"none", "ok", "failed"}]
  BY DEF ThreadsTyped
<1>2. CASE nv12.error \/ publisher.error
  BY <1>2, OutputErrorsStay DEF Noted
<1>3. CASE UNCHANGED threads
  BY <1>2, <1>3 DEF Noted, threads
<1>4. CASE Producer
  <2>1. prod'.error \/ prod'.error = prod.error
    BY <1>1, <1>4 DEF Producer, ProdRead, ProdThrows, ProdAdd, ProdClose
  <2>2. UNCHANGED <<cons, main>>
    BY <1>4 DEF Producer, ProdRead, ProdThrows, ProdAdd, ProdClose, OnlyProducer
  <2> QED
    BY <1>2, <2>1, <2>2 DEF Noted
<1>5. CASE Consumer
  <2>1. UNCHANGED <<prod, main>>
    BY <1>5 DEF Consumer, ConsGet, ConsEnd, ConsPop, ConsSubmit, ConsRan, ConsFail, ConsJoin
  <2>2. /\ cons.at = "fail" => ConsFail
        /\ cons'.error \/ cons'.error = cons.error
        /\ ConsFail => cons'.error
    BY <1>1, <1>5 DEF Consumer, ConsGet, ConsEnd, ConsPop, ConsSubmit, ConsRan, ConsFail, ConsJoin
  <2> QED
    BY <1>2, <2>1, <2>2 DEF Noted
<1>6. CASE Run
  <2>1. CASE UNCHANGED threads
    BY <1>3, <2>1
  <2>2. CASE RunThrows
    BY <1>1, <2>2, CallerNoted DEF RunThrows
  <2> QED
    BY <1>6, <2>1, <2>2 DEF Run, RunModel, RunTensor, RunFlush, RunReserve, RunEnqueue, StaysInRun
<1>7. CASE Main
  <2>1. UNCHANGED <<prod, cons>>
    BY <1>7 DEF Main, MainJoinsProducer, MainJoinsConsumer, MainDrains, MainDrainsOutput, MainStops,
      MainJoinsPipeline, MainCloses, MainUnwinds, MainJoinsAll, MainFreesWindow, MainFreesOutput,
      MainJoinsVenc, MainFreesPublisher, MainReturns, OnlyMain
  <2>2. main.outcome = "failed" => main'.outcome = "failed"
    <3>1. CASE MainElse
      BY <1>1, <3>1 DEF MainElse, MainJoinsProducer, MainJoinsConsumer, MainDrainsOutput, MainStops,
        MainJoinsPipeline, MainCloses, MainUnwinds, MainJoinsAll, MainFreesWindow, MainFreesOutput,
        MainJoinsVenc, MainFreesPublisher, MainReturns, MainGoto, MainThrows, Control, Before
    <3>2. CASE MainDrains
      BY <1>1, <3>2 DEF MainDrains, MainGoto, MainThrows
    <3> QED
      BY <1>7, <3>1, <3>2 DEF Main, MainElse
  <2> QED
    BY <1>2, <2>1, <2>2 DEF Noted
<1>8. CASE PipelinePublish \/ PipelineLeaves \/ (\E t \in PoolThreads : PoolStep(t))
           \/ DeviceStep \/ VencStep \/ WriterStep \/ UNCHANGED vars
  BY <1>3, <1>8 DEF PipelinePublish, PipelineLeaves, PoolStep, DeviceStep, VencStep, WriterStep,
    Others, vars
<1> QED
  BY <1>4, <1>5, <1>6, <1>7, <1>8 DEF Next

\* Whoever raises an error notes it.
LEMMA RaisedNoted ==
  ASSUME ThreadsTyped, OutputTyped, ~raised, raised', [Next]_vars
  PROVE  Noted'
<1>1. /\ prod \in [at : {"read", "add", "close", "end"}, next : 0..StreamFrames, error : BOOLEAN]
      /\ cons \in [at : Reading \cup {"fail", "join", "end"}, data : Nat \cup {NoFrame},
                   error : BOOLEAN]
      /\ main \in [at : Before \cup Middle \cup After, outcome : {"none", "ok", "failed"}]
  BY DEF ThreadsTyped
<1>2. CASE ProdThrows \/ ConsPop \/ RunThrows
  <2>1. CASE ProdThrows
    BY <1>1, <2>1 DEF ProdThrows, Noted
  <2>2. CASE ConsPop
    <3>1. cons' = [cons EXCEPT !.at = "fail", !.data = NoFrame]
      BY <2>2 DEF ConsPop
    <3> QED
      BY <1>1, <3>1 DEF Noted
  <2>3. CASE RunThrows
    BY <1>1, <2>3, CallerNoted DEF RunThrows
  <2> QED
    BY <1>2, <2>1, <2>2, <2>3
<1>3. CASE MainDrains \/ MainDrainsOutput \/ MainCloses
  <2>1. MainThrows
    BY <1>3 DEF MainDrains, MainDrainsOutput, MainCloses
  <2> QED
    BY <2>1 DEF MainThrows, Noted
<1>4. CASE VencStep \/ WriterStep
  BY <1>4 DEF VencStep, WriterStep, Noted
<1>5. CASE PipelinePublish \/ PipelineLeaves \/ ProdRead \/ ProdAdd \/ ProdClose \/ ConsGet
           \/ ConsEnd \/ ConsSubmit \/ ConsRan \/ ConsFail \/ ConsJoin \/ RunModel \/ RunTensor
           \/ RunFlush \/ RunReserve \/ RunEnqueue \/ (\E t \in PoolThreads : PoolStep(t))
           \/ DeviceStep \/ UNCHANGED vars
  BY <1>5 DEF PipelinePublish, PipelineLeaves, ProdRead, ProdAdd, ProdClose, ConsGet, ConsEnd,
    ConsSubmit, ConsRan, ConsFail, ConsJoin, RunModel, RunTensor, RunFlush, RunReserve, RunEnqueue,
    PoolStep, DeviceStep, vars
<1>6. CASE MainJoinsProducer \/ MainJoinsConsumer \/ MainStops \/ MainJoinsPipeline \/ MainUnwinds
           \/ MainJoinsAll \/ MainFreesWindow \/ MainFreesOutput \/ MainJoinsVenc
           \/ MainFreesPublisher \/ MainReturns
  BY <1>6 DEF MainJoinsProducer, MainJoinsConsumer, MainStops, MainJoinsPipeline, MainUnwinds,
    MainJoinsAll, MainFreesWindow, MainFreesOutput, MainJoinsVenc, MainFreesPublisher, MainReturns
<1> QED
  BY <1>2, <1>3, <1>4, <1>5, <1>6 DEF Next, Producer, Consumer, Run, Main

-----------------------------------------------------------------------------
(* The end of a run.                                                       *)

\* Whoever raises an error, the main thread finds it before it reports success; and it
\* does so only behind the last frame.
EndingInv ==
  /\ raised => Noted
  /\ main.at \in {"drainOutput"} \cup Ends \/ main.outcome = "ok" =>
       Len(decoded) = StreamFrames /\ run.at = "idle"
  /\ main.at \in Ends \/ main.outcome = "ok" =>
       nv12.pending = <<>> /\ venc.at \in {"wait", "left"} /\ ~nv12.error
  /\ main.outcome = "ok" => ~publisher.error /\ writer.at = "left"

LEMMA EndingInit == Init => EndingInv
BY DEF Init, EndingInv, Ends

\* How the main thread comes to the end of its run.
LEMMA EndingEntered ==
  ASSUME ThreadsTyped, Control, [Next]_vars
  PROVE  /\ main'.at \in {"drainOutput"} \cup Ends \/ main'.outcome = "ok" =>
              \/ main.at \in {"drainOutput"} \cup Ends \/ main.outcome = "ok"
              \/ MainDrains /\ WindowEmpty /\ run' = run
         /\ main'.at \in Ends \/ main'.outcome = "ok" =>
              \/ main.at \in Ends \/ main.outcome = "ok"
              \/ MainDrainsOutput /\ Drained /\ ~nv12.error /\ NothingChanges
         /\ main'.outcome = "ok" => main.outcome = "ok" \/ (MainCloses /\ ~publisher.error)
<1>1. main \in [at : Before \cup Middle \cup After, outcome : {"none", "ok", "failed"}]
  BY DEF ThreadsTyped
<1>2. CASE UNCHANGED main
  BY <1>2
<1>3. CASE CallerThrows /\ ~UNCHANGED main
  <2>1. main' = [at |-> "unwind", outcome |-> "failed"]
    BY <1>3 DEF CallerThrows
  <2> QED
    BY <2>1 DEF Ends
<1>4. CASE MainDrains
  <2>1. CASE main'.at = "drainOutput" /\ main'.outcome = main.outcome /\ WindowEmpty /\ run' = run
    BY <1>4, <2>1 DEF Ends
  <2>2. CASE UNCHANGED main \/ MainThrows
    BY <1>2, <2>2 DEF MainThrows, Ends
  <2> QED
    BY <1>1, <1>4, <2>1, <2>2 DEF MainDrains, MainGoto
<1>5. CASE MainDrainsOutput
  BY <1>1, <1>5 DEF MainDrainsOutput, MainGoto, MainThrows, Ends, Control, Before
<1>6. CASE MainStops \/ MainJoinsPipeline \/ MainCloses
  BY <1>1, <1>6 DEF MainStops, MainJoinsPipeline, MainCloses, MainGoto, MainThrows, Ends, Control,
    Before
<1>7. CASE MainJoinsProducer \/ MainJoinsConsumer \/ MainUnwinds \/ MainJoinsAll \/ MainFreesWindow
           \/ MainFreesOutput \/ MainJoinsVenc \/ MainFreesPublisher \/ MainReturns
  BY <1>1, <1>7 DEF MainJoinsProducer, MainJoinsConsumer, MainUnwinds, MainJoinsAll,
    MainFreesWindow, MainFreesOutput, MainJoinsVenc, MainFreesPublisher, MainReturns, MainGoto,
    MainThrows, Ends
<1>8. CASE Run
  <2>1. UNCHANGED main \/ CallerThrows
    BY <1>8 DEF Run, RunModel, RunTensor, RunFlush, RunReserve, RunEnqueue, RunThrows, StaysInRun,
      threads
  <2> QED
    BY <1>2, <1>3, <2>1
<1>9. CASE PipelinePublish \/ PipelineLeaves \/ Producer \/ Consumer \/ UNCHANGED vars
           \/ (\E t \in PoolThreads : PoolStep(t)) \/ DeviceStep \/ VencStep \/ WriterStep
  <2>1. UNCHANGED main
    BY <1>9 DEF PipelinePublish, PipelineLeaves, Producer, ProdRead, ProdThrows, ProdAdd, ProdClose,
      OnlyProducer, Consumer, ConsGet, ConsEnd, ConsPop, ConsSubmit, ConsRan, ConsFail, ConsJoin,
      PoolStep, DeviceStep, VencStep, WriterStep, Others, threads, vars
  <2> QED
    BY <1>2, <2>1
<1> QED
  BY <1>4, <1>5, <1>6, <1>7, <1>8, <1>9 DEF Next, Main

\* When the output is drained, only the threads of the output end.
LEMMA EndingMoves ==
  ASSUME StreamInv, OutputInv, EndingInv, main.at \in Ends \/ main.outcome = "ok", [Next]_vars
  PROVE  NothingChanges \/ StopVenc \/ CloseCall \/ Convert \/ VencLeaves \/ Writer
<1>1. /\ nv12.pending = <<>> /\ venc.at \in {"wait", "left"} /\ run.at = "idle"
  BY DEF EndingInv
<1>2. main.at # "drainOutput"
  BY DEF StreamInv, Control, Before, Ends
<1>3. /\ \/ MainElse \/ PipelinePublish \/ PipelineLeaves \/ (\E t \in PoolThreads : PoolStep(t))
         \/ DeviceStep \/ VencStep \/ WriterStep \/ UNCHANGED vars
  BY <1>1, EndingQuiet
<1>4. CASE MainElse
  <2>1. CASE MainJoinsPipeline \/ MainFreesOutput \/ MainJoinsVenc
    BY <1>1, <2>1 DEF MainJoinsPipeline, MainFreesOutput, MainJoinsVenc
  <2>2. CASE MainFreesPublisher
    BY <2>2 DEF MainFreesPublisher, NothingChanges
  <2>3. CASE ~(MainJoinsPipeline \/ MainFreesOutput \/ MainJoinsVenc \/ MainFreesPublisher)
    BY <1>2, <1>4, <2>3 DEF MainElse, MainJoinsProducer, MainJoinsConsumer, MainDrainsOutput,
      MainStops, MainCloses, MainUnwinds, MainJoinsAll, MainFreesWindow, MainReturns, Quiet,
      NothingChanges
  <2> QED
    BY <2>1, <2>2, <2>3
<1>5. CASE PipelinePublish \/ PipelineLeaves \/ (\E t \in PoolThreads : PoolStep(t))
           \/ UNCHANGED vars
  BY <1>5 DEF PipelinePublish, PipelineLeaves, PoolStep, Quiet, NothingChanges, vars
<1>6. CASE DeviceStep \/ VencStep \/ WriterStep
  BY <1>1, <1>6 DEF DeviceStep, VencStep, WriterStep, Venc, VencTake, VencFlush, VencRelease,
    VencFails
<1> QED
  BY <1>3, <1>4, <1>5, <1>6

LEMMA EndingStep ==
  StreamInv /\ OutputInv /\ EndingInv /\ [Next]_vars => EndingInv'
<1> SUFFICES ASSUME StreamInv, OutputInv, EndingInv, [Next]_vars
             PROVE  EndingInv'
  OBVIOUS
<1>1. raised' => Noted'
  BY ErrorsStay, RaisedNoted DEF StreamInv, OutputInv, EndingInv
<1>2. ASSUME main'.at \in {"drainOutput"} \cup Ends \/ main'.outcome = "ok"
      PROVE  (Len(decoded) = StreamFrames)' /\ (run.at = "idle")'
  <2>1. CASE main.at \in {"drainOutput"} \cup Ends \/ main.outcome = "ok"
    <3>1. Len(decoded) = StreamFrames /\ run.at = "idle"
      BY <2>1 DEF EndingInv
    <3>2. UNCHANGED <<decoded, run>>
      BY <2>1, <3>1, EndingQuiet
    <3> QED
      BY <3>1, <3>2
  <2>2. CASE MainDrains /\ WindowEmpty /\ run' = run
    <3>1. main.at = "drain" /\ run.at = "idle" /\ decoded' = decoded
      BY <2>2 DEF MainDrains, NotRunning, OnlyMain
    <3>2. Len(decoded) = StreamFrames
      BY <2>2, <3>1, DrainedIsAll
    <3> QED
      BY <2>2, <3>1, <3>2
  <2> QED
    BY <1>2, <2>1, <2>2, EndingEntered DEF StreamInv
<1>3. ASSUME main'.at \in Ends \/ main'.outcome = "ok"
      PROVE  (nv12.pending = <<>>)' /\ (venc.at \in {"wait", "left"})' /\ (~nv12.error)'
  <2>1. CASE main.at \in Ends \/ main.outcome = "ok"
    <3>1. nv12.pending = <<>> /\ venc.at \in {"wait", "left"} /\ ~nv12.error
      BY <2>1 DEF EndingInv
    <3>2. NothingChanges \/ StopVenc \/ CloseCall \/ Convert \/ VencLeaves \/ Writer
      BY <2>1, EndingMoves
    <3>3. CASE VencLeaves
      <4>1. venc' = [venc EXCEPT !.at = "left"] /\ nv12' = nv12
        BY <3>3 DEF VencLeaves
      <4> QED
        BY <3>1, <4>1 DEF OutputInv, OutputTyped
    <3>4. CASE StopVenc
      <4>1. nv12' = [nv12 EXCEPT !.stopping = TRUE] /\ venc' = venc
        BY <3>4 DEF StopVenc
      <4> QED
        BY <3>1, <4>1 DEF OutputInv, OutputTyped
    <3>5. CASE NothingChanges \/ CloseCall \/ Convert \/ Writer
      BY <3>1, <3>5 DEF NothingChanges, rtspVars, CloseCall, Convert, Writer, WriterTake,
        WriterWrites, WriterSkips, WriterFails, WriterLeaves
    <3> QED
      BY <3>2, <3>3, <3>4, <3>5
  <2>2. CASE MainDrainsOutput /\ Drained /\ ~nv12.error /\ NothingChanges
    <3>1. run.at = "idle"
      BY <2>2 DEF MainDrainsOutput, EndingInv
    <3>2. nv12.pending = <<>> /\ venc.at \in {"wait", "left"}
      BY <2>2, <3>1, DrainedIsEmpty
    <3> QED
      BY <2>2, <3>2 DEF NothingChanges, rtspVars
  <2> QED
    BY <1>3, <2>1, <2>2, EndingEntered DEF StreamInv
<1>4. ASSUME main'.outcome = "ok"
      PROVE  (~publisher.error)' /\ (writer.at = "left")'
  <2>1. CASE main.outcome = "ok"
    <3>1. ~publisher.error /\ writer.at = "left"
      BY <2>1 DEF EndingInv
    <3>2. NothingChanges \/ StopVenc \/ CloseCall \/ Convert \/ VencLeaves
      BY <2>1, <3>1, EndingMoves DEF Writer, WriterTake, WriterWrites, WriterSkips, WriterFails,
        WriterLeaves
    <3>3. CASE CloseCall
      <4>1. publisher' = [publisher EXCEPT !.stopping = TRUE, !.closed = TRUE] /\ writer' = writer
        BY <3>3 DEF CloseCall
      <4> QED
        BY <3>1, <4>1 DEF OutputInv, OutputTyped
    <3>4. CASE NothingChanges \/ StopVenc \/ Convert \/ VencLeaves
      BY <3>1, <3>4 DEF NothingChanges, rtspVars, StopVenc, Convert, VencLeaves
    <3> QED
      BY <3>2, <3>3, <3>4
  <2>2. CASE MainCloses /\ ~publisher.error
    BY <2>2 DEF MainCloses, Quiet, rtspVars
  <2> QED
    BY <1>4, <2>1, <2>2, EndingEntered DEF StreamInv
<1> QED
  BY <1>1, <1>2, <1>3, <1>4 DEF EndingInv

-----------------------------------------------------------------------------
(* What the output promises.                                               *)

LEMMA Promised == Spec => [](StreamInv /\ OutputInv /\ EndingInv)
<1>1. Init => StreamInv /\ OutputInv /\ EndingInv
  BY StreamInit, OutputInit, EndingInit
<1>2. StreamInv /\ OutputInv /\ EndingInv /\ [Next]_vars => (StreamInv /\ OutputInv /\ EndingInv)'
  BY StreamStep, OutputStep, EndingStep
<1> QED
  BY <1>1, <1>2, PTL DEF Spec

\* What was shown ends in front of the frame that is written next.
LEMMA ShownCounts ==
  ASSUME LineInv, shown \in Seq(Item)
  PROVE  /\ \A i \in DOMAIN shown : shown[i].frame = shown[1].frame + i - 1
         /\ shown # <<>> /\ output # "dvpp" => shown[1].frame = 0
<1>1. PICK k \in Nat : ShownTo(k)
  BY DEF LineInv, Line
<1>2. Len(shown) \in Nat /\ DOMAIN shown = 1..Len(shown)
  OBVIOUS
<1>3. \A i \in DOMAIN shown : shown[i].frame = k - Len(shown) + i - 1
  BY <1>1 DEF ShownTo, CountsJobs
<1>4. ASSUME NEW i \in DOMAIN shown
      PROVE  shown[i].frame = shown[1].frame + i - 1
  <2>1. 1 \in DOMAIN shown
    BY <1>2
  <2>2. shown[i].frame = k - Len(shown) + i - 1 /\ shown[1].frame = k - Len(shown) + 1 - 1
    BY <1>3, <2>1
  <2>3. i \in Nat
    BY <1>2
  <2> QED
    BY <1>2, <2>2, <2>3
<1>5. ASSUME shown # <<>>, output # "dvpp"
      PROVE  shown[1].frame = 0
  <2>1. 1 \in DOMAIN shown
    BY <1>2, <1>5
  <2>2. shown[1].frame = k - Len(shown) + 1 - 1 /\ k = Len(shown)
    BY <1>1, <1>3, <1>5, <2>1 DEF ShownTo
  <2> QED
    BY <1>2, <2>2
<1> QED
  BY <1>4, <1>5

\* For every pool, window and ring, what RunDecodeStream decodes are the frames in their
\* order, and what the output shows is a run of them: the window delivers in order, the
\* slots, EncoderWorker and the publisher's queue keep it, and frames are left out only
\* in front, before the first SPS and PPS.
THEOREM FramesCorrect == Spec => []FramesInOrder
<1>1. StreamInv /\ OutputInv => FramesInOrder
  <2> SUFFICES ASSUME StreamInv, OutputInv
               PROVE  FramesInOrder
    OBVIOUS
  <2>1. \A i \in DOMAIN decoded : decoded[i] = i - 1
    <3>1. decoded \in Seq(Nat) /\ \A i \in DOMAIN decoded : decoded[i] = 0 + i - 1
      BY DEF StreamInv, ThreadsTyped, WindowFlow, Counts
    <3> QED
      BY <3>1
  <2> QED
    BY <2>1, ShownCounts DEF OutputInv, OutputTyped, FramesInOrder
<1> QED
  BY <1>1, Promised, PTL

\* For every ring, a frame is shown with the picture the decoder made of it: Enqueue swaps
\* the buffers, ReserveSlot waits for in_flight, and FlushOne for the conversion; in "x264",
\* where the buffers are not swapped, with a picture at most RtspSlots frames younger.
THEOREM PicturesCorrect == Spec => []ShowsItsFrame
<1>1. OutputInv => ShowsItsFrame
  BY DEF OutputInv, PicturesInv, ItemsShow, Shows, ShowsItsFrame
<1> QED
  BY <1>1, Promised, PTL

\* The last frame decoded was handed on, queued and written.
LEMMA AllShown ==
  ASSUME StreamInv, OutputInv, EndingInv, main.outcome = "ok", output # "none", shown # <<>>
  PROVE  Last(shown).frame = Len(decoded) - 1
<1>1. PICK k, m, n : k \in Nat /\ m \in Nat /\ n \in Nat /\ Line(k, m, n)
  BY DEF OutputInv, LineInv
<1>2. /\ nv12.pending = <<>> /\ venc.at \in {"wait", "left"} /\ ~nv12.error
      /\ ~publisher.error /\ writer.at = "left" /\ run.at = "idle"
  BY DEF EndingInv
<1>3. ShownTo(k) /\ QueuedTo(k, m) /\ InSlotsTo(m, n) /\ DecodedTo(n)
  BY <1>1, <1>2 DEF Line
<1>4. publisher.queue = <<>>
  BY <1>2 DEF OutputInv, KindsInv
<1>5. Written = 0 /\ Waits = 0 /\ One(run.at \in OutAt) = 0
  <2>1. Len(nv12.pending) = 0
    BY <1>2
  <2>2. One(writer.at = "write") = 0 /\ One(venc.at = "flush") = 0 /\ One(run.at \in OutAt) = 0
    BY <1>2 DEF One, OutAt
  <2> QED
    BY <2>1, <2>2 DEF Written, Waits, Flushing
<1>6. Flows
  BY DEF StreamInv, Control, Flows
<1>7. Len(decoded) \in Nat /\ Len(publisher.queue) = 0
  BY <1>4 DEF StreamInv, ThreadsTyped
<1>8. k = Len(decoded)
  <2>1. m = k + 0 + 0 /\ n = m + 0
    BY <1>3, <1>5, <1>7 DEF QueuedTo, InSlotsTo
  <2>2. n = Len(decoded) - 0
    BY <1>3, <1>5, <1>6 DEF DecodedTo
  <2> QED
    BY <1>1, <1>7, <2>1, <2>2
<1>9. /\ shown \in Seq(Item) /\ Len(shown) \in Nat /\ Len(shown) \in DOMAIN shown
      /\ Last(shown) = shown[Len(shown)]
  BY DEF OutputInv, OutputTyped, Last
<1>10. shown[Len(shown)].frame = k - Len(shown) + Len(shown) - 1
  BY <1>3, <1>9 DEF ShownTo, CountsJobs
<1> QED
  BY <1>7, <1>8, <1>9, <1>10

\* For every stream, decode=ok means that no thread failed, that every frame was decoded,
\* and that the last one reached the output: RethrowIfFailed, the drains of the window and
\* of the slots and Close leave no error and no frame behind.
THEOREM OkCompleteCorrect == Spec => []OkMeansComplete
<1>1. StreamInv /\ OutputInv /\ EndingInv => OkMeansComplete
  <2> SUFFICES ASSUME StreamInv, OutputInv, EndingInv, main.outcome = "ok"
               PROVE  /\ ~raised /\ Len(decoded) = StreamFrames
                      /\ output # "none" /\ shown # <<>> => Last(shown).frame = StreamFrames - 1
    BY DEF OkMeansComplete
  <2>1. ~Noted
    BY DEF StreamInv, Control, EndingInv, Noted
  <2>2. ~raised /\ Len(decoded) = StreamFrames
    BY <2>1 DEF EndingInv
  <2> QED
    BY <2>2, AllShown
<1> QED
  BY <1>1, Promised, PTL

-----------------------------------------------------------------------------
(* The operators on the device: how their work is shared out.              *)

\* Division splits a number into quotient and remainder.
LEMMA Split ==
  ASSUME NEW s \in Nat, NEW d \in Nat \ {0}
  PROVE  /\ s \div d \in Nat
         /\ s % d \in 0..(d - 1)
         /\ s = d * (s \div d) + (s % d)
  BY SMT

LEMMA Products ==
  ASSUME NEW a \in Nat, NEW b \in Nat, NEW k \in Nat, a <= b
  PROVE  a * k \in Nat /\ b * k \in Nat /\ a * k <= b * k
  BY SMT

\* A number that fits a word is not changed.
LEMMA FitsWord ==
  ASSUME NEW x \in Nat, x < WordSize
  PROVE  Word(x) = x
<1> DEFINE q == x \div WordSize
           r == x % WordSize
<1>0. WordSize \in Nat \ {0}
  BY WordSizeAssumption, SMT
<1>1. q \in Nat /\ r \in 0..(WordSize - 1) /\ x = WordSize * q + r
  BY <1>0, Split
<1>2. Word(x) = r
  BY DEF Word
<1> HIDE DEF q, r
<1>3. q = 0
  <2>1. CASE q >= 1
    <3>1. 1 * WordSize <= q * WordSize
      BY <1>0, <1>1, <2>1, Products
    <3>2. QED
      BY <1>0, <1>1, <3>1, SMT
  <2>2. QED
    BY <1>1, <2>1, SMT
<1>4. QED
  BY <1>0, <1>1, <1>2, <1>3, SMT

\* The share of a core, rounded up, covers the total and not a full round more.
LEMMA Shares ==
  ASSUME NEW n \in Nat \ {0}, NEW b \in Nat \ {0}, n + b - 1 < WordSize
  PROVE  LET p == CeilDiv(n, b)
         IN  /\ p \in Nat \ {0}
             /\ b * p >= n /\ b * p <= n + b - 1
<1> DEFINE s == n + b - 1
           p == s \div b
           r == s % b
<1>1. s \in Nat /\ s < WordSize
  BY SMT
<1>2. CeilDiv(n, b) = p
  <2>1. CeilDiv(n, b) = Word(s) \div b
    BY DEF CeilDiv
  <2> HIDE DEF s
  <2>2. QED
    BY <1>1, <2>1, FitsWord
<1>3. p \in Nat /\ r \in 0..(b - 1) /\ s = b * p + r
  BY <1>1, Split
<1>4. s = n + b - 1
  OBVIOUS
<1> HIDE DEF s, p, r
<1>5. b * p >= n /\ b * p <= n + b - 1
  BY <1>3, <1>4, SMT
<1>6. p # 0
  BY <1>5, SMT
<1>7. QED
  BY <1>2, <1>3, <1>5, <1>6

\* Cores with adjacent shares of one size p: every number below b * p belongs to one.
LEMMA OwnerExists ==
  ASSUME NEW x \in Nat, NEW b \in Nat, NEW p \in Nat \ {0}, x < b * p
  PROVE  \E c \in 0..(b - 1) : c * p <= x /\ x < c * p + p
<1> DEFINE c == x \div p
           r == x % p
<1>1. c \in Nat /\ r \in 0..(p - 1) /\ x = p * c + r
  BY Split
<1> HIDE DEF c, r
<1>2. c * p <= x /\ x < c * p + p
  BY <1>1, SMT
<1>3. c < b
  <2>1. CASE b <= c
    <3>1. b * p <= c * p
      BY <1>1, <2>1, Products
    <3>2. b * p \in Nat /\ c * p \in Nat
      BY <1>1, SMT
    <3>3. QED
      BY <1>2, <3>1, <3>2, SMT
  <2>2. QED
    BY <1>1, <2>1, SMT
<1>4. c \in 0..(b - 1)
  BY <1>1, <1>3, SMT
<1>5. QED
  BY <1>2, <1>4

LEMMA OwnerUnique ==
  ASSUME NEW x \in Nat, NEW c \in Nat, NEW d \in Nat, NEW p \in Nat \ {0},
         c * p <= x, x < c * p + p, d * p <= x, x < d * p + p
  PROVE  c = d
<1>0. \A k \in Nat : k * p \in Nat /\ (k + 1) * p = k * p + p
  BY SMT
<1>1. ASSUME NEW k \in Nat, NEW l \in Nat, k < l PROVE k * p + p <= l * p
  <2>1. (k + 1) * p <= l * p
    BY <1>1, Products, SMT
  <2>2. QED
    BY <1>0, <2>1
<1>2. CASE c < d
  BY <1>0, <1>1, <1>2, SMT
<1>3. CASE d < c
  BY <1>0, <1>1, <1>3, SMT
<1>4. QED
  BY <1>2, <1>3, SMT
-----------------------------------------------------------------------------
(* What every core begins with: its offset, and a share that ends with the *)
(* total.                                                                  *)

\* A tiling that shares out what there is in shares rounded up, without overflow.
Tiles(t) ==
  /\ t.total \in Nat \ {0} /\ t.blockDim \in Nat \ {0}
  /\ t.total + t.blockDim - 1 < WordSize
  /\ t.perCore = CeilDiv(t.total, t.blockDim)

\* What the cores should work on, had numbers no width.
Share(t, core) ==
  IF core * t.perCore >= t.total THEN 0
  ELSE Smaller(t.perCore, t.total - core * t.perCore)

LEMMA Offsets ==
  ASSUME NEW t, Tiles(t), NEW c \in 0..(t.blockDim - 1)
  PROVE  /\ t.perCore \in Nat \ {0}
         /\ t.blockDim * t.perCore \in Nat
         /\ t.total <= t.blockDim * t.perCore
         /\ t.blockDim * t.perCore < WordSize
         /\ c * t.perCore \in Nat
         /\ c * t.perCore + t.perCore <= t.blockDim * t.perCore
         /\ c = t.blockDim - 1 => c * t.perCore + t.perCore = t.blockDim * t.perCore
         /\ CoreOffset(t, c) = c * t.perCore
<1> DEFINE n == t.total
           b == t.blockDim
           p == t.perCore
<1>1. /\ n \in Nat \ {0} /\ b \in Nat \ {0}
      /\ n + b - 1 < WordSize /\ p = CeilDiv(n, b)
  BY DEF Tiles
<1>2. p \in Nat \ {0} /\ b * p >= n /\ b * p <= n + b - 1
  BY <1>1, Shares
<1>3. c \in Nat /\ c + 1 <= b /\ (c = b - 1 => c + 1 = b)
  BY <1>1, SMT
<1>4. CoreOffset(t, c) = Word(c * p)
  BY DEF CoreOffset
<1> HIDE DEF n, b, p
<1>5. c * p \in Nat /\ (c + 1) * p = c * p + p /\ (c + 1) * p <= b * p
  BY <1>1, <1>2, <1>3, Products, SMT
<1>6. WordSize \in Nat
  BY WordSizeAssumption
<1>7. b * p \in Nat /\ b * p < WordSize /\ c * p < WordSize
  BY <1>1, <1>2, <1>5, <1>6, SMT
<1>8. Word(c * p) = c * p
  BY <1>5, <1>7, FitsWord
<1>9. c = b - 1 => c * p + p = b * p
  BY <1>3, <1>5
<1>10. QED
  BY <1>2, <1>4, <1>5, <1>7, <1>8, <1>9 DEF n, b, p

\* The rows of a core of the conversion, whatever the share of the last one wraps to.
LEMMA RowShares ==
  ASSUME NEW t, Tiles(t), t.tail = Word(t.total - t.perCore * (t.blockDim - 1)),
         NEW c \in 0..(t.blockDim - 1)
  PROVE  CoreRows(t, c) = Share(t, c)
<1> DEFINE n == t.total
           b == t.blockDim
           p == t.perCore
           o == c * p
<1>1. /\ n \in Nat \ {0} /\ b \in Nat \ {0} /\ n < WordSize
  BY WordSizeAssumption, SMT DEF Tiles
<1>2. /\ p \in Nat \ {0} /\ b * p \in Nat /\ n <= b * p /\ b * p < WordSize
      /\ o \in Nat /\ o + p <= b * p
      /\ c = b - 1 => o + p = b * p
      /\ CoreOffset(t, c) = o
  BY Offsets
<1>3. Share(t, c) = IF o >= n THEN 0 ELSE Smaller(p, n - o)
  BY DEF Share
<1>4. CoreRows(t, c) =
        IF o >= n THEN 0
        ELSE IF Word(o + (IF c = b - 1 THEN t.tail ELSE p)) > n THEN n - o
             ELSE IF c = b - 1 THEN t.tail ELSE p
  BY <1>2 DEF CoreRows
<1>5. c = b - 1 => t.tail = Word(n - o)
  <2>1. ASSUME c = b - 1 PROVE p * (b - 1) = o
    BY <1>1, <1>2, <2>1, SMT
  <2>2. QED
    BY <2>1
<1> HIDE DEF n, b, p, o
<1>6. CASE o >= n
  BY <1>3, <1>4, <1>6
<1>7. CASE ~ (o >= n) /\ c = b - 1
  <2>1. n - o \in Nat /\ n - o < WordSize /\ n - o <= p /\ o + (n - o) = n
    BY <1>1, <1>2, <1>7, WordSizeAssumption, SMT
  <2>2. t.tail = n - o
    BY <1>5, <1>7, <2>1, FitsWord
  <2>3. Word(o + t.tail) = n
    BY <1>1, <2>1, <2>2, FitsWord
  <2>4. CoreRows(t, c) = n - o
    BY <1>1, <1>4, <1>7, <2>2, <2>3, SMT
  <2>5. Smaller(p, n - o) = n - o
    BY <1>2, <2>1, SMT DEF Smaller
  <2>6. QED
    BY <1>3, <1>7, <2>4, <2>5
<1>8. CASE ~ (o >= n) /\ c # b - 1
  <2>1. o + p \in Nat /\ o + p < WordSize
    BY <1>1, <1>2, WordSizeAssumption, SMT
  <2>2. Word(o + p) = o + p
    BY <2>1, FitsWord
  <2>3. CoreRows(t, c) = IF o + p > n THEN n - o ELSE p
    BY <1>4, <1>8, <2>2
  <2>4. QED
    BY <1>1, <1>2, <1>3, <1>8, <2>3, SMT DEF Smaller
<1>9. QED
  BY <1>6, <1>7, <1>8

\* The same for the elements of the prior's operators, where no core begins behind the end.
LEMMA ElementShares ==
  ASSUME NEW t, Tiles(t),
         t.tail = TailCoreElements(t.total, t.perCore, t.blockDim),
         (t.blockDim - 1) * t.perCore <= t.total,
         NEW c \in 0..(t.blockDim - 1)
  PROVE  CoreElements(t, c) = Share(t, c)
<1> DEFINE n == t.total
           b == t.blockDim
           p == t.perCore
           o == c * p
           l == (b - 1) * p
           share == IF c = b - 1 THEN t.tail ELSE p
           started == IF o >= n THEN 0 ELSE share
<1>1. /\ n \in Nat \ {0} /\ b \in Nat \ {0} /\ n < WordSize
  BY WordSizeAssumption, SMT DEF Tiles
<1>2. /\ p \in Nat \ {0} /\ b * p \in Nat /\ n <= b * p /\ b * p < WordSize
      /\ o \in Nat /\ o + p <= b * p
      /\ c = b - 1 => o + p = b * p
      /\ CoreOffset(t, c) = o
  BY Offsets
<1>3. l \in Nat /\ l <= n /\ p * (b - 1) = l /\ o <= l /\ (c = b - 1 => o = l)
  <2>1. c \in Nat /\ b - 1 \in Nat /\ c <= b - 1
    BY <1>1, SMT
  <2>2. p \in Nat
    BY <1>2
  <2> HIDE DEF b, p
  <2>3. o <= l /\ l \in Nat
    BY <2>1, <2>2, Products
  <2>4. p * (b - 1) = l
    BY <2>1, <2>2, SMT
  <2>5. l <= n
    BY DEF b, p
  <2>6. QED
    BY <2>3, <2>4, <2>5
<1>4. t.tail = n - l
  <2>1. t.tail = IF n > Word(p * (b - 1)) THEN n - Word(p * (b - 1)) ELSE 0
    BY DEF TailCoreElements
  <2>2. l < WordSize
    BY <1>1, <1>3, WordSizeAssumption, SMT
  <2>3. Word(p * (b - 1)) = l
    BY <1>3, <2>2, FitsWord
  <2> HIDE DEF l, n, b, p
  <2>4. QED
    BY <1>1, <1>3, <2>1, <2>3, SMT
<1>5. CoreElements(t, c) = IF Word(o + started) > n THEN Word(n - o) ELSE started
  BY <1>2 DEF CoreElements
<1>6. Share(t, c) = IF o >= n THEN 0 ELSE Smaller(p, n - o)
  BY DEF Share
<1>7. started = (IF o >= n THEN 0 ELSE IF c = b - 1 THEN n - l ELSE p)
  BY <1>4
<1> HIDE DEF n, b, p, o, l, share, started
<1>8. n - o \in Nat /\ n - o < WordSize /\ Word(n - o) = n - o
  <2>1. n - o \in Nat /\ n - o < WordSize
    BY <1>1, <1>2, <1>3, WordSizeAssumption, SMT
  <2>2. QED
    BY <2>1, FitsWord
<1>9. started \in Nat /\ o + started \in Nat /\ o + started < WordSize
  BY <1>1, <1>2, <1>3, <1>7, WordSizeAssumption, SMT
<1>10. Word(o + started) = o + started
  BY <1>9, FitsWord
<1>11. CoreElements(t, c) = IF o + started > n THEN n - o ELSE started
  BY <1>5, <1>8, <1>10
<1>12. QED
  BY <1>1, <1>2, <1>3, <1>6, <1>7, <1>8, <1>11, SMT DEF Smaller
-----------------------------------------------------------------------------
(* The shares are disjoint and leave nothing out.                          *)

LEMMA ShareOwner ==
  ASSUME NEW t, Tiles(t), NEW x \in 0..(t.total - 1)
  PROVE  \E c \in 0..(t.blockDim - 1) :
           c * t.perCore \in Nat /\ c * t.perCore <= x /\ x < c * t.perCore + Share(t, c)
<1> DEFINE n == t.total
           b == t.blockDim
           p == t.perCore
<1>1. n \in Nat \ {0} /\ b \in Nat \ {0} /\ 0 \in 0..(b - 1)
  BY SMT DEF Tiles
<1>2. p \in Nat \ {0} /\ b * p \in Nat /\ n <= b * p
  BY <1>1, Offsets
<1>3. \A c : Share(t, c) = IF c * p >= n THEN 0 ELSE Smaller(p, n - c * p)
  BY DEF Share
<1>4. x \in Nat /\ x < n
  BY <1>1, SMT
<1> HIDE DEF n, b, p
<1>5. x < b * p
  BY <1>1, <1>2, <1>4, SMT
<1>6. PICK c \in 0..(b - 1) : c * p <= x /\ x < c * p + p
  BY <1>1, <1>2, <1>4, <1>5, OwnerExists
<1>7. c * p \in Nat
  <2>1. c \in Nat
    BY <1>1, SMT
  <2>2. QED
    BY <1>2, <2>1, SMT
<1>8. Share(t, c) = Smaller(p, n - c * p)
  BY <1>1, <1>3, <1>4, <1>6, <1>7, SMT
<1>9. x < c * p + Share(t, c)
  BY <1>1, <1>2, <1>4, <1>6, <1>7, <1>8, SMT DEF Smaller
<1>10. QED
  BY <1>6, <1>7, <1>9 DEF n, b, p

LEMMA ShareBounds ==
  ASSUME NEW t, Tiles(t), NEW c \in 0..(t.blockDim - 1)
  PROVE  /\ c \in Nat /\ c * t.perCore \in Nat /\ t.perCore \in Nat \ {0}
         /\ Share(t, c) \in Nat /\ Share(t, c) <= t.perCore
         /\ Share(t, c) # 0 => c * t.perCore + Share(t, c) <= t.total
         /\ Share(t, c) <= t.total
<1> DEFINE n == t.total
           p == t.perCore
           o == c * p
<1>1. n \in Nat \ {0} /\ c \in Nat
  BY SMT DEF Tiles
<1>2. p \in Nat \ {0} /\ o \in Nat
  BY Offsets
<1>3. Share(t, c) = IF o >= n THEN 0 ELSE Smaller(p, n - o)
  BY DEF Share
<1> HIDE DEF n, p, o
<1>4. /\ Share(t, c) \in Nat /\ Share(t, c) <= p
      /\ Share(t, c) # 0 => o + Share(t, c) <= n
      /\ Share(t, c) <= n
  BY <1>1, <1>2, <1>3, SMT DEF Smaller
<1>5. QED
  BY <1>1, <1>2, <1>4 DEF n, p, o

LEMMA RowsOfShare ==
  ASSUME NEW t, Tiles(t), t.tail = Word(t.total - t.perCore * (t.blockDim - 1)),
         NEW c \in 0..(t.blockDim - 1)
  PROVE  /\ RowsOf(t, c) \subseteq 0..(t.total - 1)
         /\ \A x \in Nat : x \in RowsOf(t, c) <=>
              c * t.perCore <= x /\ x < c * t.perCore + Share(t, c)
<1> DEFINE n == t.total
           o == c * t.perCore
           m == Share(t, c)
<1>1. n \in Nat /\ n < WordSize /\ WordSize \in Nat
  BY WordSizeAssumption, SMT DEF Tiles
<1>2. o \in Nat /\ m \in Nat /\ (m # 0 => o + m <= n)
  BY ShareBounds
<1>3. RowsOf(t, c) = {Word(o + row) : row \in 0..(m - 1)}
  BY Offsets, RowShares DEF RowsOf
<1> HIDE DEF n, o, m
<1>4. ASSUME NEW row \in 0..(m - 1)
      PROVE  /\ Word(o + row) = o + row
             /\ o + row \in Nat /\ o + row < n /\ o <= o + row /\ o + row < o + m
  <2>1. o + row \in Nat /\ o + row < n /\ o <= o + row /\ o + row < o + m
    BY <1>1, <1>2, SMT
  <2>2. o + row < WordSize
    BY <1>1, <2>1, SMT
  <2>3. QED
    BY <2>1, <2>2, FitsWord
<1>5. ASSUME NEW x \in Nat, o <= x, x < o + m PROVE x \in RowsOf(t, c)
  <2>1. x - o \in 0..(m - 1) /\ o + (x - o) = x
    BY <1>2, <1>5, SMT
  <2>2. QED
    BY <1>3, <1>4, <2>1
<1>6. \A x \in RowsOf(t, c) : x \in Nat /\ x < n /\ o <= x /\ x < o + m
  BY <1>3, <1>4
<1>7. RowsOf(t, c) \subseteq 0..(n - 1)
  <2>1. ASSUME NEW x \in RowsOf(t, c) PROVE x \in 0..(n - 1)
    BY <1>1, <1>6, SMT
  <2>2. QED
    BY <2>1
<1>8. QED
  BY <1>5, <1>6, <1>7 DEF n, o, m

\* The kernel of the conversion to NV12 works on every row of the output, on each on one
\* core only and on none behind the end, for every picture whose rows fit a word and every
\* number of cores, although the share of the last core wraps around when the others have
\* taken all of the rows.
THEOREM RowsSharedOut ==
  ASSUME NEW layout, NEW attribute \in Nat \ {0},
         (layout.heightStride * 3) \div 2 \in Nat \ {0},
         (layout.heightStride * 3) \div 2 + attribute < WordSize
  PROVE  LET t == RowTiling(layout, attribute)
             cores == 0..(t.blockDim - 1)
         IN  /\ UNION {RowsOf(t, c) : c \in cores} = 0..(t.total - 1)
             /\ \A c, d \in cores : c # d => RowsOf(t, c) \cap RowsOf(t, d) = {}
<1> DEFINE rows == (layout.heightStride * 3) \div 2
           t == RowTiling(layout, attribute)
           cores == 0..(t.blockDim - 1)
<1>1. /\ t.total = rows /\ t.blockDim = Smaller(attribute, rows)
      /\ t.perCore = CeilDiv(rows, Smaller(attribute, rows))
      /\ t.tail = Word(rows - CeilDiv(rows, Smaller(attribute, rows))
                                * (Smaller(attribute, rows) - 1))
  BY DEF RowTiling
<1> HIDE DEF rows, t
<1>2. rows \in Nat \ {0} /\ rows + attribute < WordSize
  BY DEF rows
<1>3. /\ Smaller(attribute, rows) \in Nat \ {0}
      /\ rows + Smaller(attribute, rows) - 1 < WordSize
  BY <1>2, WordSizeAssumption, SMT DEF Smaller
<1>4. Tiles(t) /\ t.tail = Word(t.total - t.perCore * (t.blockDim - 1))
  BY <1>1, <1>2, <1>3 DEF Tiles
<1>5. UNION {RowsOf(t, c) : c \in cores} \subseteq 0..(t.total - 1)
  BY <1>4, RowsOfShare
<1>6. ASSUME NEW x \in 0..(t.total - 1) PROVE \E c \in cores : x \in RowsOf(t, c)
  <2>1. x \in Nat
    BY <1>1, <1>2, SMT
  <2>2. PICK c \in cores : c * t.perCore <= x /\ x < c * t.perCore + Share(t, c)
    BY <1>4, ShareOwner
  <2>3. QED
    BY <1>4, <2>1, <2>2, RowsOfShare
<1>7. ASSUME NEW c \in cores, NEW d \in cores, NEW x \in RowsOf(t, c), x \in RowsOf(t, d)
      PROVE  c = d
  <2>1. x \in Nat
    <3>1. x \in 0..(t.total - 1)
      BY <1>4, RowsOfShare
    <3>2. QED
      BY <1>1, <1>2, <3>1, SMT
  <2>2. /\ c * t.perCore <= x /\ x < c * t.perCore + Share(t, c)
        /\ d * t.perCore <= x /\ x < d * t.perCore + Share(t, d)
    BY <1>4, <1>7, <2>1, RowsOfShare
  <2>3. /\ c \in Nat /\ d \in Nat /\ t.perCore \in Nat \ {0}
        /\ c * t.perCore \in Nat /\ d * t.perCore \in Nat
        /\ Share(t, c) \in Nat /\ Share(t, d) \in Nat
        /\ Share(t, c) <= t.perCore /\ Share(t, d) <= t.perCore
    BY <1>4, ShareBounds
  <2>4. x < c * t.perCore + t.perCore /\ x < d * t.perCore + t.perCore
    BY <2>1, <2>2, <2>3, SMT
  <2>5. QED
    BY <2>1, <2>2, <2>3, <2>4, OwnerUnique
<1>8. QED
  BY <1>5, <1>6, <1>7 DEF t
\* The kernel leaves nothing of what the output buffer held before, so a picture does not
\* depend on the one that used the buffer last, padding included.
THEOREM BufferFilled ==
  ASSUME NEW input, NEW layout, NEW memory, NEW other,
         layout.widthStride \in Nat \ {0}, layout.heightStride \in Nat \ {0},
         Even(layout.heightStride),
         (layout.heightStride * 3) \div 2 + Nv12BlockDim < WordSize,
         DOMAIN memory = 0..(Nv12BufferSize(layout) - 1), DOMAIN other = DOMAIN memory
  PROVE  DeviceNv12(input, layout, memory) = DeviceNv12(input, layout, other)
<1> DEFINE w == layout.widthStride
           s == layout.heightStride
           h == s \div 2
           rows == (s * 3) \div 2
           t == RowTiling(layout, Nv12BlockDim)
           processed == UNION {RowsOf(t, core) : core \in 0..(t.blockDim - 1)}
<1>1. w \in Nat \ {0} /\ h \in Nat \ {0} /\ s = 2 * h
  <2>1. s \in Nat \ {0} /\ s % 2 = 0
    BY DEF Even
  <2> HIDE DEF s
  <2>2. h \in Nat \ {0} /\ s = 2 * h
    BY <2>1, SMT
  <2>3. QED
    BY <2>2
<1>2. rows = 3 * h /\ rows \in Nat \ {0}
  <2>1. (s * 3) \div 2 = 3 * h
    <3> HIDE DEF s, h
    <3>1. QED
      BY <1>1, SMT
  <2>2. QED
    BY <1>1, <2>1, SMTT(60)
<1>3. Nv12BufferSize(layout) = w * rows
  <2> DEFINE a == w * h
  <2>1. a \in Nat /\ w * s = 2 * a /\ w * rows = 3 * a
    <3> HIDE DEF w, s, h, rows
    <3>1. QED
      BY <1>1, <1>2, SMT
  <2>2. Nv12BufferSize(layout) = w * s + (w * s) \div 2
    BY DEF Nv12BufferSize
  <2> HIDE DEF a, w, s, rows
  <2>3. (2 * a) \div 2 = a
    BY <2>1, SMT
  <2>4. QED
    BY <2>1, <2>2, <2>3, SMT
<1>4. processed = 0..(rows - 1)
  <2>1. Nv12BlockDim \in Nat \ {0}
    BY SMT DEF Nv12BlockDim
  <2>2. t.total = rows
    BY DEF RowTiling
  <2>3. QED
    BY <1>2, <2>1, <2>2, RowsSharedOut
<1>5. ASSUME NEW o \in DOMAIN memory PROVE o \div w \in processed
  <2> DEFINE q == o \div w
             r == o % w
  <2> HIDE DEF rows
  <2>1. o \in Nat /\ o < w * rows
    <3>1. o \in 0..(w * rows - 1)
      BY <1>3
    <3>2. w * rows \in Nat
      <4> HIDE DEF w
      <4>1. QED
        BY <1>1, <1>2, SMTT(60)
    <3> DEFINE size == w * rows
    <3> HIDE DEF size
    <3>3. size \in Nat /\ o \in 0..(size - 1)
      BY <3>1, <3>2 DEF size
    <3>4. o \in Nat /\ o < size
      BY <3>3, SMT
    <3>5. QED
      BY <3>4 DEF size
  <2>2. q \in Nat /\ r \in 0..(w - 1) /\ o = w * q + r
    BY <1>1, <2>1, Split
  <2>3. q < rows
    <3> HIDE DEF w, q, r
    <3>1. CASE rows <= q
      <4>1. rows * w <= q * w /\ rows * w \in Nat
        BY <1>1, <1>2, <2>2, <3>1, Products
      <4>2. w * q = q * w /\ w * rows = rows * w /\ w * q \in Nat /\ r \in Nat
        BY <1>1, <1>2, <2>2, SMT
      <4>3. QED
        BY <2>1, <2>2, <4>1, <4>2, SMT
    <3>2. QED
      BY <1>2, <2>2, <3>1, SMT
  <2>4. q \in 0..(rows - 1)
    <3> HIDE DEF q
    <3>1. QED
      BY <1>2, <2>2, <2>3, SMT
  <2>5. QED
    BY <1>4, <2>4
<1>6. QED
  BY <1>5 DEF DeviceNv12
-----------------------------------------------------------------------------
(* The tiles of a core of the prior's operators.                           *)

Elementwise(t) ==
  /\ Tiles(t) /\ t.tail = TailCoreElements(t.total, t.perCore, t.blockDim)
  /\ (t.blockDim - 1) * t.perCore <= t.total
  /\ t.tile \in Nat \ {0} /\ t.total + t.tile < WordSize

LEMMA TilesOfCore ==
  ASSUME NEW t, Elementwise(t), NEW c \in 0..(t.blockDim - 1)
  PROVE  /\ TileCount(t, c) \in Nat
         /\ Share(t, c) <= TileCount(t, c) * t.tile
         /\ \A j \in Nat : j < TileCount(t, c) =>
              /\ j * t.tile \in Nat /\ j * t.tile < Share(t, c)
              /\ TileElements(t, c, j) = Smaller(Share(t, c) - j * t.tile, t.tile)
<1> DEFINE n == t.total
           k == t.tile
           m == Share(t, c)
           s == m + k - 1
           count == s \div k
           r == s % k
<1>1. Tiles(t) /\ k \in Nat \ {0} /\ n \in Nat \ {0} /\ n + k < WordSize /\ WordSize \in Nat
  BY WordSizeAssumption DEF Elementwise, Tiles
<1>2. CoreElements(t, c) = m /\ m \in Nat /\ m <= n
  BY ElementShares, ShareBounds DEF Elementwise
<1>3. s \in Nat /\ s < WordSize
  <2> HIDE DEF n, k, m
  <2>1. QED
    BY <1>1, <1>2, SMT
<1>4. count \in Nat /\ r \in 0..(k - 1) /\ s = k * count + r
  <2> HIDE DEF s, k
  <2>1. QED
    BY <1>1, <1>3, Split
<1>5. TileCount(t, c) = count
  <2>1. TileCount(t, c) = Word(s) \div k
    BY <1>2 DEF TileCount
  <2> HIDE DEF s
  <2>2. QED
    BY <1>3, <2>1, FitsWord
<1>6. \A j : TileElements(t, c, j) = Smaller(Word(m - Word(j * k)), k)
  BY <1>2 DEF TileElements
<1>7. s = m + k - 1
  OBVIOUS
<1> HIDE DEF n, k, m, s, count, r
<1>8. m <= count * k /\ count * k <= s
  BY <1>1, <1>2, <1>4, <1>7, SMT
<1>9. ASSUME NEW j \in Nat, j < count
      PROVE  j * k \in Nat /\ j * k < m /\ TileElements(t, c, j) = Smaller(m - j * k, k)
  <2>1. j * k \in Nat /\ (j + 1) * k = j * k + k
    BY <1>1, SMT
  <2>2. (j + 1) * k <= count * k /\ count * k \in Nat
    BY <1>1, <1>4, <1>9, Products, SMT
  <2>3. j * k < m
    BY <1>1, <1>2, <1>7, <1>8, <2>1, <2>2, SMT
  <2>4. j * k < WordSize /\ m - j * k \in Nat /\ m - j * k < WordSize
    BY <1>1, <1>2, <2>1, <2>3, SMT
  <2>5. Word(j * k) = j * k /\ Word(m - j * k) = m - j * k
    BY <2>1, <2>4, FitsWord
  <2>6. QED
    BY <1>6, <2>1, <2>3, <2>5
<1>10. QED
  BY <1>4, <1>5, <1>8, <1>9 DEF k, m

\* Where a place of a tile lies, without words.
LEMMA PlacesOfTile ==
  ASSUME NEW t, Elementwise(t), NEW c \in 0..(t.blockDim - 1),
         NEW j \in Nat, j < TileCount(t, c),
         NEW i \in Nat, i < TileElements(t, c, j)
  PROVE  LET x == Linear(t, [core |-> c, tile |-> j, i |-> i])
         IN  /\ c * t.perCore \in Nat /\ j * t.tile \in Nat
             /\ x = c * t.perCore + (j * t.tile + i)
             /\ i < t.tile /\ j * t.tile + i < Share(t, c)
             /\ x \in 0..(t.total - 1)
<1> DEFINE n == t.total
           k == t.tile
           m == Share(t, c)
           o == c * t.perCore
           l == j * k
           x == Linear(t, [core |-> c, tile |-> j, i |-> i])
<1>1. Tiles(t) /\ k \in Nat \ {0} /\ n \in Nat \ {0} /\ n < WordSize /\ WordSize \in Nat
  BY WordSizeAssumption, SMT DEF Elementwise, Tiles
<1>2. o \in Nat /\ m \in Nat /\ (m # 0 => o + m <= n) /\ CoreOffset(t, c) = o
  BY <1>1, ShareBounds, Offsets
<1>3. l \in Nat /\ l < m /\ i < Smaller(m - l, k)
  BY TilesOfCore
<1>4. x = Word(Word(o + Word(l)) + i)
  BY <1>2 DEF Linear
<1> HIDE DEF n, k, m, o, l, x
<1>5. i < k /\ l + i < m
  BY <1>1, <1>2, <1>3, SMT DEF Smaller
<1>6. /\ l < WordSize /\ o + l \in Nat /\ o + l < WordSize
      /\ (o + l) + i \in Nat /\ (o + l) + i < n /\ (o + l) + i < WordSize
      /\ (o + l) + i = o + (l + i)
  BY <1>1, <1>2, <1>3, <1>5, SMT
<1>7. x = o + (l + i)
  BY <1>3, <1>4, <1>6, FitsWord
<1>8. x \in 0..(n - 1)
  BY <1>1, <1>6, <1>7, SMT
<1>9. QED
  BY <1>2, <1>3, <1>5, <1>7, <1>8 DEF n, k, m, o, l, x

\* The operators of the prior work on every element once, on none behind the end and on none
\* twice, for every number of elements, cores and elements of a tile that fit a word, as long
\* as no core begins behind the end; on one core, as the callers ask for, none does.
THEOREM ElementsHandledOnce ==
  ASSUME NEW total \in Nat \ {0}, NEW blockDim \in Nat \ {0}, NEW tile \in Nat \ {0},
         total + blockDim + tile < WordSize,
         (blockDim - 1) * CeilDiv(total, blockDim) <= total
  PROVE  LET t == TilingOf(total, blockDim, tile)
         IN  /\ Handled(t) = 0..(total - 1)
             /\ \A p, q \in Places(t) : Linear(t, p) = Linear(t, q) => p = q
<1> DEFINE t == TilingOf(total, blockDim, tile)
           cores == 0..(blockDim - 1)
           At(c, j, i) == Linear(t, [core |-> c, tile |-> j, i |-> i])
<1>1. /\ t.total = total /\ t.blockDim = blockDim /\ t.tile = tile
      /\ t.perCore = CeilDiv(total, blockDim)
      /\ t.tail = TailCoreElements(total, CeilDiv(total, blockDim), blockDim)
  BY DEF TilingOf
<1> HIDE DEF t
<1>2. total + blockDim - 1 < WordSize /\ total + tile < WordSize
  BY WordSizeAssumption, SMT
<1>3. Elementwise(t) /\ Tiles(t)
  BY <1>1, <1>2 DEF Elementwise, Tiles
<1>4. Handled(t) = UNION {UNION {{At(c, j, i) : i \in 0..(TileElements(t, c, j) - 1)} :
                                   j \in 0..(TileCount(t, c) - 1)} : c \in cores}
  BY <1>1 DEF Handled
<1>5. ASSUME NEW c \in cores, NEW j \in 0..(TileCount(t, c) - 1),
             NEW i \in 0..(TileElements(t, c, j) - 1)
      PROVE  At(c, j, i) \in 0..(total - 1)
  <2>1. j \in Nat /\ j < TileCount(t, c)
    <3>1. TileCount(t, c) \in Nat
      BY <1>1, <1>3, TilesOfCore
    <3>2. QED
      BY <3>1, SMT
  <2>2. i \in Nat /\ i < TileElements(t, c, j)
    <3>1. /\ TileElements(t, c, j) = Smaller(Share(t, c) - j * tile, tile)
          /\ j * tile \in Nat /\ Share(t, c) \in Nat
      BY <1>1, <1>3, <2>1, TilesOfCore, ShareBounds
    <3>2. TileElements(t, c, j) \in Int
      BY <3>1, SMT DEF Smaller
    <3>3. QED
      BY <3>2, SMT
  <2>3. QED
    BY <1>1, <1>3, <2>1, <2>2, PlacesOfTile
<1>6. ASSUME NEW x \in 0..(total - 1)
      PROVE  \E c \in cores : \E j \in 0..(TileCount(t, c) - 1) :
               \E i \in 0..(TileElements(t, c, j) - 1) : x = At(c, j, i)
  <2>1. PICK c \in cores : c * t.perCore \in Nat /\ c * t.perCore <= x
                             /\ x < c * t.perCore + Share(t, c)
    BY <1>1, <1>3, ShareOwner
  <2> DEFINE o == c * t.perCore
             m == Share(t, c)
             y == x - o
             j == y \div tile
             i == y % tile
             count == TileCount(t, c)
  <2>2. m \in Nat /\ count \in Nat /\ m <= count * tile
    BY <1>1, <1>3, TilesOfCore, ShareBounds
  <2>3. x \in Nat /\ o \in Nat /\ y \in Nat /\ y < m /\ x = o + y
    <3>1. o \in Nat /\ o <= x /\ x < o + m
      BY <2>1
    <3> HIDE DEF o, m
    <3>2. QED
      BY <2>2, <3>1, SMT
  <2>4. j \in Nat /\ i \in 0..(tile - 1) /\ y = tile * j + i
    <3> HIDE DEF y
    <3>1. QED
      BY <2>3, Split
  <2> HIDE DEF o, m, y, j, i, count
  <2>5. i \in Nat /\ i < tile /\ j * tile \in Nat /\ y = j * tile + i
    BY <2>4, SMT
  <2>6. j < count
    <3>1. CASE count <= j
      <4>1. count * tile <= j * tile /\ count * tile \in Nat
        BY <2>2, <2>4, <3>1, Products
      <4>2. QED
        BY <2>2, <2>3, <2>5, <4>1, SMT
    <3>2. QED
      BY <2>2, <2>4, <3>1, SMT
  <2>7. TileElements(t, c, j) = Smaller(m - j * tile, tile)
    BY <1>1, <1>3, <2>4, <2>6, TilesOfCore DEF count, m
  <2>8. i < TileElements(t, c, j) /\ TileElements(t, c, j) \in Nat
    BY <2>2, <2>3, <2>5, <2>7, SMT DEF Smaller
  <2>9. At(c, j, i) = c * t.perCore + (j * tile + i)
    BY <1>1, <1>3, <2>4, <2>5, <2>6, <2>8, PlacesOfTile DEF count
  <2>10. x = At(c, j, i)
    BY <2>3, <2>5, <2>9 DEF o
  <2>11. j \in 0..(count - 1) /\ i \in 0..(TileElements(t, c, j) - 1)
    BY <2>2, <2>4, <2>5, <2>6, <2>8, SMT
  <2>12. QED
    BY <2>10, <2>11 DEF count
<1>7. Handled(t) = 0..(total - 1)
  <2> DEFINE Tile(c, j) == {At(c, j, i) : i \in 0..(TileElements(t, c, j) - 1)}
             Core(c) == UNION {Tile(c, j) : j \in 0..(TileCount(t, c) - 1)}
  <2>1. \A c, j, x : x \in Tile(c, j) <=>
          \E i \in 0..(TileElements(t, c, j) - 1) : x = At(c, j, i)
    OBVIOUS
  <2>2. Handled(t) = UNION {Core(c) : c \in cores}
    BY <1>4
  <2> HIDE DEF At, Tile
  <2>3. \A c, x : x \in Core(c) <=> \E j \in 0..(TileCount(t, c) - 1) : x \in Tile(c, j)
    OBVIOUS
  <2> HIDE DEF Core
  <2>4. \A x : x \in Handled(t) <=> \E c \in cores : x \in Core(c)
    BY <2>2
  <2>5. ASSUME NEW x \in Handled(t) PROVE x \in 0..(total - 1)
    BY <1>5, <2>1, <2>3, <2>4
  <2>6. ASSUME NEW x \in 0..(total - 1) PROVE x \in Handled(t)
    BY <1>6, <2>1, <2>3, <2>4
  <2>7. QED
    BY <2>5, <2>6
<1>8. ASSUME NEW p \in Places(t), NEW q \in Places(t), Linear(t, p) = Linear(t, q)
      PROVE  p = q
  <2>1. /\ p \in [core : cores, tile : Nat, i : Nat]
        /\ q \in [core : cores, tile : Nat, i : Nat]
        /\ p.tile < TileCount(t, p.core) /\ p.i < TileElements(t, p.core, p.tile)
        /\ q.tile < TileCount(t, q.core) /\ q.i < TileElements(t, q.core, q.tile)
    BY <1>1 DEF Places
  <2>2. /\ p = [core |-> p.core, tile |-> p.tile, i |-> p.i]
        /\ q = [core |-> q.core, tile |-> q.tile, i |-> q.i]
    BY <2>1
  <2> DEFINE x == Linear(t, p)
  <2>3. /\ p.core * t.perCore \in Nat /\ p.tile * tile \in Nat
        /\ x = p.core * t.perCore + (p.tile * tile + p.i)
        /\ p.i < tile /\ p.tile * tile + p.i < Share(t, p.core) /\ x \in 0..(total - 1)
    BY <1>1, <1>3, <2>1, <2>2, PlacesOfTile
  <2>4. /\ q.core * t.perCore \in Nat /\ q.tile * tile \in Nat
        /\ x = q.core * t.perCore + (q.tile * tile + q.i)
        /\ q.i < tile /\ q.tile * tile + q.i < Share(t, q.core)
    BY <1>1, <1>3, <1>8, <2>1, <2>2, PlacesOfTile
  <2>5. /\ p.core \in Nat /\ q.core \in Nat /\ t.perCore \in Nat \ {0}
        /\ Share(t, p.core) \in Nat /\ Share(t, p.core) <= t.perCore
        /\ Share(t, q.core) \in Nat /\ Share(t, q.core) <= t.perCore
    BY <1>1, <1>3, <2>1, ShareBounds
  <2>6. p.tile \in Nat /\ q.tile \in Nat /\ p.i \in Nat /\ q.i \in Nat
    BY <2>1
  <2> HIDE DEF x
  <2>7. /\ x \in Nat
        /\ p.core * t.perCore <= x /\ x < p.core * t.perCore + t.perCore
        /\ q.core * t.perCore <= x /\ x < q.core * t.perCore + t.perCore
    BY <2>3, <2>4, <2>5, <2>6, SMT
  <2>8. p.core = q.core
    BY <2>5, <2>7, OwnerUnique
  <2>9. p.tile * tile + p.i = q.tile * tile + q.i
    <3> DEFINE o == p.core * t.perCore
               y == p.tile * tile + p.i
               z == q.tile * tile + q.i
    <3>1. o \in Nat /\ y \in Nat /\ z \in Nat /\ x = o + y /\ x = o + z
      BY <2>3, <2>4, <2>6, <2>8
    <3> HIDE DEF o, y, z
    <3>2. y = z
      BY <2>7, <3>1, SMT
    <3>3. QED
      BY <3>2 DEF y, z
  <2>10. p.tile = q.tile
    <3> DEFINE y == p.tile * tile + p.i
    <3>1. y \in Nat /\ y = p.tile * tile + p.i /\ y = q.tile * tile + q.i
      BY <2>3, <2>6, <2>9
    <3> HIDE DEF y
    <3>2. /\ p.tile * tile <= y /\ y < p.tile * tile + tile
          /\ q.tile * tile <= y /\ y < q.tile * tile + tile
      BY <2>3, <2>4, <2>6, <3>1, SMT
    <3>3. QED
      BY <2>6, <3>1, <3>2, OwnerUnique
  <2>11. p.i = q.i
    <3> DEFINE l == p.tile * tile
    <3>1. l \in Nat /\ l + p.i = l + q.i
      BY <2>3, <2>9, <2>10
    <3> HIDE DEF l
    <3>2. QED
      BY <2>6, <3>1, SMT
  <2>12. QED
    BY <2>2, <2>8, <2>10, <2>11
<1>9. QED
  BY <1>7, <1>8 DEF t
=============================================================================
