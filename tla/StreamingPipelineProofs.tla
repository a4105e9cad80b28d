----------------------- MODULE StreamingPipelineProofs -----------------------
(***************************************************************************)
(* The safety theorems of StreamingPipeline, for any finite sets of        *)
(* threads and any capacity.                                               *)
(*                                                                         *)
(* All of them follow from PipelineInv, which is inductive relative to     *)
(* TypeOK.  A step moves one thread to a label and at most wakes sleepers  *)
(* (Moves); whether the thread holds a slot, carries a number or counts as *)
(* active before and after decides what the step does to each count.       *)
(*                                                                         *)
(* Every step keeps the type invariant.  The only conjunct of it that is   *)
(* not inductive by itself is the range of activeWorkers: WorkerExit needs *)
(* ActiveCounted to know that the counter is not zero.                     *)
(*                                                                         *)
(* The second half is about the inputs themselves: the pipeline implements *)
(* OrderedWindow, and a run that ends by itself loses nothing it accepted. *)
(* Both are about where a number is.  Effect lists the nine things a step  *)
(* can do to the numbers; every action is one of them, and each part of    *)
(* the invariant and each step of the abstract window is then a matter of  *)
(* nine cases instead of thirty-three.                                     *)
(***************************************************************************)
EXTENDS StreamingPipeline, FiniteSetTheorems, TLAPS
-----------------------------------------------------------------------------
(* Types.                                                                  *)

\* Every label the actions use is one of Labels.
LEMMA LabelsAre ==
  /\ \A l \in {"idle", "true", "false", "add.lock", "add.block", "add.wait", "add.seq",
          "add.push", "add.undo", "stop.mark", "stop.input", "stop.output",
          "stop.join", "stop.end", "close.mark", "close.input", "process", "fail",
          "reorder", "get", "get.release", "pop", "publish", "exit", "last", "shut",
          "done"} : l \in Labels
BY DEF Labels, Rest, InAdd, Claimed, InStop, InClose, Busy

\* A step to a known label keeps the type of pc.
LEMMA GotoType ==
  ASSUME pc \in [Threads -> Labels], NEW t \in Threads, NEW l \in Labels, Goto(t, l)
  PROVE  pc' \in [Threads -> Labels]
BY DEF Goto

\* Waking any set of threads keeps the type of pc.
LEMMA WokenType ==
  ASSUME NEW base \in [Threads -> Labels], NEW S
  PROVE  Woken(S, base) \in [Threads -> Labels]
BY LabelsAre DEF Woken

\* BoundedQueue::Push keeps the type of a queue.
LEMMA AppendType ==
  ASSUME NEW q \in Seq(Nat), NEW n \in Nat
  PROVE  Append(q, n) \in Seq(Nat)
OBVIOUS

\* BoundedQueue::Pop keeps the type of a queue.
LEMMA TakeType ==
  ASSUME NEW q \in Seq(Nat), q # <<>>
  PROVE  Head(q) \in Nat /\ Tail(q) \in Seq(Nat)
OBVIOUS

\* The number of workers is a number.
LEMMA WorkersFinite == Cardinality(Workers) \in Nat
BY PipelineAssumption, FS_CardinalityType DEF PipelineAssumption

\* A worker that is about to leave is still counted.
LEMMA CountedExit ==
  ASSUME ActiveCounted, NEW w \in Workers, pc[w] = "exit"
  PROVE  activeWorkers # 0
<1>1. w \in Counted
  BY DEF Counted
<1>2. IsFiniteSet(Counted)
  BY PipelineAssumption, FS_Subset DEF PipelineAssumption, Counted
<1> QED
  BY <1>1, <1>2, FS_EmptySet DEF ActiveCounted

\* Giving a thread a sequence number keeps the type of seq.
LEMMA RegisterType ==
  ASSUME NEW f \in [Threads -> Nat], NEW t, NEW n \in Nat
  PROVE  [f EXCEPT ![t] = n] \in [Threads -> Nat]
OBVIOUS

\* A notify_one keeps every thread at a known label.
LEMMA ReleaseType ==
  ASSUME TypeOK, NEW t \in Threads, NEW l \in Labels, ReleaseInFlightSlot(t, l)
  PROVE  /\ pc' \in [Threads -> Labels]
         /\ inFlight' \in Nat
         /\ waiters' \subseteq Producers
<1>1. pc \in [Threads -> Labels] /\ inFlight \in Nat /\ waiters \subseteq Producers
  BY DEF TypeOK
<1>2. inFlight' \in Nat
  BY <1>1 DEF ReleaseInFlightSlot
<1>3. CASE waiters = {}
  <2>1. Goto(t, l) /\ waiters' = waiters
    BY <1>3 DEF ReleaseInFlightSlot
  <2> QED
    BY <1>1, <1>2, <2>1, GotoType
<1>4. CASE waiters # {}
  <2>1. PICK s \in waiters : /\ pc' = Woken({s}, [pc EXCEPT ![t] = l])
                             /\ waiters' = waiters \ {s}
    BY <1>4 DEF ReleaseInFlightSlot
  <2>2. [pc EXCEPT ![t] = l] \in [Threads -> Labels]
    BY <1>1
  <2> QED
    BY <1>1, <1>2, <2>1, <2>2, WokenType
<1> QED
  BY <1>3, <1>4

\* Taking the next result leaves the reorder buffer well formed.
LEMMA TakeNextType ==
  ASSUME TypeOK, TakeNext
  PROVE  /\ completed' \subseteq Nat /\ nulls' \subseteq completed'
         /\ nextOutput' \in Nat
         /\ failed' = failed
BY DEF TypeOK, TakeNext, NextCompleted

\* GetOutput and TryGetOutput move a number from one sequence to another.
LEMMA TakeOutputType ==
  ASSUME TypeOK, NEW t \in Threads, TakeOutput(t)
  PROVE  /\ outputQueue' \in Seq(Nat) /\ delivered' \in Seq(Nat)
         /\ pc' \in [Threads -> Labels]
<1>1. outputQueue \in Seq(Nat) /\ outputQueue # <<>> /\ delivered \in Seq(Nat)
  BY DEF TakeOutput, TypeOK
<1>2. outputQueue' \in Seq(Nat) /\ delivered' \in Seq(Nat)
  BY <1>1, TakeType, AppendType DEF TakeOutput
<1>3. pc' \in [Threads -> Labels]
  BY GotoType, LabelsAre DEF TakeOutput, TypeOK
<1> QED
  BY <1>2, <1>3

\* The pipeline before the first Start is well typed.
LEMMA InitType == Init => TypeOK
<1> SUFFICES ASSUME Init PROVE TypeOK
  OBVIOUS
<1>1. activeWorkers \in 0..Cardinality(Workers) /\ starts \in 0..MaxStarts
  BY WorkersFinite, PipelineAssumption DEF PipelineAssumption, Init
<1>2. pc \in [Threads -> Labels]
  BY LabelsAre DEF Init
<1>3. /\ seq \in [Threads -> Nat] /\ result \in [Workers -> BOOLEAN]
      /\ wasRunning \in [Controllers -> BOOLEAN]
  BY DEF Init
<1>4. inputQueue \in Seq(Nat) /\ outputQueue \in Seq(Nat) /\ delivered \in Seq(Nat)
  BY DEF Init
<1> QED
  BY <1>1, <1>2, <1>3, <1>4 DEF Init, TypeOK

\* No operation of the pipeline leaves the types, as long as active_workers_
\* counts the workers that have not left.
LEMMA TypeStep == TypeOK /\ ActiveCounted /\ [Next]_vars => TypeOK'
<1> SUFFICES ASSUME TypeOK, ActiveCounted, [Next]_vars PROVE TypeOK'
  OBVIOUS
<1> USE DEF Threads, Clients, slotVars, queueVars, orderVars, localVars, historyVars
<1>1. ASSUME NEW t \in Producers, AddInputCall(t) PROVE TypeOK'
  <2>1. pc' \in [Threads -> Labels]
    BY <1>1, GotoType, LabelsAre DEF AddInputCall, TypeOK
  <2> QED
    BY <1>1, <2>1 DEF AddInputCall, TypeOK
<1>2. ASSUME NEW t \in Producers, SpuriousWakeup(t) PROVE TypeOK'
  <2>1. pc' \in [Threads -> Labels]
    BY <1>2, GotoType, LabelsAre DEF SpuriousWakeup, TypeOK
  <2> QED
    BY <1>2, <2>1 DEF SpuriousWakeup, TypeOK
<1>3. ASSUME NEW t \in Producers, AddInputTest(t) PROVE TypeOK'
  <2>1. pc' \in [Threads -> Labels]
    BY <1>3, GotoType, LabelsAre DEF AddInputTest, TypeOK
  <2> QED
    BY <1>3, <2>1 DEF AddInputTest, TypeOK
<1>4. ASSUME NEW t \in Producers, AddInputSleep(t) PROVE TypeOK'
  <2>1. pc' \in [Threads -> Labels]
    BY <1>4, GotoType, LabelsAre DEF AddInputSleep, TypeOK
  <2> QED
    BY <1>4, <2>1 DEF AddInputSleep, TypeOK
<1>5. ASSUME NEW t \in Producers, AddInputNumber(t) PROVE TypeOK'
  <2>1. pc' \in [Threads -> Labels]
    BY <1>5, GotoType, LabelsAre DEF AddInputNumber, TypeOK
  <2>2. seq' \in [Threads -> Nat] /\ nextSequence' \in Nat
    BY <1>5, RegisterType DEF AddInputNumber, TypeOK
  <2> QED
    BY <1>5, <2>1, <2>2 DEF AddInputNumber, TypeOK
<1>6. ASSUME NEW t \in Producers, AddInputPush(t) PROVE TypeOK'
  <2>1. pc' \in [Threads -> Labels]
    BY <1>6, GotoType, LabelsAre DEF AddInputPush, TypeOK
  <2>2. t \in Threads /\ seq[t] \in Nat
    BY DEF TypeOK
  <2>3. seq' \in [Threads -> Nat]
    <3>1. seq' = seq \/ seq' = [seq EXCEPT ![t] = 0]
      BY <1>6 DEF AddInputPush
    <3>2. seq \in [Threads -> Nat] /\ [seq EXCEPT ![t] = 0] \in [Threads -> Nat]
      BY RegisterType DEF TypeOK
    <3> QED
      BY <3>1, <3>2
  <2>4. inputQueue' = inputQueue \/ inputQueue' = Append(inputQueue, seq[t])
    BY <1>6 DEF AddInputPush
  <2>5. inputQueue \in Seq(Nat) /\ Append(inputQueue, seq[t]) \in Seq(Nat)
    BY <2>2, AppendType DEF TypeOK
  <2>6. inputQueue' \in Seq(Nat)
    BY <2>4, <2>5
  <2>7. accepted' = accepted \/ accepted' = accepted \cup {seq[t]}
    BY <1>6 DEF AddInputPush
  <2>8. accepted' \subseteq Nat
    BY <2>2, <2>7 DEF TypeOK
  <2> QED
    BY <1>6, <2>1, <2>2, <2>3, <2>4, <2>5, <2>6, <2>7, <2>8 DEF AddInputPush, TypeOK
<1>7. ASSUME NEW t \in Producers, AddInputUndo(t) PROVE TypeOK'
  <2>1. t \in Threads /\ seq[t] \in Nat
    BY DEF TypeOK
  <2>2. pc' \in [Threads -> Labels] /\ inFlight' \in Nat /\ waiters' \subseteq Producers
    BY <1>7, ReleaseType, LabelsAre DEF AddInputUndo
  <2>3. seq' \in [Threads -> Nat]
    BY <1>7, RegisterType DEF AddInputUndo, TypeOK
  <2>4. dropped' \subseteq Nat
    BY <1>7, <2>1 DEF AddInputUndo, TypeOK
  <2> QED
    BY <1>7, <2>2, <2>3, <2>4 DEF AddInputUndo, TypeOK
<1>8. ASSUME NEW w \in Workers, WorkerPop(w) PROVE TypeOK'
  <2>1. pc' \in [Threads -> Labels]
    BY <1>8, GotoType, LabelsAre DEF WorkerPop, TypeOK
  <2>2. \/ seq' = seq
        \/ inputQueue # <<>> /\ seq' = [seq EXCEPT ![w] = Head(inputQueue)]
    BY <1>8 DEF WorkerPop
  <2>3. seq' \in [Threads -> Nat]
    BY <2>2, TakeType, RegisterType, SMTT(60) DEF TypeOK
  <2>4. \/ inputQueue' = inputQueue
        \/ inputQueue # <<>> /\ inputQueue' = Tail(inputQueue)
    BY <1>8 DEF WorkerPop
  <2>5. inputQueue' \in Seq(Nat)
    BY <2>4, TakeType DEF TypeOK
  <2> QED
    BY <1>8, <2>1, <2>2, <2>3, <2>4, <2>5 DEF WorkerPop, TypeOK
<1>9. ASSUME NEW w \in Workers, WorkerProcess(w) PROVE TypeOK'
  <2>1. pc' \in [Threads -> Labels]
    BY <1>9, GotoType, LabelsAre DEF WorkerProcess, TypeOK
  <2> QED
    BY <1>9, <2>1 DEF WorkerProcess, TypeOK
<1>10. ASSUME NEW w \in Workers, WorkerFail(w) PROVE TypeOK'
  <2>1. pc' \in [Threads -> Labels]
    BY <1>10, GotoType, LabelsAre DEF WorkerFail, TypeOK
  <2> QED
    BY <1>10, <2>1 DEF WorkerFail, TypeOK
<1>11. ASSUME NEW w \in Workers, WorkerComplete(w) PROVE TypeOK'
  <2>1. pc' \in [Threads -> Labels]
    BY <1>11, GotoType, LabelsAre DEF WorkerComplete, TypeOK
  <2>2. w \in Threads /\ seq[w] \in Nat
    BY DEF TypeOK
  <2>3. seq' \in [Threads -> Nat]
    BY <1>11, RegisterType DEF WorkerComplete, TypeOK
  <2>4. result' \in [Workers -> BOOLEAN]
    BY <1>11 DEF WorkerComplete, TypeOK
  <2>5. completed' = completed \cup {seq[w]} /\ nulls' \subseteq nulls \cup {seq[w]}
    BY <1>11 DEF WorkerComplete
  <2>6. completed' \subseteq Nat /\ nulls' \subseteq completed'
    BY <2>2, <2>5 DEF TypeOK
  <2> QED
    BY <1>11, <2>1, <2>2, <2>3, <2>4, <2>5, <2>6 DEF WorkerComplete, TypeOK
<1>12. ASSUME NEW w \in Workers, PublishResult(w) PROVE TypeOK'
  <2>1. pc' \in [Threads -> Labels]
    BY <1>12, GotoType, LabelsAre DEF PublishResult, TakeNext, NextCompleted, TypeOK
  <2>2. completed' \subseteq Nat /\ nulls' \subseteq completed' /\ nextOutput' \in Nat
    BY <1>12, TakeNextType DEF PublishResult, TakeNext, NextCompleted
  <2>3. outputQueue' \in Seq(Nat)
    BY <1>12, AppendType DEF PublishResult, TakeNext, NextCompleted, NextCompleted, TypeOK
  <2> QED
    BY <1>12, <2>1, <2>2, <2>3 DEF PublishResult, TakeNext, NextCompleted, TypeOK
<1>13. ASSUME NEW w \in Workers, PublishRefused(w) PROVE TypeOK'
  <2>1. pc' \in [Threads -> Labels] /\ inFlight' \in Nat /\ waiters' \subseteq Producers
    BY <1>13, ReleaseType, LabelsAre DEF PublishRefused
  <2>2. /\ completed' \subseteq Nat /\ nulls' \subseteq completed'
        /\ nextOutput' \in Nat /\ failed' = failed
    BY <1>13, TakeNextType DEF PublishRefused
  <2>3. dropped' \subseteq Nat
    BY <1>13 DEF PublishRefused, NextCompleted, TypeOK
  <2> QED
    BY <1>13, <2>1, <2>2, <2>3 DEF PublishRefused, TypeOK
<1>14. ASSUME NEW w \in Workers, PublishNull(w) PROVE TypeOK'
  <2>1. pc' \in [Threads -> Labels] /\ inFlight' \in Nat /\ waiters' \subseteq Producers
    BY <1>14, ReleaseType, LabelsAre DEF PublishNull
  <2>2. /\ completed' \subseteq Nat /\ nulls' \subseteq completed'
        /\ nextOutput' \in Nat /\ failed' = failed
    BY <1>14, TakeNextType DEF PublishNull
  <2>3. dropped' \subseteq Nat
    BY <1>14 DEF PublishNull, NextCompleted, TypeOK
  <2> QED
    BY <1>14, <2>1, <2>2, <2>3 DEF PublishNull, TypeOK
<1>15. ASSUME NEW w \in Workers, PublishEnd(w) PROVE TypeOK'
  <2>1. pc' \in [Threads -> Labels]
    BY <1>15, GotoType, LabelsAre DEF PublishEnd, TypeOK
  <2> QED
    BY <1>15, <2>1 DEF PublishEnd, TypeOK
<1>16. ASSUME NEW w \in Workers, WorkerExit(w) PROVE TypeOK'
  <2>1. pc' \in [Threads -> Labels]
    BY <1>16, GotoType, LabelsAre DEF WorkerExit, TypeOK
  <2>2. activeWorkers \in Nat /\ activeWorkers # 0
    BY <1>16, CountedExit DEF WorkerExit, TypeOK
  <2>3. activeWorkers' \in 0..Cardinality(Workers)
    BY <1>16, <2>2, WorkersFinite DEF WorkerExit, TypeOK
  <2> QED
    BY <1>16, <2>1, <2>2, <2>3 DEF WorkerExit, TypeOK
<1>17. ASSUME NEW w \in Workers, WorkerEndRun(w) PROVE TypeOK'
  <2>1. pc' \in [Threads -> Labels]
    BY <1>17, WokenType, LabelsAre DEF WorkerEndRun, WakeAll, TypeOK
  <2> QED
    BY <1>17, <2>1 DEF WorkerEndRun, WakeAll, TypeOK
<1>18. ASSUME NEW w \in Workers, WorkerShutOutput(w) PROVE TypeOK'
  <2>1. pc' \in [Threads -> Labels]
    BY <1>18, GotoType, LabelsAre DEF WorkerShutOutput, TypeOK
  <2> QED
    BY <1>18, <2>1 DEF WorkerShutOutput, TypeOK
<1>19. ASSUME NEW t \in Consumers, GetOutputCall(t) PROVE TypeOK'
  <2>1. pc' \in [Threads -> Labels]
    BY <1>19, GotoType, LabelsAre DEF GetOutputCall, TypeOK
  <2> QED
    BY <1>19, <2>1 DEF GetOutputCall, TypeOK
<1>20. ASSUME NEW t \in Consumers, GetOutputPop(t) PROVE TypeOK'
  <2>1. CASE TakeOutput(t)
    <3>1. /\ outputQueue' \in Seq(Nat) /\ delivered' \in Seq(Nat)
          /\ pc' \in [Threads -> Labels]
      BY <2>1, TakeOutputType
    <3> QED
      BY <1>20, <3>1 DEF GetOutputPop, TypeOK
  <2>2. CASE ~TakeOutput(t)
    <3>1. /\ outputQueue' = outputQueue /\ delivered' = delivered
          /\ Goto(t, "false")
      BY <1>20, <2>2 DEF GetOutputPop
    <3>2. pc' \in [Threads -> Labels]
      BY <3>1, GotoType, LabelsAre DEF TypeOK
    <3> QED
      BY <1>20, <3>1, <3>2 DEF GetOutputPop, TypeOK
  <2> QED
    BY <2>1, <2>2
<1>21. ASSUME NEW t \in Consumers, TryGetOutput(t) PROVE TypeOK'
  <2>1. CASE TakeOutput(t)
    <3>1. /\ outputQueue' \in Seq(Nat) /\ delivered' \in Seq(Nat)
          /\ pc' \in [Threads -> Labels]
      BY <2>1, TakeOutputType
    <3> QED
      BY <1>21, <3>1 DEF TryGetOutput, TypeOK
  <2>2. CASE ~TakeOutput(t)
    <3>1. /\ outputQueue' = outputQueue /\ delivered' = delivered
          /\ Goto(t, "false")
      BY <1>21, <2>2 DEF TryGetOutput
    <3>2. pc' \in [Threads -> Labels]
      BY <3>1, GotoType, LabelsAre DEF TypeOK
    <3> QED
      BY <1>21, <3>1, <3>2 DEF TryGetOutput, TypeOK
  <2> QED
    BY <2>1, <2>2
<1>22. ASSUME NEW t \in Consumers, GetOutputRelease(t) PROVE TypeOK'
  <2>1. pc' \in [Threads -> Labels] /\ inFlight' \in Nat /\ waiters' \subseteq Producers
    BY <1>22, ReleaseType, LabelsAre DEF GetOutputRelease
  <2> QED
    BY <1>22, <2>1 DEF GetOutputRelease, TypeOK
<1>23. ASSUME NEW t \in Controllers, CloseInputCall(t) PROVE TypeOK'
  <2>1. pc' \in [Threads -> Labels]
    BY <1>23, GotoType, LabelsAre DEF CloseInputCall, TypeOK
  <2> QED
    BY <1>23, <2>1 DEF CloseInputCall, TypeOK
<1>24. ASSUME NEW t \in Controllers, CloseInputMark(t) PROVE TypeOK'
  <2>1. pc' \in [Threads -> Labels]
    BY <1>24, WokenType, LabelsAre DEF CloseInputMark, WakeAll, TypeOK
  <2> QED
    BY <1>24, <2>1 DEF CloseInputMark, WakeAll, TypeOK
<1>25. ASSUME NEW t \in Controllers, CloseInputShut(t) PROVE TypeOK'
  <2>1. pc' \in [Threads -> Labels]
    BY <1>25, GotoType, LabelsAre DEF CloseInputShut, TypeOK
  <2> QED
    BY <1>25, <2>1 DEF CloseInputShut, TypeOK
<1>26. ASSUME NEW t \in Controllers, StopCall(t) PROVE TypeOK'
  <2>1. pc' \in [Threads -> Labels]
    BY <1>26, GotoType, LabelsAre DEF StopCall, TypeOK
  <2> QED
    BY <1>26, <2>1 DEF StopCall, TypeOK
<1>27. ASSUME NEW t \in Controllers, StopMark(t) PROVE TypeOK'
  <2>1. pc' \in [Threads -> Labels]
    BY <1>27, WokenType, LabelsAre DEF StopMark, WakeAll, TypeOK
  <2> QED
    BY <1>27, <2>1 DEF StopMark, WakeAll, TypeOK
<1>28. ASSUME NEW t \in Controllers, StopShutInput(t) PROVE TypeOK'
  <2>1. pc' \in [Threads -> Labels]
    BY <1>28, GotoType, LabelsAre DEF StopShutInput, TypeOK
  <2> QED
    BY <1>28, <2>1 DEF StopShutInput, TypeOK
<1>29. ASSUME NEW t \in Controllers, StopShutOutput(t) PROVE TypeOK'
  <2>1. pc' \in [Threads -> Labels]
    BY <1>29, GotoType, LabelsAre DEF StopShutOutput, TypeOK
  <2> QED
    BY <1>29, <2>1 DEF StopShutOutput, TypeOK
<1>30. ASSUME NEW t \in Controllers, StopJoin(t) PROVE TypeOK'
  <2>1. pc' \in [Threads -> Labels]
    BY <1>30, GotoType, LabelsAre DEF StopJoin, TypeOK
  <2> QED
    BY <1>30, <2>1 DEF StopJoin, TypeOK
<1>31. ASSUME NEW t \in Controllers, StopEnd(t) PROVE TypeOK'
  <2>1. pc' \in [Threads -> Labels]
    BY <1>31, GotoType, LabelsAre DEF StopEnd, TypeOK
  <2> QED
    BY <1>31, <2>1 DEF StopEnd, TypeOK
<1>32. ASSUME NEW t \in Controllers, Start(t) PROVE TypeOK'
  <2>1. pc' \in [Threads -> Labels]
    BY <1>32, LabelsAre DEF Start, TypeOK
  <2>2. /\ activeWorkers' \in 0..Cardinality(Workers)
        /\ starts' \in 0..MaxStarts
    BY <1>32, WorkersFinite, PipelineAssumption DEF PipelineAssumption, Start, LaunchedWorkers, TypeOK
  <2>3. inputQueue' \in Seq(Nat) /\ outputQueue' \in Seq(Nat) /\ delivered' \in Seq(Nat)
    BY <1>32 DEF Start
  <2> QED
    BY <1>32, <2>1, <2>2, <2>3 DEF Start, TypeOK
<1>33. ASSUME UNCHANGED vars PROVE TypeOK'
  BY <1>33 DEF TypeOK, vars
<1> QED
  BY <1>1, <1>2, <1>3, <1>4, <1>5, <1>6, <1>7, <1>8, <1>9, <1>10, <1>11, <1>12,
     <1>13, <1>14, <1>15, <1>16, <1>17, <1>18, <1>19, <1>20, <1>21, <1>22, <1>23,
     <1>24, <1>25, <1>26, <1>27, <1>28, <1>29, <1>30, <1>31, <1>32, <1>33
     DEF Next, ProducerStep, WorkerStep, ConsumerStep, ControllerStep
-----------------------------------------------------------------------------
(* The inductive invariant.                                                *)

\* Thread t goes to label l and the step wakes nobody or some sleepers.
Moves(t, l) ==
  /\ pc'[t] = l
  /\ \A u \in Threads \ {t} :
       pc'[u] = pc[u] \/ (pc[u] = "add.wait" /\ pc'[u] = "add.lock")

\* At label l thread t holds a slot that no container accounts for.
Holds(t, l) ==
  \/ t \in Clients /\ l \in Claimed \cup {"get.release"}
  \/ t \in Workers /\ l \in Busy

\* SlotHolders, thread by thread.
LEMMA HoldersAre == SlotHolders = {t \in Threads : Holds(t, pc[t])}
BY DEF SlotHolders, Holds, Threads

\* Only finitely many threads can hold a slot.
LEMMA HoldersFinite == IsFiniteSet(SlotHolders)
<1>1. IsFiniteSet(Threads)
  BY PipelineAssumption, FS_Union DEF PipelineAssumption, Threads
<1>2. SlotHolders \in SUBSET Threads
  BY DEF SlotHolders, Threads
<1> QED
  BY <1>1, <1>2, FS_Subset

\* A plain step moves its thread.
LEMMA GotoMoves ==
  ASSUME TypeOK, NEW t \in Threads, NEW l, Goto(t, l)
  PROVE  Moves(t, l)
BY DEF TypeOK, Goto, Moves

\* notify_all moves its caller and wakes sleepers.
LEMMA WakeAllMoves ==
  ASSUME TypeOK, WaitersAsleep, NEW t \in Threads, NEW l, pc[t] # "add.wait", WakeAll(t, l)
  PROVE  Moves(t, l)
BY DEF TypeOK, WaitersAsleep, WakeAll, Woken, Moves, Threads

\* notify_one in ReleaseInFlightSlot moves its caller and wakes a sleeper.
LEMMA ReleaseMoves ==
  ASSUME TypeOK, WaitersAsleep, NEW t \in Threads, NEW l, pc[t] # "add.wait",
         ReleaseInFlightSlot(t, l)
  PROVE  Moves(t, l)
<1>1. CASE waiters = {}
  BY <1>1, GotoMoves DEF ReleaseInFlightSlot
<1>2. CASE waiters # {}
  BY <1>2 DEF TypeOK, WaitersAsleep, ReleaseInFlightSlot, Woken, Moves, Threads
<1> QED
  BY <1>1, <1>2

\* Only the thread that moves joins or leaves the slot holders.
LEMMA HoldersMove ==
  ASSUME NEW t \in Threads, NEW l, Moves(t, l)
  PROVE  SlotHolders' = IF Holds(t, l) THEN SlotHolders \cup {t} ELSE SlotHolders \ {t}
<1>1. SlotHolders' = {u \in Threads : Holds(u, pc'[u])}
  BY DEF SlotHolders, Holds, Threads
<1>2. \A u \in Threads \ {t} : Holds(u, pc'[u]) <=> Holds(u, pc[u])
  BY DEF Moves, Holds, Claimed, Busy
<1>3. pc'[t] = l
  BY DEF Moves
<1> QED
  BY <1>1, <1>2, <1>3, HoldersAre

\* So a step changes the number of slot holders by at most one.
LEMMA HoldersCount ==
  ASSUME NEW t \in Threads, NEW l, Moves(t, l)
  PROVE  /\ Cardinality(SlotHolders) \in Nat
         /\ (Holds(t, pc[t]) <=> Holds(t, l)) => Cardinality(SlotHolders') = Cardinality(SlotHolders)
         /\ ~Holds(t, pc[t]) /\ Holds(t, l) =>
              Cardinality(SlotHolders') = Cardinality(SlotHolders) + 1
         /\ Holds(t, pc[t]) /\ ~Holds(t, l) =>
              /\ Cardinality(SlotHolders') = Cardinality(SlotHolders) - 1
              /\ Cardinality(SlotHolders) # 0
<1>1. t \in SlotHolders <=> Holds(t, pc[t])
  BY HoldersAre
<1>2. Cardinality(SlotHolders) \in Nat
  BY HoldersFinite, FS_CardinalityType
<1>3. Holds(t, pc[t]) => Cardinality(SlotHolders) # 0
  BY <1>1, HoldersFinite, FS_EmptySet
<1>4. CASE Holds(t, l)
  <2>1. Cardinality(SlotHolders') = IF t \in SlotHolders THEN Cardinality(SlotHolders)
                                    ELSE Cardinality(SlotHolders) + 1
    BY <1>4, HoldersMove, HoldersFinite, FS_AddElement
  <2> QED
    BY <1>1, <1>2, <1>3, <1>4, <2>1
<1>5. CASE ~Holds(t, l)
  <2>1. Cardinality(SlotHolders') = IF t \in SlotHolders THEN Cardinality(SlotHolders) - 1
                                    ELSE Cardinality(SlotHolders)
    BY <1>5, HoldersMove, HoldersFinite, FS_RemoveElement
  <2> QED
    BY <1>1, <1>2, <1>3, <1>5, <2>1
<1> QED
  BY <1>4, <1>5

\* The same for the workers that count as active.
LEMMA CountedMove ==
  ASSUME TypeOK, NEW t \in Threads, NEW l, Moves(t, l)
  PROVE  Counted' = IF t \in Workers /\ l \notin {"last", "shut", "done"}
                    THEN Counted \cup {t} ELSE Counted \ {t}
BY DEF Moves, Counted, Threads

\* Only finitely many workers are counted.
LEMMA CountedFinite == IsFiniteSet(Counted)
BY PipelineAssumption, FS_Subset DEF PipelineAssumption, Counted

\* At label l thread t carries a number towards completed_results_.
Carries(t, l) == (t \in Producers /\ l = "add.push") \/ (t \in Workers /\ l \in Busy)
\* At label l a worker still counts in active_workers_.
Active(l) == l \notin {"last", "shut", "done"}

\* A step that does not pass the fetch_sub keeps the worker count.
LEMMA ActiveKept ==
  ASSUME TypeOK, ActiveCounted, NEW t \in Threads, NEW l, Moves(t, l),
         t \in Workers => (Active(l) <=> Active(pc[t])), activeWorkers' = activeWorkers
  PROVE  ActiveCounted'
<1>1. Counted' = Counted
  BY CountedMove DEF Counted, Active
<1> QED
  BY <1>1 DEF ActiveCounted

\* Only the thread that moves becomes or stops being a carrier.
LEMMA CarriersMove ==
  ASSUME NEW t \in Threads, NEW l, Moves(t, l)
  PROVE  Carriers' = IF Carries(t, l) THEN Carriers \cup {t} ELSE Carriers \ {t}
<1>1. Carriers' = {u \in Threads : Carries(u, pc'[u])}
  BY DEF Carriers, Carries, Threads, Clients
<1>2. \A u \in Threads \ {t} : Carries(u, pc'[u]) <=> Carries(u, pc[u])
  BY DEF Moves, Carries, Busy
<1>3. pc'[t] = l
  BY DEF Moves
<1>4. Carriers = {u \in Threads : Carries(u, pc[u])}
  BY DEF Carriers, Carries, Threads, Clients
<1> QED
  BY <1>1, <1>2, <1>3, <1>4

\* Numbers stay unique when no thread gets a new one.
LEMMA NumbersKept ==
  ASSUME UniqueNumbers, NEW t \in Threads, NEW l, Moves(t, l),
         Carries(t, l) => Carries(t, pc[t]),
         UNCHANGED <<seq, inputQueue, completed, nextSequence>>
  PROVE  UniqueNumbers'
<1>1. Carriers' \subseteq Carriers
  BY CarriersMove DEF Carriers, Carries
<1> QED
  BY <1>1 DEF UniqueNumbers

\* The slots add up when none is claimed, moved or released.
LEMMA SlotsKept ==
  ASSUME SlotsAccounted, NEW t \in Threads, NEW l, Moves(t, l),
         Holds(t, l) <=> Holds(t, pc[t]),
         UNCHANGED <<inFlight, inputQueue, completed, outputQueue>>
  PROVE  SlotsAccounted'
<1>1. Cardinality(SlotHolders') = Cardinality(SlotHolders)
  BY HoldersCount
<1> QED
  BY <1>1 DEF SlotsAccounted

\* The output order is kept when nothing is published or read.
LEMMA OrderKept ==
  ASSUME OutputInInputOrder, UNCHANGED <<outputQueue, delivered, nextOutput>>
  PROVE  OutputInInputOrder'
BY DEF OutputInInputOrder, Published

\* What was published is a sequence of numbers.
LEMMA PublishedType ==
  ASSUME TypeOK
  PROVE  /\ Published \in Seq(Nat)
         /\ \A i \in DOMAIN Published : Published[i] \in Nat
<1>1. outputQueue \in Seq(Nat) /\ delivered \in Seq(Nat)
  BY DEF TypeOK
<1>2. Published \in Seq(Nat)
  BY <1>1 DEF Published
<1> QED
  BY <1>2

\* Reading a result does not change what was published.
LEMMA OrderTake ==
  ASSUME TypeOK, OutputInInputOrder, NEW t, TakeOutput(t), nextOutput' = nextOutput
  PROVE  OutputInInputOrder'
<1>1. /\ outputQueue \in Seq(Nat) /\ delivered \in Seq(Nat) /\ outputQueue # <<>>
      /\ delivered' = Append(delivered, Head(outputQueue)) /\ outputQueue' = Tail(outputQueue)
  BY DEF TypeOK, TakeOutput
<1>2. Append(delivered, Head(outputQueue)) \o Tail(outputQueue) = delivered \o outputQueue
  BY <1>1
<1>3. Published' = Published
  BY <1>1, <1>2 DEF Published
<1> QED
  BY <1>3 DEF OutputInInputOrder

\* PublishReadyResults appends the largest number so far.
LEMMA OrderPublish ==
  ASSUME TypeOK, OutputInInputOrder, outputQueue' = Append(outputQueue, nextOutput),
         delivered' = delivered, nextOutput' = nextOutput + 1
  PROVE  OutputInInputOrder'
<1>1. outputQueue \in Seq(Nat) /\ delivered \in Seq(Nat) /\ nextOutput \in Nat
  BY DEF TypeOK
<1>2. delivered \o Append(outputQueue, nextOutput) = Append(delivered \o outputQueue, nextOutput)
  BY <1>1
<1>3. Published' = Append(Published, nextOutput) /\ Published \in Seq(Nat)
  BY <1>1, <1>2 DEF Published
<1>4. /\ \A i \in 1..Len(Published) : Published'[i] = Published[i] /\ Published[i] \in Nat
      /\ Published'[Len(Published) + 1] = nextOutput
      /\ Len(Published') = Len(Published) + 1 /\ Len(Published) \in Nat
      /\ DOMAIN Published' = 1..Len(Published') /\ DOMAIN Published = 1..Len(Published)
  BY <1>1, <1>3
<1>5. \A i \in DOMAIN Published' : Published'[i] < nextOutput'
  <2>1. \A i \in 1..Len(Published) : Published[i] < nextOutput
    BY <1>4 DEF OutputInInputOrder
  <2>2. ASSUME NEW i \in DOMAIN Published' PROVE Published'[i] < nextOutput'
    <3>1. CASE i \in 1..Len(Published)
      BY <1>1, <1>4, <2>1, <3>1
    <3>2. CASE i = Len(Published) + 1
      BY <1>1, <1>4, <3>2
    <3> QED
      BY <1>4, <2>2, <3>1, <3>2
  <2> QED
    BY <2>2
<1>6. ASSUME NEW i \in DOMAIN Published', NEW j \in DOMAIN Published', i < j
      PROVE  Published'[i] < Published'[j]
  <2>1. i \in 1..Len(Published) /\ (j \in 1..Len(Published) \/ j = Len(Published) + 1)
    BY <1>4, <1>6
  <2> QED
    BY <1>4, <1>6, <2>1 DEF OutputInInputOrder
<1> QED
  BY <1>5, <1>6 DEF OutputInInputOrder

\* Stepping over a result without output keeps the order.
LEMMA OrderSkip ==
  ASSUME TypeOK, OutputInInputOrder, UNCHANGED <<outputQueue, delivered>>,
         nextOutput' = nextOutput + 1
  PROVE  OutputInInputOrder'
<1>1. Published' = Published /\ nextOutput \in Nat
  BY DEF Published, TypeOK
<1> QED
  BY <1>1, PublishedType DEF OutputInInputOrder

\* A thread that moves without sleeping or waking leaves the sleepers asleep.
LEMMA SleepKept ==
  ASSUME TypeOK, WaitersAsleep, NEW t \in Threads, NEW l, pc[t] # "add.wait",
         Goto(t, l), waiters' = waiters
  PROVE  WaitersAsleep'
BY DEF TypeOK, WaitersAsleep, Goto

\* ReleaseInFlightSlot takes the thread it wakes off the waiters.
LEMMA SleepReleased ==
  ASSUME TypeOK, WaitersAsleep, NEW t \in Threads, NEW l, pc[t] # "add.wait",
         ReleaseInFlightSlot(t, l)
  PROVE  WaitersAsleep'
<1>1. CASE waiters = {}
  BY <1>1, SleepKept DEF ReleaseInFlightSlot
<1>2. CASE waiters # {}
  BY <1>2 DEF TypeOK, WaitersAsleep, ReleaseInFlightSlot, Woken, Threads, Clients
<1> QED
  BY <1>1, <1>2

\* What a step of thread t to label l must leave alone to keep the invariant.
Quiet(t, l) ==
  /\ Carries(t, l) => Carries(t, pc[t])
  /\ Holds(t, l) <=> Holds(t, pc[t])
  /\ t \in Workers => (Active(l) <=> Active(pc[t]))
  /\ UNCHANGED <<inFlight, nextSequence, inputQueue, completed, outputQueue, nextOutput,
                 activeWorkers, seq, delivered>>

\* A quiet step keeps the invariant.
LEMMA QuietStep ==
  ASSUME TypeOK, PipelineInv, NEW t \in Threads, NEW l, Moves(t, l), WaitersAsleep',
         Quiet(t, l)
  PROVE  PipelineInv'
<1>1. ActiveCounted'
  BY ActiveKept DEF PipelineInv, Quiet
<1>2. UniqueNumbers'
  BY NumbersKept DEF PipelineInv, Quiet
<1>3. SlotsAccounted'
  BY SlotsKept DEF PipelineInv, Quiet
<1>4. OutputInInputOrder'
  BY OrderKept DEF PipelineInv, Quiet
<1> QED
  BY <1>1, <1>2, <1>3, <1>4 DEF PipelineInv, Quiet

\* A quiet step without a wakeup keeps the invariant.
LEMMA QuietGoto ==
  ASSUME TypeOK, PipelineInv, NEW t \in Threads, NEW l, Goto(t, l), pc[t] # "add.wait",
         waiters' = waiters, Quiet(t, l)
  PROVE  PipelineInv'
BY SleepKept, GotoMoves, QuietStep DEF PipelineInv

\* A quiet step that wakes all sleepers keeps the invariant.
LEMMA QuietWakeAll ==
  ASSUME TypeOK, PipelineInv, NEW t \in Threads, NEW l, WakeAll(t, l), pc[t] # "add.wait",
         Quiet(t, l)
  PROVE  PipelineInv'
<1>1. WaitersAsleep'
  BY DEF WakeAll, WaitersAsleep
<1> QED
  BY <1>1, WakeAllMoves, QuietStep DEF PipelineInv

\* The labels of a thread and the kinds of places they are.
LEMMA Places ==
  /\ \A t \in Workers : t \notin Clients
  /\ \A t \in Clients : t \notin Workers
BY PipelineAssumption DEF PipelineAssumption

\* The counts that SlotsAccounted adds up are numbers.
LEMMA CountsAreNat ==
  ASSUME TypeOK, IsFiniteSet(completed)
  PROVE  /\ Cardinality(completed) \in Nat /\ Len(inputQueue) \in Nat
         /\ Len(outputQueue) \in Nat /\ inFlight \in Nat
         /\ Cardinality(SlotHolders) \in Nat
<1>1. Cardinality(completed) \in Nat /\ Cardinality(SlotHolders) \in Nat
  BY FS_CardinalityType, HoldersFinite
<1> QED
  BY <1>1 DEF TypeOK

\* AddInput claims a slot only below the capacity.
LEMMA SlotClaimed ==
  ASSUME TypeOK, PipelineInv, NEW t \in Producers, AddInputTest(t)
  PROVE  PipelineInv'
<1> USE DEF Threads, Clients, slotVars, queueVars, orderVars, localVars, historyVars,
           Quiet, Carries, Holds, Active, Claimed, Busy
<1>1. CASE inputClosed \/ ~running \/ ~SlotFree
  <2>1. PICK l \in {"false", "add.block"} : Goto(t, l)
    BY <1>1 DEF AddInputTest
  <2> QED
    BY <1>1, <2>1, QuietGoto, Places DEF AddInputTest
<1>2. CASE ~inputClosed /\ running /\ SlotFree
  <2>1. /\ pc[t] = "add.lock" /\ Goto(t, "add.seq") /\ inFlight' = inFlight + 1
        /\ inFlight < Capacity
        /\ UNCHANGED <<waiters, nextSequence, inputQueue, completed, outputQueue,
                       nextOutput, activeWorkers, seq, delivered>>
    BY <1>2 DEF AddInputTest, SlotFree
  <2>2. Moves(t, "add.seq") /\ WaitersAsleep'
    BY <2>1, GotoMoves, SleepKept DEF PipelineInv
  <2>3. ActiveCounted'
    BY <2>1, <2>2, ActiveKept, Places DEF PipelineInv
  <2>4. UniqueNumbers'
    BY <2>1, <2>2, NumbersKept, Places DEF PipelineInv
  <2>5. Cardinality(SlotHolders') = Cardinality(SlotHolders) + 1
    BY <2>1, <2>2, HoldersCount, Places
  <2>6. SlotsAccounted'
    BY <2>1, <2>5, CountsAreNat DEF PipelineInv, SlotsAccounted
  <2>7. inFlight' <= Capacity
    BY <2>1, PipelineAssumption DEF PipelineAssumption, TypeOK
  <2>8. OutputInInputOrder'
    BY <2>1, OrderKept DEF PipelineInv
  <2> QED
    BY <2>1, <2>2, <2>3, <2>4, <2>6, <2>7, <2>8 DEF PipelineInv
<1> QED
  BY <1>1, <1>2

\* next_sequence_ hands out a number that nothing under way has.
LEMMA NumberTaken ==
  ASSUME TypeOK, PipelineInv, NEW t \in Producers, AddInputNumber(t)
  PROVE  PipelineInv'
<1> USE DEF Threads, Clients, Carries, Holds, Active, Claimed, Busy
<1>1. /\ pc[t] = "add.seq" /\ Goto(t, "add.push") /\ seq' = [seq EXCEPT ![t] = nextSequence]
      /\ nextSequence' = nextSequence + 1
      /\ UNCHANGED <<waiters, inFlight, inputQueue, completed, outputQueue, nextOutput,
                     activeWorkers, delivered>>
  BY DEF AddInputNumber, queueVars, orderVars, historyVars
<1>2. Moves(t, "add.push") /\ WaitersAsleep'
  BY <1>1, GotoMoves, SleepKept DEF PipelineInv
<1>3. ActiveCounted'
  BY <1>1, <1>2, ActiveKept, Places DEF PipelineInv
<1>4. UniqueNumbers'
  <2>1. Carriers' = Carriers \cup {t} /\ t \notin Carriers
    BY <1>1, <1>2, CarriersMove, Places DEF Carriers
  <2>2. /\ seq'[t] = nextSequence
        /\ \A u \in Carriers : seq'[u] = seq[u] /\ seq[u] \in Nat
    BY <1>1, <2>1 DEF TypeOK, Carriers
  <2>3. /\ nextSequence \in Nat /\ completed \subseteq Nat
        /\ \A i \in DOMAIN inputQueue : inputQueue[i] \in Nat
    BY DEF TypeOK
  <2>4. UniqueNumbers
    BY DEF PipelineInv
  <2>5. \A n \in completed' : n < nextSequence'
    BY <1>1, <2>3, <2>4 DEF UniqueNumbers
  <2>6. \A i \in DOMAIN inputQueue :
          /\ inputQueue[i] < nextSequence' /\ inputQueue[i] \notin completed'
          /\ inputQueue[i] # seq'[t]
          /\ \A j \in DOMAIN inputQueue : j # i => inputQueue[j] # inputQueue[i]
    BY <1>1, <2>2, <2>3, <2>4 DEF UniqueNumbers
  <2>7. \A u \in Carriers :
          /\ seq'[u] < nextSequence' /\ seq'[u] \notin completed' /\ seq'[u] # seq'[t]
          /\ \A i \in DOMAIN inputQueue : inputQueue[i] # seq'[u]
          /\ \A v \in Carriers : v # u => seq'[v] # seq'[u]
    BY <1>1, <2>2, <2>3, <2>4 DEF UniqueNumbers
  <2>8. seq'[t] < nextSequence' /\ seq'[t] \notin completed'
    BY <1>1, <2>2, <2>3, <2>4 DEF UniqueNumbers
  <2> QED
    BY <1>1, <2>1, <2>5, <2>6, <2>7, <2>8 DEF UniqueNumbers
<1>5. SlotsAccounted'
  BY <1>1, <1>2, SlotsKept, Places DEF PipelineInv
<1>6. OutputInInputOrder'
  BY <1>1, OrderKept DEF PipelineInv
<1> QED
  BY <1>1, <1>2, <1>3, <1>4, <1>5, <1>6 DEF PipelineInv

\* The number and the slot go from AddInput into input_queue_.
LEMMA InputPushed ==
  ASSUME TypeOK, PipelineInv, NEW t \in Producers, AddInputPush(t)
  PROVE  PipelineInv'
<1> USE DEF Threads, Clients, Carries, Holds, Active, Claimed, Busy
<1>1. CASE inputShut
  BY <1>1, QuietGoto, Places DEF AddInputPush, Quiet, slotVars, orderVars
<1>2. CASE ~inputShut
  <2>1. /\ pc[t] = "add.push" /\ Goto(t, "true") /\ seq' = [seq EXCEPT ![t] = 0]
        /\ inputQueue' = Append(inputQueue, seq[t])
        /\ UNCHANGED <<waiters, inFlight, nextSequence, completed, outputQueue, nextOutput,
                       activeWorkers, delivered>>
    BY <1>2 DEF AddInputPush, slotVars, orderVars
  <2>2. Moves(t, "true") /\ WaitersAsleep'
    BY <2>1, GotoMoves, SleepKept DEF PipelineInv
  <2>3. ActiveCounted'
    BY <2>1, <2>2, ActiveKept, Places DEF PipelineInv
  <2>4. /\ inputQueue \in Seq(Nat) /\ seq[t] \in Nat
        /\ Len(inputQueue) \in Nat /\ DOMAIN inputQueue = 1..Len(inputQueue)
    BY DEF TypeOK
  <2>5. /\ Len(inputQueue') = Len(inputQueue) + 1
        /\ DOMAIN inputQueue' = 1..(Len(inputQueue) + 1)
        /\ inputQueue'[Len(inputQueue) + 1] = seq[t]
        /\ \A i \in 1..Len(inputQueue) : inputQueue'[i] = inputQueue[i]
    BY <2>1, <2>4
  <2>6. UniqueNumbers'
    <3>1. Carriers' = Carriers \ {t} /\ t \in Carriers
      BY <2>1, <2>2, CarriersMove, Places DEF Carriers
    <3>2. \A u \in Carriers' : seq'[u] = seq[u]
      BY <2>1, <3>1 DEF TypeOK, Carriers
    <3>3. UniqueNumbers
      BY DEF PipelineInv
    <3>4. \A i \in DOMAIN inputQueue' : i \in DOMAIN inputQueue \/ i = Len(inputQueue) + 1
      BY <2>4, <2>5
    <3>5. \A i \in DOMAIN inputQueue' :
            inputQueue'[i] < nextSequence' /\ inputQueue'[i] \notin completed'
      BY <2>1, <2>4, <2>5, <3>1, <3>3, <3>4 DEF UniqueNumbers
    <3>6. \A i, j \in DOMAIN inputQueue' : j # i => inputQueue'[j] # inputQueue'[i]
      BY <2>4, <2>5, <3>1, <3>3, <3>4 DEF UniqueNumbers
    <3>7. \A u \in Carriers' :
            /\ seq'[u] < nextSequence' /\ seq'[u] \notin completed'
            /\ \A v \in Carriers' : v # u => seq'[v] # seq'[u]
      BY <2>1, <3>1, <3>2, <3>3 DEF UniqueNumbers
    <3>8. \A u \in Carriers' : \A i \in DOMAIN inputQueue' : inputQueue'[i] # seq'[u]
      BY <2>4, <2>5, <3>1, <3>2, <3>3, <3>4 DEF UniqueNumbers
    <3>9. \A n \in completed' : n < nextSequence'
      BY <2>1, <3>3 DEF UniqueNumbers
    <3> QED
      BY <3>5, <3>6, <3>7, <3>8, <3>9 DEF UniqueNumbers
  <2>7. /\ Cardinality(SlotHolders') = Cardinality(SlotHolders) - 1
        /\ Cardinality(SlotHolders) # 0
    BY <2>1, <2>2, HoldersCount, Places
  <2>8. SlotsAccounted'
    BY <2>1, <2>5, <2>7, CountsAreNat DEF PipelineInv, SlotsAccounted
  <2>9. OutputInInputOrder'
    BY <2>1, OrderKept DEF PipelineInv
  <2> QED
    BY <2>1, <2>2, <2>3, <2>6, <2>8, <2>9 DEF PipelineInv
<1> QED
  BY <1>1, <1>2

\* A thread that holds a slot gives it back.
LEMMA SlotReleased ==
  ASSUME TypeOK, PipelineInv, NEW t \in Threads, NEW l, pc[t] # "add.wait",
         ReleaseInFlightSlot(t, l)
  PROVE  /\ Moves(t, l) /\ WaitersAsleep'
         /\ inFlight # 0 => inFlight' = inFlight - 1
         /\ inFlight' <= Capacity
<1>1. Moves(t, l) /\ WaitersAsleep'
  BY ReleaseMoves, SleepReleased DEF PipelineInv
<1>2. inFlight \in Nat /\ inFlight <= Capacity
  BY DEF TypeOK, PipelineInv
<1>3. inFlight' = IF inFlight > 0 THEN inFlight - 1 ELSE inFlight
  BY DEF ReleaseInFlightSlot
<1> QED
  BY <1>1, <1>2, <1>3, PipelineAssumption DEF PipelineAssumption

\* AddInput gives its slot back when input_queue_ is closed.
LEMMA InputUndone ==
  ASSUME TypeOK, PipelineInv, NEW t \in Producers, AddInputUndo(t)
  PROVE  PipelineInv'
<1> USE DEF Threads, Clients, Carries, Holds, Active, Claimed, Busy
<1>1. /\ pc[t] = "add.undo" /\ ReleaseInFlightSlot(t, "false") /\ seq' = [seq EXCEPT ![t] = 0]
      /\ UNCHANGED <<nextSequence, inputQueue, completed, outputQueue, nextOutput,
                     activeWorkers, delivered>>
  BY DEF AddInputUndo, queueVars, orderVars
<1>2. /\ Moves(t, "false") /\ WaitersAsleep' /\ inFlight' <= Capacity
      /\ inFlight # 0 => inFlight' = inFlight - 1
  BY <1>1, SlotReleased
<1>3. ActiveCounted'
  BY <1>1, <1>2, ActiveKept, Places DEF PipelineInv
<1>4. UniqueNumbers'
  <2>1. Carriers' = Carriers /\ t \notin Carriers
    BY <1>1, <1>2, CarriersMove, Places DEF Carriers
  <2>2. \A u \in Carriers : seq'[u] = seq[u]
    BY <1>1, <2>1 DEF TypeOK, Carriers
  <2> QED
    BY <1>1, <2>1, <2>2 DEF PipelineInv, UniqueNumbers
<1>5. SlotsAccounted'
  <2>1. /\ Cardinality(SlotHolders') = Cardinality(SlotHolders) - 1
        /\ Cardinality(SlotHolders) # 0
    BY <1>1, <1>2, HoldersCount, Places
  <2> QED
    BY <1>1, <1>2, <2>1, CountsAreNat DEF PipelineInv, SlotsAccounted
<1>6. OutputInInputOrder'
  BY <1>1, OrderKept DEF PipelineInv
<1> QED
  BY <1>1, <1>2, <1>3, <1>4, <1>5, <1>6 DEF PipelineInv

\* The number and the slot go from input_queue_ to a worker.
LEMMA WorkerPopped ==
  ASSUME TypeOK, PipelineInv, NEW w \in Workers, WorkerPop(w)
  PROVE  PipelineInv'
<1> USE DEF Threads, Clients, Carries, Holds, Active, Claimed, Busy
<1>1. CASE inputQueue = <<>>
  BY <1>1, QuietGoto, Places DEF WorkerPop, Quiet, slotVars, orderVars, historyVars
<1>2. CASE inputQueue # <<>>
  <2>1. /\ pc[w] = "pop" /\ Goto(w, "process") /\ seq' = [seq EXCEPT ![w] = Head(inputQueue)]
        /\ inputQueue' = Tail(inputQueue)
        /\ UNCHANGED <<waiters, inFlight, nextSequence, completed, outputQueue, nextOutput,
                       activeWorkers, delivered>>
    BY <1>2 DEF WorkerPop, InputEnded, slotVars, orderVars, historyVars
  <2>2. Moves(w, "process") /\ WaitersAsleep'
    BY <2>1, GotoMoves, SleepKept DEF PipelineInv
  <2>3. ActiveCounted'
    BY <2>1, <2>2, ActiveKept, Places DEF PipelineInv
  <2>4. /\ inputQueue \in Seq(Nat) /\ Len(inputQueue) \in Nat /\ Len(inputQueue) # 0
        /\ DOMAIN inputQueue = 1..Len(inputQueue)
        /\ Head(inputQueue) = inputQueue[1]
    BY <1>2 DEF TypeOK
  <2>5. /\ Len(inputQueue') = Len(inputQueue) - 1
        /\ DOMAIN inputQueue' = 1..(Len(inputQueue) - 1)
        /\ \A i \in 1..(Len(inputQueue) - 1) : inputQueue'[i] = inputQueue[i + 1]
    BY <2>1, <2>4
  <2>6. UniqueNumbers'
    <3>1. Carriers' = Carriers \cup {w} /\ w \notin Carriers
      BY <2>1, <2>2, CarriersMove, Places DEF Carriers
    <3>2. /\ \A u \in Carriers : seq'[u] = seq[u]
          /\ seq'[w] = inputQueue[1]
      BY <2>1, <2>4, <3>1 DEF TypeOK, Carriers
    <3>3. UniqueNumbers
      BY DEF PipelineInv
    <3>4. /\ 1 \in DOMAIN inputQueue
          /\ \A i \in DOMAIN inputQueue' : i + 1 \in DOMAIN inputQueue /\ i + 1 # 1 /\ i \in Nat
      BY <2>4, <2>5
    <3>5. \A i \in DOMAIN inputQueue' :
            /\ inputQueue'[i] < nextSequence' /\ inputQueue'[i] \notin completed'
            /\ inputQueue'[i] # seq'[w]
      BY <2>1, <2>5, <3>2, <3>3, <3>4 DEF UniqueNumbers
    <3>6. ASSUME NEW i \in DOMAIN inputQueue', NEW j \in DOMAIN inputQueue', j # i
          PROVE  inputQueue'[j] # inputQueue'[i]
      <4>1. i + 1 # j + 1
        BY <3>4, <3>6
      <4> QED
        BY <2>5, <3>3, <3>4, <4>1 DEF UniqueNumbers
    <3>7. \A u \in Carriers :
            /\ seq'[u] < nextSequence' /\ seq'[u] \notin completed' /\ seq'[u] # seq'[w]
            /\ \A v \in Carriers : v # u => seq'[v] # seq'[u]
      BY <2>1, <3>2, <3>3, <3>4 DEF UniqueNumbers
    <3>8. \A u \in Carriers : \A i \in DOMAIN inputQueue' : inputQueue'[i] # seq'[u]
      BY <2>5, <3>2, <3>3, <3>4 DEF UniqueNumbers
    <3>9. /\ \A n \in completed' : n < nextSequence'
          /\ seq'[w] < nextSequence' /\ seq'[w] \notin completed'
      BY <2>1, <3>2, <3>3, <3>4 DEF UniqueNumbers
    <3> QED
      BY <3>1, <3>5, <3>6, <3>7, <3>8, <3>9 DEF UniqueNumbers
  <2>7. Cardinality(SlotHolders') = Cardinality(SlotHolders) + 1
    BY <2>1, <2>2, HoldersCount, Places
  <2>8. SlotsAccounted'
    BY <2>1, <2>4, <2>5, <2>7, CountsAreNat DEF PipelineInv, SlotsAccounted
  <2>9. OutputInInputOrder'
    BY <2>1, OrderKept DEF PipelineInv
  <2> QED
    BY <2>1, <2>2, <2>3, <2>6, <2>8, <2>9 DEF PipelineInv
<1> QED
  BY <1>1, <1>2

\* The number and the slot go from a worker to completed_results_, which grows.
LEMMA ResultCompleted ==
  ASSUME TypeOK, PipelineInv, NEW w \in Workers, WorkerComplete(w)
  PROVE  PipelineInv'
<1> USE DEF Threads, Clients, Carries, Holds, Active, Claimed, Busy
<1>1. /\ pc[w] = "reorder" /\ Goto(w, "publish") /\ completed' = completed \cup {seq[w]}
      /\ seq' = [seq EXCEPT ![w] = 0]
      /\ UNCHANGED <<waiters, inFlight, nextSequence, inputQueue, outputQueue, nextOutput,
                     activeWorkers, delivered>>
  BY DEF WorkerComplete, slotVars, queueVars, historyVars
<1>2. Moves(w, "publish") /\ WaitersAsleep'
  BY <1>1, GotoMoves, SleepKept DEF PipelineInv
<1>3. ActiveCounted'
  BY <1>1, <1>2, ActiveKept, Places DEF PipelineInv
<1>4. Carriers' = Carriers \ {w} /\ w \in Carriers
  BY <1>1, <1>2, CarriersMove, Places DEF Carriers
<1>5. UniqueNumbers /\ seq[w] \notin completed
  BY <1>4 DEF PipelineInv, UniqueNumbers
<1>6. UniqueNumbers'
  <2>1. \A u \in Carriers' : seq'[u] = seq[u]
    BY <1>1, <1>4 DEF TypeOK, Carriers
  <2> QED
    BY <1>1, <1>4, <1>5, <2>1 DEF UniqueNumbers
<1>7. IsFiniteSet(completed') /\ Cardinality(completed') = Cardinality(completed) + 1
  BY <1>1, <1>5, FS_AddElement DEF PipelineInv
<1>8. SlotsAccounted'
  <2>1. /\ Cardinality(SlotHolders') = Cardinality(SlotHolders) - 1
        /\ Cardinality(SlotHolders) # 0
    BY <1>1, <1>2, HoldersCount, Places
  <2> QED
    BY <1>1, <1>7, <2>1, CountsAreNat DEF PipelineInv, SlotsAccounted
<1>9. OutputInInputOrder'
  BY <1>1, OrderKept DEF PipelineInv
<1> QED
  BY <1>1, <1>2, <1>3, <1>6, <1>7, <1>8, <1>9 DEF PipelineInv

\* Taking the next result shrinks the reorder buffer by one.
LEMMA NextTaken ==
  ASSUME TypeOK, PipelineInv, TakeNext
  PROVE  /\ IsFiniteSet(completed') /\ Cardinality(completed) # 0
         /\ Cardinality(completed') = Cardinality(completed) - 1
         /\ nextOutput' = nextOutput + 1 /\ completed' \subseteq completed
<1>1. completed' = completed \ {nextOutput} /\ nextOutput \in completed
  BY DEF TakeNext, NextCompleted
<1> QED
  BY <1>1, FS_RemoveElement, FS_EmptySet DEF PipelineInv, TakeNext, NextCompleted

\* Fewer completed results leave the other numbers as they are.
LEMMA NumbersPublished ==
  ASSUME UniqueNumbers, NEW t \in Threads, NEW l, Moves(t, l),
         Carries(t, l) => Carries(t, pc[t]), completed' \subseteq completed,
         UNCHANGED <<seq, inputQueue, nextSequence>>
  PROVE  UniqueNumbers'
<1>1. Carriers' \subseteq Carriers
  BY CarriersMove DEF Carriers, Carries
<1> QED
  BY <1>1 DEF UniqueNumbers

\* The slot goes from completed_results_ to output_queue_.
LEMMA ResultPublished ==
  ASSUME TypeOK, PipelineInv, NEW w \in Workers, PublishResult(w)
  PROVE  PipelineInv'
<1>1. /\ pc[w] = "publish" /\ pc' = pc /\ TakeNext
      /\ outputQueue' = Append(outputQueue, nextOutput)
      /\ UNCHANGED <<waiters, inFlight, nextSequence, inputQueue, activeWorkers, seq, delivered>>
  BY DEF PublishResult, NextCompleted, slotVars, localVars, historyVars
<1>2. /\ IsFiniteSet(completed') /\ Cardinality(completed) # 0
      /\ Cardinality(completed') = Cardinality(completed) - 1
      /\ nextOutput' = nextOutput + 1 /\ completed' \subseteq completed
  BY <1>1, NextTaken
<1>3. ActiveCounted' /\ WaitersAsleep'
  BY <1>1 DEF PipelineInv, ActiveCounted, Counted, WaitersAsleep
<1>4. UniqueNumbers'
  BY <1>1, <1>2 DEF PipelineInv, UniqueNumbers, Carriers
<1>5. SlotsAccounted'
  <2>1. SlotHolders' = SlotHolders
    BY <1>1 DEF SlotHolders
  <2>2. Len(outputQueue') = Len(outputQueue) + 1
    BY <1>1 DEF TypeOK
  <2> QED
    BY <1>1, <1>2, <2>1, <2>2, CountsAreNat DEF PipelineInv, SlotsAccounted
<1>6. OutputInInputOrder'
  BY <1>1, <1>2, OrderPublish DEF PipelineInv
<1> QED
  BY <1>1, <1>2, <1>3, <1>4, <1>5, <1>6 DEF PipelineInv

\* A null or refused result leaves completed_results_ and releases its slot.
LEMMA ResultDropped ==
  ASSUME TypeOK, PipelineInv, NEW w \in Workers, PublishRefused(w) \/ PublishNull(w)
  PROVE  PipelineInv'
<1> USE DEF Threads, Clients, Carries, Holds, Active, Claimed, Busy
<1>1. PICK l \in {"pop", "publish"} :
        /\ pc[w] = "publish" /\ TakeNext /\ ReleaseInFlightSlot(w, l)
        /\ UNCHANGED <<nextSequence, inputQueue, outputQueue, activeWorkers, seq, delivered>>
  BY DEF PublishRefused, PublishNull, queueVars, localVars
<1>2. /\ IsFiniteSet(completed') /\ Cardinality(completed) # 0
      /\ Cardinality(completed') = Cardinality(completed) - 1
      /\ nextOutput' = nextOutput + 1 /\ completed' \subseteq completed
  BY <1>1, NextTaken
<1>3. /\ Moves(w, l) /\ WaitersAsleep' /\ inFlight' <= Capacity
      /\ inFlight # 0 => inFlight' = inFlight - 1
  BY <1>1, SlotReleased
<1>4. ActiveCounted'
  BY <1>1, <1>3, ActiveKept, Places DEF PipelineInv
<1>5. UniqueNumbers'
  BY <1>1, <1>2, <1>3, NumbersPublished, Places DEF PipelineInv
<1>6. SlotsAccounted'
  <2>1. Cardinality(SlotHolders') = Cardinality(SlotHolders)
    BY <1>1, <1>3, HoldersCount, Places
  <2> QED
    BY <1>1, <1>2, <1>3, <2>1, CountsAreNat DEF PipelineInv, SlotsAccounted
<1>7. OutputInInputOrder'
  BY <1>1, <1>2, OrderSkip DEF PipelineInv
<1> QED
  BY <1>2, <1>3, <1>4, <1>5, <1>6, <1>7 DEF PipelineInv

\* A leaving worker is taken off active_workers_ once.
LEMMA WorkerLeft ==
  ASSUME TypeOK, PipelineInv, NEW w \in Workers, WorkerExit(w)
  PROVE  PipelineInv'
<1> USE DEF Threads, Clients, Carries, Holds, Claimed, Busy
<1>1. PICK l \in {"last", "done"} :
        /\ pc[w] = "exit" /\ Goto(w, l) /\ activeWorkers' = activeWorkers - 1
        /\ UNCHANGED <<waiters, inFlight, nextSequence, inputQueue, completed, outputQueue,
                       nextOutput, seq, delivered>>
  BY DEF WorkerExit, slotVars, queueVars, orderVars, localVars, historyVars
<1>2. Moves(w, l) /\ WaitersAsleep'
  BY <1>1, GotoMoves, SleepKept DEF PipelineInv
<1>3. ActiveCounted'
  <2>1. Counted' = Counted \ {w} /\ w \in Counted
    BY <1>1, <1>2, CountedMove DEF Counted
  <2>2. Cardinality(Counted') = Cardinality(Counted) - 1
    BY <2>1, CountedFinite, FS_RemoveElement
  <2> QED
    BY <1>1, <2>2 DEF PipelineInv, ActiveCounted
<1>4. UniqueNumbers'
  BY <1>1, <1>2, NumbersKept, Places DEF PipelineInv
<1>5. SlotsAccounted'
  BY <1>1, <1>2, SlotsKept, Places DEF PipelineInv
<1>6. OutputInInputOrder'
  BY <1>1, OrderKept DEF PipelineInv
<1> QED
  BY <1>1, <1>2, <1>3, <1>4, <1>5, <1>6 DEF PipelineInv

\* A consumer takes the oldest result, and with it the duty to release the slot.
LEMMA OutputTaken ==
  ASSUME TypeOK, PipelineInv, NEW t \in Consumers, TakeOutput(t),
         pc[t] \in {"get", "idle", "true", "false"},
         UNCHANGED <<waiters, inFlight, nextSequence, inputQueue, completed, nextOutput,
                     activeWorkers, seq>>
  PROVE  PipelineInv'
<1> USE DEF Threads, Clients, Carries, Holds, Active, Claimed, Busy
<1>1. /\ Goto(t, "get.release") /\ outputQueue # <<>>
      /\ outputQueue' = Tail(outputQueue)
  BY DEF TakeOutput
<1>2. Moves(t, "get.release") /\ WaitersAsleep'
  BY <1>1, GotoMoves, SleepKept DEF PipelineInv
<1>3. ActiveCounted'
  BY <1>2, ActiveKept, Places DEF PipelineInv
<1>4. UniqueNumbers'
  BY <1>2, NumbersKept, Places DEF PipelineInv
<1>5. SlotsAccounted'
  <2>1. Cardinality(SlotHolders') = Cardinality(SlotHolders) + 1
    BY <1>2, HoldersCount, Places
  <2>2. Len(outputQueue') = Len(outputQueue) - 1
    BY <1>1 DEF TypeOK
  <2> QED
    BY <2>1, <2>2, CountsAreNat DEF PipelineInv, SlotsAccounted
<1>6. OutputInInputOrder'
  BY OrderTake DEF PipelineInv
<1> QED
  BY <1>2, <1>3, <1>4, <1>5, <1>6 DEF PipelineInv

\* GetOutput and TryGetOutput keep the invariant, with a result or without.
LEMMA OutputRead ==
  ASSUME TypeOK, PipelineInv, NEW t \in Consumers, GetOutputPop(t) \/ TryGetOutput(t)
  PROVE  PipelineInv'
<1>1. /\ pc[t] \in {"get", "idle", "true", "false"}
      /\ UNCHANGED <<waiters, inFlight, nextSequence, inputQueue, completed, nextOutput,
                     activeWorkers, seq>>
  BY DEF GetOutputPop, TryGetOutput, AtRest, Rest, slotVars, orderVars, localVars
<1>2. CASE TakeOutput(t)
  BY <1>1, <1>2, OutputTaken
<1>3. CASE ~TakeOutput(t)
  <2>1. Goto(t, "false") /\ UNCHANGED <<outputQueue, delivered>>
    BY <1>3 DEF GetOutputPop, TryGetOutput
  <2> QED
    BY <1>1, <2>1, QuietGoto, Places
       DEF Quiet, Carries, Holds, Active, Claimed, Busy, Threads, Clients
<1> QED
  BY <1>2, <1>3

\* GetOutput releases the slot of the result it took.
LEMMA OutputReleased ==
  ASSUME TypeOK, PipelineInv, NEW t \in Consumers, GetOutputRelease(t)
  PROVE  PipelineInv'
<1> USE DEF Threads, Clients, Carries, Holds, Active, Claimed, Busy
<1>1. /\ pc[t] = "get.release" /\ ReleaseInFlightSlot(t, "true")
      /\ UNCHANGED <<nextSequence, inputQueue, completed, outputQueue, nextOutput,
                     activeWorkers, seq, delivered>>
  BY DEF GetOutputRelease, queueVars, orderVars, localVars, historyVars
<1>2. /\ Moves(t, "true") /\ WaitersAsleep' /\ inFlight' <= Capacity
      /\ inFlight # 0 => inFlight' = inFlight - 1
  BY <1>1, SlotReleased
<1>3. ActiveCounted'
  BY <1>1, <1>2, ActiveKept, Places DEF PipelineInv
<1>4. UniqueNumbers'
  BY <1>1, <1>2, NumbersKept, Places DEF PipelineInv
<1>5. SlotsAccounted'
  <2>1. /\ Cardinality(SlotHolders') = Cardinality(SlotHolders) - 1
        /\ Cardinality(SlotHolders) # 0
    BY <1>1, <1>2, HoldersCount, Places
  <2> QED
    BY <1>1, <1>2, <2>1, CountsAreNat DEF PipelineInv, SlotsAccounted
<1>6. OutputInInputOrder'
  BY <1>1, OrderKept DEF PipelineInv
<1> QED
  BY <1>1, <1>2, <1>3, <1>4, <1>5, <1>6 DEF PipelineInv

\* Start finds nobody asleep and begins with every count at zero.
LEMMA Restarted ==
  ASSUME TypeOK, PipelineInv, NEW t \in Controllers, Start(t)
  PROVE  PipelineInv'
<1> USE DEF Threads, Clients
<1>1. \A c \in Clients : pc'[c] \in {"idle", "true", "false"} /\ pc[c] \in {"idle", "true", "false"}
  BY Places DEF Start, AtRest, Rest
<1>2. \A w \in Workers : pc'[w] = "pop"
  BY DEF Start
<1>3. waiters = {} /\ waiters' = {}
  BY <1>1 DEF Start, PipelineInv, WaitersAsleep, TypeOK
<1>4. ActiveCounted'
  <2>1. Counted' = Workers
    BY <1>2 DEF Counted
  <2> QED
    BY <2>1 DEF Start, LaunchedWorkers, ActiveCounted
<1>5. Carriers' = {} /\ SlotHolders' = {}
  BY <1>1, <1>2 DEF Carriers, SlotHolders, Claimed, Busy
<1>6. /\ completed' = {} /\ inputQueue' = <<>> /\ outputQueue' = <<>> /\ delivered' = <<>>
      /\ inFlight' = 0 /\ nextOutput' = 0
  BY DEF Start
<1>7. UniqueNumbers'
  BY <1>5, <1>6 DEF UniqueNumbers
<1>8. SlotsAccounted'
  BY <1>5, <1>6, FS_EmptySet DEF SlotsAccounted
<1>9. OutputInInputOrder'
  BY <1>6 DEF OutputInInputOrder, Published
<1>10. IsFiniteSet(completed') /\ inFlight' <= Capacity
  BY <1>6, FS_EmptySet, PipelineAssumption DEF PipelineAssumption
<1> QED
  BY <1>3, <1>4, <1>7, <1>8, <1>9, <1>10 DEF PipelineInv, WaitersAsleep

\* Before the first Start nothing is under way.
LEMMA InitInv == Init => PipelineInv
<1> SUFFICES ASSUME Init PROVE PipelineInv
  OBVIOUS
<1> USE DEF Init, Threads, Clients
<1>1. ActiveCounted
  <2>1. Counted = {}
    BY DEF Counted
  <2> QED
    BY <2>1, FS_EmptySet DEF ActiveCounted
<1>2. Carriers = {} /\ SlotHolders = {}
  BY Places DEF Carriers, SlotHolders, Claimed, Busy
<1>3. UniqueNumbers
  BY <1>2 DEF UniqueNumbers
<1>4. SlotsAccounted
  BY <1>2, FS_EmptySet DEF SlotsAccounted
<1>5. OutputInInputOrder
  BY DEF OutputInInputOrder, Published
<1>6. IsFiniteSet(completed) /\ inFlight <= Capacity
  BY FS_EmptySet, PipelineAssumption DEF PipelineAssumption
<1> QED
  BY <1>1, <1>3, <1>4, <1>5, <1>6 DEF PipelineInv, WaitersAsleep

\* The invariant depends on the state only.
LEMMA StutterInv == ASSUME TypeOK, PipelineInv, UNCHANGED vars PROVE PipelineInv'
BY DEF PipelineInv, ActiveCounted, Counted, WaitersAsleep, UniqueNumbers, Carriers,
       SlotsAccounted, SlotHolders, OutputInInputOrder, Published, vars, slotVars,
       queueVars, orderVars, localVars, historyVars

\* A full queue and one more slot in use would exceed the capacity.
LEMMA NoPushBlocksFollows == ASSUME TypeOK, PipelineInv PROVE NoPushBlocks
<1> USE DEF Claimed, Busy, Clients
<1>1. /\ IsFiniteSet(SlotHolders) /\ SlotsAccounted /\ inFlight <= Capacity
      /\ Capacity \in Nat
  BY HoldersFinite, PipelineAssumption DEF PipelineInv, PipelineAssumption
<1>2. ASSUME NEW t \in Producers, pc[t] = "add.push" PROVE Len(inputQueue) < Capacity
  <2>1. Cardinality(SlotHolders) # 0
    BY <1>1, <1>2, FS_EmptySet DEF SlotHolders
  <2> QED
    BY <1>1, <2>1, CountsAreNat DEF PipelineInv, SlotsAccounted
<1>3. ASSUME nextOutput \in completed PROVE Len(outputQueue) < Capacity
  <2>1. Cardinality(completed) # 0
    BY <1>3, FS_EmptySet DEF PipelineInv
  <2> QED
    BY <1>1, <2>1, CountsAreNat DEF PipelineInv, SlotsAccounted
<1> QED
  BY <1>1, <1>2, <1>3 DEF NoPushBlocks

\* Every step of the pipeline keeps the invariant.  The steps that claim or
\* release a slot, move a number or hand over a result have a lemma each; the
\* others are quiet.
LEMMA InvStep == TypeOK /\ PipelineInv /\ [Next]_vars => PipelineInv'
<1> SUFFICES ASSUME TypeOK, PipelineInv, [Next]_vars PROVE PipelineInv'
  OBVIOUS
<1> USE DEF Threads, Clients, slotVars, queueVars, orderVars, localVars, historyVars, Quiet,
           Carries, Holds, Active, Claimed, Busy
<1>1. ASSUME NEW t \in Producers, AddInputCall(t) PROVE PipelineInv'
  BY <1>1, QuietGoto, Places DEF AddInputCall, AtRest, Rest
<1>2. ASSUME NEW t \in Producers, SpuriousWakeup(t) PROVE PipelineInv'
  <2>1. Moves(t, "add.lock")
    BY <1>2, GotoMoves DEF SpuriousWakeup, Goto, Moves, TypeOK
  <2>2. WaitersAsleep'
    BY <1>2 DEF SpuriousWakeup, Goto, WaitersAsleep, TypeOK, PipelineInv
  <2> QED
    BY <1>2, <2>1, <2>2, QuietStep, Places DEF SpuriousWakeup, Goto, TypeOK, WaitersAsleep, PipelineInv
<1>3. ASSUME NEW t \in Producers, AddInputSleep(t) PROVE PipelineInv'
  <2>1. Moves(t, "add.wait")
    BY <1>3, GotoMoves DEF AddInputSleep, Goto, Moves, TypeOK
  <2>2. WaitersAsleep'
    BY <1>3 DEF AddInputSleep, Goto, WaitersAsleep, TypeOK, PipelineInv
  <2> QED
    BY <1>3, <2>1, <2>2, QuietStep, Places DEF AddInputSleep, Goto, TypeOK, WaitersAsleep, PipelineInv
<1>4. ASSUME NEW w \in Workers, WorkerProcess(w) PROVE PipelineInv'
  BY <1>4, QuietGoto, Places DEF WorkerProcess, AtRest, Rest
<1>5. ASSUME NEW w \in Workers, WorkerFail(w) PROVE PipelineInv'
  BY <1>5, QuietGoto, Places DEF WorkerFail, AtRest, Rest
<1>6. ASSUME NEW w \in Workers, PublishEnd(w) PROVE PipelineInv'
  BY <1>6, QuietGoto, Places DEF PublishEnd, AtRest, Rest
<1>7. ASSUME NEW w \in Workers, WorkerEndRun(w) PROVE PipelineInv'
  BY <1>7, QuietWakeAll, Places DEF WorkerEndRun, AtRest, Rest
<1>8. ASSUME NEW w \in Workers, WorkerShutOutput(w) PROVE PipelineInv'
  BY <1>8, QuietGoto, Places DEF WorkerShutOutput, AtRest, Rest
<1>9. ASSUME NEW t \in Consumers, GetOutputCall(t) PROVE PipelineInv'
  BY <1>9, QuietGoto, Places DEF GetOutputCall, AtRest, Rest
<1>10. ASSUME NEW t \in Controllers, CloseInputCall(t) PROVE PipelineInv'
  BY <1>10, QuietGoto, Places DEF CloseInputCall, AtRest, Rest
<1>11. ASSUME NEW t \in Controllers, CloseInputMark(t) PROVE PipelineInv'
  BY <1>11, QuietWakeAll, Places DEF CloseInputMark, AtRest, Rest
<1>12. ASSUME NEW t \in Controllers, CloseInputShut(t) PROVE PipelineInv'
  BY <1>12, QuietGoto, Places DEF CloseInputShut, AtRest, Rest
<1>13. ASSUME NEW t \in Controllers, StopCall(t) PROVE PipelineInv'
  BY <1>13, QuietGoto, Places DEF StopCall, AtRest, Rest
<1>14. ASSUME NEW t \in Controllers, StopMark(t) PROVE PipelineInv'
  BY <1>14, QuietWakeAll, Places DEF StopMark, AtRest, Rest
<1>15. ASSUME NEW t \in Controllers, StopShutInput(t) PROVE PipelineInv'
  BY <1>15, QuietGoto, Places DEF StopShutInput, AtRest, Rest
<1>16. ASSUME NEW t \in Controllers, StopShutOutput(t) PROVE PipelineInv'
  BY <1>16, QuietGoto, Places DEF StopShutOutput, AtRest, Rest
<1>17. ASSUME NEW t \in Controllers, StopJoin(t) PROVE PipelineInv'
  BY <1>17, QuietGoto, Places DEF StopJoin, AtRest, Rest
<1>18. ASSUME NEW t \in Controllers, StopEnd(t) PROVE PipelineInv'
  BY <1>18, QuietGoto, Places DEF StopEnd, AtRest, Rest
<1>19. ASSUME NEW t \in Producers, AddInputTest(t) PROVE PipelineInv'
  BY <1>19, SlotClaimed
<1>20. ASSUME NEW t \in Producers, AddInputNumber(t) PROVE PipelineInv'
  BY <1>20, NumberTaken
<1>21. ASSUME NEW t \in Producers, AddInputPush(t) PROVE PipelineInv'
  BY <1>21, InputPushed
<1>22. ASSUME NEW t \in Producers, AddInputUndo(t) PROVE PipelineInv'
  BY <1>22, InputUndone
<1>23. ASSUME NEW w \in Workers, WorkerPop(w) PROVE PipelineInv'
  BY <1>23, WorkerPopped
<1>24. ASSUME NEW w \in Workers, WorkerComplete(w) PROVE PipelineInv'
  BY <1>24, ResultCompleted
<1>25. ASSUME NEW w \in Workers, PublishResult(w) PROVE PipelineInv'
  BY <1>25, ResultPublished
<1>26. ASSUME NEW w \in Workers, PublishRefused(w) PROVE PipelineInv'
  BY <1>26, ResultDropped
<1>27. ASSUME NEW w \in Workers, PublishNull(w) PROVE PipelineInv'
  BY <1>27, ResultDropped
<1>28. ASSUME NEW w \in Workers, WorkerExit(w) PROVE PipelineInv'
  BY <1>28, WorkerLeft
<1>29. ASSUME NEW t \in Consumers, GetOutputPop(t) PROVE PipelineInv'
  BY <1>29, OutputRead
<1>30. ASSUME NEW t \in Consumers, TryGetOutput(t) PROVE PipelineInv'
  BY <1>30, OutputRead
<1>31. ASSUME NEW t \in Consumers, GetOutputRelease(t) PROVE PipelineInv'
  BY <1>31, OutputReleased
<1>32. ASSUME NEW t \in Controllers, Start(t) PROVE PipelineInv'
  BY <1>32, Restarted
<1>33. ASSUME UNCHANGED vars PROVE PipelineInv'
  BY <1>33, StutterInv
<1> QED
  BY <1>1, <1>2, <1>3, <1>4, <1>5, <1>6, <1>7, <1>8, <1>9, <1>10, <1>11, <1>12,
     <1>13, <1>14, <1>15, <1>16, <1>17, <1>18, <1>19, <1>20, <1>21, <1>22, <1>23,
     <1>24, <1>25, <1>26, <1>27, <1>28, <1>29, <1>30, <1>31, <1>32, <1>33
     DEF Next, ProducerStep, WorkerStep, ConsumerStep, ControllerStep

\* The pipeline's state stays well typed in every run: in particular
\* active_workers_ never leaves 0..Cardinality(Workers), so the fetch_sub of a
\* leaving worker never wraps.
THEOREM TypeCorrect == Spec => []TypeOK
<1>1. Init => TypeOK /\ PipelineInv
  BY InitType, InitInv
<1>2. TypeOK /\ PipelineInv /\ [Next]_vars => (TypeOK /\ PipelineInv)'
  BY TypeStep, InvStep DEF PipelineInv
<1> QED
  BY <1>1, <1>2, PTL DEF Spec

\* The inductive invariant holds in every run, for any number of workers, clients
\* and slots: numbers under way are unique and worker accounting is exact.
THEOREM InvariantCorrect == Spec => []PipelineInv
<1>1. Init => TypeOK /\ PipelineInv
  BY InitType, InitInv
<1>2. TypeOK /\ PipelineInv /\ [Next]_vars => (TypeOK /\ PipelineInv)'
  BY TypeStep, InvStep DEF PipelineInv
<1> QED
  BY <1>1, <1>2, PTL DEF Spec

\* in_flight_ counts the slots in use exactly, through failing processors, null
\* results, refused pushes, Stop and restart: no slot leaks and none is
\* released twice.
THEOREM SlotsCorrect == Spec => []SlotsAccounted
<1>1. PipelineInv => SlotsAccounted
  BY DEF PipelineInv
<1> QED
  BY <1>1, InvariantCorrect, PTL

\* Neither input_queue_.Push nor output_queue_.Push ever waits for room, so no
\* worker sleeps on a full output queue while it holds reorder_mutex_.
THEOREM PushesCorrect == Spec => []NoPushBlocks
<1>1. TypeOK /\ PipelineInv => NoPushBlocks
  BY NoPushBlocksFollows
<1> QED
  BY <1>1, TypeCorrect, InvariantCorrect, PTL

\* GetOutput hands the results out in the order of their inputs, each once,
\* however the workers interleave and whatever Stop cuts off.
THEOREM OrderCorrect == Spec => []OutputInInputOrder
<1>1. PipelineInv => OutputInInputOrder
  BY DEF PipelineInv
<1> QED
  BY <1>1, InvariantCorrect, PTL
-----------------------------------------------------------------------------
(* Where the numbers are.                                                  *)

\* The values of a sequence.
Elems(s) == {s[i] : i \in DOMAIN s}

\* Producers whose number is not in input_queue_ yet, those that may still push
\* it, and workers that have a number in hand.
Offering(t, l) == t \in Producers /\ l \in {"add.push", "add.undo"}
Pushing(t, l) == t \in Producers /\ l = "add.push"
Handling(t, l) == t \in Workers /\ l \in Busy

Offers == {t \in Threads : Offering(t, pc[t])}
Pushers == {t \in Threads : Pushing(t, pc[t])}
Handlers == {t \in Threads : Handling(t, pc[t])}
Bearers == Offers \cup Handlers

\* Every number inside is above what was published and carried by one place.
NumbersInside ==
  /\ nextOutput <= nextSequence
  /\ \A n \in completed \cup Elems(inputQueue) : nextOutput <= n /\ n < nextSequence
  /\ \A t \in Bearers :
       /\ nextOutput <= seq[t] /\ seq[t] < nextSequence
       /\ seq[t] \notin completed \cup Elems(inputQueue)
       /\ \A u \in Bearers \ {t} : seq[u] # seq[t]

\* An accepted number is somewhere, and was not dropped by a refused push.
NothingVanishes ==
  /\ accepted \subseteq dropped \cup Elems(inputQueue) \cup {seq[w] : w \in Handlers}
                          \cup completed \cup Elems(Published)
  /\ \A n \in accepted \cup dropped : n < nextSequence
  /\ \A n \in accepted \cap dropped : n < nextOutput
  /\ \A t \in Offers : seq[t] \notin accepted
  /\ \A t \in Pushers : seq[t] \notin dropped

\* Workers that have seen the end of the input.
Gone == {w \in Workers : pc[w] \in {"exit", "last", "shut", "done"}}

\* How a run ends: workers leave a drained queue, the last one closes the output,
\* and unless Stop closes it first the next result never waits without a
\* worker in PublishReadyResults.
EndsDrained ==
  /\ \A c \in Controllers : pc[c] \in InStop => stopped
  /\ starts > 0 /\ Gone # {} => inputShut /\ inputQueue = <<>>
  /\ \A w \in Workers : pc[w] \in {"last", "shut"} => Counted = {}
  /\ outputShut /\ ~stopped => Counted = {}
  /\ ~stopped /\ nextOutput \in completed => \E w \in Workers : pc[w] = "publish"

WindowInv == NumbersInside /\ NothingVanishes /\ EndsDrained
-----------------------------------------------------------------------------
\* What a step may do to the numbers.
placeVars == <<nextSequence, inputQueue, completed, outputQueue, delivered, nextOutput,
               accepted, dropped>>

\* Every thread but t keeps the number it has in hand.
OthersKeep(t) == \A u \in Threads \ {t} : seq'[u] = seq[u]

\* No number goes anywhere; a producer may learn that its push is refused.
Stays ==
  /\ Offers' = Offers /\ Handlers' = Handlers /\ Pushers' \subseteq Pushers
  /\ UNCHANGED <<seq, placeVars>>

Numbers(t) ==
  /\ t \notin Bearers /\ pc[t] = "add.seq"
  /\ Offers' = Offers \cup {t} /\ Pushers' = Pushers \cup {t} /\ Handlers' = Handlers
  /\ OthersKeep(t) /\ seq'[t] = nextSequence /\ nextSequence' = nextSequence + 1
  /\ UNCHANGED <<inputQueue, completed, outputQueue, delivered, nextOutput, accepted,
                 dropped>>

Pushes(t) ==
  /\ t \in Pushers
  /\ Offers' = Offers \ {t} /\ Pushers' = Pushers \ {t} /\ Handlers' = Handlers
  /\ OthersKeep(t)
  /\ inputQueue' = Append(inputQueue, seq[t]) /\ accepted' = accepted \cup {seq[t]}
  /\ UNCHANGED <<nextSequence, completed, outputQueue, delivered, nextOutput, dropped>>

Undoes(t) ==
  /\ t \in Offers
  /\ Offers' = Offers \ {t} /\ Pushers' = Pushers \ {t} /\ Handlers' = Handlers
  /\ OthersKeep(t) /\ dropped' = dropped \cup {seq[t]}
  /\ UNCHANGED <<nextSequence, inputQueue, completed, outputQueue, delivered, nextOutput,
                 accepted>>

Pops(w) ==
  /\ w \in Threads \ Bearers /\ inputQueue # <<>>
  /\ Offers' = Offers /\ Pushers' = Pushers /\ Handlers' = Handlers \cup {w}
  /\ OthersKeep(w) /\ seq'[w] = Head(inputQueue) /\ inputQueue' = Tail(inputQueue)
  /\ UNCHANGED <<nextSequence, completed, outputQueue, delivered, nextOutput, accepted,
                 dropped>>

Completes(w) ==
  /\ w \in Handlers /\ w \notin Offers
  /\ Offers' = Offers /\ Pushers' = Pushers /\ Handlers' = Handlers \ {w}
  /\ OthersKeep(w) /\ completed' = completed \cup {seq[w]}
  /\ UNCHANGED <<nextSequence, inputQueue, outputQueue, delivered, nextOutput, accepted,
                 dropped>>

\* The next result leaves completed_results_, published or dropped.
Advances ==
  /\ nextOutput \in completed
  /\ completed' = completed \ {nextOutput} /\ nextOutput' = nextOutput + 1
  /\ Offers' = Offers /\ Pushers' = Pushers /\ Handlers' = Handlers
  /\ UNCHANGED <<seq, nextSequence, inputQueue, delivered, accepted>>
  /\ \/ outputQueue' = Append(outputQueue, nextOutput) /\ dropped' = dropped
     \/ outputQueue' = outputQueue /\ dropped' = dropped \cup {nextOutput}

Reads ==
  /\ outputQueue # <<>>
  /\ outputQueue' = Tail(outputQueue) /\ delivered' = Append(delivered, Head(outputQueue))
  /\ Offers' = Offers /\ Pushers' = Pushers /\ Handlers' = Handlers
  /\ UNCHANGED <<seq, nextSequence, inputQueue, completed, nextOutput, accepted, dropped>>

Restarts ==
  /\ Offers' = {} /\ Pushers' = {} /\ Handlers' = {}
  /\ nextSequence' = 0 /\ nextOutput' = 0 /\ completed' = {}
  /\ inputQueue' = <<>> /\ outputQueue' = <<>> /\ delivered' = <<>>
  /\ accepted' = {} /\ dropped' = {}

Effect ==
  \/ Stays
  \/ \E t \in Producers : Numbers(t) \/ Pushes(t) \/ Undoes(t)
  \/ \E w \in Workers : Pops(w) \/ Completes(w)
  \/ Advances \/ Reads \/ Restarts
-----------------------------------------------------------------------------
\* Only the thread that moves changes what it has in hand.
LEMMA InHandMoves ==
  ASSUME NEW t \in Threads, NEW l, Moves(t, l)
  PROVE  /\ Offers' = IF Offering(t, l) THEN Offers \cup {t} ELSE Offers \ {t}
         /\ Pushers' = IF Pushing(t, l) THEN Pushers \cup {t} ELSE Pushers \ {t}
         /\ Handlers' = IF Handling(t, l) THEN Handlers \cup {t} ELSE Handlers \ {t}
<1>1. /\ Offers' = {u \in Threads : Offering(u, pc'[u])}
      /\ Pushers' = {u \in Threads : Pushing(u, pc'[u])}
      /\ Handlers' = {u \in Threads : Handling(u, pc'[u])}
  BY DEF Offers, Pushers, Handlers, Offering, Pushing, Handling, Threads, Clients
<1>2. \A u \in Threads \ {t} :
        /\ Offering(u, pc'[u]) = Offering(u, pc[u])
        /\ Pushing(u, pc'[u]) = Pushing(u, pc[u])
        /\ Handling(u, pc'[u]) = Handling(u, pc[u])
  BY DEF Moves, Offering, Pushing, Handling, Busy
<1>3. pc'[t] = l
  BY DEF Moves
<1> QED
  BY <1>1, <1>2, <1>3 DEF Offers, Pushers, Handlers

\* A step that leaves all numbers where they are.
LEMMA StaysInPlace ==
  ASSUME NEW t \in Threads, NEW l, Moves(t, l),
         Offering(t, l) <=> Offering(t, pc[t]), Handling(t, l) <=> Handling(t, pc[t]),
         Pushing(t, l) => Pushing(t, pc[t]),
         UNCHANGED <<seq, placeVars>>
  PROVE  Effect
<1>1. Stays
  BY InHandMoves DEF Stays, Offers, Pushers, Handlers
<1> QED
  BY <1>1 DEF Effect

\* Every action of the pipeline has one of the effects.
LEMMA Effects == ASSUME TypeOK, PipelineInv, [Next]_vars PROVE Effect
<1> USE DEF Threads, Clients, slotVars, queueVars, orderVars, localVars, historyVars, placeVars,
            Offering, Pushing, Handling, Busy, PipelineInv
<1>1. ASSUME NEW t \in Producers, AddInputCall(t) PROVE Effect
  BY <1>1, GotoMoves, StaysInPlace, Places DEF AddInputCall, AtRest, Rest
<1>2. ASSUME NEW t \in Producers, SpuriousWakeup(t) PROVE Effect
  BY <1>2, GotoMoves, StaysInPlace, Places DEF SpuriousWakeup, WaitersAsleep
<1>3. ASSUME NEW t \in Producers, AddInputTest(t) PROVE Effect
  <2>1. PICK l \in {"false", "add.seq", "add.block"} : Goto(t, l)
    BY <1>3 DEF AddInputTest
  <2> QED
    BY <1>3, <2>1, GotoMoves, StaysInPlace, Places DEF AddInputTest
<1>4. ASSUME NEW t \in Producers, AddInputSleep(t) PROVE Effect
  BY <1>4, GotoMoves, StaysInPlace, Places DEF AddInputSleep
<1>5. ASSUME NEW t \in Producers, AddInputNumber(t) PROVE Effect
  <2>1. Moves(t, "add.push")
    BY <1>5, GotoMoves DEF AddInputNumber
  <2>2. Numbers(t)
    BY <1>5, <2>1, InHandMoves, Places
       DEF AddInputNumber, Numbers, OthersKeep, Offers, Pushers, Handlers, Bearers, TypeOK
  <2> QED
    BY <2>2 DEF Effect
<1>6. ASSUME NEW t \in Producers, AddInputPush(t) PROVE Effect
  <2>1. CASE inputShut
    BY <1>6, <2>1, GotoMoves, StaysInPlace, Places DEF AddInputPush
  <2>2. CASE ~inputShut
    <3>1. Moves(t, "true") /\ pc[t] = "add.push"
      BY <1>6, <2>2, GotoMoves DEF AddInputPush
    <3>2. Pushes(t)
      BY <1>6, <2>2, <3>1, InHandMoves, Places
         DEF AddInputPush, Pushes, OthersKeep, Offers, Pushers, Handlers, TypeOK
    <3> QED
      BY <3>2 DEF Effect
  <2> QED
    BY <2>1, <2>2
<1>7. ASSUME NEW t \in Producers, AddInputUndo(t) PROVE Effect
  <2>1. Moves(t, "false") /\ pc[t] = "add.undo"
    BY <1>7, ReleaseMoves DEF AddInputUndo
  <2>2. Undoes(t)
    BY <1>7, <2>1, InHandMoves, Places
       DEF AddInputUndo, Undoes, OthersKeep, Offers, Pushers, Handlers, TypeOK
  <2> QED
    BY <2>2 DEF Effect
<1>8. ASSUME NEW w \in Workers, WorkerPop(w) PROVE Effect
  <2>1. CASE Goto(w, "exit") /\ UNCHANGED <<seq, inputQueue>>
    BY <1>8, <2>1, GotoMoves, StaysInPlace, Places DEF WorkerPop
  <2>2. CASE ~(Goto(w, "exit") /\ UNCHANGED <<seq, inputQueue>>)
    <3>1. /\ Moves(w, "process") /\ pc[w] = "pop" /\ inputQueue # <<>>
          /\ seq' = [seq EXCEPT ![w] = Head(inputQueue)] /\ inputQueue' = Tail(inputQueue)
      BY <1>8, <2>2, GotoMoves DEF WorkerPop
    <3>2. Pops(w)
      BY <1>8, <3>1, InHandMoves, Places
         DEF WorkerPop, Pops, OthersKeep, Offers, Pushers, Handlers, Bearers, TypeOK
    <3> QED
      BY <3>2 DEF Effect
  <2> QED
    BY <2>1, <2>2
<1>9. ASSUME NEW w \in Workers, WorkerProcess(w) PROVE Effect
  <2>1. PICK l \in {"reorder", "fail"} : Goto(w, l)
    BY <1>9 DEF WorkerProcess
  <2> QED
    BY <1>9, <2>1, GotoMoves, StaysInPlace, Places DEF WorkerProcess
<1>10. ASSUME NEW w \in Workers, WorkerFail(w) PROVE Effect
  BY <1>10, GotoMoves, StaysInPlace, Places DEF WorkerFail
<1>11. ASSUME NEW w \in Workers, WorkerComplete(w) PROVE Effect
  <2>1. Moves(w, "publish") /\ pc[w] = "reorder"
    BY <1>11, GotoMoves DEF WorkerComplete
  <2>2. Offers' = Offers /\ Pushers' = Pushers /\ Handlers' = Handlers \ {w}
    BY <2>1, InHandMoves, Places DEF Offers, Pushers
  <2>3. w \in Handlers /\ w \notin Offers
    BY <2>1, Places DEF Handlers, Offers
  <2>4. OthersKeep(w) /\ completed' = completed \cup {seq[w]}
    BY <1>11 DEF WorkerComplete, OthersKeep, TypeOK
  <2>5. Completes(w)
    BY <1>11, <2>2, <2>3, <2>4 DEF WorkerComplete, Completes
  <2> QED
    BY <2>5 DEF Effect
<1>12. ASSUME NEW w \in Workers, PublishResult(w) PROVE Effect
  <2>1. Advances
    BY <1>12 DEF PublishResult, TakeNext, NextCompleted, Advances, Offers, Pushers, Handlers
  <2> QED
    BY <2>1 DEF Effect
<1>13. ASSUME NEW w \in Workers, PublishRefused(w) \/ PublishNull(w) PROVE Effect
  <2>1. PICK l \in {"pop", "publish"} : Moves(w, l) /\ pc[w] = "publish"
    BY <1>13, ReleaseMoves DEF PublishRefused, PublishNull
  <2>2. Offers' = Offers /\ Pushers' = Pushers /\ Handlers' = Handlers
    BY <2>1, InHandMoves, Places DEF Offers, Pushers, Handlers
  <2>3. Advances
    BY <1>13, <2>2 DEF PublishRefused, PublishNull, TakeNext, NextCompleted, Advances
  <2> QED
    BY <2>3 DEF Effect
<1>14. ASSUME NEW w \in Workers, PublishEnd(w) PROVE Effect
  BY <1>14, GotoMoves, StaysInPlace, Places DEF PublishEnd
<1>15. ASSUME NEW w \in Workers, WorkerExit(w) PROVE Effect
  BY <1>15, GotoMoves, StaysInPlace, Places DEF WorkerExit
<1>16. ASSUME NEW w \in Workers, WorkerEndRun(w) PROVE Effect
  BY <1>16, WakeAllMoves, StaysInPlace, Places DEF WorkerEndRun
<1>17. ASSUME NEW w \in Workers, WorkerShutOutput(w) PROVE Effect
  BY <1>17, GotoMoves, StaysInPlace, Places DEF WorkerShutOutput
<1>18. ASSUME NEW t \in Consumers, GetOutputCall(t) PROVE Effect
  BY <1>18, GotoMoves, StaysInPlace, Places DEF GetOutputCall, AtRest, Rest
<1>19. ASSUME NEW t \in Consumers, GetOutputPop(t) \/ TryGetOutput(t) PROVE Effect
  <2>1. /\ pc[t] \in {"get", "idle", "true", "false"}
        /\ UNCHANGED <<seq, nextSequence, inputQueue, completed, nextOutput, accepted,
                       dropped>>
    BY <1>19 DEF GetOutputPop, TryGetOutput, AtRest, Rest
  <2>2. CASE TakeOutput(t)
    <3>1. Moves(t, "get.release")
      BY <2>2, GotoMoves DEF TakeOutput
    <3>2. Reads
      BY <2>1, <2>2, <3>1, InHandMoves, Places
         DEF TakeOutput, Reads, Offers, Pushers, Handlers
    <3> QED
      BY <3>2 DEF Effect
  <2>3. CASE ~TakeOutput(t)
    <3>1. Moves(t, "false") /\ UNCHANGED <<delivered, outputQueue>>
      BY <1>19, <2>3, GotoMoves DEF GetOutputPop, TryGetOutput
    <3> QED
      BY <2>1, <3>1, StaysInPlace, Places
  <2> QED
    BY <2>2, <2>3
<1>20. ASSUME NEW t \in Consumers, GetOutputRelease(t) PROVE Effect
  BY <1>20, ReleaseMoves, StaysInPlace, Places DEF GetOutputRelease
<1>21. ASSUME NEW t \in Controllers, CloseInputCall(t) PROVE Effect
  BY <1>21, GotoMoves, StaysInPlace, Places DEF CloseInputCall, AtRest, Rest
<1>22. ASSUME NEW t \in Controllers, CloseInputMark(t) PROVE Effect
  BY <1>22, WakeAllMoves, StaysInPlace, Places DEF CloseInputMark
<1>23. ASSUME NEW t \in Controllers, CloseInputShut(t) PROVE Effect
  BY <1>23, GotoMoves, StaysInPlace, Places DEF CloseInputShut
<1>24. ASSUME NEW t \in Controllers, StopCall(t) PROVE Effect
  BY <1>24, GotoMoves, StaysInPlace, Places DEF StopCall, AtRest, Rest
<1>25. ASSUME NEW t \in Controllers, StopMark(t) PROVE Effect
  <2>1. PICK l \in {"stop.input", "stop.join"} : WakeAll(t, l)
    BY <1>25 DEF StopMark
  <2> QED
    BY <1>25, <2>1, WakeAllMoves, StaysInPlace, Places DEF StopMark
<1>26. ASSUME NEW t \in Controllers, StopShutInput(t) PROVE Effect
  BY <1>26, GotoMoves, StaysInPlace, Places DEF StopShutInput
<1>27. ASSUME NEW t \in Controllers, StopShutOutput(t) PROVE Effect
  BY <1>27, GotoMoves, StaysInPlace, Places DEF StopShutOutput
<1>28. ASSUME NEW t \in Controllers, StopJoin(t) PROVE Effect
  BY <1>28, GotoMoves, StaysInPlace, Places DEF StopJoin
<1>29. ASSUME NEW t \in Controllers, StopEnd(t) PROVE Effect
  BY <1>29, GotoMoves, StaysInPlace, Places DEF StopEnd
<1>30. ASSUME NEW t \in Controllers, Start(t) PROVE Effect
  <2>1. \A c \in Threads : pc'[c] \in {"pop", "idle", "true", "false"}
    BY <1>30, Places DEF Start, AtRest, Rest
  <2>2. Restarts
    BY <1>30, <2>1 DEF Start, Restarts, Offers, Pushers, Handlers
  <2> QED
    BY <2>2 DEF Effect
<1>31. ASSUME UNCHANGED vars PROVE Effect
  BY <1>31 DEF vars, Effect, Stays, Offers, Pushers, Handlers
<1> QED
  BY <1>1, <1>2, <1>3, <1>4, <1>5, <1>6, <1>7, <1>8, <1>9, <1>10, <1>11, <1>12,
     <1>13, <1>14, <1>15, <1>16, <1>17, <1>18, <1>19, <1>20, <1>21, <1>22, <1>23,
     <1>24, <1>25, <1>26, <1>27, <1>28, <1>29, <1>30, <1>31
     DEF Next, ProducerStep, WorkerStep, ConsumerStep, ControllerStep
-----------------------------------------------------------------------------
\* Push adds its number to the values of a queue.
LEMMA ElemsAppend ==
  ASSUME NEW s \in Seq(Nat), NEW n \in Nat
  PROVE  Elems(Append(s, n)) = Elems(s) \cup {n}
<1>1. /\ DOMAIN s = 1..Len(s) /\ Len(s) \in Nat
      /\ DOMAIN Append(s, n) = 1..Len(s) + 1
      /\ \A i \in 1..Len(s) : Append(s, n)[i] = s[i]
      /\ Append(s, n)[Len(s) + 1] = n
  OBVIOUS
<1>2. 1..Len(s) + 1 = 1..Len(s) \cup {Len(s) + 1}
  BY <1>1
<1> QED
  BY <1>1, <1>2 DEF Elems

\* Pop takes the first value and leaves the others.
LEMMA ElemsTail ==
  ASSUME NEW s \in Seq(Nat), s # <<>>
  PROVE  Elems(s) = {Head(s)} \cup Elems(Tail(s))
<1>1. /\ DOMAIN s = 1..Len(s) /\ Len(s) \in Nat \ {0}
      /\ DOMAIN Tail(s) = 1..Len(s) - 1
      /\ \A i \in 1..Len(s) - 1 : Tail(s)[i] = s[i + 1]
      /\ Head(s) = s[1]
  OBVIOUS
<1>2. ASSUME NEW i \in 1..Len(s) PROVE s[i] \in {Head(s)} \cup Elems(Tail(s))
  <2>1. CASE i = 1
    BY <1>1, <2>1
  <2>2. CASE i # 1
    <3>1. i - 1 \in 1..Len(s) - 1 /\ (i - 1) + 1 = i
      BY <1>1, <2>2
    <3> QED
      BY <1>1, <3>1 DEF Elems
  <2> QED
    BY <2>1, <2>2
<1>3. ASSUME NEW i \in 1..Len(s) - 1 PROVE Tail(s)[i] \in Elems(s)
  <2>1. i + 1 \in 1..Len(s)
    BY <1>1
  <2> QED
    BY <1>1, <2>1 DEF Elems
<1>4. Elems(s) \subseteq {Head(s)} \cup Elems(Tail(s))
  BY <1>1, <1>2 DEF Elems
<1>5. {Head(s)} \cup Elems(Tail(s)) \subseteq Elems(s)
  <2>1. 1 \in 1..Len(s)
    BY <1>1
  <2> QED
    BY <1>1, <1>3, <2>1 DEF Elems
<1> QED
  BY <1>4, <1>5

\* Handing over the first value does not change the two queues together.
LEMMA HeadMoves ==
  ASSUME NEW d \in Seq(Nat), NEW q \in Seq(Nat), q # <<>>
  PROVE  Append(d, Head(q)) \o Tail(q) = d \o q
OBVIOUS

\* The values of what was published are those read and those ready.
LEMMA ElemsConcat ==
  ASSUME NEW s \in Seq(Nat), NEW r \in Seq(Nat)
  PROVE  Elems(s \o r) = Elems(s) \cup Elems(r)
<1>1. /\ DOMAIN s = 1..Len(s) /\ DOMAIN r = 1..Len(r) /\ Len(s) \in Nat /\ Len(r) \in Nat
      /\ DOMAIN (s \o r) = 1..Len(s) + Len(r)
      /\ \A i \in 1..Len(s) : (s \o r)[i] = s[i]
      /\ \A i \in 1..Len(r) : (s \o r)[Len(s) + i] = r[i]
  OBVIOUS
<1>2. ASSUME NEW i \in 1..Len(s) + Len(r) PROVE (s \o r)[i] \in Elems(s) \cup Elems(r)
  <2>1. CASE i <= Len(s)
    <3>1. i \in 1..Len(s)
      BY <1>1, <2>1
    <3> QED
      BY <1>1, <3>1 DEF Elems
  <2>2. CASE ~(i <= Len(s))
    <3>1. i - Len(s) \in 1..Len(r) /\ Len(s) + (i - Len(s)) = i
      BY <1>1, <2>2
    <3> QED
      BY <1>1, <3>1 DEF Elems
  <2> QED
    BY <2>1, <2>2
<1>3. ASSUME NEW i \in 1..Len(s) PROVE s[i] \in Elems(s \o r)
  <2>1. i \in 1..Len(s) + Len(r) /\ (s \o r)[i] = s[i]
    BY <1>1
  <2> QED
    BY <1>1, <2>1 DEF Elems
<1>4. ASSUME NEW i \in 1..Len(r) PROVE r[i] \in Elems(s \o r)
  <2>1. Len(s) + i \in 1..Len(s) + Len(r) /\ (s \o r)[Len(s) + i] = r[i]
    BY <1>1
  <2> QED
    BY <1>1, <2>1 DEF Elems
<1>5. Elems(s \o r) \subseteq Elems(s) \cup Elems(r)
  BY <1>1, <1>2 DEF Elems
<1>6. Elems(s) \cup Elems(r) \subseteq Elems(s \o r)
  BY <1>1, <1>3, <1>4 DEF Elems
<1> QED
  BY <1>5, <1>6

\* The facts about the state that the cases below use.
LEMMA Numerals ==
  ASSUME TypeOK
  PROVE  /\ nextSequence \in Nat /\ nextOutput \in Nat
         /\ inputQueue \in Seq(Nat) /\ outputQueue \in Seq(Nat) /\ delivered \in Seq(Nat)
         /\ Elems(inputQueue) \subseteq Nat /\ completed \subseteq Nat
         /\ accepted \subseteq Nat /\ dropped \subseteq Nat
         /\ \A t \in Threads : seq[t] \in Nat
         /\ Bearers \subseteq Threads /\ Offers \subseteq Bearers /\ Pushers \subseteq Offers
         /\ Handlers \subseteq Bearers
BY DEF TypeOK, Elems, Bearers, Offers, Pushers, Handlers, Offering, Pushing

\* A number that is popped is not in the queue any more.
LEMMA PoppedOnce ==
  ASSUME TypeOK, UniqueNumbers, inputQueue # <<>>
  PROVE  Head(inputQueue) \notin Elems(Tail(inputQueue))
<1>1. /\ inputQueue \in Seq(Nat)
      /\ \A i, j \in DOMAIN inputQueue : j # i => inputQueue[j] # inputQueue[i]
  BY DEF TypeOK, UniqueNumbers
<1>2. /\ DOMAIN inputQueue = 1..Len(inputQueue) /\ Len(inputQueue) \in Nat \ {0}
      /\ DOMAIN Tail(inputQueue) = 1..Len(inputQueue) - 1
      /\ \A i \in 1..Len(inputQueue) - 1 : Tail(inputQueue)[i] = inputQueue[i + 1]
      /\ Head(inputQueue) = inputQueue[1]
  BY <1>1
<1>3. ASSUME NEW i \in 1..Len(inputQueue) - 1 PROVE Tail(inputQueue)[i] # Head(inputQueue)
  <2>1. 1 \in 1..Len(inputQueue) /\ i + 1 \in 1..Len(inputQueue) /\ i + 1 # 1
    BY <1>2
  <2> QED
    BY <1>1, <1>2, <2>1
<1> QED
  BY <1>2, <1>3 DEF Elems

\* Whatever a step does to the numbers, those inside stay above what was published
\* and in one place each.
LEMMA InsideStep ==
  ASSUME TypeOK, UniqueNumbers, NumbersInside, Effect
  PROVE  NumbersInside'
<1> USE Numerals
<1>1. CASE Stays
  BY <1>1 DEF Stays, placeVars, NumbersInside, Bearers
<1>2. ASSUME NEW t \in Producers, Numbers(t) PROVE NumbersInside'
  <2>1. /\ Bearers' = Bearers \cup {t} /\ t \notin Bearers /\ seq'[t] = nextSequence
        /\ \A u \in Bearers : seq'[u] = seq[u]
        /\ UNCHANGED <<completed, inputQueue, nextOutput>>
        /\ nextSequence' = nextSequence + 1
    BY <1>2 DEF Numbers, OthersKeep, Bearers
  <2> QED
    BY <2>1 DEF NumbersInside
<1>3. ASSUME NEW t \in Producers, Pushes(t) PROVE NumbersInside'
  <2>1. /\ Bearers' \subseteq Bearers /\ t \in Bearers
        /\ t \notin Bearers'
        /\ \A u \in Bearers' : seq'[u] = seq[u]
        /\ UNCHANGED <<completed, nextOutput, nextSequence>>
        /\ inputQueue' = Append(inputQueue, seq[t])
    BY <1>3, Places DEF Pushes, OthersKeep, Bearers, Offers, Handlers, Handling, Clients
  <2>2. Elems(inputQueue') = Elems(inputQueue) \cup {seq[t]}
    BY <2>1, ElemsAppend
  <2> QED
    BY <2>1, <2>2 DEF NumbersInside
<1>4. ASSUME NEW t \in Producers, Undoes(t) PROVE NumbersInside'
  <2>1. /\ Bearers' \subseteq Bearers /\ t \notin Bearers'
        /\ \A u \in Bearers' : seq'[u] = seq[u]
        /\ UNCHANGED <<completed, nextOutput, nextSequence, inputQueue>>
    BY <1>4, Places DEF Undoes, OthersKeep, Bearers, Offers, Handlers, Handling, Clients
  <2> QED
    BY <2>1 DEF NumbersInside
<1>5. ASSUME NEW w \in Workers, Pops(w) PROVE NumbersInside'
  <2>1. /\ Bearers' = Bearers \cup {w} /\ w \notin Bearers /\ seq'[w] = Head(inputQueue)
        /\ \A u \in Bearers : seq'[u] = seq[u]
        /\ UNCHANGED <<completed, nextOutput, nextSequence>>
        /\ inputQueue # <<>> /\ inputQueue' = Tail(inputQueue)
    BY <1>5 DEF Pops, OthersKeep, Bearers
  <2>2. /\ Elems(inputQueue) = {Head(inputQueue)} \cup Elems(inputQueue')
        /\ Head(inputQueue) \notin Elems(inputQueue')
    BY <2>1, ElemsTail, PoppedOnce
  <2>3. Head(inputQueue) \notin completed
    <3>1. 1 \in DOMAIN inputQueue /\ Head(inputQueue) = inputQueue[1]
      BY <2>1
    <3> QED
      BY <3>1 DEF UniqueNumbers
  <2> QED
    BY <2>1, <2>2, <2>3 DEF NumbersInside
<1>6. ASSUME NEW w \in Workers, Completes(w) PROVE NumbersInside'
  <2>1. /\ Bearers' \subseteq Bearers /\ w \in Bearers /\ w \notin Bearers'
        /\ \A u \in Bearers' : seq'[u] = seq[u]
        /\ UNCHANGED <<inputQueue, nextOutput, nextSequence>>
        /\ completed' = completed \cup {seq[w]}
    BY <1>6 DEF Completes, OthersKeep, Bearers
  <2> QED
    BY <2>1 DEF NumbersInside
<1>7. CASE Advances
  <2>1. /\ nextOutput \in completed /\ completed' = completed \ {nextOutput}
        /\ nextOutput' = nextOutput + 1 /\ Bearers' = Bearers
        /\ UNCHANGED <<seq, nextSequence, inputQueue>>
    BY <1>7 DEF Advances, Bearers
  <2>2. nextOutput \notin Elems(inputQueue)
    BY <2>1 DEF UniqueNumbers, Elems
  <2> QED
    BY <2>1, <2>2 DEF NumbersInside
<1>8. CASE Reads
  BY <1>8 DEF Reads, NumbersInside, Bearers
<1>9. CASE Restarts
  BY <1>9 DEF Restarts, NumbersInside, Bearers, Elems
<1> QED
  BY <1>1, <1>2, <1>3, <1>4, <1>5, <1>6, <1>7, <1>8, <1>9 DEF Effect
-----------------------------------------------------------------------------
\* Whatever a step does to the numbers, an accepted one stays accounted for, and
\* only numbers that were published over or refused are dropped.
LEMMA VanishStep ==
  ASSUME TypeOK, UniqueNumbers, NumbersInside, NothingVanishes, Effect
  PROVE  NothingVanishes'
<1> USE Numerals DEF Published
<1>0. Elems(Published) = Elems(delivered) \cup Elems(outputQueue)
  BY ElemsConcat
<1>1. CASE Stays
  BY <1>1 DEF Stays, placeVars, NothingVanishes
<1>2. ASSUME NEW t \in Producers, Numbers(t) PROVE NothingVanishes'
  <2>1. /\ Offers' = Offers \cup {t} /\ Pushers' = Pushers \cup {t} /\ Handlers' = Handlers
        /\ t \notin Bearers /\ seq'[t] = nextSequence
        /\ \A u \in Bearers : seq'[u] = seq[u]
        /\ nextSequence' = nextSequence + 1
        /\ UNCHANGED <<inputQueue, completed, outputQueue, delivered, nextOutput, accepted,
                       dropped>>
    BY <1>2 DEF Numbers, OthersKeep
  <2>2. {seq'[w] : w \in Handlers'} = {seq[w] : w \in Handlers}
    BY <2>1
  <2>3. /\ nextSequence \notin accepted /\ nextSequence \notin dropped
        /\ \A n \in accepted' \cup dropped' : n < nextSequence'
    BY <2>1 DEF NothingVanishes
  <2>4. /\ \A u \in Offers' : seq'[u] \notin accepted'
        /\ \A u \in Pushers' : seq'[u] \notin dropped'
    BY <2>1, <2>3 DEF NothingVanishes
  <2>5. accepted' \subseteq dropped' \cup Elems(inputQueue') \cup {seq'[w] : w \in Handlers'}
                           \cup completed' \cup Elems(Published')
    BY <2>1, <2>2 DEF NothingVanishes
  <2> QED
    BY <2>1, <2>3, <2>4, <2>5 DEF NothingVanishes
<1>3. ASSUME NEW t \in Producers, Pushes(t) PROVE NothingVanishes'
  <2>1. /\ t \in Pushers /\ t \notin Handlers
        /\ Offers' = Offers \ {t} /\ Pushers' = Pushers \ {t} /\ Handlers' = Handlers
        /\ \A u \in Bearers \ {t} : seq'[u] = seq[u]
        /\ inputQueue' = Append(inputQueue, seq[t]) /\ accepted' = accepted \cup {seq[t]}
        /\ UNCHANGED <<nextSequence, completed, outputQueue, delivered, nextOutput, dropped>>
    BY <1>3, Places DEF Pushes, OthersKeep, Handlers, Handling, Clients
  <2>2. {seq'[w] : w \in Handlers'} = {seq[w] : w \in Handlers}
    BY <2>1
  <2>3. Elems(inputQueue') = Elems(inputQueue) \cup {seq[t]}
    BY <2>1, ElemsAppend
  <2>4. \A u \in Offers' : seq'[u] = seq[u] /\ seq[u] # seq[t]
    BY <2>1 DEF NumbersInside
  <2>5. seq[t] < nextSequence
    BY <2>1 DEF NumbersInside
  <2> QED
    BY <2>1, <2>2, <2>3, <2>4, <2>5 DEF NothingVanishes
<1>4. ASSUME NEW t \in Producers, Undoes(t) PROVE NothingVanishes'
  <2>1. /\ t \in Offers /\ t \notin Handlers
        /\ Offers' = Offers \ {t} /\ Pushers' = Pushers \ {t} /\ Handlers' = Handlers
        /\ \A u \in Bearers \ {t} : seq'[u] = seq[u]
        /\ dropped' = dropped \cup {seq[t]}
        /\ UNCHANGED <<nextSequence, inputQueue, completed, outputQueue, delivered,
                       nextOutput, accepted>>
    BY <1>4, Places DEF Undoes, OthersKeep, Handlers, Handling, Clients
  <2>2. {seq'[w] : w \in Handlers'} = {seq[w] : w \in Handlers}
    BY <2>1
  <2>3. \A u \in Offers' : seq'[u] = seq[u] /\ seq[u] # seq[t]
    BY <2>1 DEF NumbersInside
  <2>4. seq[t] < nextSequence /\ seq[t] \notin accepted
    BY <2>1 DEF NumbersInside, NothingVanishes
  <2>5. Pushers' \subseteq Offers'
    BY <2>1
  <2> QED
    BY <2>1, <2>2, <2>3, <2>4, <2>5 DEF NothingVanishes
<1>5. ASSUME NEW w \in Workers, Pops(w) PROVE NothingVanishes'
  <2>1. /\ Handlers' = Handlers \cup {w} /\ w \notin Bearers /\ seq'[w] = Head(inputQueue)
        /\ \A u \in Bearers : seq'[u] = seq[u]
        /\ inputQueue # <<>> /\ inputQueue' = Tail(inputQueue)
        /\ Offers' = Offers /\ Pushers' = Pushers
        /\ UNCHANGED <<nextSequence, completed, outputQueue, delivered, nextOutput, accepted,
                       dropped>>
    BY <1>5 DEF Pops, OthersKeep
  <2>2. Elems(inputQueue) = {Head(inputQueue)} \cup Elems(inputQueue')
    BY <2>1, ElemsTail
  <2>3. {seq'[v] : v \in Handlers'} = {seq[v] : v \in Handlers} \cup {Head(inputQueue)}
    BY <2>1
  <2> QED
    BY <2>1, <2>2, <2>3 DEF NothingVanishes
<1>6. ASSUME NEW w \in Workers, Completes(w) PROVE NothingVanishes'
  <2>1. /\ w \in Handlers /\ w \notin Offers
        /\ Handlers' = Handlers \ {w} /\ Offers' = Offers /\ Pushers' = Pushers
        /\ \A u \in Bearers \ {w} : seq'[u] = seq[u]
        /\ completed' = completed \cup {seq[w]}
        /\ UNCHANGED <<nextSequence, inputQueue, outputQueue, delivered, nextOutput, accepted,
                       dropped>>
    BY <1>6 DEF Completes, OthersKeep
  <2>2. {seq[v] : v \in Handlers} \subseteq {seq'[v] : v \in Handlers'} \cup {seq[w]}
    BY <2>1
  <2> QED
    BY <2>1, <2>2 DEF NothingVanishes
<1>7. CASE Advances
  <2>1. /\ nextOutput \in completed /\ completed' = completed \ {nextOutput}
        /\ nextOutput' = nextOutput + 1
        /\ Offers' = Offers /\ Pushers' = Pushers /\ Handlers' = Handlers
        /\ UNCHANGED <<seq, nextSequence, inputQueue, delivered, accepted>>
        /\ \/ outputQueue' = Append(outputQueue, nextOutput) /\ dropped' = dropped
           \/ outputQueue' = outputQueue /\ dropped' = dropped \cup {nextOutput}
    BY <1>7 DEF Advances
  <2>2. /\ nextOutput < nextSequence
        /\ \A t \in Bearers : seq[t] # nextOutput
    BY <2>1 DEF NumbersInside
  <2>3. CASE outputQueue' = Append(outputQueue, nextOutput) /\ dropped' = dropped
    <3>1. Elems(outputQueue') = Elems(outputQueue) \cup {nextOutput}
      BY <2>3, ElemsAppend
    <3>2. outputQueue' \in Seq(Nat) /\ delivered' \in Seq(Nat)
      BY <2>1, <2>3
    <3>3. Elems(Published') = Elems(Published) \cup {nextOutput}
      BY <1>0, <2>1, <3>1, <3>2, ElemsConcat
    <3>4. \A n \in accepted' \cap dropped' : n < nextOutput'
      BY <2>1, <2>3 DEF NothingVanishes
    <3> QED
      BY <2>1, <2>2, <2>3, <3>3, <3>4 DEF NothingVanishes
  <2>4. CASE outputQueue' = outputQueue /\ dropped' = dropped \cup {nextOutput}
    <3>1. Published' = Published
      BY <2>1, <2>4
    <3>2. \A n \in accepted' \cap dropped' : n < nextOutput'
      BY <2>1, <2>4 DEF NothingVanishes
    <3> QED
      BY <2>1, <2>2, <2>4, <3>1, <3>2 DEF NothingVanishes
  <2> QED
    BY <2>1, <2>3, <2>4
<1>8. CASE Reads
  <2>1. /\ outputQueue # <<>> /\ outputQueue' = Tail(outputQueue)
        /\ delivered' = Append(delivered, Head(outputQueue))
        /\ Offers' = Offers /\ Pushers' = Pushers /\ Handlers' = Handlers
        /\ UNCHANGED <<seq, nextSequence, inputQueue, completed, nextOutput, accepted,
                       dropped>>
    BY <1>8 DEF Reads
  <2>2. Append(delivered, Head(outputQueue)) \o Tail(outputQueue) = delivered \o outputQueue
    BY <2>1, HeadMoves
  <2>3. Published' = Published
    BY <2>1, <2>2
  <2> QED
    BY <2>1, <2>3 DEF NothingVanishes
<1>9. CASE Restarts
  BY <1>9 DEF Restarts, NothingVanishes
<1> QED
  BY <1>1, <1>2, <1>3, <1>4, <1>5, <1>6, <1>7, <1>8, <1>9 DEF Effect
-----------------------------------------------------------------------------
\* What a step of thread t to label l, not a restart, owes to the end of the run.
OwesEnd(t, l) ==
  /\ t \in Controllers /\ l \in InStop => stopped'
  /\ t \in Workers =>
       /\ l \in {"exit", "last", "shut", "done"} =>
            \/ pc[t] \in {"exit", "last", "shut", "done"}
            \/ inputShut /\ inputQueue = <<>>
       /\ l \in {"last", "shut"} => Counted' = {}
       /\ Active(l) => Active(pc[t])
  /\ stopped => stopped'
  /\ starts' = starts
  /\ inputShut => inputShut' /\ (inputQueue = <<>> => inputQueue' = <<>>)
  /\ outputShut' => outputShut \/ stopped' \/ Counted = {}
  /\ ~stopped' /\ nextOutput' \in completed' =>
       \/ t \in Workers /\ l = "publish"
       \/ nextOutput \in completed /\ pc[t] # "publish"

\* A step that does what it owes keeps EndsDrained.
LEMMA EndsKept ==
  ASSUME TypeOK, EndsDrained, NEW t \in Threads, NEW l, Moves(t, l), OwesEnd(t, l)
  PROVE  EndsDrained'
<1>1. pc'[t] = l /\ Workers \subseteq Threads /\ Controllers \subseteq Threads
  BY DEF Moves, Threads, Clients
<1>2. \A u \in Threads \ {t} :
        pc'[u] = pc[u] \/ (pc[u] = "add.wait" /\ pc'[u] = "add.lock")
  BY DEF Moves
<1> USE DEF OwesEnd
<1>3. ASSUME NEW c \in Controllers, pc'[c] \in InStop PROVE stopped'
  <2>1. CASE c = t
    BY <1>1, <1>3, <2>1
  <2>2. CASE c # t
    <3>1. pc[c] \in InStop
      BY <1>1, <1>2, <1>3, <2>2 DEF InStop
    <3> QED
      BY <3>1 DEF EndsDrained
  <2> QED
    BY <2>1, <2>2
<1>4. ASSUME starts' > 0, NEW w \in Gone' PROVE inputShut' /\ inputQueue' = <<>>
  <2>1. /\ w \in Workers /\ pc'[w] \in {"exit", "last", "shut", "done"}
        /\ Gone # {} => inputShut /\ inputQueue = <<>>
    BY <1>4 DEF Gone, EndsDrained
  <2>2. CASE w = t
    BY <1>1, <2>1, <2>2 DEF Gone
  <2>3. CASE w # t
    BY <1>1, <1>2, <2>1, <2>3 DEF Gone
  <2> QED
    BY <2>2, <2>3
<1>5. Counted' \subseteq Counted
  BY <1>1, <1>2 DEF Counted, Active
<1>6. ASSUME NEW w \in Workers, pc'[w] \in {"last", "shut"} PROVE Counted' = {}
  BY <1>1, <1>2, <1>5, <1>6 DEF EndsDrained
<1>7. outputShut' /\ ~stopped' => Counted' = {}
  BY <1>5 DEF EndsDrained
<1>8. ASSUME ~stopped', nextOutput' \in completed'
      PROVE  \E w \in Workers : pc'[w] = "publish"
  <2>1. CASE t \in Workers /\ l = "publish"
    BY <1>1, <2>1
  <2>2. CASE nextOutput \in completed /\ pc[t] # "publish"
    <3>1. PICK w \in Workers : pc[w] = "publish"
      BY <1>8, <2>2 DEF EndsDrained
    <3> QED
      BY <1>1, <1>2, <2>2, <3>1
  <2> QED
    BY <1>8, <2>1, <2>2
<1> QED
  BY <1>3, <1>4, <1>6, <1>7, <1>8 DEF EndsDrained

\* The last worker to leave was the only one counted.
LEMMA LastLeaves ==
  ASSUME TypeOK, ActiveCounted, NEW w \in Workers, pc[w] = "exit", activeWorkers = 1,
         Moves(w, "last")
  PROVE  Counted' = {}
<1>1. Counted' = Counted \ {w} /\ w \in Counted
  BY CountedMove DEF Counted, Threads
<1>2. Cardinality(Counted) = 1 /\ IsFiniteSet(Counted)
  BY CountedFinite DEF ActiveCounted
<1>3. Cardinality(Counted \ {w}) = 0 /\ IsFiniteSet(Counted \ {w})
  BY <1>1, <1>2, FS_RemoveElement
<1> QED
  BY <1>1, <1>3, FS_EmptySet

\* Every step of the pipeline does what it owes.
LEMMA EndsStep ==
  ASSUME TypeOK, PipelineInv, EndsDrained, [Next]_vars
  PROVE  EndsDrained'
<1> USE DEF Threads, Clients, slotVars, queueVars, orderVars, localVars, historyVars,
            InStop, PipelineInv, Active
<1>0. ASSUME NEW t \in Threads, NEW l, Moves(t, l), OwesEnd(t, l) PROVE EndsDrained'
  BY <1>0, EndsKept
<1>1. ASSUME NEW t \in Producers, AddInputCall(t) PROVE EndsDrained'
  BY <1>0, <1>1, GotoMoves, Places DEF AddInputCall, AtRest, Rest, OwesEnd
<1>2. ASSUME NEW t \in Producers, SpuriousWakeup(t) PROVE EndsDrained'
  BY <1>0, <1>2, GotoMoves, Places DEF SpuriousWakeup, WaitersAsleep, OwesEnd
<1>3. ASSUME NEW t \in Producers, AddInputTest(t) PROVE EndsDrained'
  <2>1. PICK l \in {"false", "add.seq", "add.block"} : Goto(t, l)
    BY <1>3 DEF AddInputTest
  <2> QED
    BY <1>0, <1>3, <2>1, GotoMoves, Places DEF AddInputTest, OwesEnd
<1>4. ASSUME NEW t \in Producers, AddInputSleep(t) PROVE EndsDrained'
  BY <1>0, <1>4, GotoMoves, Places DEF AddInputSleep, OwesEnd
<1>5. ASSUME NEW t \in Producers, AddInputNumber(t) PROVE EndsDrained'
  BY <1>0, <1>5, GotoMoves, Places DEF AddInputNumber, OwesEnd
<1>6. ASSUME NEW t \in Producers, AddInputPush(t) PROVE EndsDrained'
  <2>1. PICK l \in {"true", "add.undo"} : Goto(t, l) /\ (inputShut => inputQueue' = inputQueue)
    BY <1>6 DEF AddInputPush
  <2> QED
    BY <1>0, <1>6, <2>1, GotoMoves, Places DEF AddInputPush, OwesEnd
<1>7. ASSUME NEW t \in Producers, AddInputUndo(t) PROVE EndsDrained'
  <2>1. Moves(t, "false") /\ pc[t] = "add.undo"
    BY <1>7, ReleaseMoves DEF AddInputUndo
  <2> QED
    BY <1>0, <1>7, <2>1, Places DEF AddInputUndo, OwesEnd
<1>8. ASSUME NEW w \in Workers, WorkerPop(w) PROVE EndsDrained'
  <2>1. CASE InputEnded /\ Goto(w, "exit") /\ UNCHANGED inputQueue
    BY <1>0, <1>8, <2>1, GotoMoves, Places DEF WorkerPop, InputEnded, OwesEnd
  <2>2. CASE inputQueue # <<>> /\ Goto(w, "process")
    BY <1>0, <1>8, <2>2, GotoMoves, Places DEF WorkerPop, OwesEnd
  <2> QED
    BY <1>8, <2>1, <2>2 DEF WorkerPop
<1>9. ASSUME NEW w \in Workers, WorkerProcess(w) PROVE EndsDrained'
  <2>1. PICK l \in {"reorder", "fail"} : Goto(w, l)
    BY <1>9 DEF WorkerProcess
  <2> QED
    BY <1>0, <1>9, <2>1, GotoMoves, Places DEF WorkerProcess, OwesEnd
<1>10. ASSUME NEW w \in Workers, WorkerFail(w) PROVE EndsDrained'
  BY <1>0, <1>10, GotoMoves, Places DEF WorkerFail, OwesEnd
<1>11. ASSUME NEW w \in Workers, WorkerComplete(w) PROVE EndsDrained'
  BY <1>0, <1>11, GotoMoves, Places DEF WorkerComplete, OwesEnd
<1>12. ASSUME NEW w \in Workers, PublishResult(w) PROVE EndsDrained'
  <2>1. Moves(w, "publish") /\ pc[w] = "publish"
    BY <1>12 DEF PublishResult, Moves
  <2> QED
    BY <1>0, <1>12, <2>1, Places DEF PublishResult, OwesEnd
<1>13. ASSUME NEW w \in Workers, PublishRefused(w) PROVE EndsDrained'
  <2>1. Moves(w, "pop") /\ pc[w] = "publish" /\ outputShut
    BY <1>13, ReleaseMoves DEF PublishRefused
  <2>2. stopped
    BY <2>1 DEF EndsDrained, Counted
  <2> QED
    BY <1>0, <1>13, <2>1, <2>2, Places DEF PublishRefused, OwesEnd
<1>14. ASSUME NEW w \in Workers, PublishNull(w) PROVE EndsDrained'
  <2>1. Moves(w, "publish") /\ pc[w] = "publish"
    BY <1>14, ReleaseMoves DEF PublishNull
  <2> QED
    BY <1>0, <1>14, <2>1, Places DEF PublishNull, OwesEnd
<1>15. ASSUME NEW w \in Workers, PublishEnd(w) PROVE EndsDrained'
  BY <1>0, <1>15, GotoMoves, Places DEF PublishEnd, NextCompleted, OwesEnd
<1>16. ASSUME NEW w \in Workers, WorkerExit(w) PROVE EndsDrained'
  <2>1. CASE activeWorkers = 1
    <3>1. Moves(w, "last") /\ pc[w] = "exit"
      BY <1>16, <2>1, GotoMoves DEF WorkerExit
    <3>2. Counted' = {}
      BY <2>1, <3>1, LastLeaves
    <3> QED
      BY <1>0, <1>16, <3>1, <3>2, Places DEF WorkerExit, OwesEnd
  <2>2. CASE activeWorkers # 1
    BY <1>0, <1>16, <2>2, GotoMoves, Places DEF WorkerExit, OwesEnd
  <2> QED
    BY <2>1, <2>2
<1>17. ASSUME NEW w \in Workers, WorkerEndRun(w) PROVE EndsDrained'
  <2>1. Moves(w, "shut") /\ pc[w] = "last"
    BY <1>17, WakeAllMoves DEF WorkerEndRun
  <2>2. Counted' = {}
    BY <2>1, CountedMove DEF EndsDrained
  <2> QED
    BY <1>0, <1>17, <2>1, <2>2, Places DEF WorkerEndRun, OwesEnd
<1>18. ASSUME NEW w \in Workers, WorkerShutOutput(w) PROVE EndsDrained'
  <2>1. Moves(w, "done") /\ pc[w] = "shut" /\ Counted = {}
    BY <1>18, GotoMoves DEF WorkerShutOutput, EndsDrained
  <2> QED
    BY <1>0, <1>18, <2>1, Places DEF WorkerShutOutput, OwesEnd
<1>19. ASSUME NEW t \in Consumers, GetOutputCall(t) PROVE EndsDrained'
  BY <1>0, <1>19, GotoMoves, Places DEF GetOutputCall, AtRest, Rest, OwesEnd
<1>20. ASSUME NEW t \in Consumers, GetOutputPop(t) \/ TryGetOutput(t) PROVE EndsDrained'
  <2>1. PICK l \in {"get.release", "false"} : Goto(t, l)
    BY <1>20 DEF GetOutputPop, TryGetOutput, TakeOutput
  <2>2. /\ pc[t] \in {"get", "idle", "true", "false"}
        /\ UNCHANGED <<inputQueue, inputShut, outputShut, completed, nextOutput, starts,
                       stopped>>
    BY <1>20 DEF GetOutputPop, TryGetOutput, AtRest, Rest
  <2> QED
    BY <1>0, <2>1, <2>2, GotoMoves, Places DEF OwesEnd
<1>21. ASSUME NEW t \in Consumers, GetOutputRelease(t) PROVE EndsDrained'
  <2>1. Moves(t, "true") /\ pc[t] = "get.release"
    BY <1>21, ReleaseMoves DEF GetOutputRelease
  <2> QED
    BY <1>0, <1>21, <2>1, Places DEF GetOutputRelease, OwesEnd
<1>22. ASSUME NEW t \in Controllers, CloseInputCall(t) PROVE EndsDrained'
  BY <1>0, <1>22, GotoMoves, Places DEF CloseInputCall, AtRest, Rest, OwesEnd
<1>23. ASSUME NEW t \in Controllers, CloseInputMark(t) PROVE EndsDrained'
  <2>1. Moves(t, "close.input") /\ pc[t] = "close.mark"
    BY <1>23, WakeAllMoves DEF CloseInputMark
  <2> QED
    BY <1>0, <1>23, <2>1, Places DEF CloseInputMark, OwesEnd
<1>24. ASSUME NEW t \in Controllers, CloseInputShut(t) PROVE EndsDrained'
  BY <1>0, <1>24, GotoMoves, Places DEF CloseInputShut, OwesEnd
<1>25. ASSUME NEW t \in Controllers, StopCall(t) PROVE EndsDrained'
  BY <1>0, <1>25, GotoMoves, Places DEF StopCall, AtRest, Rest, OwesEnd
<1>26. ASSUME NEW t \in Controllers, StopMark(t) PROVE EndsDrained'
  <2>1. PICK l \in {"stop.input", "stop.join"} : WakeAll(t, l)
    BY <1>26 DEF StopMark
  <2>2. Moves(t, l) /\ pc[t] = "stop.mark" /\ stopped
    BY <1>26, <2>1, WakeAllMoves DEF StopMark, EndsDrained
  <2> QED
    BY <1>0, <1>26, <2>2, Places DEF StopMark, OwesEnd
<1>27. ASSUME NEW t \in Controllers, StopShutInput(t) PROVE EndsDrained'
  <2>1. stopped
    BY <1>27 DEF StopShutInput, EndsDrained
  <2> QED
    BY <1>0, <1>27, <2>1, GotoMoves, Places DEF StopShutInput, OwesEnd
<1>28. ASSUME NEW t \in Controllers, StopShutOutput(t) PROVE EndsDrained'
  <2>1. stopped
    BY <1>28 DEF StopShutOutput, EndsDrained
  <2> QED
    BY <1>0, <1>28, <2>1, GotoMoves, Places DEF StopShutOutput, OwesEnd
<1>29. ASSUME NEW t \in Controllers, StopJoin(t) PROVE EndsDrained'
  <2>1. stopped
    BY <1>29 DEF StopJoin, EndsDrained
  <2> QED
    BY <1>0, <1>29, <2>1, GotoMoves, Places DEF StopJoin, OwesEnd
<1>30. ASSUME NEW t \in Controllers, StopEnd(t) PROVE EndsDrained'
  <2>1. stopped
    BY <1>30 DEF StopEnd, EndsDrained
  <2> QED
    BY <1>0, <1>30, <2>1, GotoMoves, Places DEF StopEnd, OwesEnd
<1>31. ASSUME NEW t \in Controllers, Start(t) PROVE EndsDrained'
  <2>1. /\ \A c \in Controllers : pc'[c] \in {"idle", "true", "false"}
        /\ \A w \in Workers : pc'[w] = "pop"
        /\ outputShut' = FALSE /\ completed' = {}
    BY <1>31, Places DEF Start, AtRest, Rest
  <2> QED
    BY <2>1 DEF EndsDrained, Gone
<1>32. ASSUME UNCHANGED vars PROVE EndsDrained'
  BY <1>32 DEF vars, EndsDrained, Gone, Counted
<1> QED
  BY <1>1, <1>2, <1>3, <1>4, <1>5, <1>6, <1>7, <1>8, <1>9, <1>10, <1>11, <1>12,
     <1>13, <1>14, <1>15, <1>16, <1>17, <1>18, <1>19, <1>20, <1>21, <1>22, <1>23,
     <1>24, <1>25, <1>26, <1>27, <1>28, <1>29, <1>30, <1>31, <1>32
     DEF Next, ProducerStep, WorkerStep, ConsumerStep, ControllerStep
-----------------------------------------------------------------------------
\* Before the first Start no number exists and no worker runs.
LEMMA WindowInit == Init => WindowInv
<1> SUFFICES ASSUME Init PROVE WindowInv
  OBVIOUS
<1> USE DEF Init, Threads, Clients
<1>1. \A t \in Threads : pc[t] \in {"done", "idle"}
  OBVIOUS
<1>2. Offers = {} /\ Pushers = {} /\ Handlers = {} /\ Bearers = {} /\ Counted = {}
  BY <1>1 DEF Offers, Pushers, Handlers, Bearers, Offering, Pushing, Handling, Busy, Counted
<1>3. NumbersInside
  BY <1>2 DEF NumbersInside, Elems
<1>4. NothingVanishes
  BY <1>2 DEF NothingVanishes
<1>5. EndsDrained
  BY <1>1, <1>2 DEF EndsDrained, InStop
<1> QED
  BY <1>3, <1>4, <1>5 DEF WindowInv

\* The strengthened invariant holds in every run.
LEMMA WindowCorrect == Spec => [](TypeOK /\ PipelineInv /\ WindowInv)
<1>1. Init => TypeOK /\ PipelineInv /\ WindowInv
  BY InitType, InitInv, WindowInit
<1>2. TypeOK /\ PipelineInv /\ WindowInv /\ [Next]_vars
        => (TypeOK /\ PipelineInv /\ WindowInv)'
  <2> SUFFICES ASSUME TypeOK, PipelineInv, WindowInv, [Next]_vars
               PROVE  (TypeOK /\ PipelineInv /\ WindowInv)'
    OBVIOUS
  <2>1. TypeOK' /\ PipelineInv'
    BY TypeStep, InvStep DEF PipelineInv
  <2>2. Effect /\ UniqueNumbers
    BY Effects DEF PipelineInv
  <2>3. NumbersInside' /\ NothingVanishes'
    BY <2>2, InsideStep, VanishStep DEF WindowInv
  <2>4. EndsDrained'
    BY EndsStep DEF WindowInv
  <2> QED
    BY <2>1, <2>3, <2>4 DEF WindowInv
<1> QED
  BY <1>1, <1>2, PTL DEF Spec

\* When the workers have ended without a Stop, each input that AddInput accepted was
\* published or had no result, unless a refused push wasted a number: closing the
\* input loses nothing, whatever the number of workers and callers.
THEOREM NothingLost == Spec => []NothingAcceptedIsLost
<1>1. TypeOK /\ PipelineInv /\ WindowInv => NothingAcceptedIsLost
  <2> SUFFICES ASSUME TypeOK, PipelineInv, WindowInv, starts > 0, ~stopped, AllJoinable,
                      ~NumberWasted, NEW n \in accepted
               PROVE  n \in dropped \cup {Published[i] : i \in DOMAIN Published}
    BY DEF NothingAcceptedIsLost
  <2> USE Numerals
  <2>1. PICK k \in Int : accepted = 0..k
    <3>1. Cardinality(accepted) - 1 \in Int
      <4>1. \A m \in accepted : m \in 0..nextSequence
        BY DEF WindowInv, NothingVanishes
      <4>2. IsFiniteSet(accepted)
        <5>1. IsFiniteSet(0..nextSequence)
          BY FS_Interval
        <5> QED
          BY <4>1, <5>1, FS_Subset
      <4>3. Cardinality(accepted) \in Nat
        BY <4>2, FS_CardinalityType
      <4> QED
        BY <4>3
    <3> QED
      BY <3>1 DEF NumberWasted
  <2>2. \A w \in Workers : pc[w] = "done"
    BY DEF AllJoinable
  <2>3. Handlers = {} /\ inputQueue = <<>>
    <3>1. Workers # {}
      BY PipelineAssumption DEF PipelineAssumption
    <3>2. Gone # {}
      BY <2>2, <3>1 DEF Gone
    <3>3. inputQueue = <<>>
      BY <3>2 DEF WindowInv, EndsDrained
    <3> QED
      BY <2>2, <3>3 DEF Handlers, Handling, Busy
  <2>4. nextOutput \notin completed
    BY <2>2 DEF WindowInv, EndsDrained
  <2>5. accepted \subseteq dropped \cup completed \cup Elems(Published)
    BY <2>3 DEF WindowInv, NothingVanishes, Elems
  <2>6. n \notin completed
    <3>1. SUFFICES ASSUME n \in completed PROVE FALSE
      OBVIOUS
    <3>2. nextOutput <= n /\ nextOutput \in accepted
      BY <2>1, <3>1 DEF WindowInv, NumbersInside
    <3>3. nextOutput \notin Elems(Published)
      BY PublishedType DEF Elems, PipelineInv, OutputInInputOrder
    <3>4. nextOutput \notin dropped
      BY <3>2 DEF WindowInv, NothingVanishes
    <3> QED
      BY <2>4, <2>5, <3>2, <3>3, <3>4
  <2> QED
    BY <2>5, <2>6 DEF Elems
<1> QED
  BY <1>1, WindowCorrect, PTL
-----------------------------------------------------------------------------
\* The image of a finite set under a function has no more elements.
LEMMA ImageBound ==
  ASSUME NEW S, IsFiniteSet(S), NEW f
  PROVE  /\ IsFiniteSet({f[x] : x \in S})
         /\ Cardinality({f[x] : x \in S}) <= Cardinality(S)
<1> DEFINE T == {f[x] : x \in S}
           g == [x \in S |-> f[x]]
<1>1. g \in Surjection(S, T)
  BY DEF Surjection
<1>2. IsFiniteSet(T) /\ Cardinality(T) <= Cardinality(S)
  BY <1>1, FS_Surjection
<1> QED
  BY <1>2

\* A queue has no more values than entries.
LEMMA ElemsBound ==
  ASSUME NEW q \in Seq(Nat)
  PROVE  IsFiniteSet(Elems(q)) /\ Cardinality(Elems(q)) <= Len(q)
<1>1. DOMAIN q = 1..Len(q) /\ Len(q) \in Nat
  OBVIOUS
<1>2. IsFiniteSet(1..Len(q)) /\ Cardinality(1..Len(q)) = Len(q)
  <2>1. /\ IsFiniteSet(1..Len(q))
        /\ Cardinality(1..Len(q)) = IF 1 > Len(q) THEN 0 ELSE Len(q) - 1 + 1
    BY <1>1, FS_Interval
  <2> QED
    BY <1>1, <2>1
<1>3. Elems(q) = {q[i] : i \in 1..Len(q)}
  BY <1>1 DEF Elems
<1> QED
  BY <1>2, <1>3, ImageBound

\* Two finite sets together have at most as many elements as one after the other.
LEMMA UnionBound ==
  ASSUME NEW S, IsFiniteSet(S), NEW T, IsFiniteSet(T)
  PROVE  /\ IsFiniteSet(S \cup T)
         /\ Cardinality(S) \in Nat /\ Cardinality(T) \in Nat
         /\ Cardinality(S \cup T) \in Nat
         /\ Cardinality(S \cup T) <= Cardinality(S) + Cardinality(T)
<1>1. IsFiniteSet(S \cup T) /\ IsFiniteSet(S \cap T)
  BY FS_Union, FS_Subset
<1>2. /\ Cardinality(S) \in Nat /\ Cardinality(T) \in Nat /\ Cardinality(S \cap T) \in Nat
      /\ Cardinality(S \cup T) \in Nat
  BY <1>1, FS_CardinalityType
<1>3. Cardinality(S \cup T) = Cardinality(S) + Cardinality(T) - Cardinality(S \cap T)
  BY FS_Union
<1>4. Cardinality(S \cup T) <= Cardinality(S) + Cardinality(T)
  BY <1>2, <1>3
<1> QED
  BY <1>1, <1>2, <1>4

\* The window of the refinement, by the places of its numbers.
LEMMA InsideAre ==
  InsideNumbers = {seq[t] : t \in Bearers} \cup Elems(inputQueue) \cup completed
                    \cup Elems(outputQueue)
BY DEF InsideNumbers, Bearers, Offers, Handlers, Offering, Handling, Elems, Threads, Clients

\* The window counts its numbers as the pipeline does.
LEMMA SameCardinality == ASSUME NEW S PROVE Window!Cardinality(S) = Cardinality(S)
BY DEF Window!Cardinality, Cardinality

\* A thread that is about to take a number holds a slot that no number uses yet, so
\* there is room in the window for one more.
LEMMA RoomForNumber ==
  ASSUME TypeOK, PipelineInv, NEW t \in Producers, Numbers(t)
  PROVE  Cardinality(InsideNumbers) < Capacity
<1>1. IsFiniteSet(SlotHolders) /\ Bearers \cup {t} \subseteq SlotHolders /\ t \notin Bearers
  BY HoldersFinite
     DEF Numbers, SlotHolders, Bearers, Offers, Handlers, Offering, Handling, Claimed, Clients
<1>2. IsFiniteSet(Bearers) /\ Cardinality(Bearers) \in Nat
  BY <1>1, FS_Subset, FS_CardinalityType
<1>3. Cardinality(Bearers) + 1 <= Cardinality(SlotHolders)
  <2>1. Cardinality(Bearers \cup {t}) = Cardinality(Bearers) + 1
    BY <1>1, <1>2, FS_AddElement
  <2> QED
    BY <1>1, <2>1, FS_Subset
<1> DEFINE B == {seq[u] : u \in Bearers}
           I == Elems(inputQueue)
           O == Elems(outputQueue)
<1>4. IsFiniteSet(B) /\ Cardinality(B) <= Cardinality(Bearers)
  BY <1>2, ImageBound
<1>5. /\ IsFiniteSet(I) /\ Cardinality(I) <= Len(inputQueue)
      /\ IsFiniteSet(O) /\ Cardinality(O) <= Len(outputQueue)
  BY ElemsBound, Numerals
<1>6. IsFiniteSet(completed)
  BY DEF PipelineInv
<1> HIDE DEF B, I, O
<1>7. IsFiniteSet(B \cup I) /\ Cardinality(B \cup I) <= Cardinality(B) + Cardinality(I)
  BY <1>4, <1>5, UnionBound
<1>8. /\ IsFiniteSet(B \cup I \cup completed)
      /\ Cardinality(B \cup I \cup completed) <= Cardinality(B \cup I) + Cardinality(completed)
  BY <1>6, <1>7, UnionBound
<1>9. Cardinality(B \cup I \cup completed \cup O)
        <= Cardinality(B \cup I \cup completed) + Cardinality(O)
  BY <1>5, <1>8, UnionBound
<1>10. InsideNumbers = B \cup I \cup completed \cup O
  BY InsideAre DEF B, I, O
<1>11. /\ Cardinality(B) \in Nat /\ Cardinality(I) \in Nat /\ Cardinality(O) \in Nat
       /\ Cardinality(completed) \in Nat /\ Cardinality(B \cup I) \in Nat
       /\ Cardinality(B \cup I \cup completed) \in Nat
       /\ Cardinality(B \cup I \cup completed \cup O) \in Nat
  BY <1>4, <1>5, <1>6, <1>7, <1>8, UnionBound
<1>12. /\ Cardinality(SlotHolders) + Len(inputQueue) + Cardinality(completed)
            + Len(outputQueue) <= Capacity
       /\ Capacity \in Nat /\ Cardinality(SlotHolders) \in Nat
       /\ Len(inputQueue) \in Nat /\ Len(outputQueue) \in Nat
  BY CountsAreNat, PipelineAssumption DEF PipelineInv, SlotsAccounted, PipelineAssumption
<1>13. Cardinality(B) + 1 <= Cardinality(SlotHolders)
  BY <1>2, <1>3, <1>4, <1>11, <1>12
<1>14. Cardinality(InsideNumbers) <= Cardinality(B) + Cardinality(I) + Cardinality(completed)
                                       + Cardinality(O)
  BY <1>7, <1>8, <1>9, <1>10, <1>11
<1>15. Cardinality(I) + Cardinality(O) <= Len(inputQueue) + Len(outputQueue)
  BY <1>5, <1>11, <1>12
<1>16. Cardinality(InsideNumbers) \in Nat
  BY <1>10, <1>11
<1> QED
  BY <1>11, <1>12, <1>13, <1>14, <1>15, <1>16, SMTT(60)

\* What is ready for the reader is below all other numbers inside and above
\* everything the reader has.
LEMMA OutputBelow ==
  ASSUME TypeOK, PipelineInv
  PROVE  /\ \A n \in Elems(outputQueue) : n < nextOutput
         /\ outputQueue # <<>> =>
              /\ Head(outputQueue) \notin Elems(Tail(outputQueue))
              /\ \A i \in DOMAIN delivered : delivered[i] < Head(outputQueue)
<1>1. /\ outputQueue \in Seq(Nat) /\ delivered \in Seq(Nat)
      /\ DOMAIN outputQueue = 1..Len(outputQueue) /\ Len(outputQueue) \in Nat
      /\ DOMAIN delivered = 1..Len(delivered) /\ Len(delivered) \in Nat
  BY DEF TypeOK
<1>2. /\ DOMAIN Published = 1..Len(delivered) + Len(outputQueue)
      /\ \A i \in 1..Len(delivered) : Published[i] = delivered[i]
      /\ \A i \in 1..Len(outputQueue) : Published[Len(delivered) + i] = outputQueue[i]
  BY <1>1 DEF Published
<1>3. /\ \A i, j \in DOMAIN Published : i < j => Published[i] < Published[j]
      /\ \A i \in DOMAIN Published : Published[i] < nextOutput
  BY DEF PipelineInv, OutputInInputOrder
<1>4. \A i \in 1..Len(outputQueue) : Len(delivered) + i \in DOMAIN Published
  BY <1>1, <1>2
<1>5. \A n \in Elems(outputQueue) : n < nextOutput
  BY <1>1, <1>2, <1>3, <1>4 DEF Elems
<1>6. ASSUME outputQueue # <<>> PROVE Head(outputQueue) \notin Elems(Tail(outputQueue))
  <2>1. /\ Head(outputQueue) = outputQueue[1] /\ 1 \in 1..Len(outputQueue)
        /\ DOMAIN Tail(outputQueue) = 1..Len(outputQueue) - 1
        /\ \A i \in 1..Len(outputQueue) - 1 : Tail(outputQueue)[i] = outputQueue[i + 1]
    BY <1>1, <1>6
  <2>2. ASSUME NEW i \in 1..Len(outputQueue) - 1 PROVE outputQueue[1] < outputQueue[i + 1]
    <3>1. /\ i + 1 \in 1..Len(outputQueue)
          /\ Len(delivered) + 1 < Len(delivered) + (i + 1)
      BY <1>1
    <3> QED
      BY <1>2, <1>3, <1>4, <2>1, <3>1
  <2>3. \A i \in 1..Len(outputQueue) : outputQueue[i] \in Nat
    BY <1>1
  <2>4. \A i \in 1..Len(outputQueue) - 1 : i + 1 \in 1..Len(outputQueue)
    BY <1>1
  <2> QED
    BY <2>1, <2>2, <2>3, <2>4 DEF Elems
<1>7. ASSUME outputQueue # <<>>, NEW i \in DOMAIN delivered
      PROVE  delivered[i] < Head(outputQueue)
  <2>1. Head(outputQueue) = outputQueue[1] /\ 1 \in 1..Len(outputQueue)
    BY <1>1, <1>7
  <2>2. i \in 1..Len(delivered) /\ i \in DOMAIN Published /\ i < Len(delivered) + 1
    BY <1>1, <1>2
  <2> QED
    BY <1>2, <1>3, <1>4, <2>1, <2>2
<1> QED
  BY <1>5, <1>6, <1>7

\* Whatever a step does to the numbers, it is a step of the window or leaves it alone.
LEMMA WindowStep ==
  ASSUME TypeOK, PipelineInv, NumbersInside, Effect
  PROVE  [Window!Next]_(Window!vars)
<1> USE Numerals DEF Window!Next, Window!vars
<1> DEFINE B == {seq[t] : t \in Bearers}
<1>0. InsideNumbers = B \cup Elems(inputQueue) \cup completed \cup Elems(outputQueue)
  BY InsideAre
<1>00. InsideNumbers' = B' \cup Elems(inputQueue') \cup completed' \cup Elems(outputQueue')
  BY InsideAre
     DEF InsideNumbers, Bearers, Offers, Handlers, Offering, Handling, Elems, Threads, Clients
<1> HIDE DEF B
<1>1. CASE Stays
  <2>1. UNCHANGED <<B, inputQueue, completed, outputQueue, nextSequence, delivered>>
    BY <1>1 DEF Stays, placeVars, B, Bearers
  <2> QED
    BY <1>0, <1>00, <2>1
<1>2. ASSUME NEW t \in Producers, Numbers(t) PROVE [Window!Next]_(Window!vars)
  <2>1. B' = B \cup {nextSequence}
    BY <1>2 DEF Numbers, OthersKeep, B, Bearers
  <2>2. /\ nextSequence' = nextSequence + 1
        /\ UNCHANGED <<inputQueue, completed, outputQueue, delivered>>
    BY <1>2 DEF Numbers
  <2>3. Cardinality(InsideNumbers) < Capacity
    BY <1>2, RoomForNumber
  <2>4. InsideNumbers' = InsideNumbers \cup {nextSequence}
    BY <1>0, <1>00, <2>1, <2>2
  <2>5. Window!Accept
    <3>1. nextSequence' = nextSequence + 1 /\ delivered' = delivered
      BY <2>2
    <3> QED
      BY <2>3, <2>4, <3>1, SameCardinality DEF Window!Accept
  <2> QED
    BY <2>5
<1>3. ASSUME NEW t \in Producers, Pushes(t) PROVE [Window!Next]_(Window!vars)
  <2>1. B = B' \cup {seq[t]}
    <3>1. t \in Bearers /\ t \notin Handlers
      BY <1>3, Places DEF Pushes, Handlers, Handling, Clients
    <3>2. Bearers' = Bearers \ {t} /\ \A u \in Bearers' : seq'[u] = seq[u]
      BY <1>3, <3>1 DEF Pushes, OthersKeep, Bearers
    <3> QED
      BY <3>1, <3>2 DEF B
  <2>2. Elems(inputQueue') = Elems(inputQueue) \cup {seq[t]}
    BY <1>3, ElemsAppend DEF Pushes
  <2>3. UNCHANGED <<nextSequence, completed, outputQueue, delivered>>
    BY <1>3 DEF Pushes
  <2> QED
    BY <1>0, <1>00, <2>1, <2>2, <2>3
<1>4. ASSUME NEW t \in Producers, Undoes(t) PROVE [Window!Next]_(Window!vars)
  <2>1. B = B' \cup {seq[t]} /\ seq[t] \notin B'
    <3>1. t \in Bearers /\ t \notin Handlers
      BY <1>4, Places DEF Undoes, Handlers, Handling, Clients
    <3>2. Bearers' = Bearers \ {t} /\ \A u \in Bearers' : seq'[u] = seq[u]
      BY <1>4, <3>1 DEF Undoes, OthersKeep, Bearers
    <3>3. \A u \in Bearers' : seq'[u] # seq[t]
      BY <3>1, <3>2 DEF NumbersInside
    <3> QED
      BY <3>1, <3>2, <3>3 DEF B
  <2>2. /\ seq[t] \notin completed /\ seq[t] \notin Elems(inputQueue)
        /\ seq[t] \notin Elems(outputQueue)
    BY <1>4, OutputBelow DEF Undoes, NumbersInside
  <2>3. UNCHANGED <<nextSequence, inputQueue, completed, outputQueue, delivered>>
    BY <1>4 DEF Undoes
  <2>4. seq[t] \in InsideNumbers /\ InsideNumbers' = InsideNumbers \ {seq[t]}
    BY <1>0, <1>00, <2>1, <2>2, <2>3
  <2>5. Window!Drop(seq[t])
    BY <2>3, <2>4 DEF Window!Drop
  <2> QED
    BY <2>4, <2>5
<1>5. ASSUME NEW w \in Workers, Pops(w) PROVE [Window!Next]_(Window!vars)
  <2>1. B' = B \cup {Head(inputQueue)}
    BY <1>5 DEF Pops, OthersKeep, B, Bearers
  <2>2. Elems(inputQueue) = {Head(inputQueue)} \cup Elems(inputQueue')
    BY <1>5, ElemsTail DEF Pops
  <2>3. UNCHANGED <<nextSequence, completed, outputQueue, delivered>>
    BY <1>5 DEF Pops
  <2> QED
    BY <1>0, <1>00, <2>1, <2>2, <2>3
<1>6. ASSUME NEW w \in Workers, Completes(w) PROVE [Window!Next]_(Window!vars)
  <2>1. B = B' \cup {seq[w]}
    BY <1>6 DEF Completes, OthersKeep, B, Bearers
  <2>2. /\ completed' = completed \cup {seq[w]}
        /\ UNCHANGED <<nextSequence, inputQueue, outputQueue, delivered>>
    BY <1>6 DEF Completes
  <2> QED
    BY <1>0, <1>00, <2>1, <2>2
<1>7. CASE Advances
  <2>1. /\ nextOutput \in completed /\ completed' = completed \ {nextOutput}
        /\ UNCHANGED <<nextSequence, inputQueue, delivered>> /\ B' = B
    BY <1>7 DEF Advances, B, Bearers
  <2>2. CASE outputQueue' = Append(outputQueue, nextOutput)
    <3>1. Elems(outputQueue') = Elems(outputQueue) \cup {nextOutput}
      BY <2>2, ElemsAppend
    <3> QED
      BY <1>0, <1>00, <2>1, <3>1
  <2>3. CASE outputQueue' = outputQueue
    <3>1. /\ nextOutput \notin B /\ nextOutput \notin Elems(outputQueue)
      BY <2>1, OutputBelow DEF NumbersInside, B
    <3>2. nextOutput \notin Elems(inputQueue)
      BY <2>1 DEF PipelineInv, UniqueNumbers, Elems
    <3>3. nextOutput \in InsideNumbers /\ InsideNumbers' = InsideNumbers \ {nextOutput}
      BY <1>0, <1>00, <2>1, <2>3, <3>1, <3>2
    <3>4. Window!Drop(nextOutput)
      BY <2>1, <3>3 DEF Window!Drop
    <3> QED
      BY <3>3, <3>4
  <2> QED
    BY <1>7, <2>2, <2>3 DEF Advances
<1>8. CASE Reads
  <2>1. /\ outputQueue # <<>> /\ outputQueue' = Tail(outputQueue)
        /\ delivered' = Append(delivered, Head(outputQueue))
        /\ UNCHANGED <<nextSequence, inputQueue, completed>> /\ B' = B
    BY <1>8 DEF Reads, B, Bearers
  <2>2. /\ Elems(outputQueue) = {Head(outputQueue)} \cup Elems(outputQueue')
        /\ Head(outputQueue) \notin Elems(outputQueue')
        /\ Head(outputQueue) < nextOutput
        /\ \A i \in DOMAIN delivered : delivered[i] < Head(outputQueue)
    BY <2>1, ElemsTail, OutputBelow
  <2>3. /\ Head(outputQueue) \notin B /\ Head(outputQueue) \notin completed
        /\ Head(outputQueue) \notin Elems(inputQueue)
    <3>1. Head(outputQueue) \in Nat
      BY <2>1
    <3> QED
      BY <2>2, <3>1 DEF NumbersInside, B
  <2>4. /\ Head(outputQueue) \in InsideNumbers
        /\ InsideNumbers' = InsideNumbers \ {Head(outputQueue)}
    BY <1>0, <1>00, <2>1, <2>2, <2>3
  <2>5. Window!Deliver(Head(outputQueue))
    BY <2>1, <2>2, <2>4 DEF Window!Deliver
  <2> QED
    BY <2>4, <2>5
<1>9. CASE Restarts
  <2>1. /\ B' = {} /\ completed' = {} /\ Elems(inputQueue') = {} /\ Elems(outputQueue') = {}
        /\ nextSequence' = 0 /\ delivered' = <<>>
    BY <1>9 DEF Restarts, B, Bearers, Elems
  <2>2. Window!Restart
    BY <1>00, <2>1 DEF Window!Restart
  <2> QED
    BY <2>2
<1> QED
  BY <1>1, <1>2, <1>3, <1>4, <1>5, <1>6, <1>7, <1>8, <1>9 DEF Effect

\* The pipeline is an ordered window to its callers, for any threads and capacity:
\* AddInput lets at most queue_capacity_ inputs in, and each leaves once,
\* delivered above all earlier ones or dropped.
THEOREM WindowRefined == Spec => ImplementsWindow
<1>1. Init => Window!Init
  <2> SUFFICES ASSUME Init PROVE Window!Init
    OBVIOUS
  <2>1. /\ Bearers = {} /\ completed = {} /\ inputQueue = <<>> /\ outputQueue = <<>>
        /\ nextSequence = 0 /\ delivered = <<>>
    BY DEF Init, Bearers, Offers, Handlers, Offering, Handling, Busy, Threads, Clients
  <2>2. InsideNumbers = {}
    BY <2>1, InsideAre DEF Elems
  <2> QED
    BY <2>1, <2>2 DEF Window!Init
<1>2. TypeOK /\ PipelineInv /\ WindowInv /\ [Next]_vars => [Window!Next]_(Window!vars)
  BY Effects, WindowStep DEF WindowInv
<1> QED
  BY <1>1, <1>2, WindowCorrect, PTL DEF Spec, ImplementsWindow, Window!Spec
=============================================================================
