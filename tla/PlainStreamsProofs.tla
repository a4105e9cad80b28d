-------------------------- MODULE PlainStreamsProofs --------------------------
(***************************************************************************)
(* EntropyJobsInOrder for every number of entropy threads, frames and      *)
(* fragments: pending_entropy always holds the last frames handed out, in  *)
(* order, so what Flush takes from its front is the next frame to write;   *)
(* with rate control it is as long as the frame number says; and a task    *)
(* that has not completed is active, so that ~EncodeFrameProcessor, which  *)
(* waits for the active ones, leaves none.                                 *)
(* At the end, what those tasks compute with: decoding a symbol of the     *)
(* rANS coder undoes encoding it, for every coder and interval.            *)
(***************************************************************************)
EXTENDS PlainStreams, RansByte, TLAPS

Labels == {"open", "next", "retireFirst", "process", "retireThen", "limit", "flush", "write",
           "drain", "sendEnd", "flushEnd", "close", "freeProcessor", "freeOutput",
           "freeMedium", "joinSender", "freePool", "joinPool"} \cup Gone

\* The codec is at work: consume_frame, or the main thread after it.
Working == enc.at \in {"next", "retireFirst", "process", "retireThen", "limit", "flush",
                       "write", "drain", "sendEnd"}
FreedLabels == {"freeOutput", "freeMedium", "joinSender", "freePool", "joinPool", "returned"}
\* The labels behind ~EncodeFrameProcessor.
Freed == enc.at \in FreedLabels

Job == [frame : Nat]
Lag == Len(enc.pending)

KeptType == [frame : Nat, ok : BOOLEAN]
PoolType ==
  [tasks : Seq(Job), runs : [PoolThreads -> {Idle, Left} \cup Job], kept : SUBSET KeptType,
   stopping : BOOLEAN]

Typed ==
  /\ options \in [medium : {"file", "udp"}, prefetch : BOOLEAN, rate : BOOLEAN, frames : Nat]
  /\ enc \in [at : Labels, then : {"none", "retireFirst", "retireThen", "next", "drain"},
              frames : Nat, pending : Seq(Nat), closed : BOOLEAN,
              outcome : {"none", "ok", "failed"}]
  /\ written \in Seq(Int) /\ updated \in Seq(Nat) /\ solved \in Seq(Seq(Nat))
  /\ pool \in PoolType

\* Nothing has happened yet.
Fresh ==
  enc.at = "open" =>
    /\ enc.pending = <<>> /\ enc.frames = 0
    /\ written = <<>> /\ updated = <<>> /\ solved = <<>>
    /\ pool.tasks = <<>> /\ active = {} /\ ~pool.stopping
    /\ \A t \in PoolThreads : pool.runs[t] = Idle

\* pending_entropy holds the last frames handed out, oldest first, and the rate
\* controller and the medium have all the ones before.
Queued ==
  Working =>
    /\ Lag <= enc.frames /\ Len(solved) = enc.frames
    /\ \A i \in 1..Lag : enc.pending[i] = enc.frames - Lag + i - 1
    /\ Len(updated) = enc.frames - Lag /\ Len(written) = Len(updated) + 1
    /\ \A i \in 1..Len(updated) : updated[i] = i - 1

\* Where the thread is says what is pending, with rate control exactly.
Places ==
  /\ enc.at \in {"flush", "write"} => Lag > 0 /\ enc.then # "none"
  /\ enc.at = "sendEnd" => Lag = 0
  /\ options.rate =>
       /\ enc.at \in {"next", "retireFirst", "process"} =>
            Lag = IF enc.frames > 2 THEN 2 ELSE enc.frames
       /\ enc.at \in {"retireThen", "limit"} =>
            Lag = IF enc.frames > 3 THEN 3 ELSE enc.frames
       /\ enc.at \in {"flush", "write"} => enc.then \in {"next", "drain"}
       /\ enc.at \in {"flush", "write"} /\ enc.then = "next" => Lag = 3

\* What the medium took is the header and the frames in order, and the end behind
\* all of them.
InOrder ==
  \A i \in 1..Len(written) :
    \/ i = 1 /\ written[i] = Header
    \/ i > 1 /\ written[i] = i - 2
    \/ /\ i = Len(written) /\ i = enc.frames + 2 /\ written[i] = End
       /\ ~Working /\ enc.at # "open"

\* The third conjunct of EntropyJobsInOrder.
Known ==
  options.rate =>
    \A i \in DOMAIN solved : solved[i] = [j \in 1..(IF i > 3 THEN i - 3 ELSE 0) |-> j - 1]

\* A queued task is active, and no other one has its frame.
TasksActive ==
  /\ \A i \in 1..Len(pool.tasks) : pool.tasks[i].frame \in active
  /\ \A i, j \in 1..Len(pool.tasks) : i # j => pool.tasks[i].frame # pool.tasks[j].frame
  /\ \A t \in Running : \A i \in 1..Len(pool.tasks) : pool.runs[t].frame # pool.tasks[i].frame

\* The next frame's number is not in use.
NumbersFresh ==
  Working =>
    /\ \A i \in 1..Len(pool.tasks) : pool.tasks[i].frame < enc.frames
    /\ \A t \in Running : pool.runs[t].frame < enc.frames

\* The part of the invariant that the entropy threads do not touch, and the other.
Ordered == Fresh /\ Queued /\ Places /\ InOrder /\ Known
Tasks == TasksActive /\ NumbersFresh /\ (Freed => active = {})

EntropyInv == Typed /\ Ordered /\ Tasks
-----------------------------------------------------------------------------
(* Types.                                                                  *)

LEMMA PoolFields ==
  ASSUME pool \in PoolType
  PROVE  /\ pool.tasks \in Seq(Job) /\ pool.runs \in [PoolThreads -> {Idle, Left} \cup Job]
         /\ pool.kept \in SUBSET KeptType /\ pool.stopping \in BOOLEAN
         /\ Len(pool.tasks) \in Nat
         /\ \A i \in 1..Len(pool.tasks) : pool.tasks[i].frame \in Nat
<1>1. pool.tasks \in Seq(Job)
  BY DEF PoolType
<1>2. ASSUME NEW i \in 1..Len(pool.tasks)
      PROVE  pool.tasks[i].frame \in Nat
  <2>1. pool.tasks[i] \in Job
    BY <1>1
  <2> QED
    BY <2>1 DEF Job
<1> QED
  BY <1>1, <1>2 DEF PoolType

\* What the proofs below use of the types.
LEMMA Fields ==
  ASSUME Typed
  PROVE  /\ enc.frames \in Nat /\ enc.pending \in Seq(Nat) /\ Lag \in Nat
         /\ enc.at \in Labels /\ options.rate \in BOOLEAN
         /\ written \in Seq(Int) /\ Len(written) \in Nat
         /\ updated \in Seq(Nat) /\ Len(updated) \in Nat
         /\ solved \in Seq(Seq(Nat)) /\ Len(solved) \in Nat
BY DEF Typed, Lag

LEMMA TypedInit == Init => Typed
<1> SUFFICES ASSUME Init PROVE Typed
  OBVIOUS
<1> USE DEF Init, OutputInit
<1>1. options \in [medium : {"file", "udp"}, prefetch : BOOLEAN, rate : BOOLEAN, frames : Nat]
  BY OutputAssumption
<1>2. pool \in PoolType
  <2>1. <<>> \in Seq(Job) /\ {} \in SUBSET KeptType
    OBVIOUS
  <2>2. [t \in PoolThreads |-> Idle] \in [PoolThreads -> {Idle, Left} \cup Job]
    OBVIOUS
  <2> QED
    BY <2>1, <2>2 DEF PoolInit, PoolType
<1> QED
  BY <1>1, <1>2 DEF Typed, Labels

\* The operations on the pool.
LEMMA PoolTyped ==
  ASSUME pool \in PoolType,
         \/ \E j \in Job : PoolEnqueue(j)
         \/ \E t \in PoolThreads : TaskBegins(t) \/ TaskEnds(t) \/ TaskThreadLeaves(t)
         \/ PoolStop
         \/ UNCHANGED pool
  PROVE  pool' \in PoolType
<1> USE PoolFields
<1>1. ASSUME NEW j \in Job, PoolEnqueue(j)
      PROVE  pool' \in PoolType
  <2>1. Append(pool.tasks, j) \in Seq(Job)
    OBVIOUS
  <2>2. pool' = [pool EXCEPT !.tasks = Append(pool.tasks, j)]
    BY <1>1 DEF PoolEnqueue
  <2> QED
    BY <2>1, <2>2 DEF PoolType
<1>2. ASSUME NEW t \in PoolThreads, TaskBegins(t)
      PROVE  pool' \in PoolType
  <2>1. Tail(pool.tasks) \in Seq(Job) /\ Head(pool.tasks) \in Job
    <3>1. pool.tasks \in Seq(Job) /\ pool.tasks # <<>>
      BY <1>2 DEF TaskBegins
    <3> QED
      BY <3>1
  <2>2. [pool.runs EXCEPT ![t] = Head(pool.tasks)] \in [PoolThreads -> {Idle, Left} \cup Job]
    BY <2>1
  <2>3. pool' = [pool EXCEPT !.runs = [pool.runs EXCEPT ![t] = Head(pool.tasks)],
                             !.tasks = Tail(pool.tasks)]
    BY <1>2 DEF TaskBegins, PoolType
  <2> QED
    BY <2>1, <2>2, <2>3 DEF PoolType
<1>3. ASSUME NEW t \in PoolThreads, TaskEnds(t)
      PROVE  pool' \in PoolType
  <2>1. pool.runs[t] \in Job
    BY <1>3 DEF TaskEnds
  <2>2. pool.runs[t].frame \in Nat
    BY <2>1 DEF Job
  <2>3. PICK ok \in BOOLEAN :
          pool' = [pool EXCEPT !.runs[t] = Idle,
                               !.kept = @ \cup {[frame |-> pool.runs[t].frame, ok |-> ok]}]
    BY <1>3 DEF TaskEnds
  <2>4. pool.kept \cup {[frame |-> pool.runs[t].frame, ok |-> ok]} \in SUBSET KeptType
    BY <2>2 DEF KeptType
  <2>5. [pool.runs EXCEPT ![t] = Idle] \in [PoolThreads -> {Idle, Left} \cup Job]
    OBVIOUS
  <2> QED
    BY <2>3, <2>4, <2>5 DEF PoolType
<1>4. ASSUME NEW t \in PoolThreads, TaskThreadLeaves(t)
      PROVE  pool' \in PoolType
  <2>1. [pool.runs EXCEPT ![t] = Left] \in [PoolThreads -> {Idle, Left} \cup Job]
    OBVIOUS
  <2> QED
    BY <1>4, <2>1 DEF TaskThreadLeaves, PoolType
<1>5. CASE PoolStop
  BY <1>5 DEF PoolStop, PoolType
<1> QED
  BY <1>1, <1>2, <1>3, <1>4, <1>5

EncType ==
  [at : Labels, then : {"none", "retireFirst", "retireThen", "next", "drain"}, frames : Nat,
   pending : Seq(Nat), closed : BOOLEAN, outcome : {"none", "ok", "failed"}]

\* What an action of the encoder does to its own thread.
EncSteps ==
  \/ \E l \in Labels : EncGoto(l)
  \/ EncFails
  \/ enc.at = "write" /\ enc' = [enc EXCEPT !.at = enc.then, !.pending = Tail(@)]
  \/ \E l \in {"retireFirst", "retireThen", "next", "drain"} : FlushThen(l)
  \/ enc' = [enc EXCEPT !.at = "retireThen", !.frames = @ + 1, !.pending = Append(@, enc.frames)]
  \/ \E l \in Labels, c \in BOOLEAN, o \in {"none", "ok", "failed"} :
       enc' = [enc EXCEPT !.at = l, !.closed = c, !.outcome = o]

LEMMA EncTyped ==
  ASSUME enc \in EncType, EncSteps, Places
  PROVE  enc' \in EncType
<1>0. enc.pending \in Seq(Nat) /\ enc.frames \in Nat /\ enc.then \in
        {"none", "retireFirst", "retireThen", "next", "drain"}
  BY DEF EncType
<1>1. ASSUME NEW l \in Labels, EncGoto(l)
      PROVE  enc' \in EncType
  BY <1>1 DEF EncGoto, EncType
<1>2. CASE EncFails
  <2>1. <<>> \in Seq(Nat) /\ "freeProcessor" \in Labels
    BY DEF Labels
  <2> QED
    BY <1>2, <2>1 DEF EncFails, EncType
<1>3. CASE enc.at = "write" /\ enc' = [enc EXCEPT !.at = enc.then, !.pending = Tail(@)]
  <2>1. enc.then \in Labels /\ enc.pending # <<>>
    BY <1>0, <1>3 DEF Places, Labels, Lag
  <2>2. Tail(enc.pending) \in Seq(Nat)
    BY <1>0, <2>1
  <2> QED
    BY <1>3, <2>1, <2>2 DEF EncType
<1>4. ASSUME NEW l \in {"retireFirst", "retireThen", "next", "drain"}, FlushThen(l)
      PROVE  enc' \in EncType
  BY <1>4 DEF FlushThen, EncType, Labels
<1>5. CASE enc' = [enc EXCEPT !.at = "retireThen", !.frames = @ + 1,
                              !.pending = Append(@, enc.frames)]
  <2>1. Append(enc.pending, enc.frames) \in Seq(Nat) /\ enc.frames + 1 \in Nat
    BY <1>0
  <2> QED
    BY <1>5, <2>1 DEF EncType, Labels
<1>6. ASSUME NEW l \in Labels, NEW c \in BOOLEAN, NEW o \in {"none", "ok", "failed"},
             enc' = [enc EXCEPT !.at = l, !.closed = c, !.outcome = o]
      PROVE  enc' \in EncType
  BY <1>6 DEF EncType
<1> QED
  BY <1>1, <1>2, <1>3, <1>4, <1>5, <1>6 DEF EncSteps

\* What an action of the encoder does to the histories.
Writes == written' = written \/ \E m \in Int : written' = Append(written, m)
Updates ==
  \/ updated' = updated
  \/ enc.at = "write" /\ updated' = Append(updated, Head(enc.pending))
Solves == solved' = solved \/ solved' = Append(solved, updated)

LEMMA HistoriesTyped ==
  ASSUME Typed, Places, Writes, Updates, Solves
  PROVE  written' \in Seq(Int) /\ updated' \in Seq(Nat) /\ solved' \in Seq(Seq(Nat))
<1> USE Fields
<1>1. written' \in Seq(Int)
  <2>1. \A m \in Int : Append(written, m) \in Seq(Int)
    OBVIOUS
  <2> QED
    BY <2>1 DEF Writes
<1>2. updated' \in Seq(Nat)
  <2>1. enc.at = "write" => Head(enc.pending) \in Nat
    BY DEF Places, Lag
  <2>2. enc.at = "write" => Append(updated, Head(enc.pending)) \in Seq(Nat)
    BY <2>1
  <2> QED
    BY <2>2 DEF Updates
<1>3. solved' \in Seq(Seq(Nat))
  <2>1. Append(solved, updated) \in Seq(Seq(Nat))
    OBVIOUS
  <2> QED
    BY <2>1 DEF Solves
<1> QED
  BY <1>1, <1>2, <1>3

PoolSteps ==
  \/ \E j \in Job : PoolEnqueue(j)
  \/ \E t \in PoolThreads : TaskBegins(t) \/ TaskEnds(t) \/ TaskThreadLeaves(t)
  \/ PoolStop
  \/ UNCHANGED pool

\* An action is one of these for each part of the state.
Shape ==
  /\ EncSteps \/ UNCHANGED enc
  /\ Writes /\ Updates /\ Solves /\ PoolSteps /\ UNCHANGED options

LEMMA TypedByShape ==
  ASSUME Typed, Places, Shape
  PROVE  Typed'
<1>1. enc' \in EncType
  BY EncTyped DEF Shape, Typed, EncType
<1>2. pool' \in PoolType
  BY PoolTyped DEF Shape, PoolSteps, Typed
<1> QED
  BY <1>1, <1>2, HistoriesTyped DEF Shape, Typed, EncType

LEMMA EncoderShape ==
  ASSUME Typed, Places, Encoder
  PROVE  Shape
<1> USE DEF Shape
<1>0. /\ Quiet => Writes /\ Updates /\ Solves /\ PoolSteps /\ UNCHANGED options
      /\ NoTasks => PoolSteps
      /\ NoRate => Updates /\ Solves
      /\ UNCHANGED written => Writes
  <2>1. NoTasks => PoolSteps
    BY DEF NoTasks, PoolSteps
  <2>2. NoRate => Updates /\ Solves
    BY DEF NoRate, Updates, Solves
  <2>3. UNCHANGED written => Writes
    BY DEF Writes
  <2> QED
    BY <2>1, <2>2, <2>3 DEF Quiet
<1>a. \A l \in Labels : EncGoto(l) => EncSteps
  BY DEF EncSteps
<1>b. EncFails => EncSteps
  BY DEF EncSteps
<1>c. \A l \in {"retireFirst", "retireThen", "next", "drain"} : FlushThen(l) => EncSteps
  BY DEF EncSteps
<1>d. \A l \in Labels, c \in BOOLEAN, o \in {"none", "ok", "failed"} :
        enc' = [enc EXCEPT !.at = l, !.closed = c, !.outcome = o] => EncSteps
  BY DEF EncSteps
<1>e. \A m \in Int : WriteTo(m) => Writes
  BY DEF WriteTo, Writes
<1>f. Header \in Int /\ End \in Int
  BY DEF Header, End
<1>g. enc \in EncType
  BY DEF Typed, EncType
<1>h. enc.closed \in BOOLEAN /\ enc.outcome \in {"none", "ok", "failed"}
  BY <1>g DEF EncType
<1>1. CASE Opens
  <2>1. CASE WriteTo(Header) /\ EncGoto("next") /\ NoTasks /\ NoRate /\ UNCHANGED options
    BY <2>1, <1>0, <1>a, <1>e, <1>f DEF Labels
  <2>2. CASE /\ WriteToThrows
             /\ enc' = [enc EXCEPT !.at = IF ToFile THEN "freePool" ELSE "freeMedium",
                                   !.outcome = "failed"]
             /\ NoTasks /\ NoRate /\ UNCHANGED options
    <3>1. EncSteps
      <4>1. enc' = [enc EXCEPT !.at = IF ToFile THEN "freePool" ELSE "freeMedium",
                               !.closed = enc.closed, !.outcome = "failed"]
        BY <2>2, <1>g DEF EncType
      <4> QED
        BY <4>1, <1>d, <1>h DEF Labels
    <3> QED
      BY <2>2, <3>1, <1>0 DEF WriteToThrows
  <2> QED
    BY <1>1, <2>1, <2>2 DEF Opens
<1>2. CASE FlushGets
  BY <1>2, <1>0, <1>a, <1>b DEF FlushGets, Labels
<1>3. CASE FlushWrites
  <2>1. Head(enc.pending) \in Nat
    BY <1>3, Fields DEF FlushWrites, Places, Lag
  <2>2. EncSteps
    BY <1>3 DEF FlushWrites, EncSteps
  <2>3. Writes /\ Updates /\ Solves /\ PoolSteps /\ UNCHANGED options
    BY <1>3, <2>1, <1>0, <1>e DEF FlushWrites, Updates, Solves
  <2> QED
    BY <2>2, <2>3
<1>4. CASE FlushThrows
  BY <1>4, <1>0, <1>b DEF FlushThrows, WriteToThrows
<1>5. CASE Gets
  BY <1>5, <1>0, <1>a, <1>b DEF Gets, Labels
<1>6. CASE RetireReady
  <2>1. EncSteps
    BY <1>6, <1>a, <1>c DEF RetireReady, Labels
  <2> QED
    BY <1>6, <2>1, <1>0 DEF RetireReady
<1>7. CASE Process
  <2>1. [frame |-> enc.frames] \in Job
    BY Fields DEF Job
  <2>2. PoolSteps
    BY <1>7, <2>1 DEF Process, PoolSteps, NoTasks
  <2>3. EncSteps
    BY <1>7, <1>b DEF Process, EncSteps
  <2> QED
    <3>1. Writes /\ Updates /\ Solves /\ UNCHANGED options
      BY <1>7 DEF Process, Writes, Updates, Solves
    <3> QED
      BY <2>2, <2>3, <3>1
<1>8. CASE RetirePending
  BY <1>8, <1>0, <1>a, <1>c DEF RetirePending, Labels
<1>9. CASE Drains
  BY <1>9, <1>0, <1>a, <1>c DEF Drains, Labels
<1>10. CASE SendsEnd
  BY <1>10, <1>0, <1>a, <1>e, <1>f DEF SendsEnd, Labels
<1>11. CASE EndFlushed \/ EndThrows
  BY <1>11, <1>0, <1>a, <1>b DEF EndFlushed, EndThrows, Labels
<1>12. CASE Closes
  <2>1. EncSteps
    BY <1>12, <1>d DEF Closes, Labels
  <2> QED
    BY <1>12, <2>1, <1>0 DEF Closes
<1>13. CASE ProcessorFreed \/ SenderJoined
  BY <1>13, <1>0, <1>a DEF ProcessorFreed, SenderJoined, Labels
<1>14. CASE OutputFreed
  <2>1. enc' = [enc EXCEPT !.at = "freeMedium", !.closed = TRUE, !.outcome = enc.outcome]
    BY <1>14, <1>g DEF OutputFreed, EncType
  <2>2. EncSteps
    BY <2>1, <1>d, <1>h DEF Labels
  <2> QED
    BY <1>14, <2>2, <1>0 DEF OutputFreed
<1>15. CASE MediumFreed
  <2>1. EncSteps
    BY <1>15, <1>a DEF MediumFreed, Labels, Gone
  <2> QED
    BY <1>15, <2>1, <1>0 DEF MediumFreed
<1>16. CASE PoolFreed
  BY <1>16, <1>0, <1>a DEF PoolFreed, PoolSteps, Labels
<1>17. CASE Returns
  BY <1>17, <1>0, <1>a DEF Returns, Labels, Gone
<1> QED
  BY <1>1, <1>2, <1>3, <1>4, <1>5, <1>6, <1>7, <1>8, <1>9, <1>10, <1>11, <1>12, <1>13, <1>14,
     <1>15, <1>16, <1>17 DEF Encoder

\* The steps that leave the encoder's thread and its histories alone, and the kill.
Elsewhere == UNCHANGED <<options, enc, updated, solved, written>>

LEMMA OtherSteps ==
  ASSUME NEW t \in PoolThreads, PoolStep(t) \/ SenderStep \/ NetworkStep \/ ReceiverStep \/ Decoder
  PROVE  /\ Elsewhere /\ PoolSteps
         /\ PoolStep(t) \/ UNCHANGED <<pool, active>>
<1>1. CASE PoolStep(t)
  <2>1. PoolSteps
    BY <1>1 DEF PoolStep, EntropyThread, PoolSteps, TaskCompletes
  <2> QED
    BY <1>1, <2>1 DEF PoolStep, EntropyThread, Elsewhere, NoRate
<1>2. CASE SenderStep
  BY <1>2 DEF SenderStep, SenderThread, NoTasks, NoRate, Elsewhere, PoolSteps
<1>3. CASE NetworkStep \/ ReceiverStep
  BY <1>3 DEF NetworkStep, ReceiverStep, OtherSide, historyVars, Elsewhere, PoolSteps
<1>4. CASE Decoder
  <2>1. UNCHANGED <<pool, options, enc, active, updated, historyVars>>
    BY <1>4 DEF Decoder, Reads, Shuts, Leaves
  <2> QED
    BY <2>1 DEF historyVars, Elsewhere, PoolSteps
<1> QED
  BY <1>1, <1>2, <1>3, <1>4

LEMMA KilledStep ==
  ASSUME Typed, Killed
  PROVE  /\ enc' \in EncType /\ enc'.at = "crashed" /\ enc.at # "open"
         /\ enc'.frames = enc.frames
         /\ UNCHANGED <<options, updated, solved, written, pool, active>>
<1>1. enc \in EncType
  BY DEF Typed, EncType
<1>2. enc' = [enc EXCEPT !.at = "crashed", !.outcome = "failed"]
  BY DEF Killed, Crash
<1>3. enc.at # "open"
  BY DEF Killed, Crash
<1>4. enc' \in EncType /\ enc'.at = "crashed" /\ enc'.frames = enc.frames
  BY <1>1, <1>2 DEF EncType, Labels, Gone
<1> QED
  BY <1>3, <1>4 DEF Killed, Crash, NoTasks, NoRate

LEMMA TypedNext ==
  ASSUME Typed, Places, [Next]_vars
  PROVE  Typed'
<1>1. CASE EncoderStep
  BY <1>1, EncoderShape, TypedByShape DEF EncoderStep
<1>2. CASE Killed
  BY <1>2, KilledStep DEF Typed, EncType
<1>3. ASSUME Elsewhere, PoolSteps
      PROVE  Typed'
  <2>1. pool' \in PoolType
    BY <1>3, PoolTyped DEF PoolSteps, Typed
  <2> QED
    BY <1>3, <2>1 DEF Typed, Elsewhere
<1>4. ASSUME NEW t \in PoolThreads, PoolStep(t) \/ SenderStep \/ NetworkStep \/ ReceiverStep \/ Decoder
      PROVE  Typed'
  BY <1>3, <1>4, OtherSteps
<1>5. CASE UNCHANGED vars
  BY <1>3, <1>5 DEF vars, outputVars, historyVars, Elsewhere, PoolSteps
<1>6. \E t \in PoolThreads : TRUE
  BY PoolAssumption
<1> QED
  BY <1>1, <1>2, <1>4, <1>5, <1>6 DEF Next
-----------------------------------------------------------------------------
(* What the actions do to the fields of enc.                               *)

LEMMA Appended ==
  ASSUME NEW S, NEW q \in Seq(S), NEW e \in S
  PROVE  /\ Len(Append(q, e)) = Len(q) + 1
         /\ \A i \in 1..Len(q) : Append(q, e)[i] = q[i]
         /\ Append(q, e)[Len(q) + 1] = e
OBVIOUS

LEMMA BothOneMore ==
  ASSUME NEW a \in Int, NEW b \in Int
  PROVE  a - b = (a + 1) - (b + 1)
OBVIOUS

LEMMA UpTo ==
  ASSUME NEW n \in Nat, NEW i \in 1..n + 1
  PROVE  i \in 1..n \/ i = n + 1
OBVIOUS

LEMMA GotoFields ==
  ASSUME enc \in EncType, NEW l \in Labels, EncGoto(l)
  PROVE  /\ enc'.at = l /\ enc'.frames = enc.frames /\ enc'.pending = enc.pending
         /\ enc'.then = enc.then /\ Lag' = Lag
BY DEF EncGoto, EncType, Lag

LEMMA FailsFields ==
  ASSUME enc \in EncType, EncFails
  PROVE  /\ enc'.at = "freeProcessor" /\ enc'.frames = enc.frames
         /\ enc'.pending = <<>> /\ enc'.then = enc.then
BY DEF EncFails, EncType

LEMMA FlushFields ==
  ASSUME enc \in EncType, NEW l \in {"retireFirst", "retireThen", "next", "drain"}, FlushThen(l)
  PROVE  /\ enc'.at = "flush" /\ enc'.frames = enc.frames /\ enc'.pending = enc.pending
         /\ enc'.then = l /\ Lag' = Lag
BY DEF FlushThen, EncType, Lag

\* A frame is encoded no more: what was written and solved is as it was.
LEMMA StopsOrdered ==
  ASSUME Typed, Ordered, enc.at # "open", enc'.at \in Labels \ {"open"},
         ~Working', enc'.at \notin {"flush", "write", "sendEnd"},
         enc'.frames = enc.frames, UNCHANGED <<options, written, solved>>
  PROVE  Ordered'
<1>1. InOrder'
  BY DEF Ordered, InOrder
<1>2. Fresh' /\ Queued' /\ Known'
  BY DEF Fresh, Queued, Known, Ordered
<1>3. Places'
  BY DEF Places, Working
<1> QED
  BY <1>1, <1>2, <1>3 DEF Ordered

\* The thread goes on in the codec without writing.
LEMMA GoesOrdered ==
  ASSUME Typed, Ordered, Working, Working', enc'.at # "open", Places',
         enc'.frames = enc.frames, enc'.pending = enc.pending,
         UNCHANGED <<options, written, updated, solved>>
  PROVE  Ordered'
<1>1. Lag' = Lag
  BY DEF Lag
<1>2. InOrder'
  BY DEF Ordered, InOrder
<1>3. Fresh' /\ Known'
  BY DEF Fresh, Known, Ordered
<1>4. Queued'
  BY <1>1 DEF Queued, Ordered
<1> QED
  BY <1>2, <1>3, <1>4 DEF Ordered

LEMMA QuietOrdered ==
  ASSUME Typed, Ordered, Gets \/ RetireReady \/ RetirePending \/ Drains
  PROVE  Ordered'
<1> USE Fields
<1>0. enc \in EncType
  BY DEF Typed, EncType
<1>1. UNCHANGED <<options, written, updated, solved>> /\ Working /\ enc.at # "open"
  BY DEF Gets, RetireReady, RetirePending, Drains, Quiet, NoRate, Working
<1>2. ASSUME NEW l \in {"next", "retireFirst", "process", "retireThen", "limit", "drain", "sendEnd"},
             EncGoto(l),
             l = "sendEnd" => Lag = 0,
             options.rate =>
               /\ l \in {"next", "retireFirst", "process"} =>
                    Lag = IF enc.frames > 2 THEN 2 ELSE enc.frames
               /\ l \in {"retireThen", "limit"} =>
                    Lag = IF enc.frames > 3 THEN 3 ELSE enc.frames
      PROVE  Ordered'
  <2>1. l \in Labels
    BY DEF Labels
  <2>2. /\ enc'.at = l /\ enc'.frames = enc.frames /\ enc'.pending = enc.pending
        /\ enc'.then = enc.then /\ Lag' = Lag
    BY <1>0, <1>2, <2>1, GotoFields
  <2>3. Places'
    BY <1>1, <1>2, <2>2 DEF Places
  <2>4. Working' /\ enc'.at # "open"
    BY <2>2 DEF Working
  <2> QED
    BY <1>1, <2>2, <2>3, <2>4, GoesOrdered
<1>3. ASSUME NEW l \in {"retireFirst", "retireThen", "next", "drain"}, FlushThen(l), Lag > 0,
             options.rate => l \in {"next", "drain"} /\ (l = "next" => Lag = 3)
      PROVE  Ordered'
  <2>1. /\ enc'.at = "flush" /\ enc'.frames = enc.frames /\ enc'.pending = enc.pending
        /\ enc'.then = l /\ Lag' = Lag
    BY <1>0, <1>3, FlushFields
  <2>2. Places'
    BY <1>1, <1>3, <2>1 DEF Places
  <2>3. Working' /\ enc'.at # "open"
    BY <2>1 DEF Working
  <2> QED
    BY <1>1, <2>1, <2>2, <2>3, GoesOrdered
<1>4. CASE EncFails
  <2>1. /\ enc'.at = "freeProcessor" /\ enc'.frames = enc.frames
        /\ enc'.pending = <<>> /\ enc'.then = enc.then
    BY <1>0, <1>4, FailsFields
  <2>2. enc'.at \in Labels \ {"open"} /\ ~Working' /\ enc'.at \notin {"flush", "write", "sendEnd"}
    BY <2>1 DEF Labels, Working
  <2> QED
    BY <1>1, <2>1, <2>2, StopsOrdered
<1>5. Places
  BY DEF Ordered
<1>6. CASE Gets
  BY <1>2, <1>4, <1>5, <1>6 DEF Gets, Places
<1>7. enc.pending # <<>> => Lag > 0
  BY DEF Lag
<1>8. CASE RetireReady
  <2>1. CASE Retires
    <3>1. ~options.rate /\ Lag > 0
      BY <2>1, <1>7 DEF Retires
    <3>2. enc.at \in {"retireFirst", "retireThen"} /\ FlushThen(enc.at)
      BY <1>8, <2>1 DEF RetireReady
    <3> QED
      BY <1>3, <3>1, <3>2
  <2>2. CASE ~Retires /\ enc.at = "retireFirst"
    <3>1. EncGoto("process")
      BY <1>8, <2>2 DEF RetireReady
    <3> QED
      BY <1>2, <1>5, <2>2, <3>1 DEF Places
  <2>3. CASE ~Retires /\ enc.at = "retireThen"
    <3>1. EncGoto("limit")
      BY <1>8, <2>3 DEF RetireReady
    <3> QED
      BY <1>2, <1>5, <2>3, <3>1 DEF Places
  <2> QED
    BY <1>8, <2>1, <2>2, <2>3 DEF RetireReady
<1>9. CASE RetirePending
  <2>1. enc.at = "limit"
    BY <1>9 DEF RetirePending
  <2>2. CASE Lag > 2
    <3>1. FlushThen("next")
      BY <1>9, <2>2 DEF RetirePending, kMaxPendingEntropyJobs, Lag
    <3>2. options.rate => Lag = 3
      BY <1>5, <2>1, <2>2 DEF Places
    <3> QED
      BY <1>3, <2>2, <3>1, <3>2
  <2>3. CASE ~(Lag > 2)
    <3>1. EncGoto("next")
      BY <1>9, <2>3 DEF RetirePending, kMaxPendingEntropyJobs, Lag
    <3>2. options.rate => Lag = IF enc.frames > 2 THEN 2 ELSE enc.frames
      BY <1>5, <2>1, <2>3 DEF Places
    <3> QED
      BY <1>2, <3>1, <3>2
  <2> QED
    BY <2>2, <2>3
<1>10. CASE Drains
  <2>1. CASE enc.pending = <<>>
    <3>1. EncGoto("sendEnd") /\ Lag = 0
      BY <1>10, <2>1 DEF Drains, Lag
    <3> QED
      BY <1>2, <3>1
  <2>2. CASE enc.pending # <<>>
    <3>1. FlushThen("drain")
      BY <1>10, <2>2 DEF Drains
    <3> QED
      BY <1>3, <1>7, <2>2, <3>1
  <2> QED
    BY <2>1, <2>2
<1> QED
  BY <1>6, <1>8, <1>9, <1>10

LEMMA OpensOrdered ==
  ASSUME Typed, Ordered, Opens
  PROVE  Ordered'
<1> USE Fields
<1>0. enc \in EncType
  BY DEF Typed, EncType
<1>1. /\ enc.pending = <<>> /\ enc.frames = 0 /\ written = <<>> /\ updated = <<>>
      /\ solved = <<>> /\ UNCHANGED <<options, updated, solved>>
  BY DEF Opens, Ordered, Fresh, NoRate
<1>2. CASE WriteTo(Header) /\ EncGoto("next")
  <2>1. /\ enc'.at = "next" /\ enc'.frames = 0 /\ enc'.pending = <<>>
        /\ enc'.then = enc.then /\ Lag' = 0
    <3>1. "next" \in Labels /\ Lag = 0
      BY <1>1 DEF Labels, Lag
    <3> QED
      BY <1>0, <1>1, <1>2, <3>1, GotoFields
  <2>2. written' = <<Header>>
    BY <1>1, <1>2 DEF WriteTo
  <2>3. InOrder'
    BY <2>2 DEF InOrder
  <2>4. Queued' /\ Places'
    BY <1>1, <2>1, <2>2 DEF Queued, Places
  <2>5. Fresh' /\ Known'
    BY <1>1, <2>1 DEF Fresh, Known
  <2> QED
    BY <2>3, <2>4, <2>5 DEF Ordered
<1>3. CASE /\ WriteToThrows
           /\ enc' = [enc EXCEPT !.at = IF ToFile THEN "freePool" ELSE "freeMedium",
                                 !.outcome = "failed"]
  <2>1. enc'.at \in {"freePool", "freeMedium"} /\ enc'.frames = 0
    BY <1>0, <1>1, <1>3 DEF EncType
  <2>2. written' = <<>>
    BY <1>1, <1>3 DEF WriteToThrows
  <2>3. InOrder' /\ Fresh' /\ Queued' /\ Places' /\ Known'
    BY <1>1, <2>1, <2>2 DEF InOrder, Fresh, Queued, Working, Places, Known
  <2> QED
    BY <2>3 DEF Ordered
<1> QED
  BY <1>2, <1>3 DEF Opens

LEMMA FlushOrdered ==
  ASSUME Typed, Ordered, FlushGets \/ FlushWrites \/ FlushThrows
  PROVE  Ordered'
<1> USE Fields
<1>0. enc \in EncType
  BY DEF Typed, EncType
<1>1. Working /\ enc.at \in {"flush", "write"} /\ UNCHANGED options
  BY DEF FlushGets, FlushWrites, FlushThrows, Working
<1>2. Places /\ Queued /\ InOrder /\ Known
  BY DEF Ordered
<1>3. ASSUME EncFails, UNCHANGED <<written, solved>>
      PROVE  Ordered'
  <2>1. /\ enc'.at = "freeProcessor" /\ enc'.frames = enc.frames
        /\ enc'.pending = <<>> /\ enc'.then = enc.then
    BY <1>0, <1>3, FailsFields
  <2>2. enc'.at \in Labels \ {"open"} /\ ~Working' /\ enc'.at \notin {"flush", "write", "sendEnd"}
    BY <2>1 DEF Labels, Working
  <2> QED
    BY <1>1, <1>3, <2>1, <2>2, StopsOrdered
<1>4. ASSUME EncGoto("write"), UNCHANGED <<written, updated, solved>>
      PROVE  Ordered'
  <2>1. /\ enc'.at = "write" /\ enc'.frames = enc.frames /\ enc'.pending = enc.pending
        /\ enc'.then = enc.then /\ Lag' = Lag
    <3>1. "write" \in Labels
      BY DEF Labels
    <3> QED
      BY <1>0, <1>4, <3>1, GotoFields
  <2>2. Places'
    BY <1>1, <1>2, <2>1 DEF Places
  <2>3. Working' /\ enc'.at # "open" /\ enc.at # "open"
    BY <1>1, <2>1 DEF Working
  <2> QED
    BY <1>1, <1>4, <2>1, <2>2, <2>3, GoesOrdered
<1>5. CASE FlushWrites
  <2>1. Lag > 0 /\ enc.at = "write" /\ enc.then \in {"retireFirst", "retireThen", "next", "drain"}
    BY <1>0, <1>2, <1>5 DEF FlushWrites, Places, EncType
  <2>6. /\ Len(updated) = enc.frames - Lag /\ Len(written) = Len(updated) + 1
        /\ Len(solved) = enc.frames /\ Lag <= enc.frames
        /\ \A i \in 1..Len(updated) : updated[i] = i - 1
        /\ \A i \in 1..Lag : enc.pending[i] = enc.frames - Lag + i - 1
    BY <1>1, <1>2 DEF Queued
  <2>2. Head(enc.pending) = enc.frames - Lag
    <3>1. Head(enc.pending) = enc.pending[1]
      BY <2>1 DEF Lag
    <3> QED
      <4>1. 1 \in 1..Lag
        BY <2>1
      <4>2. enc.pending[1] = enc.frames - Lag + 1 - 1
        BY <2>6, <4>1
      <4> QED
        BY <3>1, <4>2
  <2>3. /\ enc'.at = enc.then /\ enc'.frames = enc.frames /\ enc'.then = enc.then
        /\ enc'.pending = Tail(enc.pending)
    BY <1>0, <1>5 DEF FlushWrites, EncType
  <2>4. /\ Lag' = Lag - 1
        /\ \A i \in 1..Lag - 1 : enc'.pending[i] = enc.pending[i + 1]
    BY <2>1, <2>3 DEF Lag
  <2>5. /\ written' = Append(written, Head(enc.pending))
        /\ updated' = Append(updated, Head(enc.pending)) /\ solved' = solved
    BY <1>5 DEF FlushWrites, WriteTo
  <2>7. InOrder'
    <3>1. /\ Len(written') = Len(written) + 1
          /\ \A i \in 1..Len(written) : written'[i] = written[i]
          /\ written'[Len(written) + 1] = Len(written) - 1
      <4>1. Head(enc.pending) \in Int /\ Head(enc.pending) = Len(written) - 1
        BY <2>2, <2>6
      <4> HIDE Fields
      <4>2. written \in Seq(Int)
        BY Fields
      <4> QED
        BY <2>5, <4>1, <4>2, Appended
    <3>2. \A i \in 1..Len(written) :
            \/ i = 1 /\ written[i] = Header
            \/ i > 1 /\ written[i] = i - 2
      BY <1>1, <1>2 DEF InOrder
    <3>3. Len(written) >= 1
      BY <2>6
    <3>4. \A i \in 1..Len(written) + 1 :
            \/ i = 1 /\ written'[i] = Header
            \/ i > 1 /\ written'[i] = i - 2
      <4> TAKE i \in 1..Len(written) + 1
      <4>1. CASE i \in 1..Len(written)
        BY <3>1, <3>2, <4>1
      <4>2. CASE i = Len(written) + 1
        <5>1. written'[i] = Len(written) - 1
          BY <3>1, <4>2
        <5> QED
          BY <3>3, <4>2, <5>1
      <4> QED
        BY <4>1, <4>2
    <3> QED
      BY <3>1, <3>4 DEF InOrder
  <2>8. Queued'
    <3>1. /\ Len(updated') = Len(updated) + 1 /\ Len(written') = Len(written) + 1
          /\ \A i \in 1..Len(updated) + 1 : updated'[i] = i - 1
      <4>1. /\ Len(updated') = Len(updated) + 1 /\ Len(written') = Len(written) + 1
            /\ \A i \in 1..Len(updated) : updated'[i] = updated[i]
            /\ updated'[Len(updated) + 1] = Len(updated)
        BY <2>2, <2>5, <2>6
      <4>2. ASSUME NEW i \in 1..Len(updated) + 1
            PROVE  updated'[i] = i - 1
        <5>1. CASE i \in 1..Len(updated)
          BY <2>6, <4>1, <5>1
        <5>2. CASE i = Len(updated) + 1
          BY <4>1, <5>2
        <5>3. PICK n \in Nat : n = Len(updated)
          OBVIOUS
        <5>4. i \in 1..n \/ i = n + 1
          BY <5>3, UpTo
        <5> QED
          BY <5>1, <5>2, <5>3, <5>4
      <4> QED
        BY <4>1, <4>2
    <3>2. \A i \in 1..Lag' : enc'.pending[i] = enc.frames - Lag' + i - 1
      <4> TAKE i \in 1..Lag'
      <4>1. i \in 1..Lag - 1 /\ i + 1 \in 1..Lag
        BY <2>4
      <4>2. enc'.pending[i] = enc.pending[i + 1]
        BY <2>4, <4>1
      <4>3. enc.pending[i + 1] = enc.frames - Lag + (i + 1) - 1
        BY <2>6, <4>1
      <4>4. Lag' = Lag - 1 /\ Lag \in Int /\ enc.frames \in Int /\ i \in Int
        BY <2>4
      <4>5. enc.frames - Lag + (i + 1) - 1 = enc.frames - (Lag - 1) + i - 1
        BY <4>4
      <4>6. enc'.pending[i] = enc.frames - (Lag - 1) + i - 1
        BY <4>2, <4>3, <4>5
      <4> HIDE Fields
      <4>7. enc.frames - Lag' + i - 1 = enc.frames - (Lag - 1) + i - 1
        BY <4>4
      <4> QED
        BY <4>6, <4>7, Zenon
    <3>3. /\ Lag' <= enc'.frames /\ Len(solved') = enc'.frames
          /\ Len(updated') = enc'.frames - Lag' /\ Len(written') = Len(updated') + 1
      <4>1. Len(solved') = Len(solved) /\ enc'.frames = enc.frames
        BY <2>3, <2>5
      <4>2. Lag \in Nat /\ enc.frames \in Nat /\ Len(updated) \in Nat
        OBVIOUS
      <4> HIDE Fields
      <4>3. Lag' <= enc.frames /\ Len(updated) + 1 = enc.frames - Lag'
        BY <2>4, <2>6, <4>2
      <4>4. Len(updated') = Len(updated) + 1 /\ Len(written') = Len(updated) + 2
        BY <2>6, <3>1, <4>2
      <4> QED
        BY <2>6, <4>1, <4>2, <4>3, <4>4
    <3>4. \A i \in 1..Len(updated') : updated'[i] = i - 1
      BY <3>1
    <3> QED
      BY <2>3, <3>2, <3>3, <3>4 DEF Queued
  <2>9. Places'
    <3>1. enc'.at \in {"retireFirst", "retireThen", "next", "drain"} /\ enc'.at = enc.then
      BY <2>1, <2>3
    <3>2. options.rate =>
            enc'.at \in {"next", "drain"} /\ (enc'.at = "next" => Lag' = 2 /\ enc'.frames > 2)
      <4>1. options.rate => enc.then \in {"next", "drain"} /\ (enc.then = "next" => Lag = 3)
        BY <1>2, <2>1 DEF Places
      <4> QED
        BY <2>3, <2>4, <2>6, <4>1
    <3> QED
      BY <1>1, <3>1, <3>2 DEF Places
  <2>10. Fresh' /\ Known'
    BY <1>1, <1>2, <2>1, <2>3, <2>5 DEF Fresh, Known
  <2> QED
    BY <2>7, <2>8, <2>9, <2>10 DEF Ordered
<1>6. CASE FlushGets
  BY <1>3, <1>4, <1>6 DEF FlushGets, NoRate
<1>7. CASE FlushThrows
  BY <1>3, <1>7 DEF FlushThrows, WriteToThrows, NoRate
<1> QED
  BY <1>5, <1>6, <1>7

\* The rate controller decides on frame n with the frames up to n - 3.
LEMMA ProcessOrdered ==
  ASSUME Typed, Ordered, Process
  PROVE  Ordered'
<1> USE Fields
<1>0. enc \in EncType
  BY DEF Typed, EncType
<1>1. /\ enc.at = "process" /\ Working /\ solved' = Append(solved, updated)
      /\ UNCHANGED <<options, updated, written>>
  BY DEF Process, Working
<1>2. Places /\ Queued /\ InOrder /\ Known
  BY DEF Ordered
<1>3. /\ Len(updated) = enc.frames - Lag /\ Len(written) = Len(updated) + 1
      /\ Len(solved) = enc.frames /\ Lag <= enc.frames
      /\ \A i \in 1..Len(updated) : updated[i] = i - 1
      /\ \A i \in 1..Lag : enc.pending[i] = enc.frames - Lag + i - 1
  BY <1>1, <1>2 DEF Queued
<1>4. Known'
  <2> SUFFICES ASSUME options.rate
               PROVE  \A i \in DOMAIN solved' :
                        solved'[i] = [j \in 1..(IF i > 3 THEN i - 3 ELSE 0) |-> j - 1]
    BY <1>1 DEF Known
  <2> TAKE i \in DOMAIN solved'
  <2>1. /\ DOMAIN solved' = 1..Len(solved) + 1
        /\ \A k \in 1..Len(solved) : solved'[k] = solved[k]
        /\ solved'[Len(solved) + 1] = updated
    BY <1>1
  <2>2. CASE i \in 1..Len(solved)
    <3>1. i \in DOMAIN solved
      BY <2>2
    <3>2. solved[i] = [j \in 1..(IF i > 3 THEN i - 3 ELSE 0) |-> j - 1]
      BY <1>2, <3>1 DEF Known
    <3> QED
      BY <2>1, <2>2, <3>2
  <2>3. CASE i = Len(solved) + 1
    <3>1. Lag = IF enc.frames > 2 THEN 2 ELSE enc.frames
      BY <1>1, <1>2 DEF Places
    <3>2. Len(updated) = IF i > 3 THEN i - 3 ELSE 0
      BY <1>3, <2>3, <3>1
    <3>3. updated = [j \in 1..Len(updated) |-> updated[j]]
      OBVIOUS
    <3>4. updated = [j \in 1..Len(updated) |-> j - 1]
      BY <1>3, <3>3
    <3>5. solved'[i] = updated
      BY <2>1, <2>3
    <3> QED
      BY <3>2, <3>4, <3>5
  <2>4. i \in 1..Len(solved) \/ i = Len(solved) + 1
    <3>1. i \in 1..Len(solved) + 1 /\ Len(solved) \in Nat
      BY <2>1
    <3> HIDE Fields
    <3> QED
      BY <3>1, UpTo
  <2> QED
    BY <2>2, <2>3, <2>4
<1>5. CASE EncFails
  <2>1. /\ enc'.at = "freeProcessor" /\ enc'.frames = enc.frames
        /\ enc'.pending = <<>> /\ enc'.then = enc.then
    BY <1>0, <1>5, FailsFields
  <2>2. Fresh' /\ Queued' /\ Places'
    BY <2>1 DEF Fresh, Queued, Working, Places
  <2>3. InOrder'
    BY <1>1, <1>2, <2>1 DEF InOrder, Working
  <2> QED
    BY <1>4, <2>2, <2>3 DEF Ordered
<1>6. CASE enc' = [enc EXCEPT !.at = "retireThen", !.frames = @ + 1,
                              !.pending = Append(@, enc.frames)]
  <2>1. /\ enc'.at = "retireThen" /\ enc'.frames = enc.frames + 1
        /\ enc'.pending = Append(enc.pending, enc.frames)
    BY <1>0, <1>6 DEF EncType
  <2>2. /\ Lag' = Lag + 1
        /\ \A i \in 1..Lag : enc'.pending[i] = enc.pending[i]
        /\ enc'.pending[Lag + 1] = enc.frames
    BY <2>1 DEF Lag
  <2>3. InOrder'
    <3>1. \A i \in 1..Len(written) :
            \/ i = 1 /\ written[i] = Header
            \/ i > 1 /\ written[i] = i - 2
      BY <1>1, <1>2 DEF InOrder
    <3> QED
      BY <1>1, <3>1 DEF InOrder
  <2>4. Queued'
    <3>1. Len(solved') = enc.frames + 1
      BY <1>1, <1>3
    <3>2. \A i \in 1..Lag' : enc'.pending[i] = enc'.frames - Lag' + i - 1
      <4> TAKE i \in 1..Lag'
      <4>1. enc'.frames - Lag' = enc.frames - Lag
        <5>1. enc.frames \in Int /\ Lag \in Int
          OBVIOUS
        <5> HIDE Fields
        <5> QED
          BY <2>1, <2>2, <5>1
      <4>2. i \in 1..Lag \/ i = Lag + 1
        BY <2>2
      <4>3. CASE i \in 1..Lag
        BY <1>3, <2>2, <4>1, <4>3
      <4>4. CASE i = Lag + 1
        BY <2>2, <4>1, <4>4
      <4> QED
        BY <4>2, <4>3, <4>4
    <3>3. /\ Lag' <= enc'.frames /\ Len(solved') = enc'.frames
          /\ Len(updated') = enc'.frames - Lag' /\ Len(written') = Len(updated') + 1
      <4>1. Lag' <= enc'.frames /\ Len(solved') = enc'.frames
        BY <1>3, <2>1, <2>2, <3>1
      <4>2. enc.frames - Lag = (enc.frames + 1) - (Lag + 1)
        <5>1. enc.frames \in Int /\ Lag \in Int
          OBVIOUS
        <5> HIDE Fields
        <5> QED
          BY <5>1, BothOneMore
      <4>3. Len(updated') = enc'.frames - Lag' /\ Len(written') = Len(updated') + 1
        BY <1>1, <1>3, <2>1, <2>2, <4>2
      <4> QED
        BY <4>1, <4>3
    <3> QED
      BY <1>1, <1>3, <3>2, <3>3 DEF Queued
  <2>5. Places'
    <3>1. options.rate => Lag' = IF enc'.frames > 3 THEN 3 ELSE enc'.frames
      BY <1>1, <1>2, <2>1, <2>2 DEF Places
    <3> QED
      BY <1>1, <2>1, <3>1 DEF Places
  <2>6. Fresh'
    BY <2>1 DEF Fresh
  <2> QED
    BY <1>4, <2>3, <2>4, <2>5, <2>6 DEF Ordered
<1> QED
  BY <1>5, <1>6 DEF Process

LEMMA EndOrdered ==
  ASSUME Typed, Ordered, SendsEnd
  PROVE  Ordered'
<1> USE Fields
<1>0. enc \in EncType
  BY DEF Typed, EncType
<1>1. /\ enc.at = "sendEnd" /\ Working /\ Lag = 0
      /\ UNCHANGED <<options, updated, solved>>
  BY DEF SendsEnd, Working, Ordered, Places, NoRate
<1>2. CASE ToFile /\ EncGoto("close") /\ UNCHANGED written
  <2>1. /\ enc'.at = "close" /\ enc'.frames = enc.frames
    BY <1>0, <1>2, GotoFields DEF Labels
  <2>2. enc'.at \in Labels \ {"open"} /\ ~Working' /\ enc'.at \notin {"flush", "write", "sendEnd"}
    BY <2>1 DEF Labels, Working
  <2> QED
    BY <1>1, <1>2, <2>1, <2>2, StopsOrdered
<1>3. CASE WriteTo(End) /\ EncGoto("flushEnd")
  <2>1. enc'.at = "flushEnd" /\ enc'.frames = enc.frames
    BY <1>0, <1>3, GotoFields DEF Labels
  <2>2. written' = Append(written, End)
    BY <1>3 DEF WriteTo
  <2>3. Len(written) = enc.frames + 1
    BY <1>1 DEF Ordered, Queued
  <2>4. InOrder'
    <3>1. \A i \in 1..Len(written) :
            \/ i = 1 /\ written[i] = Header
            \/ i > 1 /\ written[i] = i - 2
      BY <1>1 DEF Ordered, InOrder
    <3>2. /\ Len(written') = enc.frames + 2
          /\ \A i \in 1..enc.frames + 1 : written'[i] = written[i]
          /\ written'[enc.frames + 2] = End
      BY <2>2, <2>3
    <3>3. ~Working' /\ enc'.at # "open"
      BY <2>1 DEF Working
    <3>4. \A i \in 1..enc.frames + 1 :
            \/ i = 1 /\ written'[i] = Header
            \/ i > 1 /\ written'[i] = i - 2
      BY <2>3, <3>1, <3>2
    <3> QED
      BY <2>1, <3>2, <3>3, <3>4 DEF InOrder
  <2>5. Fresh' /\ Queued' /\ Places' /\ Known'
    BY <1>1, <2>1 DEF Fresh, Queued, Working, Places, Ordered, Known
  <2> QED
    BY <2>4, <2>5 DEF Ordered
<1> QED
  BY <1>2, <1>3 DEF SendsEnd

\* From there on nothing is written.
LEMMA CloseOrdered ==
  ASSUME Typed, Ordered,
         \/ EndFlushed \/ EndThrows \/ Closes \/ ProcessorFreed \/ OutputFreed \/ MediumFreed
         \/ SenderJoined \/ PoolFreed \/ Returns
  PROVE  Ordered'
<1>0. enc \in EncType
  BY DEF Typed, EncType
<1>1. enc.at # "open" /\ UNCHANGED <<options, written, solved>>
  BY DEF EndFlushed, EndThrows, Closes, ProcessorFreed, OutputFreed, MediumFreed, SenderJoined,
         PoolFreed, Returns, Quiet, NoRate
<1>2. /\ enc'.frames = enc.frames
      /\ enc'.at \in {"close", "freeProcessor", "freeOutput", "freeMedium", "aborted", "freePool",
                      "joinSender", "joinPool", "returned"}
  <2>1. ASSUME NEW l \in {"close", "freeProcessor", "freeOutput", "freeMedium", "aborted",
                          "freePool", "joinSender", "joinPool", "returned"},
               EncGoto(l)
        PROVE  enc'.frames = enc.frames /\ enc'.at = l
    BY <1>0, <2>1 DEF EncGoto, EncType
  <2>2. CASE EndFlushed \/ ProcessorFreed \/ MediumFreed \/ SenderJoined \/ PoolFreed \/ Returns
    BY <2>1, <2>2 DEF EndFlushed, ProcessorFreed, MediumFreed, SenderJoined, PoolFreed, Returns
  <2>3. CASE EndThrows
    BY <1>0, <2>3, FailsFields DEF EndThrows
  <2>4. CASE Closes
    BY <1>0, <2>4 DEF Closes, EncType
  <2>5. CASE OutputFreed
    BY <1>0, <2>5 DEF OutputFreed, EncType
  <2> QED
    BY <2>2, <2>3, <2>4, <2>5
<1>3. enc'.at \in Labels \ {"open"} /\ ~Working' /\ enc'.at \notin {"flush", "write", "sendEnd"}
  BY <1>2 DEF Labels, Working, Gone
<1> QED
  BY <1>1, <1>2, <1>3, StopsOrdered

LEMMA OrderedInit == Init => Ordered
<1> SUFFICES ASSUME Init PROVE Ordered
  OBVIOUS
<1> USE DEF Init, OutputInit, PoolInit
<1>1. Fresh
  BY DEF Fresh
<1>2. Queued /\ Places
  BY DEF Queued, Working, Places
<1>3. InOrder /\ Known
  BY DEF InOrder, Known
<1> QED
  BY <1>1, <1>2, <1>3 DEF Ordered

\* Elsewhere the pool may have changed, which Fresh speaks of; the pool's steps
\* are possible only with a task.
LEMMA OrderedNext ==
  ASSUME Typed, Ordered, [Next]_vars
  PROVE  Ordered'
<1>1. CASE EncoderStep
  <2>1. CASE Gets \/ RetireReady \/ RetirePending \/ Drains
    BY <2>1, QuietOrdered
  <2>2. CASE FlushGets \/ FlushWrites \/ FlushThrows
    BY <2>2, FlushOrdered
  <2>3. CASE Opens \/ Process \/ SendsEnd
    BY <2>3, OpensOrdered, ProcessOrdered, EndOrdered
  <2>4. CASE \/ EndFlushed \/ EndThrows \/ Closes \/ ProcessorFreed \/ OutputFreed \/ MediumFreed
             \/ SenderJoined \/ PoolFreed \/ Returns
    BY <2>4, CloseOrdered
  <2> QED
    BY <1>1, <2>1, <2>2, <2>3, <2>4 DEF EncoderStep, Encoder
<1>2. CASE Killed
  <2>1. enc'.at = "crashed" /\ enc.at # "open" /\ enc'.frames = enc.frames
    BY <1>2, KilledStep
  <2>2. enc'.at \in Labels \ {"open"} /\ ~Working' /\ enc'.at \notin {"flush", "write", "sendEnd"}
    BY <2>1 DEF Labels, Gone, Working
  <2> QED
    BY <1>2, <2>1, <2>2, KilledStep, StopsOrdered
<1>3. ASSUME Elsewhere, enc.at = "open" => UNCHANGED <<pool, active>>
      PROVE  Ordered'
  <2>1. Fresh'
    BY <1>3 DEF Elsewhere, Fresh, Ordered
  <2>2. Queued' /\ Places' /\ InOrder' /\ Known'
    BY <1>3 DEF Elsewhere, Queued, Places, InOrder, Known, Working, Lag, Ordered
  <2> QED
    BY <2>1, <2>2 DEF Ordered
<1>4. ASSUME NEW t \in PoolThreads, PoolStep(t) \/ SenderStep \/ NetworkStep \/ ReceiverStep \/ Decoder
      PROVE  Ordered'
  <2>1. Elsewhere /\ (PoolStep(t) \/ UNCHANGED <<pool, active>>)
    BY <1>4, OtherSteps
  <2>2. enc.at = "open" /\ PoolStep(t) => FALSE
    <3> SUFFICES ASSUME enc.at = "open", PoolStep(t) PROVE FALSE
      OBVIOUS
    <3>1. enc.at = "open"
      OBVIOUS
    <3>2. pool.tasks = <<>> /\ pool.runs[t] = Idle
      BY <3>1 DEF Ordered, Fresh
    <3>3. t \notin Running
      BY <3>2 DEF Running
    <3>4. ~pool.stopping
      BY DEF Ordered, Fresh
    <3> QED
      BY <3>2, <3>3, <3>4 DEF PoolStep, EntropyThread, TaskCompletes, TaskBegins, TaskThreadLeaves
  <2> QED
    BY <1>3, <2>1, <2>2
<1>5. CASE UNCHANGED vars
  BY <1>3, <1>5 DEF vars, outputVars, historyVars, Elsewhere
<1>6. \E t \in PoolThreads : TRUE
  BY PoolAssumption
<1> QED
  BY <1>1, <1>2, <1>4, <1>5, <1>6 DEF Next
-----------------------------------------------------------------------------
(* The entropy tasks.                                                      *)

\* The actions of the encoder that hand out no task.
LEMMA EncoderKeeps ==
  ASSUME Typed, Ordered, Encoder, ~Process
  PROVE  /\ pool'.tasks = pool.tasks /\ pool'.runs = pool.runs /\ active' = active
         /\ Working' => enc'.frames = enc.frames /\ (Working \/ enc.at = "open")
         /\ Freed' => Freed \/ active = {}
<1>0. enc \in EncType
  BY DEF Typed, EncType
<1>1. ASSUME NEW l \in Labels, EncGoto(l)
      PROVE  enc'.at = l /\ enc'.frames = enc.frames
  BY <1>0, <1>1, GotoFields
<1>2. ASSUME EncFails
      PROVE  ~Working' /\ ~Freed'
  BY <1>0, <1>2, FailsFields DEF Working, Freed, FreedLabels
<1>3. NoTasks =>
        pool'.tasks = pool.tasks /\ pool'.runs = pool.runs /\ active' = active
  BY DEF NoTasks
<1>4. CASE Opens
  <2>1. active = {} /\ enc.at = "open"
    BY <1>4 DEF Ordered, Fresh, Opens
  <2>2. Working' => enc'.frames = enc.frames
    <3>1. CASE EncGoto("next")
      BY <1>1, <3>1 DEF Labels
    <3>2. CASE enc' = [enc EXCEPT !.at = IF ToFile THEN "freePool" ELSE "freeMedium",
                                  !.outcome = "failed"]
      BY <1>0, <3>2 DEF EncType
    <3> QED
      BY <1>4, <3>1, <3>2 DEF Opens
  <2> QED
    BY <1>3, <1>4, <2>1, <2>2 DEF Opens
<1>5. CASE Gets \/ RetireReady \/ RetirePending \/ Drains
  <2>1. Working /\ NoTasks
    BY <1>5 DEF Gets, RetireReady, RetirePending, Drains, Quiet, Working
  <2>2. ASSUME NEW l \in {"retireFirst", "retireThen", "next", "drain"}, FlushThen(l)
        PROVE  enc'.at = "flush" /\ enc'.frames = enc.frames
    BY <1>0, <2>2, FlushFields
  <2>3. \/ \E l \in {"retireFirst", "process", "limit", "next", "drain", "sendEnd"} : EncGoto(l)
        \/ \E l \in {"retireFirst", "retireThen", "next", "drain"} : FlushThen(l)
        \/ EncFails
    <3>1. CASE Gets
      BY <3>1 DEF Gets
    <3>2. CASE RetireReady
      BY <3>2 DEF RetireReady
    <3>3. CASE RetirePending
      BY <3>3 DEF RetirePending
    <3>4. CASE Drains
      BY <3>4 DEF Drains
    <3> QED
      BY <1>5, <3>1, <3>2, <3>3, <3>4
  <2>4. CASE EncFails
    BY <1>2, <1>3, <2>1, <2>4
  <2>5. CASE \E l \in {"retireFirst", "process", "limit", "next", "drain", "sendEnd"} : EncGoto(l)
    <3>1. /\ enc'.frames = enc.frames
          /\ enc'.at \in {"retireFirst", "process", "limit", "next", "drain", "sendEnd"}
      BY <1>1, <2>5 DEF Labels
    <3>2. ~Freed'
      BY <3>1 DEF Freed, FreedLabels
    <3> QED
      BY <1>3, <2>1, <3>1, <3>2
  <2>6. CASE \E l \in {"retireFirst", "retireThen", "next", "drain"} : FlushThen(l)
    <3>1. enc'.frames = enc.frames /\ enc'.at = "flush"
      BY <2>2, <2>6
    <3>2. ~Freed'
      BY <3>1 DEF Freed, FreedLabels
    <3> QED
      BY <1>3, <2>1, <3>1, <3>2
  <2> QED
    BY <2>3, <2>4, <2>5, <2>6
<1>6. CASE FlushGets \/ FlushWrites \/ FlushThrows \/ SendsEnd
  <2>1. Working /\ NoTasks
    BY <1>6 DEF FlushGets, FlushWrites, FlushThrows, SendsEnd, Working
  <2>2. CASE FlushWrites
    <3>1. enc'.frames = enc.frames /\ enc'.at = enc.then
      BY <1>0, <2>2 DEF FlushWrites, EncType
    <3>2. ~Freed'
      BY <1>0, <3>1 DEF Freed, FreedLabels, EncType
    <3> QED
      BY <1>3, <2>1, <3>1, <3>2
  <2>3. CASE EncFails
    BY <1>2, <1>3, <2>1, <2>3
  <2>4. CASE EncGoto("write") \/ EncGoto("close") \/ EncGoto("flushEnd")
    <3>1. enc'.frames = enc.frames /\ enc'.at \in {"write", "close", "flushEnd"}
      BY <1>1, <2>4 DEF Labels
    <3>2. ~Freed'
      BY <3>1 DEF Freed, FreedLabels
    <3> QED
      BY <1>3, <2>1, <3>1, <3>2
  <2> QED
    BY <1>6, <2>2, <2>3, <2>4 DEF FlushGets, FlushThrows, SendsEnd
<1>7. CASE EndFlushed \/ EndThrows \/ Closes
  <2>1. NoTasks
    BY <1>7 DEF EndFlushed, EndThrows, Closes, Quiet
  <2>2. enc'.at \in {"close", "freeProcessor"}
    BY <1>0, <1>1, <1>7, FailsFields DEF EndFlushed, EndThrows, Closes, EncType, Labels
  <2>3. ~Working' /\ ~Freed'
    BY <2>2 DEF Working, Freed, FreedLabels
  <2> QED
    BY <1>3, <2>1, <2>3
<1>8. CASE ProcessorFreed
  <2>1. active = {} /\ NoTasks /\ enc'.at = "freeOutput"
    BY <1>1, <1>8 DEF ProcessorFreed, Quiet, Labels
  <2>2. ~Working'
    BY <2>1 DEF Working
  <2> QED
    BY <1>3, <2>1, <2>2
<1>9. CASE OutputFreed \/ MediumFreed \/ SenderJoined \/ PoolFreed \/ Returns
  <2>1. pool'.tasks = pool.tasks /\ pool'.runs = pool.runs /\ active' = active
    <3>1. CASE PoolFreed
      <4>1. pool \in PoolType /\ pool' = [pool EXCEPT !.stopping = TRUE] /\ active' = active
        BY <3>1 DEF PoolFreed, PoolStop, Typed
      <4> QED
        BY <4>1 DEF PoolType
    <3>2. CASE OutputFreed \/ MediumFreed \/ SenderJoined \/ Returns
      BY <1>3, <3>2 DEF OutputFreed, MediumFreed, SenderJoined, Returns, Quiet
    <3> QED
      BY <1>9, <3>1, <3>2
  <2>2. Freed
    BY <1>9 DEF OutputFreed, MediumFreed, SenderJoined, PoolFreed, Returns, Freed, FreedLabels
  <2>3. enc'.at \in {"freeMedium", "aborted", "freePool", "joinSender", "joinPool", "returned"}
    <3>1. CASE OutputFreed
      BY <1>0, <3>1 DEF OutputFreed, EncType
    <3>2. CASE MediumFreed \/ SenderJoined \/ PoolFreed \/ Returns
      BY <1>1, <3>2 DEF MediumFreed, SenderJoined, PoolFreed, Returns, Labels, Gone
    <3> QED
      BY <1>9, <3>1, <3>2
  <2>4. ~Working'
    BY <2>3 DEF Working
  <2> QED
    BY <2>1, <2>2, <2>4
<1> QED
  BY <1>4, <1>5, <1>6, <1>7, <1>8, <1>9 DEF Encoder

\* Process hands out one task, under a number that is not in use.
LEMMA ProcessTasks ==
  ASSUME Typed, Ordered, Tasks, Process
  PROVE  Tasks'
<1>0. enc \in EncType /\ pool \in PoolType
  BY DEF Typed, EncType
<1>1. Working
  BY DEF Process, Working
<1>2. \/ enc'.at = "retireThen" /\ enc'.frames = enc.frames + 1
      \/ enc'.at = "freeProcessor"
  BY <1>0, FailsFields DEF Process, EncType
<1>3. ~Freed' /\ (Working' => enc'.frames = enc.frames + 1)
  BY <1>2 DEF Freed, FreedLabels, Working
<1>4. enc.frames \in Nat
  BY Fields
<1>5. CASE NoTasks
  <2>1. TasksActive'
    BY <1>5 DEF NoTasks, Tasks, TasksActive, Running
  <2>2. NumbersFresh'
    <3>1. \A i \in 1..Len(pool.tasks) : pool.tasks[i].frame < enc.frames + 1
      BY <1>0, <1>1, <1>4, PoolFields DEF Tasks, NumbersFresh
    <3>2. \A t \in Running : pool.runs[t].frame < enc.frames + 1
      <4> TAKE t \in Running
      <4>1. pool.runs[t] \in Job
        BY <1>0 DEF Running, PoolType
      <4>2. pool.runs[t].frame \in Nat
        BY <4>1 DEF Job
      <4> QED
        BY <1>1, <1>4, <4>2 DEF Tasks, NumbersFresh
    <3> QED
      BY <1>3, <1>5, <3>1, <3>2 DEF NumbersFresh, NoTasks, Running
  <2> QED
    BY <1>3, <2>1, <2>2 DEF Tasks
<1>6. CASE PoolEnqueue([frame |-> enc.frames]) /\ active' = active \cup {enc.frames}
  <2>1. /\ pool'.tasks = Append(pool.tasks, [frame |-> enc.frames])
        /\ pool'.runs = pool.runs
    BY <1>0, <1>6 DEF PoolEnqueue, PoolType
  <2>2. PICK n \in Nat : n = Len(pool.tasks)
    BY <1>0, PoolFields
  <2>3. /\ Len(pool'.tasks) = n + 1
        /\ \A i \in 1..n : pool'.tasks[i] = pool.tasks[i]
        /\ pool'.tasks[n + 1].frame = enc.frames
    <3>1. pool.tasks \in Seq(Job)
      BY <1>0, PoolFields
    <3> QED
      BY <2>1, <2>2, <3>1
  <2>4. \A i \in 1..n : pool.tasks[i].frame \in Nat /\ pool.tasks[i].frame < enc.frames
    BY <1>0, <1>1, <2>2, PoolFields DEF Tasks, NumbersFresh
  <2>5. \A t \in Running : pool.runs[t].frame \in Nat /\ pool.runs[t].frame < enc.frames
    <3> TAKE t \in Running
    <3>1. pool.runs[t] \in Job
      BY <1>0 DEF Running, PoolType
    <3>2. pool.runs[t].frame \in Nat
      BY <3>1 DEF Job
    <3> QED
      BY <1>1, <3>2 DEF Tasks, NumbersFresh
  <2>6. Running' = Running
    BY <2>1 DEF Running
  <2>7. \A i \in 1..n + 1 : i \in 1..n \/ i = n + 1
    BY UpTo
  <2>8. TasksActive'
    <3>1. \A i \in 1..n + 1 : pool'.tasks[i].frame \in active'
      BY <1>6, <2>2, <2>3, <2>7 DEF Tasks, TasksActive
    <3>2. \A i, j \in 1..n + 1 : i # j => pool'.tasks[i].frame # pool'.tasks[j].frame
      <4> SUFFICES ASSUME NEW i \in 1..n + 1, NEW j \in 1..n + 1, i # j
                   PROVE  pool'.tasks[i].frame # pool'.tasks[j].frame
        OBVIOUS
      <4>1. CASE i \in 1..n /\ j \in 1..n
        BY <2>2, <2>3, <4>1 DEF Tasks, TasksActive
      <4>2. CASE i \in 1..n /\ j = n + 1
        BY <1>4, <2>3, <2>4, <4>2
      <4>3. CASE i = n + 1 /\ j \in 1..n
        BY <1>4, <2>3, <2>4, <4>3
      <4> QED
        BY <2>7, <4>1, <4>2, <4>3
    <3>3. \A t \in Running : \A i \in 1..n + 1 : pool.runs[t].frame # pool'.tasks[i].frame
      <4> SUFFICES ASSUME NEW t \in Running, NEW i \in 1..n + 1
                   PROVE  pool.runs[t].frame # pool'.tasks[i].frame
        OBVIOUS
      <4>1. CASE i \in 1..n
        BY <2>2, <2>3, <4>1 DEF Tasks, TasksActive
      <4>2. CASE i = n + 1
        BY <1>4, <2>3, <2>5, <4>2
      <4> QED
        BY <2>7, <4>1, <4>2
    <3> QED
      BY <2>1, <2>3, <2>6, <3>1, <3>2, <3>3 DEF TasksActive
  <2>9. NumbersFresh'
    <3>1. \A i \in 1..n + 1 : pool'.tasks[i].frame < enc.frames + 1
      BY <1>4, <2>3, <2>4, <2>7
    <3>2. \A t \in Running : pool.runs[t].frame < enc.frames + 1
      BY <1>4, <2>5
    <3> QED
      BY <1>3, <2>1, <2>3, <2>6, <3>1, <3>2 DEF NumbersFresh
  <2> QED
    BY <1>3, <2>8, <2>9 DEF Tasks
<1> QED
  BY <1>5, <1>6 DEF Process

LEMMA ThreadTasks ==
  ASSUME Typed, Tasks, NEW t \in PoolThreads, PoolStep(t)
  PROVE  Tasks'
<1>0. pool \in PoolType /\ UNCHANGED enc
  BY DEF Typed, PoolStep, EntropyThread
<1>1. /\ pool.tasks \in Seq(Job) /\ pool.runs \in [PoolThreads -> {Idle, Left} \cup Job]
      /\ Len(pool.tasks) \in Nat
  BY <1>0, PoolFields
<1>2. (Working' <=> Working) /\ (Freed' <=> Freed) /\ enc'.frames = enc.frames
  BY <1>0 DEF Working, Freed
<1>3. TasksActive /\ NumbersFresh /\ (Freed => active = {})
  BY DEF Tasks
<1>4. CASE TaskCompletes(t)
  <2>1. UNCHANGED pool /\ active' = active \ {pool.runs[t].frame} /\ t \in Running
    BY <1>4 DEF TaskCompletes
  <2>2. TasksActive'
    BY <1>3, <2>1 DEF TasksActive, Running
  <2>3. NumbersFresh' /\ (Freed' => active' = {})
    BY <1>2, <1>3, <2>1 DEF NumbersFresh, Running
  <2> QED
    BY <2>2, <2>3 DEF Tasks
<1>5. CASE TaskBegins(t) /\ UNCHANGED active
  <2>1. /\ pool.tasks # <<>> /\ pool'.tasks = Tail(pool.tasks)
        /\ pool'.runs = [pool.runs EXCEPT ![t] = pool.tasks[1]]
    <3>1. /\ pool.tasks # <<>>
          /\ pool' = [pool EXCEPT !.runs[t] = Head(pool.tasks), !.tasks = Tail(@)]
      BY <1>5 DEF TaskBegins
    <3>2. Head(pool.tasks) = pool.tasks[1]
      BY <1>1, <3>1
    <3> QED
      BY <1>0, <3>1, <3>2 DEF PoolType
  <2>2. PICK n \in Nat : Len(pool.tasks) = n + 1
    <3>1. Len(pool.tasks) > 0
      BY <1>1, <2>1
    <3>2. Len(pool.tasks) - 1 \in Nat
      BY <1>1, <3>1
    <3> QED
      BY <1>1, <3>2
  <2>3. /\ Len(pool'.tasks) = n
        /\ \A i \in 1..n : pool'.tasks[i] = pool.tasks[i + 1]
    BY <1>1, <2>1, <2>2
  <2>4. /\ 1 \in 1..n + 1
        /\ \A i \in 1..n : i + 1 \in 1..n + 1 /\ i + 1 # 1
        /\ \A i, j \in 1..n : i # j => i + 1 # j + 1
    OBVIOUS
  <2>5. \A u \in Running' : \/ u = t /\ pool'.runs[u] = pool.tasks[1]
                            \/ u \in Running /\ pool'.runs[u] = pool.runs[u]
    BY <1>1, <2>1 DEF Running
  <2>6. TasksActive'
    <3>1. \A i \in 1..n : pool'.tasks[i].frame \in active'
      BY <1>3, <1>5, <2>2, <2>3, <2>4 DEF TasksActive
    <3>2. \A i, j \in 1..n : i # j => pool'.tasks[i].frame # pool'.tasks[j].frame
      <4> SUFFICES ASSUME NEW i \in 1..n, NEW j \in 1..n, i # j
                   PROVE  pool'.tasks[i].frame # pool'.tasks[j].frame
        OBVIOUS
      <4>1. pool'.tasks[i] = pool.tasks[i + 1] /\ pool'.tasks[j] = pool.tasks[j + 1]
        BY <2>3
      <4>2. i + 1 \in 1..n + 1 /\ j + 1 \in 1..n + 1 /\ i + 1 # j + 1
        BY <2>4
      <4> QED
        BY <1>3, <2>2, <4>1, <4>2 DEF TasksActive
    <3>3. \A u \in Running' : \A i \in 1..n : pool'.runs[u].frame # pool'.tasks[i].frame
      <4> SUFFICES ASSUME NEW u \in Running', NEW i \in 1..n
                   PROVE  pool'.runs[u].frame # pool.tasks[i + 1].frame
        BY <2>3
      <4>1. CASE pool'.runs[u] = pool.tasks[1]
        BY <1>3, <2>2, <2>4, <4>1 DEF TasksActive
      <4>2. CASE u \in Running /\ pool'.runs[u] = pool.runs[u]
        BY <1>3, <2>2, <2>4, <4>2 DEF TasksActive
      <4> QED
        BY <2>5, <4>1, <4>2
    <3> QED
      BY <2>3, <3>1, <3>2, <3>3 DEF TasksActive
  <2>7. NumbersFresh'
    <3> SUFFICES ASSUME Working
                 PROVE  /\ \A i \in 1..n : pool'.tasks[i].frame < enc.frames
                        /\ \A u \in Running' : pool'.runs[u].frame < enc.frames
      BY <1>2, <2>3 DEF NumbersFresh
    <3> QED
      BY <1>3, <2>2, <2>3, <2>4, <2>5 DEF NumbersFresh
  <2> QED
    BY <1>2, <1>3, <1>5, <2>6, <2>7 DEF Tasks
<1>6. CASE (TaskEnds(t) \/ TaskThreadLeaves(t)) /\ UNCHANGED active
  <2>1. \/ pool'.tasks = pool.tasks /\ pool'.runs = [pool.runs EXCEPT ![t] = Idle]
        \/ pool'.tasks = pool.tasks /\ pool'.runs = [pool.runs EXCEPT ![t] = Left]
    <3>1. CASE TaskEnds(t)
      BY <1>0, <3>1 DEF TaskEnds, PoolType
    <3>2. CASE TaskThreadLeaves(t)
      BY <1>0, <3>2 DEF TaskThreadLeaves, PoolType
    <3> QED
      BY <1>6, <3>1, <3>2
  <2>2. \A u \in Running' : u \in Running /\ pool'.runs[u] = pool.runs[u]
    BY <1>1, <2>1 DEF Running
  <2>3. pool'.tasks = pool.tasks
    BY <2>1
  <2>4. TasksActive'
    BY <1>3, <1>6, <2>2, <2>3 DEF TasksActive
  <2>5. NumbersFresh'
    BY <1>2, <1>3, <2>2, <2>3 DEF NumbersFresh
  <2> QED
    BY <1>2, <1>3, <1>6, <2>4, <2>5 DEF Tasks
<1> QED
  BY <1>4, <1>5, <1>6 DEF PoolStep, EntropyThread

LEMMA TasksInit == Init => Tasks
<1> SUFFICES ASSUME Init PROVE Tasks
  OBVIOUS
<1>1. pool.tasks = <<>> /\ active = {} /\ Running = {}
  BY DEF Init, OutputInit, PoolInit, Running
<1> QED
  BY <1>1 DEF Tasks, TasksActive, NumbersFresh

LEMMA TasksNext ==
  ASSUME EntropyInv, [Next]_vars
  PROVE  Tasks'
<1>0. Typed /\ Ordered /\ Tasks
  BY DEF EntropyInv
<1>1. CASE EncoderStep
  <2>1. CASE Process
    BY <1>0, <2>1, ProcessTasks
  <2>2. CASE ~Process
    <3>1. /\ pool'.tasks = pool.tasks /\ pool'.runs = pool.runs /\ active' = active
          /\ Working' => enc'.frames = enc.frames /\ (Working \/ enc.at = "open")
          /\ Freed' => Freed \/ active = {}
      BY <1>0, <1>1, <2>2, EncoderKeeps DEF EncoderStep
    <3>2. Running' = Running
      BY <3>1 DEF Running
    <3>3. TasksActive'
      BY <1>0, <3>1, <3>2 DEF Tasks, TasksActive
    <3>4. enc.at = "open" => pool.tasks = <<>> /\ Running = {}
      BY <1>0 DEF Ordered, Fresh, Running
    <3>5. NumbersFresh'
      BY <1>0, <3>1, <3>2, <3>4 DEF Tasks, NumbersFresh
    <3> QED
      BY <1>0, <3>1, <3>3, <3>5 DEF Tasks
  <2> QED
    BY <2>1, <2>2
<1>2. CASE Killed
  <2>1. enc'.at = "crashed" /\ UNCHANGED <<pool, active>>
    BY <1>0, <1>2, KilledStep
  <2>2. ~Working' /\ ~Freed'
    BY <2>1 DEF Working, Freed, FreedLabels
  <2> QED
    BY <1>0, <2>1, <2>2 DEF Tasks, TasksActive, NumbersFresh, Running
<1>3. ASSUME Elsewhere, UNCHANGED <<pool, active>>
      PROVE  Tasks'
  BY <1>0, <1>3 DEF Elsewhere, Tasks, TasksActive, NumbersFresh, Running, Working, Freed
<1>4. ASSUME NEW t \in PoolThreads, PoolStep(t) \/ SenderStep \/ NetworkStep \/ ReceiverStep \/ Decoder
      PROVE  Tasks'
  BY <1>0, <1>3, <1>4, OtherSteps, ThreadTasks
<1>5. CASE UNCHANGED vars
  BY <1>3, <1>5 DEF vars, outputVars, historyVars, Elsewhere
<1>6. \E t \in PoolThreads : TRUE
  BY PoolAssumption
<1> QED
  BY <1>1, <1>2, <1>4, <1>5, <1>6 DEF Next
-----------------------------------------------------------------------------
(* The theorem.                                                            *)

LEMMA EntropyInvImplies == EntropyInv => EntropyJobsInOrder
<1> SUFFICES ASSUME EntropyInv PROVE EntropyJobsInOrder
  OBVIOUS
<1>0. Typed /\ Ordered /\ Tasks
  BY DEF EntropyInv
<1>1. DOMAIN written = 1..Len(written) /\ Len(written) \in Nat
  BY <1>0, Fields
<1>2. \A i \in 1..Len(written) :
        \/ i = 1 /\ written[i] = -1
        \/ i > 1 /\ written[i] = i - 2
        \/ i = Len(written) /\ i = enc.frames + 2 /\ written[i] = -2
  BY <1>0 DEF Ordered, InOrder, Header, End
<1>3. \A i \in DOMAIN written :
        written[i] = CASE i = 1 -> Header [] written[i] = End -> End [] OTHER -> i - 2
  <2> TAKE i \in DOMAIN written
  <2>1. enc.frames \in Nat
    BY <1>0, Fields
  <2>2. CASE i = 1
    BY <1>1, <1>2, <2>1, <2>2 DEF Header
  <2>3. CASE i # 1
    BY <1>1, <1>2, <2>3 DEF End
  <2> QED
    BY <2>2, <2>3
<1>4. End \in Range(written) => Last(written) = End /\ Len(written) = enc.frames + 2
  <2> SUFFICES ASSUME NEW i \in DOMAIN written, written[i] = End
               PROVE  Last(written) = End /\ Len(written) = enc.frames + 2
    BY DEF Range
  <2>0. written[i] = -2 /\ i \in 1..Len(written)
    BY <1>1 DEF End
  <2>1. i = Len(written) /\ i = enc.frames + 2
    <3>1. i > 1 => written[i] # i - 2
      BY <1>1, <2>0
    <3> QED
      BY <1>2, <2>0, <3>1
  <2> QED
    BY <2>1 DEF Last
<1>5. options.rate =>
        \A i \in DOMAIN solved : solved[i] = [j \in 1..(IF i > 3 THEN i - 3 ELSE 0) |-> j - 1]
  BY <1>0 DEF Ordered, Known
<1>6. Freed => pool.tasks = <<>> /\ \A t \in Running : pool.runs[t].frame \notin active
  <2> SUFFICES ASSUME active = {}
               PROVE  pool.tasks = <<>>
    BY <1>0 DEF Tasks
  <2>1. pool.tasks \in Seq(Job) /\ Len(pool.tasks) \in Nat
    BY <1>0, PoolFields DEF Typed
  <2>2. Len(pool.tasks) = 0
    BY <1>0, <2>1 DEF Tasks, TasksActive
  <2> QED
    BY <2>1, <2>2
<1> QED
  BY <1>3, <1>4, <1>5, <1>6 DEF EntropyJobsInOrder, Freed, FreedLabels

LEMMA EntropyInvariant == Spec => []EntropyInv
<1>1. Init => EntropyInv
  BY TypedInit, OrderedInit, TasksInit DEF EntropyInv
<1>2. EntropyInv /\ [Next]_vars => EntropyInv'
  BY TypedNext, OrderedNext, TasksNext DEF EntropyInv, Ordered
<1> QED
  BY <1>1, <1>2, PTL DEF Spec

\* Whatever order the entropy tasks end in and whichever way a frame is retired,
\* frames are written in order and complete, the rate controller decides on what it
\* always knows, and the processor is destroyed with no task left that uses it, in
\* every run (consume_frame, EncodeOutput, ~EncodeFrameProcessor).
THEOREM EntropyCorrect == Spec => []EntropyJobsInOrder
BY EntropyInvariant, EntropyInvImplies, PTL

-----------------------------------------------------------------------------
(* The coder.                                                              *)

\* Division splits a number into quotient and remainder.
LEMMA Split ==
  ASSUME NEW s \in Nat, NEW d \in Nat \ {0}
  PROVE  /\ s \div d \in Nat
         /\ s % d \in 0..(d - 1)
         /\ s = d * (s \div d) + (s % d)
  BY SMT

\* The scale, whose definition is not expanded where it bounds an interval.
LEMMA ScaleTyped == Scale \in Nat /\ Scale >= 1
BY DEF Scale
LEMMA BelowScale == ASSUME NEW f \in Nat, f <= Scale PROVE f <= 65536
BY DEF Scale

\* A state that has room for a symbol is found again under it, and the symbol
\* is read from the low bits.
LEMMA PopInvertsPush ==
  ASSUME NEW s \in Nat, NEW start \in Nat, NEW freq \in Nat, IsInterval(start, freq)
  PROVE  /\ PushSymbol(s, start, freq) \in Nat
         /\ PushSymbol(s, start, freq) % Scale \in start..(start + freq - 1)
         /\ PushSymbol(s, start, freq) \div Scale = s \div freq
         /\ PopSymbol(PushSymbol(s, start, freq), start, freq) = s
<1> DEFINE q == s \div freq
           r == s % freq
           e == PushSymbol(s, start, freq)
<1>0. freq \in Nat \ {0} /\ start + freq <= Scale
  BY SMT DEF IsInterval
<1>1. q \in Nat /\ r \in 0..(freq - 1) /\ s = freq * q + r
  BY <1>0, Split
<1>3. e = q * Scale + r + start
  BY SMT DEF PushSymbol
<1> HIDE DEF q, r
<1>2. r + start \in 0..(Scale - 1) /\ r \in Nat
  BY <1>0, <1>1, ScaleTyped, SMT
<1>4. e \in Nat /\ e \div Scale = q /\ e % Scale = r + start
  <2>1. r + start \in Nat /\ r + start < Scale
    BY <1>2, ScaleTyped, SMT
  <2> QED
    BY <1>1, <1>3, <2>1, SMT DEF Scale
<1>5. PopSymbol(e, start, freq) = freq * q + (r + start) - start
  BY <1>4, SMT DEF PopSymbol
<1>6. freq * q \in Nat
  BY <1>0, <1>1, SMT
<1>7. PopSymbol(e, start, freq) = s
  BY <1>1, <1>2, <1>5, <1>6, SMT
<1>8. e % Scale \in start..(start + freq - 1)
  BY <1>0, <1>1, <1>2, <1>4, SMT
<1>9. QED
  BY <1>4, <1>7, <1>8, SMT DEF q

LEMMA RecordOfCoder ==
  ASSUME NEW c, IsCoder(c)
  PROVE  /\ c.state \in Nat /\ c.state >= RansByteL /\ c.state <= RansLimit
         /\ c.bytes \in Seq(Byte)
         /\ c = [state |-> c.state, bytes |-> c.bytes]
<1>1. c \in [state : RansState, bytes : Seq(Byte)]
  BY DEF IsCoder
<1>2. c.state \in RansState /\ c.bytes \in Seq(Byte)
  BY <1>1
<1>3. c = [state |-> c.state, bytes |-> c.bytes]
  BY <1>1
<1>4. c.state \in Nat /\ c.state >= RansByteL /\ c.state <= RansLimit
  <2> DEFINE s == c.state
  <2>1. s \in RansState
    BY <1>2
  <2> HIDE DEF s
  <2>2. s \in Nat /\ s >= RansByteL /\ s <= RansLimit
    BY <2>1, SMT DEF RansState
  <2>3. QED
    BY <2>2 DEF s
<1>5. QED
  BY <1>2, <1>3, <1>4

\* What Shed takes off, Take puts back.
LEMMA TakeInvertsShed ==
  ASSUME NEW c, c.state \in Nat, c.bytes \in Seq(Byte),
         c = [state |-> c.state, bytes |-> c.bytes]
  PROVE  /\ Shed(c).state = c.state \div 256
         /\ Shed(c).state \in Nat
         /\ Shed(c).bytes \in Seq(Byte)
         /\ Shed(c) = [state |-> Shed(c).state, bytes |-> Shed(c).bytes]
         /\ Take(Shed(c)) = c
<1> DEFINE d == Shed(c)
           r == c.state % 256
           q == c.state \div 256
           b == <<r>> \o c.bytes
<1>1. q \in Nat /\ r \in 0..255 /\ c.state = 256 * q + r
  <2>2. c.state \in Nat
    OBVIOUS
  <2> DEFINE s == c.state
             k == 256
  <2>3. s \in Nat /\ k \in Nat \ {0}
    BY <2>2
  <2>4. q = s \div k /\ r = s % k
    OBVIOUS
  <2> HIDE DEF s, k, q, r
  <2>5. q \in Nat /\ r \in 0..(k - 1) /\ s = k * q + r
    BY <2>3, <2>4, Split
  <2>6. QED
    BY <2>5 DEF s, k
<1>2. d = [state |-> q, bytes |-> b]
  BY DEF Shed
<1> HIDE DEF q, r, d
<1>3. b \in Seq(Byte) /\ b # <<>>
  BY <1>1 DEF Byte
<1>4. Head(b) = r /\ Tail(b) = c.bytes
  BY <1>1 DEF Byte
<1> HIDE DEF b
<1>5. d.state = q /\ d.bytes = b
  BY <1>2
<1>6. ReadByte(d.bytes) = r /\ DropByte(d.bytes) = c.bytes
  BY <1>3, <1>4, <1>5 DEF ReadByte, DropByte
<1>7. d.state * 256 + r = c.state
  BY <1>1, <1>5
<1>8. Take(d) = c
  BY <1>6, <1>7 DEF Take
<1>9. d.state = c.state \div 256
  BY <1>5 DEF q
<1>10. d = [state |-> d.state, bytes |-> d.bytes]
  BY <1>2, <1>5
<1>11. d.state \in Nat /\ d.bytes \in Seq(Byte)
  BY <1>1, <1>3, <1>5
<1>12. QED
  BY <1>8, <1>9, <1>10, <1>11 DEF d

\* Renormalising leaves room for the symbol and no more than a byte too much.
LEMMA RenormBounds ==
  ASSUME NEW c, IsCoder(c), NEW freq \in 1..Scale
  PROVE  LET d == RansEncRenorm(c, freq)
         IN  /\ d = [state |-> d.state, bytes |-> d.bytes]
             /\ d.state \in Nat /\ d.bytes \in Seq(Byte)
             /\ 128 * freq <= d.state
             /\ d.state < 32768 * freq
             /\ RansDecRefill(d) = c
<1> DEFINE s == c.state
           d == RansEncRenorm(c, freq)
<1>1. /\ s \in Nat /\ s >= 8388608 /\ s <= 2147483647
      /\ c.bytes \in Seq(Byte)
      /\ c = [state |-> s, bytes |-> c.bytes]
  BY RecordOfCoder, SMT DEF RansByteL, RansLimit
<1>2. freq \in Nat /\ freq >= 1 /\ freq <= 65536
  <2>1. freq \in Nat /\ freq >= 1 /\ freq <= Scale
    BY ScaleTyped, SMT
  <2> QED
    BY <2>1, BelowScale
<1> DEFINE c1 == Shed(c)
           c2 == Shed(c1)
<1>3. /\ c1.state = s \div 256 /\ c1.state \in Nat /\ c1.bytes \in Seq(Byte)
      /\ c1 = [state |-> c1.state, bytes |-> c1.bytes] /\ Take(c1) = c
  BY <1>1, TakeInvertsShed
<1> HIDE DEF c1
<1>4. /\ c2.state = c1.state \div 256 /\ c2.state \in Nat /\ c2.bytes \in Seq(Byte)
      /\ c2 = [state |-> c2.state, bytes |-> c2.bytes] /\ Take(c2) = c1
  BY <1>3, TakeInvertsShed
<1> HIDE DEF c2
<1>5. CASE RoomFor(c, freq)
  <2>1. d = c
    BY <1>5, SMT DEF RansEncRenorm
  <2>2. s < 32768 * freq
    BY <1>1, <1>2, <1>5, SMT DEF RoomFor
  <2>3. RansDecRefill(c) = c
    BY <1>1, SMT DEF RansDecRefill, RansByteL
  <2>4. QED
    BY <1>1, <1>2, <2>1, <2>2, <2>3, SMT
<1>6. CASE ~RoomFor(c, freq) /\ RoomFor(c1, freq)
  <2>1. d = c1
    BY <1>6, SMT DEF RansEncRenorm, c1
  <2>2. c1.state < 32768 * freq
    BY <1>2, <1>3, <1>6, SMT DEF RoomFor
  <2>3. s >= 32768 * freq
    BY <1>1, <1>2, <1>6, SMT DEF RoomFor
  <2>4. 128 * freq <= c1.state /\ c1.state < 8388608
    BY <1>1, <1>2, <1>3, <2>3, SMT
  <2>5. RansDecRefill(c1) = c
    BY <1>1, <1>3, <2>4, SMT DEF RansDecRefill, RansByteL
  <2>6. QED
    BY <1>3, <2>1, <2>2, <2>4, <2>5, SMT
<1>7. CASE ~RoomFor(c, freq) /\ ~RoomFor(c1, freq)
  <2>1. d = c2
    BY <1>7, SMT DEF RansEncRenorm, c1, c2
  <2>2. c1.state >= 32768 * freq
    BY <1>2, <1>3, <1>7, SMT DEF RoomFor
  <2>3. c1.state < 8388608
    BY <1>1, <1>3, SMT
  <2>4. 128 * freq <= c2.state /\ c2.state < 32768
    BY <1>2, <1>3, <1>4, <2>2, <2>3, SMT
  <2>5. RansDecRefill(c2) = c
    BY <1>3, <1>4, <2>3, <2>4, SMT DEF RansDecRefill, RansByteL
  <2>6. QED
    BY <1>2, <1>4, <2>1, <2>4, <2>5, SMT
<1>8. QED
  BY <1>5, <1>6, <1>7, SMT

\* For every coder and every interval, the decoder finds the symbol that was
\* encoded last and returns to the coder before it, byte for byte
\* (RansEncPut against RansDecGet and RansDecAdvance).
THEOREM DecodingUndoesEncoding ==
  ASSUME NEW c, IsCoder(c),
         NEW start \in Nat, NEW freq \in Nat, IsInterval(start, freq)
  PROVE  LET e == RansEncPut(c, start, freq)
         IN  /\ IsCoder(e)
             /\ RansDecGet(e) \in start..(start + freq - 1)
             /\ RansDecAdvance(e, start, freq) = c
<1> DEFINE d == RansEncRenorm(c, freq)
           e == RansEncPut(c, start, freq)
           q == d.state \div freq
           r == d.state % freq
<1>1. freq \in 1..Scale /\ freq \in Nat \ {0} /\ freq <= 65536
  <2>1. freq \in 1..Scale /\ freq \in Nat \ {0} /\ freq <= Scale
    BY ScaleTyped, SMT DEF IsInterval
  <2> QED
    BY <2>1, BelowScale
<1>2. /\ d = [state |-> d.state, bytes |-> d.bytes]
      /\ d.state \in Nat /\ d.bytes \in Seq(Byte)
      /\ 128 * freq <= d.state /\ d.state < 32768 * freq
      /\ RansDecRefill(d) = c
  BY <1>1, RenormBounds, SMT
<1>3. e = [d EXCEPT !.state = PushSymbol(d.state, start, freq)]
  BY SMT DEF RansEncPut
<1> HIDE DEF d, e
<1>4. /\ e = [state |-> PushSymbol(d.state, start, freq), bytes |-> d.bytes]
      /\ e.state = PushSymbol(d.state, start, freq) /\ e.bytes = d.bytes
  BY <1>2, <1>3, SMT
<1>5. /\ e.state \in Nat
      /\ e.state % Scale \in start..(start + freq - 1)
      /\ e.state \div Scale = q
      /\ PopSymbol(e.state, start, freq) = d.state
  BY <1>2, <1>4, PopInvertsPush, SMT
<1>6. q \in Nat /\ r \in 0..(freq - 1) /\ d.state = freq * q + r
  BY <1>1, <1>2, Split, SMT
<1> HIDE DEF q, r
<1>7. q >= 128
  <2>1. CASE q <= 127
    <3>1. freq * q <= freq * 127
      BY <1>1, <1>6, <2>1, SMT
    <3>2. QED
      BY <1>1, <1>2, <1>6, <3>1, SMTT(60)
  <2>2. QED
    BY <1>6, <2>1, SMT
<1>8. q <= 32767
  <2>1. CASE q >= 32768
    <3>1. freq * q >= freq * 32768
      BY <1>1, <1>6, <2>1, SMT
    <3>2. QED
      BY <1>1, <1>2, <1>6, <3>1, SMT
  <2>2. QED
    BY <1>6, <2>1, SMT
<1>9. e.state \in RansState
  <2> DEFINE t == e.state
             m == e.state % Scale
  <2>1. t \in Nat /\ t \div Scale = q
    BY <1>5
  <2> HIDE DEF t, m
  <2>2. 65536 * q <= t /\ t < 65536 * q + 65536
    BY <1>6, <2>1, SMT DEF Scale
  <2>3. 8388608 <= t /\ t <= 2147483647
    BY <1>6, <1>7, <1>8, <2>1, <2>2, SMT
  <2>5. t \in RansState
    BY <2>1, <2>3, SMT DEF RansState, RansByteL, RansLimit
  <2>4. QED
    BY <2>5 DEF t
<1>10. IsCoder(e)
  BY <1>2, <1>4, <1>9, SMT DEF IsCoder
<1>11. [e EXCEPT !.state = PopSymbol(e.state, start, freq)] = d
  BY <1>2, <1>4, <1>5, SMT
<1>12. RansDecAdvance(e, start, freq) = c
  BY <1>2, <1>11, SMT DEF RansDecAdvance
<1>13. QED
  BY <1>5, <1>10, <1>12, SMT DEF RansDecGet, e

\* Two bits are found again the same way, although RansDecGetBits takes at most
\* one byte where RansDecAdvance takes as many as it needs: RansEncPutBits never
\* sheds two.
THEOREM BitsUndone ==
  ASSUME NEW c, IsCoder(c), NEW value \in 0..(Bins - 1)
  PROVE  LET e == PutBits(c, value)
         IN  /\ IsCoder(e)
             /\ GetBits(e).value = value
             /\ GetBits(e).coder = c
<1> DEFINE s == c.state
           d == RansEncRenorm(c, BitsFreq)
           e == PutBits(c, value)
           c1 == Shed(c)
           f == [e EXCEPT !.state = e.state \div Bins]
<1>1. /\ s \in Nat /\ s >= 8388608 /\ s <= 2147483647
      /\ c.bytes \in Seq(Byte)
      /\ c = [state |-> s, bytes |-> c.bytes]
  BY RecordOfCoder, SMT DEF RansByteL, RansLimit
<1>2. /\ c1.state = s \div 256 /\ c1.state \in Nat /\ c1.bytes \in Seq(Byte)
      /\ c1 = [state |-> c1.state, bytes |-> c1.bytes] /\ Take(c1) = c
  BY <1>1, TakeInvertsShed
<1> HIDE DEF c1
<1>3. \/ d = c /\ s < 536870912
      \/ d = c1 /\ s >= 536870912
  <2>1. CASE RoomFor(c, BitsFreq)
    <3>1. d = c
      BY <2>1, SMT DEF RansEncRenorm
    <3>2. s < 536870912
      BY <1>1, <2>1, SMT DEF RoomFor, BitsFreq
    <3>3. QED
      BY <3>1, <3>2, SMT
  <2>2. CASE ~RoomFor(c, BitsFreq)
    <3>1. s >= 536870912
      BY <1>1, <2>2, SMT DEF RoomFor, BitsFreq
    <3>2. RoomFor(c1, BitsFreq)
      BY <1>1, <1>2, SMT DEF RoomFor, BitsFreq
    <3>3. d = c1
      BY <2>2, <3>2, SMT DEF RansEncRenorm, c1
    <3>4. QED
      BY <3>1, <3>3, SMT
  <2>3. QED
    BY <2>1, <2>2, SMT
<1>4. e = [d EXCEPT !.state = d.state * Bins + value]
  BY SMT DEF PutBits
<1> HIDE DEF d, e
<1>5. /\ d = [state |-> d.state, bytes |-> d.bytes]
      /\ d.state \in Nat /\ d.bytes \in Seq(Byte)
      /\ d.state >= 2097152 /\ d.state < 536870912
  BY <1>1, <1>2, <1>3, SMT
<1>6. value \in Nat /\ value <= 3
  BY SMT DEF Bins
<1>7. /\ e = [state |-> d.state * 4 + value, bytes |-> d.bytes]
      /\ e.state = d.state * 4 + value /\ e.bytes = d.bytes
  BY <1>4, <1>5, SMT DEF Bins
<1>8. e.state \div 4 = d.state /\ e.state % 4 = value
  <2> DEFINE t == e.state
             m == d.state
  <2>1. t = m * 4 + value /\ m \in Nat
    BY <1>5, <1>7
  <2> HIDE DEF t, m
  <2>2. t \div 4 = m /\ t % 4 = value
    BY <1>6, <2>1, SMT
  <2>3. QED
    BY <2>2 DEF t, m
<1>9. IsCoder(e)
  <2> DEFINE t == e.state
  <2>1. t \in Nat /\ 8388608 <= t /\ t <= 2147483647
    BY <1>5, <1>6, <1>7, SMT
  <2>2. t \in RansState
    BY <2>1, SMT DEF RansState, RansByteL, RansLimit
  <2> HIDE DEF t
  <2>3. e = [state |-> t, bytes |-> e.bytes] /\ e.bytes \in Seq(Byte)
    BY <1>5, <1>7 DEF t
  <2>4. QED
    BY <2>2, <2>3 DEF IsCoder
<1>10. f = d
  BY <1>5, <1>7, <1>8, SMT DEF Bins
<1>11. GetBits(e).value = value
  BY <1>8, SMT DEF GetBits, Bins
<1>12. GetBits(e).coder = (IF d.state < RansByteL THEN Take(d) ELSE d)
  BY <1>8, <1>10, SMT DEF GetBits, Bins
<1>13. GetBits(e).coder = c
  <2>1. CASE d = c
    BY <1>1, <1>12, <2>1, SMT DEF RansByteL
  <2>2. CASE d = c1 /\ s >= 536870912
    <3>1. d.state < RansByteL
      BY <1>1, <1>2, <2>2, SMT DEF RansByteL
    <3>2. QED
      BY <1>2, <1>12, <2>2, <3>1
  <2>3. QED
    BY <1>3, <2>1, <2>2
<1>14. QED
  BY <1>9, <1>11, <1>13 DEF e
=============================================================================
