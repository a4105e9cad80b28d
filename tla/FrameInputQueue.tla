--------------------------- MODULE FrameInputQueue ---------------------------
(***************************************************************************)
(* mlvc::app::AsyncFrameInputQueue and the arena of frame buffers behind   *)
(* it: one worker thread reads the source into free slots, Pop hands the   *)
(* frames out in order, and the packet that holds a frame gives the slot   *)
(* back from whatever thread it ends on.                                   *)
(*                                                                         *)
(* The callers are the most general client: a thread of Poppers may call   *)
(* Pop whenever it is at rest, and at any time somebody may release or     *)
(* destroy a packet or call Cancel.                                        *)
(*                                                                         *)
(* One action is one critical section of mutex_ with the notification that *)
(* follows it.  A notification that arrives late can only wake a thread    *)
(* that has gone to sleep since, and that is a spurious wakeup.            *)
(***************************************************************************)
EXTENDS Integers, Sequences, FiniteSets, Functions

CONSTANTS
  SlotCount,       \* buffers of the arena
  Poppers,         \* threads that call Pop
  FramesToAttempt  \* frames_to_attempt_

ASSUME QueueAssumption ==
  /\ SlotCount \in Nat \ {0}
  /\ FramesToAttempt \in Nat

VARIABLES
  free,         \* free_slots_
  ready,        \* ready_slots_: records of a frame index and its slot
  exception,    \* exception_, by who raised it
  producerDone, \* producer_done_
  stop,         \* stop_
  nextPop,      \* next_frame_to_consume_
  content,      \* the frame whose pixels are in each slot of the arena
  worker,       \* where the worker thread is
  reading,      \* WorkerMain's frame_index
  slot,         \* WorkerMain's slot_index
  popper,       \* where each thread of Poppers is
  live,         \* the frames whose packets exist
  packet,       \* slot_index in the packet of each frame
  alive         \* the queue object: "yes", "ending" in its destructor or "no"

sharedVars == <<free, ready, exception, producerDone, stop, nextPop>>
workerVars == <<worker, reading, slot, content>>
clientVars == <<popper, live, packet, alive>>
qvars == <<sharedVars, workerVars, clientVars>>

Slots == 0..SlotCount - 1
NoSlot == -1
Frames == 0..FramesToAttempt - 1
Errors == {"none", "source", "client"}
Returned == {"idle", "frame", "eof", "error"}
InPop == {"pop", "asleep"}
\* The worker has a slot in hand.
Holding == {"read", "push", "return"}

QInit ==
  /\ free = [i \in 1..SlotCount |-> i - 1]
  /\ ready = <<>> /\ exception = "none" /\ producerDone = FALSE
  /\ stop = FALSE /\ nextPop = 0
  /\ content = [s \in Slots |-> FramesToAttempt]
  /\ worker = "acquire" /\ reading = 0 /\ slot = NoSlot
  /\ popper = [t \in Poppers |-> "idle"]
  /\ live = {} /\ packet = [f \in Frames |-> NoSlot]
  /\ alive = "yes"
-----------------------------------------------------------------------------
(* The condition variables.  Only the worker sleeps on                     *)
(* producer_condition_, only callers of Pop on consumer_condition_.        *)

Asleep == {t \in Poppers : popper[t] = "asleep"}

NotifyProducer == worker' = IF worker = "asleep" THEN "acquire" ELSE worker

NotifyOneConsumer ==
  IF Asleep = {} THEN UNCHANGED popper
  ELSE \E t \in Asleep : popper' = [popper EXCEPT ![t] = "pop"]

NotifyConsumers ==
  popper' = [t \in Poppers |-> IF t \in Asleep THEN "pop" ELSE popper[t]]

SpuriousWakeup ==
  \/ worker = "asleep" /\ NotifyProducer
     /\ UNCHANGED <<sharedVars, reading, slot, content, clientVars>>
  \/ /\ \E t \in Asleep : popper' = [popper EXCEPT ![t] = "pop"]
     /\ UNCHANGED <<sharedVars, workerVars, live, packet, alive>>
-----------------------------------------------------------------------------
(* The worker thread.                                                      *)

\* AcquireFreeSlot: -1 when stopped, a free slot, or sleep.
WorkerAcquire ==
  /\ worker = "acquire" /\ reading < FramesToAttempt
  /\ \/ stop /\ worker' = "close" /\ UNCHANGED <<free, slot>>
     \/ ~stop /\ free = <<>> /\ worker' = "asleep" /\ UNCHANGED <<free, slot>>
     \/ /\ ~stop /\ free # <<>>
        /\ slot' = Head(free) /\ free' = Tail(free) /\ worker' = "read"
  /\ UNCHANGED <<ready, exception, producerDone, stop, nextPop, reading, content,
                 clientVars>>

\* The for loop has made all its attempts.
WorkerLoopEnds ==
  /\ worker = "acquire" /\ reading = FramesToAttempt /\ worker' = "close"
  /\ UNCHANGED <<sharedVars, reading, slot, content, clientVars>>

\* PrepareOne filled the slot, and the motion input was prepared.
WorkerRead ==
  /\ worker = "read" /\ worker' = "push"
  /\ content' = [content EXCEPT ![slot] = reading]
  /\ UNCHANGED <<sharedVars, reading, slot, clientVars>>

\* PrepareOne found the end of the source.
WorkerReadEnd ==
  /\ worker = "read" /\ worker' = "return"
  /\ UNCHANGED <<sharedVars, reading, slot, content, clientVars>>

\* The exception_ of the queue is the first one.
KeepFirst(e) == exception' = IF exception = "none" THEN e ELSE exception

\* Reading, converting or Close throws; a slot in hand is not given back.
WorkerThrow ==
  /\ worker \in {"read", "close"} /\ worker' = "finish"
  /\ KeepFirst("source")
  /\ UNCHANGED <<free, ready, producerDone, stop, nextPop, reading, slot, content,
                 clientVars>>

\* ReturnFreeSlot; its notify_one finds no waiter, the worker being the only one.
WorkerReturnSlot ==
  /\ worker = "return" /\ worker' = "close"
  /\ free' = Append(free, slot) /\ slot' = NoSlot
  /\ UNCHANGED <<ready, exception, producerDone, stop, nextPop, reading, content,
                 clientVars>>

\* Mutant: the slot of a ready frame is given back at once.
WorkerPushFreeing ==
  /\ worker = "push" /\ worker' = "acquire"
  /\ reading' = reading + 1 /\ slot' = NoSlot
  /\ free' = Append(free, slot)
  /\ ready' = Append(ready, [frame |-> reading, slot |-> slot])
  /\ NotifyOneConsumer
  /\ UNCHANGED <<exception, producerDone, stop, nextPop, content, live, packet, alive>>

\* PushReady: a stopped queue takes the slot back and the loop goes on.
WorkerPush ==
  /\ worker = "push" /\ worker' = "acquire"
  /\ reading' = reading + 1 /\ slot' = NoSlot
  /\ \/ /\ stop /\ free' = Append(free, slot) /\ UNCHANGED <<ready, popper>>
     \/ /\ ~stop /\ ready' = Append(ready, [frame |-> reading, slot |-> slot])
        /\ NotifyOneConsumer /\ UNCHANGED free
  /\ UNCHANGED <<exception, producerDone, stop, nextPop, content, live, packet, alive>>

\* FrameSource::Close returns.
WorkerClose ==
  /\ worker = "close" /\ worker' = "finish"
  /\ UNCHANGED <<sharedVars, reading, slot, content, clientVars>>

\* producer_done_ for the callers of Pop.
WorkerFinish ==
  /\ worker = "finish" /\ worker' = "done"
  /\ producerDone' = TRUE /\ NotifyConsumers
  /\ UNCHANGED <<free, ready, exception, stop, nextPop, reading, slot, content, live,
                 packet, alive>>

Worker == \/ WorkerAcquire \/ WorkerLoopEnds \/ WorkerRead \/ WorkerReadEnd
          \/ WorkerThrow \/ WorkerReturnSlot \/ WorkerPush \/ WorkerClose
          \/ WorkerFinish
-----------------------------------------------------------------------------
(* The callers.                                                            *)

PopCall(t) ==
  /\ alive = "yes" /\ popper[t] \in Returned
  /\ popper' = [popper EXCEPT ![t] = "pop"]
  /\ UNCHANGED <<sharedVars, workerVars, live, packet, alive>>

\* The wait of Pop.
MayReturn == stop \/ ready # <<>> \/ producerDone \/ exception # "none"

PopSleep(t) ==
  /\ popper[t] = "pop" /\ ~MayReturn
  /\ popper' = [popper EXCEPT ![t] = "asleep"]
  /\ UNCHANGED <<sharedVars, workerVars, live, packet, alive>>

\* An error comes before the frames that are ready.
PopError(t) ==
  /\ popper[t] = "pop" /\ exception # "none"
  /\ popper' = [popper EXCEPT ![t] = "error"]
  /\ UNCHANGED <<sharedVars, workerVars, live, packet, alive>>

PopEof(t) ==
  /\ popper[t] = "pop" /\ MayReturn /\ exception = "none"
  /\ stop \/ ready = <<>>
  /\ popper' = [popper EXCEPT ![t] = "eof"]
  /\ UNCHANGED <<sharedVars, workerVars, live, packet, alive>>

\* Mutant: the newest frame first.
TakeNewestReady ==
  LET last == ready[Len(ready)] IN
  /\ ready # <<>>
  /\ ready' = SubSeq(ready, 1, Len(ready) - 1)
  /\ nextPop' = last.frame + 1
  /\ live' = live \cup {last.frame}
  /\ packet' = [packet EXCEPT ![last.frame] = last.slot]

\* The frame at the front of ready_slots_.
TakeReady ==
  /\ ready # <<>>
  /\ ready' = Tail(ready)
  /\ nextPop' = Head(ready).frame + 1
  /\ live' = live \cup {Head(ready).frame}
  /\ packet' = [packet EXCEPT ![Head(ready).frame] = Head(ready).slot]

PopFrame(t) ==
  /\ popper[t] = "pop" /\ exception = "none" /\ ~stop
  /\ TakeReady
  /\ popper' = [popper EXCEPT ![t] = "frame"]
  /\ NotifyProducer
  /\ UNCHANGED <<free, exception, producerDone, stop, reading, slot, content, alive>>

Pop(t) == PopSleep(t) \/ PopError(t) \/ PopEof(t) \/ PopFrame(t)

\* Mutant: the packet keeps its slot index and its destructor releases again.
ReleaseSlotKeepingIndex(f) ==
  /\ free' = Append(free, packet[f])
  /\ UNCHANGED packet
  /\ NotifyProducer

\* AsyncFrameInputQueue::Release, which empties the packet's slot index.
ReleaseSlot(f) ==
  /\ free' = Append(free, packet[f])
  /\ packet' = [packet EXCEPT ![f] = NoSlot]
  /\ NotifyProducer

\* PreparedFramePacket::Release; a second call finds no slot and returns.
ReleasePacket(f) ==
  /\ f \in live /\ packet[f] # NoSlot
  /\ ReleaseSlot(f)
  /\ UNCHANGED <<ready, exception, producerDone, stop, nextPop, reading, slot, content,
                 popper, live, alive>>

\* The packet's destructor.
DestroyPacket(f) ==
  /\ f \in live /\ live' = live \ {f}
  /\ IF packet[f] # NoSlot THEN ReleaseSlot(f)
     ELSE UNCHANGED <<free, packet, worker>>
  /\ UNCHANGED <<ready, exception, producerDone, stop, nextPop, reading, slot, content,
                 popper, alive>>

\* stop_ and both notify_all, of Cancel and of the destructor.
StopQueue == stop' = TRUE /\ NotifyProducer /\ NotifyConsumers

\* Cancel, with an error or without.
Cancel(e) ==
  /\ alive = "yes"
  /\ StopQueue
  /\ KeepFirst(e)
  /\ UNCHANGED <<free, ready, producerDone, nextPop, reading, slot, content, live, packet,
                 alive>>

\* The destructor; nobody uses the queue any more.
DestroyCall ==
  /\ alive = "yes" /\ live = {} /\ \A t \in Poppers : popper[t] \in Returned
  /\ alive' = "ending"
  /\ StopQueue
  /\ UNCHANGED <<free, ready, exception, producerDone, nextPop, reading, slot, content,
                 live, packet>>

\* worker_future_.get() returned.
DestroyReturn ==
  /\ alive = "ending" /\ worker = "done" /\ alive' = "no"
  /\ UNCHANGED <<sharedVars, workerVars, popper, live, packet>>

\* Nothing is left to do.
Gone == alive = "no" /\ UNCHANGED qvars

Client ==
  \/ \E t \in Poppers : PopCall(t) \/ Pop(t)
  \/ \E f \in Frames : ReleasePacket(f) \/ DestroyPacket(f)
  \/ \E e \in {"none", "client"} : Cancel(e)
  \/ DestroyCall \/ DestroyReturn

QNext == Worker \/ Client \/ SpuriousWakeup \/ Gone

QSpec == QInit /\ [][QNext]_qvars
-----------------------------------------------------------------------------
(* Properties.                                                             *)

TypeOK ==
  /\ free \in Seq(Slots) /\ ready \in Seq([frame : Frames, slot : Slots])
  /\ exception \in Errors /\ producerDone \in BOOLEAN /\ stop \in BOOLEAN
  /\ nextPop \in 0..FramesToAttempt /\ reading \in 0..FramesToAttempt
  /\ content \in [Slots -> 0..FramesToAttempt]
  /\ worker \in {"acquire", "asleep", "close", "finish", "done"} \cup Holding
  /\ slot \in Slots \cup {NoSlot}
  /\ popper \in [Poppers -> Returned \cup InPop]
  /\ live \subseteq Frames /\ packet \in [Frames -> Slots \cup {NoSlot}]
  /\ alive \in {"yes", "ending", "no"}

\* Who has a slot: the free list, the ready list, the packets, the worker.
ReadySlots == {ready[i].slot : i \in DOMAIN ready}
PacketSlots == Range(packet) \ {NoSlot}
WorkerSlot == {slot} \ {NoSlot}

NobodyTwice ==
  /\ IsInjective(free)
  /\ \A i, j \in DOMAIN ready : ready[i].slot = ready[j].slot => i = j
  /\ \A f, g \in Frames : packet[f] # NoSlot /\ packet[f] = packet[g] => f = g

NeverShared ==
  /\ Range(free) \cap ReadySlots = {} /\ Range(free) \cap PacketSlots = {}
  /\ Range(free) \cap WorkerSlot = {} /\ ReadySlots \cap PacketSlots = {}
  /\ ReadySlots \cap WorkerSlot = {} /\ PacketSlots \cap WorkerSlot = {}

Owned == /\ NobodyTwice /\ NeverShared
         /\ Slots = Range(free) \cup ReadySlots \cup PacketSlots \cup WorkerSlot

\* The worker keeps a slot only while its code has one in hand, or when an
\* error of the source took it away from the program for good.
SlotInHand ==
  slot # NoSlot => \/ worker \in Holding
                   \/ worker \in {"finish", "done"} /\ exception # "none"

\* Every buffer of the arena has exactly one owner at any time, whatever thread
\* releases it and however often a packet is released (Release,
\* AcquireFreeSlot, PushReady).
SlotsOwnedOnce == Owned /\ SlotInHand

\* A frame that is ready, or in a packet that has not been released, is still
\* in its buffer: the worker never refills a buffer that somebody may read.
FramesIntact ==
  /\ \A i \in DOMAIN ready : content[ready[i].slot] = ready[i].frame
  /\ \A f \in live : packet[f] # NoSlot => content[packet[f]] = f

\* Pop hands out frame 0, 1, 2, ... without a gap or a repetition.
FramesInOrder ==
  /\ \A i \in DOMAIN ready : ready[i].frame = nextPop + i - 1
  /\ live \subseteq 0..nextPop - 1
  /\ nextPop + Len(ready) <= reading

\* Before a Cancel, Pop reports the end of the stream only when every frame
\* the worker read was handed out and no error is pending.
EofIsTheEnd ==
  (\E t \in Poppers : popper[t] = "eof") /\ ~stop =>
     worker = "done" /\ exception = "none" /\ ready = <<>> /\ nextPop = reading

\* What the callers of Pop see, whatever the capture thread and the others do:
\* the frames in order, and then the end.
PopsTheStream == FramesInOrder /\ EofIsTheEnd
==============================================================================
