----------------------------- MODULE RtspOutput -----------------------------
(***************************************************************************)
(* The RTSP output of the decoder.  AsyncRtspNv12Pipeline keeps a few      *)
(* slots: a decoded picture on the device is converted into a slot by a    *)
(* stream of its own, and later read from there, by a thread that feeds    *)
(* the hardware encoder ("dvpp") or, when all slots are in use, by the     *)
(* decoding thread itself ("x264").  RtspVideoPublisher queues what comes  *)
(* out and writes it on another thread; "tensor" is the publisher without  *)
(* slots.                                                                  *)
(*                                                                         *)
(* What matters of a device buffer is the frame whose picture it holds.    *)
(* The model decoder fills its one output buffer before it returns         *)
(* (aclmdlExecute); a conversion reads its input some time later.          *)
(***************************************************************************)
EXTENDS Integers, FiniteSets, SequencesExt, FiniteSetsExt

CONSTANTS
  Outputs,       \* the kinds of output: "none", "tensor", "x264", "dvpp"
  RtspSlots,     \* the size of slots_
  RtspQueue      \* queue_capacity_ of the publisher

ASSUME OutputAssumption ==
  /\ Outputs \subseteq {"none", "tensor", "x264", "dvpp"}
  /\ RtspSlots \in Nat \ {0}
  /\ RtspQueue \in Nat \ {0}

VARIABLES
  output,      \* the kind of output of this run
  device,      \* x_hat's buffer, the picture in each buffer, conversions under way
  slots,       \* of each slot: fp16 buffer, picture in NV12, in_flight, its frame
  nv12,        \* pending_slots_, next_slot_, worker_error_ is set, worker_stopping_
  venc,        \* the encoder thread: where it is and the slot it holds
  publisher,   \* queue_, worker_error_ is set, stopping_, closed_, header_written
  writer,      \* the publisher's thread: where it is and what it holds
  shown        \* history: frames written, and the picture each of them shows

rtspVars == <<output, device, slots, nv12, venc, publisher, writer, shown>>

NoPicture == -1
NoBuffer == 0
SlotNumbers == 1..RtspSlots
\* One buffer per slot and the decoder's own.
Buffers == 1..(RtspSlots + 1)

RtspInit ==
  /\ output \in Outputs
  /\ device = [out |-> 1, holds |-> [b \in Buffers |-> NoPicture], converting |-> <<>>]
  /\ slots = [s \in SlotNumbers |->
               [fp16 |-> NoBuffer, picture |-> NoPicture, busy |-> FALSE, frame |-> NoPicture]]
  /\ nv12 = [pending |-> <<>>, next |-> 1, error |-> FALSE, stopping |-> FALSE]
  /\ venc = [at |-> IF output = "dvpp" THEN "wait" ELSE "left", slot |-> 0]
  /\ publisher = [queue |-> <<>>, error |-> FALSE, stopping |-> FALSE, closed |-> FALSE,
                  header |-> output # "dvpp"]
  /\ writer = [at |-> IF output = "none" THEN "left" ELSE "wait", item |-> <<>>]
  /\ shown = <<>>
-----------------------------------------------------------------------------
(* RtspVideoPublisher.                                                     *)

\* The three Write calls: wait for room, then push; they throw after an error.
CanWrite == ~publisher.error /\ ~publisher.stopping /\ Len(publisher.queue) < RtspQueue
CannotWrite == publisher.error \/ publisher.stopping
Queued(item) == [publisher EXCEPT !.queue = Append(@, item)]

WriterTake ==
  /\ writer.at = "wait" /\ publisher.queue # <<>>
  /\ writer' = [at |-> "write", item |-> Head(publisher.queue)]
  /\ publisher' = [publisher EXCEPT !.queue = Tail(@)]
  /\ UNCHANGED <<output, device, slots, nv12, venc, shown>>

WriterWrites ==
  /\ writer.at = "write"
  /\ writer' = [writer EXCEPT !.at = "wait"]
  /\ publisher' = [publisher EXCEPT !.header = TRUE]
  /\ shown' = Append(shown, writer.item)
  /\ UNCHANGED <<output, device, slots, nv12, venc>>

\* No SPS and PPS yet: the frame is skipped.
WriterSkips ==
  /\ writer.at = "write" /\ ~publisher.header
  /\ writer' = [writer EXCEPT !.at = "wait"]
  /\ UNCHANGED <<output, device, slots, nv12, venc, publisher, shown>>

WriterFails ==
  /\ writer.at = "write"
  /\ writer' = [writer EXCEPT !.at = "left"]
  /\ publisher' = [publisher EXCEPT !.error = TRUE, !.stopping = TRUE]
  /\ UNCHANGED <<output, device, slots, nv12, venc, shown>>

WriterLeaves ==
  /\ writer.at = "wait" /\ publisher.queue = <<>> /\ publisher.stopping
  /\ writer' = [writer EXCEPT !.at = "left"]
  /\ UNCHANGED <<output, device, slots, nv12, venc, publisher, shown>>

Writer == WriterTake \/ WriterWrites \/ WriterSkips \/ WriterFails \/ WriterLeaves

\* Close up to the join, which needs the thread to have left.
CloseCall ==
  /\ publisher' = [publisher EXCEPT !.stopping = TRUE, !.closed = TRUE]
  /\ UNCHANGED <<output, device, slots, nv12, venc, writer, shown>>
-----------------------------------------------------------------------------
(* AsyncRtspNv12Pipeline.                                                  *)

\* The model decoder runs.
Decode(f) ==
  /\ device' = [device EXCEPT !.holds[device.out] = f]
  /\ UNCHANGED <<output, slots, nv12, venc, publisher, writer, shown>>

\* convert_stream_ (and copy_stream_ behind it) runs what was queued, in order.
Convert ==
  /\ device.converting # <<>>
  /\ LET c == Head(device.converting) IN
       slots' = [slots EXCEPT ![c.slot].picture = device.holds[c.input]]
  /\ device' = [device EXCEPT !.converting = Tail(@)]
  /\ UNCHANGED <<output, nv12, venc, publisher, writer, shown>>

\* The events converted and copied of a slot have been reached.
Converted(s) == \A i \in DOMAIN device.converting : device.converting[i].slot # s

\* Mutant: the slot is taken whether or not the encoder still reads it.
ReserveSlotAtOnce ==
  /\ ~nv12.error
  /\ slots' = [slots EXCEPT ![nv12.next].busy = TRUE]
  /\ UNCHANGED <<output, device, nv12, venc, publisher, writer, shown>>

\* ReserveSlot, when it does not throw.
ReserveSlot ==
  /\ ~nv12.error /\ ~slots[nv12.next].busy
  /\ slots' = [slots EXCEPT ![nv12.next].busy = TRUE]
  /\ UNCHANGED <<output, device, nv12, venc, publisher, writer, shown>>

Fresh == Min({b \in Buffers : b # device.out /\ \A s \in SlotNumbers : slots[s].fp16 # b})

\* Mutant: the decoder keeps its buffer and the slot reads it later.
OutputAfterShared(s) == device.out

\* The slot takes the decoder's output buffer; the decoder gets the slot's old
\* one, or a new one.
OutputAfter(s) == IF slots[s].fp16 = NoBuffer THEN Fresh ELSE slots[s].fp16

\* Enqueue from the conversion on: swap, start the conversion, hand over.
Enqueue(f) ==
  LET s == nv12.next
      owns == output = "dvpp"
      taken == IF owns THEN [slots EXCEPT ![s].fp16 = device.out, ![s].frame = f]
               ELSE [slots EXCEPT ![s].frame = f]
  IN /\ ~nv12.error
     /\ device' = [device EXCEPT !.out = IF owns THEN OutputAfter(s) ELSE @,
                                 !.converting = Append(@, [slot |-> s, input |-> device.out])]
     /\ slots' = taken
     /\ nv12' = [nv12 EXCEPT !.pending = Append(@, s),
                             !.next = (s % RtspSlots) + 1]
     /\ UNCHANGED <<output, venc, publisher, writer, shown>>

\* An ACL call throws, or worker_error_ is set: the slot is given back.
EnqueueThrows ==
  /\ slots' = IF output = "dvpp" THEN [slots EXCEPT ![nv12.next].busy = FALSE] ELSE slots
  /\ UNCHANGED <<output, device, nv12, venc, publisher, writer, shown>>

NothingChanges == UNCHANGED rtspVars

\* FlushOne on the decoding thread.
FlushFront ==
  LET s == Head(nv12.pending) IN
  /\ Converted(s) /\ CanWrite
  /\ publisher' = Queued([frame |-> slots[s].frame, shows |-> slots[s].picture])
  /\ nv12' = [nv12 EXCEPT !.pending = Tail(@)]
  /\ UNCHANGED <<output, device, slots, venc, writer, shown>>

\* WriteTensorFrame copies the picture.
WriteTensorFrame(f) ==
  /\ CanWrite
  /\ publisher' = Queued([frame |-> f, shows |-> device.holds[device.out]])
  /\ UNCHANGED <<output, device, slots, nv12, venc, writer, shown>>

\* EncoderWorker.
VencTake ==
  /\ venc.at = "wait" /\ nv12.pending # <<>>
  /\ venc' = [at |-> "flush", slot |-> Head(nv12.pending)]
  /\ nv12' = [nv12 EXCEPT !.pending = Tail(@)]
  /\ UNCHANGED <<output, device, slots, publisher, writer, shown>>

VencFlush ==
  LET s == venc.slot IN
  /\ venc.at = "flush" /\ Converted(s) /\ CanWrite
  /\ publisher' = Queued([frame |-> slots[s].frame, shows |-> slots[s].picture])
  /\ venc' = [venc EXCEPT !.at = "release"]
  /\ UNCHANGED <<output, device, slots, nv12, writer, shown>>

VencRelease ==
  /\ venc.at = "release"
  /\ slots' = [slots EXCEPT ![venc.slot].busy = FALSE]
  /\ venc' = [venc EXCEPT !.at = "wait"]
  /\ UNCHANGED <<output, device, nv12, publisher, writer, shown>>

\* SetWorkerError: FlushOne threw.
VencFails ==
  /\ venc.at = "flush"
  /\ nv12' = [nv12 EXCEPT !.error = TRUE, !.stopping = TRUE, !.pending = <<>>]
  /\ slots' = [s \in SlotNumbers |->
                [slots[s] EXCEPT !.busy = @ /\ s # venc.slot /\ s \notin Range(nv12.pending)]]
  /\ venc' = [venc EXCEPT !.at = "left"]
  /\ UNCHANGED <<output, device, publisher, writer, shown>>

VencLeaves ==
  /\ venc.at = "wait" /\ nv12.pending = <<>> /\ nv12.stopping
  /\ venc' = [venc EXCEPT !.at = "left"]
  /\ UNCHANGED <<output, device, slots, nv12, publisher, writer, shown>>

Venc == VencTake \/ VencFlush \/ VencRelease \/ VencFails \/ VencLeaves

\* Mutant: the slot the encoder thread holds is not waited for.
DrainedWhenTaken == nv12.pending = <<>>

\* What Drain waits for when no error ends it.
Drained == nv12.pending = <<>> /\ \A s \in SlotNumbers : ~slots[s].busy

StopVenc ==
  /\ nv12' = [nv12 EXCEPT !.stopping = TRUE]
  /\ UNCHANGED <<output, device, slots, venc, publisher, writer, shown>>
==============================================================================
