# TLA+ specifications of MLVC_310P1

MLVC_310P1 encodes and decodes video with neural models on an Ascend 310P. The
host program around the models is concurrent and distributed: threads hand
frames through bounded queues, an encoder and a decoder keep reference tensors
in step through frame metadata, and frames travel over lossy RTP, legacy UDP or
files. This directory specifies that program, model-checks it with TLC and
proves its central invariants with TLAPS. Paths below are relative to the
repository.

## 1. Inventory

| Component | Source | State | Operations | What is hard |
|---|---|---|---|---|
| Streaming pipeline | `common/src/framework/streaming_pipeline.cc`, `.h` | two bounded queues, in-flight counter, reorder map, running and closed flags, first error | Start, Stop, CloseInput, AddInput, GetOutput, TryGetOutput, worker loop | blocking under a mutex, wakeups, order with several workers, exceptions, stop while blocked |
| Producer, consumer, packets | `common/src/framework/data_producer.cc`, `data_consumer.cc`, `application/src/pipeline/codec_frame_pipeline.cc` | thread, first error, running flag, packet release | Start, Stop, Join, Produce, Consume, Release | error hand-over, double stop and join, release of slots |
| Input queue and arena | `application/src/input/frame_input_queue.cc` | slots, ready list, free list, cancel flag, error | capture loop, Pop, Release, Cancel, destructor | slot reuse, cancel against pop, end of input |
| Encoder loop | `application/src/stream/mlvc/encode.cc`, `encode/encode_state.cc`, `encode_frame.cc` | frame index, reference, LTR cache, GOP override, commands, pending entropy jobs | consume_frame, ApplyControl, BeginFrame, PrepareLtrRecovery, UpdateAfterEncode, retire | commands and requests between frames, both sides' references |
| Encoder output | `application/src/stream/mlvc/encode/encode_output.cc` | writer and senders, closed flag | Flush, SendEnd, Close | first error of several resources |
| Decoder loop | `application/src/stream/mlvc/decode.cc` | reference, LTR cache, entropy window | read_next_packet, consume_packet, run_decoded_frame, joins | reference checks, shutdown order |
| RTSP output slots | `application/src/stream/mlvc/decode.cc` 73-431 | slots and their device buffers, queue, encoder thread, error | Enqueue, FlushOne, Drain, worker, destructor | buffers read later by a device stream, late errors |
| RTSP publisher | `mlvc/src/io/video_io.cc` 1427-1661 | queue, writer thread, error, stopping and closed flags | three Write calls, writer, Close | errors found on another thread, end of the queue |
| Ordered future window | `application/include/mlvc/application/pipeline/ordered_future_window.h` | ring of futures | SubmitNext, PopFront | exceptions, slot of a decoder in use |
| Thread pool, entropy worker | `common/src/framework/thread_pool.cc`, `entropy_worker.cc` | task queue, stop flag | Submit, worker, stop | tasks left at stop |
| Graph executor, packet pool | `common/src/framework/codec_graph_executor.cc` | free packets | Acquire, Release, Run | waiting at the limit |
| RTP sender | `common/src/transport/rtp_mlvc.cc` 307-790 | packet queue, reserved bytes, packet history, control queue, request counter | SendUnit, Flush, send loop, RTCP loop, retransmit, close | reservation, pacing, retry windows |
| Unit reassembler | `common/src/transport/rtp_mlvc.cc` 142-306 | partial units, completed ids | Add | loss, duplicates, limits, sweep |
| RTP message receiver | `common/src/transport/rtp_message_receiver.cc` | sequence tracking, NACK list, ready queue | receive loop, RTCP loop, Receive | 16-bit wrap, timers |
| RTP frame sender and receiver | `mlvc/src/io/udp_frame_transport.cc` 307-1084 | expected frame, reorder window, references, pending configurations, EOS | ReceiveHeader, ReceiveFrame | loss, reordering, switches, timeouts |
| Legacy UDP transport | `common/src/transport/udp_message_transport.cc` | send queue, partial message, ready queue | Send, Receive | fragments without message id |
| Pacer | `common/src/transport/udp_pacer.cc` | next send time | Pace | |
| RTCP endpoint | `common/src/transport/rtcp_session.cc` | replay window, peer | send, receive | window arithmetic |
| Camera reader | `mlvc/src/io/video_io.cc` 274-470, 771-1262 | three threads, their queues, surface and buffer pools, RTSP copy, errors | Read, Close, three thread loops | closing while threads wait for each other, pool exhausted, buffers kept by packets |
| Entropy coder | `common/include/mlvc/entropy/rans_byte.h`, `common/src/entropy/rans_core.cc`, `mlvc/src/entropy/entropy_codec.cc` | 31-bit state, bytes, two streams with one tail | Encode, Decode, Flush, escapes | inverse of each other, order reversed, shared bytes |
| Frame codecs and stages | `mlvc/src/codec/frame`, `codec/stage`, `codec/prior`, `common/src/core/tensor_handle.cc` | workspace, handles with two copies, references, scratch | EncodeIAsync, EncodePAsync, DecodeI, DecodeP, RunStage | stale copies, skipped mirrors, the worker's inputs |
| Custom operators | `custom_ops/mlvc_prior_ops`, `mlvc/src/runtime` | device memory | masks, accumulation, quantisation, indexes, NV12 | tiling in 32-bit words, same values as on the host |
| Media units, stream files | `common/src/transport/mlvc_media_unit.cc`, `mlvc/src/io/mlvc_bitstream.cc` | writer and reader cursor, configuration | write, read, switch | serial-number order |
| Rate control, models, ACL runtime, CLI | see `PROJECT.json` | numeric | | not protocol state |

How they meet. A capture thread fills the input queue; `PreparedFrameProducer`
pops it and calls `AddInput`; the pipeline's workers prepare frames; the
consumer thread calls `GetOutput` and runs `consume_frame`, which reads control
commands and requests that the RTP sender's RTCP thread collected, encodes, and
queues an entropy job; finished jobs are flushed to a file or a sender in frame
order. On the other side the RTP message receiver's threads reassemble units,
`RtpMlvcReceiver` orders them, `BitstreamProducer` feeds the same kind of
pipeline, and its consumer decodes entropy in a window of futures and runs the
model with the references both sides must agree on.

What makes each part correct:

* pipeline: input order, no lost or invented result, slots balanced, no
  blocking under `reorder_mutex_`, every blocked call returns on close or stop;
* references: the decoder never decodes a frame from another reference than the
  encoder used, no command or loss makes a receiver reject a good frame;
* input queue, pool, window: no slot used by two, every waiter woken;
* entropy coder, stages and kernels: the decoder takes from the payload what the
  encoder put in, no read of a tensor finds its stale copy, and a computation has
  one result wherever it runs;
* transports: a unit is delivered once, complete and in order or not at all;
  limits hold; retries within their windows.

## 2. Modules

| Module | Content |
|---|---|
| `OrderedWindow` | abstract specification: numbered items enter a window, leave in order or are dropped, restart empties it |
| `StreamingPipeline` | the pipeline, one action per critical section, with the most general clients |
| `MCStreamingPipeline` | model values and thread symmetry |
| `StreamingPipelineProofs` | theorems and proofs: types, slots, pushes, order; nothing accepted is lost, and the pipeline implements `OrderedWindow` |
| `ReferenceSync` | encoder, transport with loss, receiver and decoder of one stream, seen through their reference state |
| `MediaUnits` | the SCU that carries a stream's header and the EFU that carries a frame: making, checking and reading them |
| `ReferenceSyncProofs` | theorems: both ends keep the same references, nothing is refused, forced recovery is sound |
| `MCReferenceSync` | the schedules and commands the runs enumerate |
| `FrameInputQueue` | the input queue, its worker, the arena's buffers and the packets, with the most general callers |
| `EntropyPool` | the thread pool and the entropy tasks it runs |
| `EntropyWindow` | the ordered window of futures over that pool |
| `RtspOutput` | the slots, streams and encoder thread of the decoder's RTSP output, and the publisher |
| `DecodeStream` | `RunDecodeStream`: producer, pipeline, consumer and main thread; extends the two above |
| `DecodeStreamProofs` | theorems and proofs about it, and about `DeviceTiling` and `Nv12`: all work is shared out, once |
| `RtpMedia` | units, packets and RTP sequence numbers |
| `RtpSendQueue` | the RTP sender's three threads around its bounded queue |
| `RtpUnitReceiver` | sequence tracking, reassembly and the unit queue of the RTP receiver |
| `RtpLink` | sender and receiver joined by a network that loses, doubles and reorders, with RTCP back |
| `RtpLinkProofs` | theorems: the sender's bytes are accounted for, RTCP acts once, a switch starts at its random-access frame |
| `RtpFrames` | frames and configurations over such a link: `RtpMlvcSender` and `RtpMlvcReceiver` |
| `RtpFramesProofs` | theorems: without a gap nothing is missing, and the receiver never goes back |
| `EncodeFrontEnd` | `RunEncode` from that queue over the frame pipeline to the codec; extends `FrameInputQueue` |
| `EncodeFrontEndProofs` | theorems and proofs about it and about `FrameInputQueue` |
| `CameraFrontEnd` | the same with the camera's reader and its three threads as source; extends `EncodeFrontEnd` |
| `CameraFrontEndProofs` | theorems: it implements the front end, and the codec sees the camera |
| `RansByte` | the byte-wise range coder |
| `RansCoder` | symbols of a distribution, with escapes and bypass bits |
| `EntropyCodec` | the Z and Y symbols of a frame on one or two coders |
| `PriorLayout` | parts and masks of a latent, on the host |
| `DeviceTiling` | how a custom operator shares its elements among cores and tiles |
| `Nv12` | the conversion to NV12 on the host and on the device's cores, and the removal of padding |
| `DevicePrior` | the five custom operators of the prior |
| `StageTensors` | tensor handles, workspace, runner and output policy of the stages |
| `FrameModels` | the models' stages by name, and what is taken for granted of them |
| `FrameCodec` | the frame functions of encoder and decoder over all of these |
| `MCFrameCodec` | tensors, distributions, options and pictures for TLC |
| `UdpMessages` | the legacy UDP message transport: sender's queue and thread, network, receiver |
| `StreamFile` | the elementary stream file, its writer and its reader |
| `EncodeOutput` | encoding, retirement of entropy jobs and the output resources of the encoder, over the two above and `EntropyPool` |
| `PlainStreams` | a stream by file or legacy UDP from encoder to decoder; extends `EncodeOutput` |
| `PlainStreamsProofs` | theorems: entropy jobs are retired in order, and decoding undoes encoding (`RansByte`) |
| `MCEncodeFrontEnd`, `MCDecodeStream`, `MCRtpLink`, `MCRtpFrames`, `MCPlainStreams` | model values, units and scenarios |

### StreamingPipeline

Every thread has a `pc`; an action runs from one lock acquisition (or atomic
access) to the next. `waiters` is the set of threads asleep on
`in_flight_cv_`; `notify_one` picks any of them, `notify_all` wakes all, and
`SpuriousWakeup` wakes one without a reason. `running_` is an atomic that the
last worker and `Stop` change without `in_flight_mutex_`; so `AddInputTest`
and `AddInputSleep` are two steps, and a wakeup between them would be lost. The
model holds `in_flight_mutex_` across them, as the code does, and lets
`running_` change there. `Push` on the output queue happens while
`reorder_mutex_` is held (`pc = "publish"`).

Clients are any threads that call at rest; two `Stop` calls, or `Stop` and
`Start`, do not overlap (`NoStopActive`), which is how `encode.cc` uses the
pipeline. `processed_count_` and `error_count_` only feed statistics and are
left out. A data object is its sequence number; a null result is a flag.

### ReferenceSync

A tensor is named by the frame that produced it. `EncodeFrame` is all of
`consume_frame` up to the hand-over of the frame: apply due commands in order,
take one request, `BeginFrame`, `PrepareWarpResetReference`,
`PrepareLtrRecovery`, the choice of the reference, `SaveWarpResetFrame`,
`UpdateAfterEncode`, the metadata and the unit written. A frame's payload is
named by the `Prediction` it was coded against, reference and translation; only
the history `mismatched` looks at it.
`force_random_access_` is no variable: it is written and cleared within one
`EncodeFrame`. `pending_controls` and the sender's `control_queue` are one
sequence, since the first is refilled from the second before it is scanned.
`has_ltr_feature_` is "the cache is not empty" on both sides.

Transports: `"file"` (metadata, no loss), `"rtp"` (metadata, loss, commands,
requests), `"udp"` (no metadata; the decoder computes the schedule from the
header). Units arrive in order here; then the receiver's gap handling
(`MarkDependencyGap`, `FindRecoveryFrame`, `TryStartAtRandomAccess`) is
`SkipGap`, taken at any time after the loss because the wait is only time.

Over a file and RTP, the header and every frame pass through `MediaUnits`. The
decoder plans with `header`, what `ParseScu` and the reader made of the SCU
(`MakeScu`, `SerializeScu`: the policy TLV, the forced pair whose -1 is all ones,
the capability TLV of translation warp), and a frame is an EFU whose flags,
references and translation bytes `SerializeEfu` checks before it is sent
(`writerFailed`) and `ParseEfu` when it arrives (`receiverFailed`). Frame ids are
counted modulo `IdSpace` and a translation is two signed bytes in front of the
payload, which the CRC covers. Fields of the picture's shape, lengths, Q indices
and presentation times are left out; they pass through unread. A stream
configuration unit is assumed to be there, as the sender repeats it
before every I-frame.

Fixed-Q commands, rate control, entropy jobs, and `drop_frame_index` (a test
option that discards a frame behind the receiver's back) are left out.
`apply_after_frame_id` is a small number or the immediate value.

### FrameInputQueue

The queue has one mutex, and one action is one critical section with the
notification after it. The code notifies after unlocking; a notification that
comes late can only wake a thread that went to sleep since, which is
`SpuriousWakeup`. `Worker` is `WorkerMain` with `AcquireFreeSlot`, `PrepareOne`,
`ReturnFreeSlot` and `PushReady`; reading may deliver a frame, end or throw. A
slot the worker has in hand when the source throws is never given back:
`SlotInHand` names that case. Pixels are a frame number in `content`.

Callers: each thread of `Poppers` calls `Pop` whenever it likes, anyone may
release or destroy a packet or cancel, with an error or without. `live` and
`packet` are the `PreparedFramePacket`s and their slot index: `Release` empties
it, the destructor releases what is still there. The destructor of the queue
waits for the worker (`alive`).

### EncodeFrontEnd

The producer thread, the pipeline's workers with the processor of `encode.cc`,
the consumer thread and the main thread, over the `FrameInputQueue`, whose
actions are used as they are. The pipeline appears through its operations
(AddInput, Pop of a work item, publish in order, GetOutput, CloseInput, Stop);
their locks are `StreamingPipeline`'s subject. `options` are the two
settings that matter, `queue_capacity` and whether motion is prefetched: then
there is one worker, whose `PrepareMotion` may throw.
Everything between two accesses to shared state is a step: the check of
`frame_pipeline_running`, `Cancel`, the flag and `CloseInput` of a failing
callback can all interleave with the others.

A packet is a shared pointer, so its destructor runs where the last reference
goes. `Referenced` is who holds one: the inputs and outputs of the pipeline, a
worker's local work item (kept until the next `Pop`), the consumer's `data`, and
the producer between `Pop` and `AddInput`. `LastReference` runs the destructor,
and nothing else moves before it (`Unreferenced = {}`).

Encoding a frame is one step that takes the frame, releases the packet and may
then fail (output), or fails before the release. Commands, references and
entropy jobs of the same callback are not in this module.

### CameraFrontEnd

The source behind `FrameSource`: a file that may end early, or a camera, with or
without an RTSP copy. Three threads (`camera`, `tensor`, `publisher`) hand frames
through `camera_queue_`, `tensor_queue_` and the queue of `CameraRtspPipeline`; the
input queue's worker reads from the end of that chain and closes it. A step is what a
thread does between two waits: the check for room and the reading of a frame are
one step, so are decoding and publishing, the two stop flags of `Close`, and the
last join with the end of the RTSP thread. The condition variables are guards, since
whoever changes a condition notifies all of its waiters after the change.

Surfaces and buffers are shared pointers named by the camera frame in them;
`SurfacesHeld` and `BuffersHeld` say who refers to one. A slot of the arena holds the
pool's buffer itself (`lease`) until its packet is released. `Acquire` waits for a
buffer without a stop condition, so with as many slots as the pool has buffers
beyond the queue's the conversion thread can wait for one that only the thread which
joins it could give back. `BuffersAssumption` excludes that; nothing in the
code does (`frame_buffer_slots` has no upper limit).

Left out: devices' reconnection, pixel formats, statistics, the RTSP publisher's
own thread, which is in `RtspOutput`.

### The codec: RansByte to FrameCodec

`RansByte` is the coder of `rans_byte.h`: a state and a stack of bytes, since the
encoder writes towards the front of its buffer what the decoder reads from there.
`RansCoder` and `EntropyCodec` put symbols, escapes and bypass bits on it, on one
coder or two whose streams share their last bytes. `PriorLayout` says which channels
of which places belong to a part, `DevicePrior` does the same with the kernels'
own arithmetic over the tiling of `DeviceTiling`, where every sum and product is a
word. Memory a kernel does not write keeps what it held.

`Nv12` names a byte of a picture by the set of samples that it averages. Scalar and
NEON code, and the kernel whose 32 cores take rows, are three definitions of the same
picture; rounding to bytes and the order of a sum are left out. (The comment at
`mlvc_fp16_yuv444_to_nv12.cpp:42-44` says that the kernel keeps the scalar
code's order of accumulation; it adds columns first.) The kernel wants a width that is
a multiple of 16 and a stride that is one of 32, while the decoder pads strides to 16
and speaks of that at `decode.cc:341-343`: such videos are refused, not shown wrongly.

`StageTensors` has a value for each of a handle's copies and its four flags, and the
rules by which a stage's inputs are uploaded, its outputs mirrored or skipped.
`FrameModels` names the stages and gives each tensor that nothing looks into the
digest of what it was computed from: a stale or foreign input makes another digest.
Latents, scales and symbols are small integers. `FrameCodec` composes them: encoder,
entropy worker, payload and decoder, with every option that chooses a path (device or
host, prebuilt indexes, fused stages, skipped mirrors, one or two coders, static
tables). The encoder's main thread reconstructs while the worker codes what was
pinned; a step of either is what it does between two accesses to what both use.

Left out: models that fail, the official MLVC payload, motion, several streams in a
process, the pinned buffer of a handle, which nothing allocates.

### EntropyWindow, RtspOutput and DecodeStream

`DecodeStream` has one thread each for the producer, the consumer and main; the
pipeline between them appears as what `OrderedWindow` promises, and a step is
what a thread does between two accesses to something shared. `run` is the
position inside `run_decoded_frame`, which the consumer thread executes and,
after the joins, the main thread (`MainDrains`). Every call that can throw may:
the transport (`ProdThrows`), an entropy task (`TaskEnds` with `ok = FALSE`), the
model and each output (`RunThrows`), the publisher's and encoder's threads. The
destructors run in the reverse order of the declarations in `decode.cc`.

`EntropyPool` is the `ThreadPool`, `EntropyWindow` the `OrderedFutureWindow` over
it: `window.inUse` is `slots_in_use_`, `pool.kept` the futures that are ready.
Slot `s` is `entropy_decoders[s]`.

In `RtspOutput` a device buffer is the number of the frame whose picture it
holds. `Enqueue` swaps the decoder's buffer with the slot's in mode `"dvpp"` and
keeps it in mode `"x264"`; the conversion is queued on a stream of its own and
reads its input in a later step (`Convert`), `Converted` is the slot's event.
The model decoder itself is synchronous (`aclmdlExecute`). The publisher skips
H.264 frames until it has seen SPS and PPS (`WriterSkips`).

Left out: the file writer (it is written by the thread that decodes),
`drop_frame_index`, pictures' contents, statistics.

### RtpMedia, RtpSendQueue, RtpUnitReceiver and RtpLink

An action of `RtpSendQueue` is a region under `queue_mutex` or one call outside
it. `waiting` is the set of threads asleep on `queue_cv`, so a notification that
wakes the wrong thread is seen. `app.held` is the reservation between
`ReserveQueueBytes` and `EnqueueReserved`; `session.gate` is
`pending_config_id`, whose random-access frame must come next. `marked` are the
sequences sent again less than 100 ms ago (`RetransmitTimePasses` ends that), and the
history variable `requeued` what was queued again in that time.

`RtpUnitReceiver` tracks, counts and reassembles a packet in one step, since all
of that belongs to the receive thread, and publishes in another, since it may
wait for room. `Push` is the whole of `RtpMlvcReassembler::Push` for fragments of
an honest sender: time-out, memory of completed units, eviction, the bytes held
before the first fragment; `MakeRoom`, `WithinLimits` and `Complete` are its parts. A unit is known by its record, its bytes by the
packets' sizes.

`RtpLink` adds the network and the RTCP endpoint with its replay window. The
network loses, doubles and reorders within the scenario's budgets. A copy is not
under way for longer than half of `SeqHistory` numbers; a copy that is would be
taken for a new packet once its number has left the history.

Left out: pacing and TMMBR rates (time only), fraction lost and jitter in
reports, another sender's SSRC, conflicting or overlapping fragments, the
packets' layout.

What the code does at its limits, seen while modelling and stated in the
properties: a packet from before the first one received that crosses a wrap is
extended a cycle too far (`SequencesExact` excepts it); a number still missing when the
16-bit counter comes round again stays missing (`SequencesExact` is checked over
one lap); a round of NACKs names the 256 lowest, and numbers beyond recovery are
named again in each; a NACK refused for lack of room is not served for 100 ms;
a packet that leaves the
history of 2048 while it is queued again loses its mark, is known again once it is sent,
and may then be queued twice within 100 ms, which
`docs/status/ISSUE_9_RTCP_PROGRESS.md:22` excludes (`NacksOnce` excepts
`requeued.forgotten`); the 33rd waiting command drops the oldest, whose repetition is then ignored; the
sender follows the first receiver's SSRC, and with a key a receiver that starts
again counts from zero and is not heard.

### RtpFrames

One unit here is a whole SCU, EFU or EOS; it arrives once, twice, late or never,
in any order. `Arrive` is a return of `Receive` or `ReceiveFor`, `Loop` is one
pass of the loop in `ReceiveFrame` up to its next `continue` or `return`: `Pass`
names the branch and `After` gives the state. The 100 ms clock is `none`, `armed`
or `passed`. `EndTimesOut` is the two-second wait after EOS; it is taken only when
nothing is under way, as a unit does not take two seconds.

Left out: checks that two copies of a unit are equal, byte limits, serial-number
wrap of ids. The frames' references are those of `SendFrame`'s metadata;
`ReferenceSync` has the schedule that produces them.

The receiver also gives up without any fault of the sender when its window is full of
frames it could resume at, or when eight newer configurations wait: the limits of
`HonestStreamAccepted`.

Three situations in which the receiver waits for good, excepted in the
properties: the expected frame came but its SCU was lost, and a later switch with
its I-frame is there (the exact match at line 853 keeps `FindRecoveryFrame` from
being asked); the EOS of a configuration whose SCU was lost; and an EOS that
comes before the start, which throws even when the SCU is only late.

### UdpMessages, StreamFile, EncodeOutput and PlainStreams

`EncodeOutput` is `consume_frame` after the codec: a frame's entropy job goes to
the pool, jobs are retired from the front of `pending_entropy`, early when their
future is ready and otherwise when two are pending, and `Flush` hands the payload
to the writer or the sender. The rate controller's feedback (`Update`) happens at
retirement, so `solved` records which frames it knew when it chose the Q index of
each frame. `Drains` empties the rest at the end; the destructors follow in their
order. `EntropyPool` appears again; the tasks of the encoder use the shared
`MlvcOfficialEntropyEncoder`, whose `Encode` is `const` and keeps its stream local.

`StreamFile` keeps what the file contains: header, units, a unit that was cut, and
whether the stream object failed. `WriteFails` leaves a part of a unit behind and
`Crash` may cut what was not flushed. A destructor that cannot flush throws and
ends the program (`"aborted"`).

`UdpMessages` has the queue of the sending thread with its byte limit, datagrams in
flight, and the receiving thread with its partial message and its queue.
`lost`, `moved` and `copied` record which datagrams the network lost, overtook or
doubled. The decoder's consumer and main thread are one thread (`dec`): the legacy
transports meet the decoder only in `read_next_packet`.

Left out: malformed packets, byte limits of the receive queue, `max_queue_delay`, the
pacer, `SwitchConfiguration` (commands exist with RTP only) and the legacy layouts
of headers. `FramesArriveWhole` and `EndMeansAll` state what a loss, a late copy or
a reordering can do: fragments carry no message id, a file has no end unit and the
end message no number of frames. A late copy of a first fragment is enough to lose a
frame of another size without a sign: it abandons the message that is assembled. `docs/code_architecture.md:136` and
`docs/udp_frame_stream.md:28` describe the same limits from the user's side.

## 3. Runs

| Run | Bounds | Shows |
|---|---|---|
| `safety` | 2 workers, 1 producer, 1 consumer, 1 controller, capacity 2, 3 inputs, 1 start | slots, no blocking push, order, nothing lost; `ImplementsWindow`: the pipeline refines `OrderedWindow`; every call returns under `FairSpec` |
| `schedule` | GOP 3 and 4, reset 2 and 3, LTR start 0 and 1, period 0 to 2, every valid forced pair of {1,2,3,5}, three transports, 7 frames, 2 commands, a loss, 2 in transit; under translation warp GOP 4, reset 2 (standing for 96 and 32), 10 frames, a command, 2 requests, 3 losses, translations (-128, 127) and (0, 0) | the references stay in step, and no unit made is refused |
| `access` | one request | finding: random access off schedule |
| `tlv4` | one command | finding: TLV 4 has no effect |
| `evicted` | `MaxLtrFrames` 2, GOP 6, period 1 | finding: receiver forgets a reference |
| `forced_loss` | GOP 6, one loss | finding: receiver gives up instead of resuming |
| `front_end` | 2 slots, 3 frames; 2 pipeline workers, or 1 that prefetches motion; a file of 2 or 3 frames, a camera with 1 surface, a published camera with 2 and one frame; camera queues of 1, 4 buffers | ownership of buffers, whole frames in order, end of stream; the codec sees what the source gave, unrefilled; failures are reported, `RunEncode` returns |
| `decode_stream` | 4 frames, pipeline capacity 1, 2 pool threads, 2 window slots, 2 RTSP slots, publisher queue 1, all four outputs | frames decoded and shown in order, decoders and buffers not shared, success is complete, `RunDecodeStream` returns |
| `rtp_link` | the scenarios of `MCRtpLink`: one question each (a switch, a full queue, loss and NACK, replay under a key, a number that wraps, a receiver that stops), with small sequence numbers and queues | sender and receiver account, deliver once, know their gaps and close |
| `rtp_frames` | four streams: one or two switches, LTR recovery, I-frames only; 4 units under way, window 3, 2 losses, 1 copy | an honest stream is never rejected, gaps end, order and completeness |
| `plain_streams` | a file of 3 frames with or without prefetch and rate control, or 2 frames of two fragments or these and one of three over UDP; 2 pool threads, sender queue of 3 datagrams, receive queue of 1, a fault of the network, a failing write, a crash | entropy jobs retire in order, frames arrive whole, an end is an end, both programs end |
| `frame_codec` | I, P, P; latents of 2x2 places and a channel per part, 2 Z channels, 4 scales, 2 Q values; 5 encoders times 4 decoders and the coder's options; one payload on the wire; 5 NV12 conversions | both ends agree to the bit, no stale tensor is read, the device computes what the host does |

Why these bounds reach the cases. Pipeline: two workers finish out of order;
three inputs over capacity two fill the window, so the producer sleeps, results
wait in `completed_results_` and the output queue is full while another result
is ready. The theorems lift the types, slots, pushes and order to every size, to any
number of producers, and across restarts. Schedules: 7 frames are a whole GOP of 3 or 4 with its successor, so
each stream has an ordinary, a reset, an LTR and an I-frame, a loss before, at
or after each of them, and a GOP change in both directions. Warp: 10 frames
cross two GOPs with the reset in the middle of each, and three losses are enough to
lose a reference, its recovery and a frame after it. In-transit bounds of two
let reader and decoder be two frames apart; nothing compares longer distances.
`IdSpace` 32 leaves every frame number below its half, as 2^32 does; the translations
are both ends of a signed byte and the one the code treats apart.

Front end: with two slots and three frames a buffer is used twice; the worker
waits for a slot while the codec holds one frame and another is in the pipeline,
and two pipeline workers finish out of order; every thread can be at any of its
waits when somebody fails. The theorems lift the ownership of buffers, the order
and the end of stream to every number of slots, frames and callers of `Pop`. With
the camera's queues of one, each of its threads is met waiting for room and for
work; one surface makes the camera wait for its own frame, and with two the publisher
holds one while the other is decoded; four buffers are the fewest
`BuffersAssumption` allows. That the codec sees the camera's frames in their order is
proved for all of these numbers.

Frame codec: three frames are an I-frame, a P-frame predicted from its picture and
one predicted from a feature; a latent of 2x2 places has one cell for each mask, and
odd masks and parts meet each channel once; the distributions have escapes on both
sides. `WordSize` is 2^20 there, and all products stay below it; what the width of words
does to the shares of cores is proved. The NV12 pictures have strips with and
without a rest, one row per core, cores without a row, and a tail that wraps.

Decoder: two window slots and two pool threads let the later task end first and
the window fill; two output slots let decoder, device stream, encoder thread and
publisher each hold a frame. RTP link: a scenario's numbers start near
the wrap or away from it, and the sender's queue of four bytes holds less than the
units of a scenario together; each scenario lets one or two things go wrong, and
between them they take every action. RTP frames: a window
of three is exceeded by four units under way, a stream of four I-frames fills it with frames
to resume at, and two losses take a frame and the
SCU of its switch. Plain streams: three frames are one more than `pending_entropy`
holds before it waits; a frame of two datagrams followed by another is what a loss,
a copy or an overtaking can mix up, and a queue of three datagrams fills.

`CHECK_DEADLOCK FALSE` stands in the `ReferenceSync`, `decode_stream`, `rtp_link`,
`rtp_frames` and `plain_streams` runs: a stream ends at its bound, a program returns, and a link
whose budgets are spent stands still; liveness properties say what must not stop. `safety` checks deadlock; a controller at rest can always
close the input, so it says that no state is without a step, and `CallsReturn`
says that the threads inside the library make theirs. `frame_codec` checks deadlock
too: it ends only when every frame is decoded. It states no fairness; nothing in it
waits but for a frame or a payload.

Fairness. The pipeline (`FairSpec`): one condition per thread. The operating system
schedules runnable threads, the processor function returns, and a mutex is granted in
the end to a thread that finds it free again and again. For producers, workers and
consumers weak fairness is enough. The threads that call `Stop` and `CloseInput` need
strong fairness, since others keep taking the mutex they wait for. Nothing obliges a
client to make a call: `CallsReturn` starts from a call already made, and does not
assume that anybody reads results. It is written `[]<>(in progress => over)`: a call
in progress stays so until it is over, so this says the same as "a call in progress
is over in the end". `SpuriousWakeup` has no fairness, so no property relies on one.

For the front end weak fairness per thread is enough, because a critical section
is a single step there: reading a frame, preparing motion, encoding and writing
return or throw, and runnable threads run. With the camera the condition for its
reader's threads, the pipeline, the consumer and main is weaker, one for all of them
together (`RunsThrough`): as long as one of them can take a step, one does.
That the driver, the decoder and the publisher return or throw is part of it.

The other specifications ask for no more than that either. `DecodeStream`: weak
fairness of `Next`. Nothing there can go on for ever but the program, so a run that
does not stop with a step to take ends; a publisher whose network write hangs for
ever would hang the program, as in the code. `RtpLink`: the sender's threads, and
the receiver's while it is being destroyed (its socket has a time-out); the network
owes nothing. `RtpFrames`: the sender sends, what is not lost arrives, and time
passes. `PlainStreams`: the threads of both programs, the receiver's taking what has
arrived; the network need not disturb anything and nobody has to be killed.

`StopsAloneUnlessBothFail` states the case it excepts: when producer and consumer
both fail, main leaves through `~CallbackDataConsumer`, whose `Stop` can join the
same workers as the consumer's own.

`NothingAcceptedIsLost` excepts runs in which a number was wasted
(`NumberWasted`): of two producers that race with `CloseInput`, one takes a
number and has its `Push` refused while the other's input is accepted under a
higher number. No result for the wasted number ever comes, and results behind it
stay in `completed_results_`. Every stream of the program has one producer,
with which no number is wasted below an accepted one.

## 4. Findings

1. **Random access off schedule** (`access`). `BeginFrame` forces the I-frame
   but takes `reset_reference` from the regular schedule, so the encoder keeps
   its reference where the flag tells the decoder to clear its own.
2. **TLV 4** (`tlv4`). The applied command is overwritten by
   `SetForceRandomAccess` in the same frame.
3. **Evicted LTR reference** (`evicted`). 64 ids in the receiver against an
   unbounded cache in encoder and decoder: a valid forced pair with more
   captures in between is rejected without any loss.
4. **Resume at a forced recovery frame** (`forced_loss`). The next scheduled
   LTR frame may name a capture lost in the gap, and the receiver throws.

Without forced pairs, requests, or loss (each alone) the properties hold; the
`schedule` run states exactly where.

## 5. Proofs

Assumption: `PipelineAssumption` (non-empty finite set of workers, finite
clients, disjoint, capacity at least one, as the constructor enforces). Nothing
bounds the number of threads, inputs or starts.

* `TypeCorrect`: `Spec => []TypeOK` by one step per action (`TypeStep`).
* `InvariantCorrect`: `Spec => []PipelineInv`. The properties are not inductive
  alone. Slots (`SlotsAccounted`) need that a result is inserted under a number
  that `completed_results_` does not hold, otherwise `emplace` drops a result
  whose slot stays counted; that is `UniqueNumbers`, which in turn needs the
  numbers in queues and in hands to differ and to lie below `next_sequence_`.
  A worker's exit needs `ActiveCounted`, since `Start` may reset the slots only
  when no worker holds one. Wakeups move threads between labels and keep the
  slot count only because of `WaitersAsleep`. `inFlight <= Capacity` gives the
  room in both queues.
* `SlotsCorrect`, `PushesCorrect`, `OrderCorrect` follow; `NoPushBlocks` comes
  from the bound on `inFlight` and the slot a producer or publisher itself
  occupies outside the queue.

The second part of `StreamingPipelineProofs` is about where a number is.
`Effect` lists the nine things a step can do to the numbers (draw one, push it, have it
refused, pop it, store its result, publish or drop that, deliver it, forget all at a
restart, or nothing), and every action is one of them; what follows has nine cases
instead of thirty-three.

* `NothingLost`: `Spec => []NothingAcceptedIsLost`. `NumbersInside`: what is inside
  lies above what was published and is in one place. `NothingVanishes`: an accepted
  number is in a queue, in a hand, among the results or published. `EndsDrained`:
  workers leave only a drained queue, and as long as nobody stops the pipeline the
  next result never waits without a worker about to publish it. At the end all places
  but the last are empty.
* `WindowRefined`: `Spec => ImplementsWindow`, the pipeline implements
  `OrderedWindow`: each effect is a step of the window or leaves it alone.

The first part of `EncodeFrontEndProofs`, about `FrameInputQueue` (assumption: `QueueAssumption`, at least one buffer and a
natural number of frames; any set of callers):

* `QueueInv` is `TypeOK`, the four safety properties of the run and
  `WorkerState`. `SlotsOwnedOnce` is inductive with the types alone, since each
  step moves one buffer from one owner to another. `FramesIntact` needs it: the
  worker writes into a buffer that it owns, hence nobody else's.
  `PopsTheStream` ties `nextPop`, the ready list and `reading` together, and needs `WorkerState`: `producer_done_` is set exactly when the
  worker has ended, and without a Cancel it ends only after the source did or
  threw, and a throw is in `exception_` from then on.
* `TypeCorrect`, `OwnershipCorrect`, `IntactCorrect`, `PopCorrect`.

The second part (assumption: `FrontEndAssumption`, one producer thread):

* `FrontEndUsesQueue`: `Spec => QSpec`. Each step of the encoder's threads is a
  step of the queue's most general client or leaves the queue alone; the step
  that releases a packet needs `QueueInv`, which says that the packet is one of
  a frame. So every theorem above holds of the running encoder,
  `FrontEndFramesIntact` among them.
* `StopsAloneCorrect`: `Spec => []StopsAlone`, from `JoinedFirst`: the main
  thread has left its joins only when the producer and the consumer have ended.
* `OkCorrect`: `Spec => []OkMeansComplete`, and `CodecCorrect`:
  `Spec => []CodecTakesFrames`, from `FrontInv`. `FailuresShow`: no failure stays
  without an exception in the queue, where both ends look for it. `Stopping` and
  `Ending`: nothing is stopped or closed before a failure or the end, and who ends
  without a failure has seen the end of the stream. `StreamInv`: as long as there is
  no exception the codec has the first frames and the pipeline the next ones in
  order (`FramesInLine`), their packets exist (`PacketsAlive`), and each is in a
  worker's hands or will be (`NoneStranded`). `CodecInv` is what remains true when
  the run fails.

`CameraFrontEndProofs` (assumptions: `FrontEndAssumption`, `SourcesAssumption`,
`BuffersAssumption`):

* `CameraIsASource`: `CameraSpec => Spec`. The front end with a camera implements
  the front end with the most general source.
* `CameraCorrect`: `CameraSpec => []CodecSeesTheSource`. `ReaderInv`: the frames from
  the codec back to the lens are one increasing line (`FrameLine`) in which nothing
  is missing but what was spoilt, as long as the reader is open and no thread of
  it has failed. `LeaseInv`: the buffers in the slots are different frames, and a slot
  on its way carries the buffer of its frame. Each thread moves a frame one place
  along the line; the lemmas on `Line` say so without the threads.
* `CameraRunCorrect`: hence the theorems about the front end hold with a camera.

`DecodeStreamProofs` (assumptions: `PoolAssumption`, `WindowAssumption`,
`OutputAssumption`, `DecodeAssumption`; any number of pool threads, window slots,
output slots, frames, and any capacity):

* `StopsAloneCorrect`: `Spec => []StopsAloneUnlessBothFail`, from `Control`: main has
  seen the others end before it goes on.
* `DecodersCorrect`: `Spec => []DecodersUsedSafely`. A task, queued or running, is a job
  of the window whose promise is not kept, no two tasks are one job, and no two jobs
  share a slot (`EntropyInv`): `PopFront` frees a slot only when its promise is
  kept, and `~OrderedFutureWindow` waits for every promise before the decoders go.
* `FramesCorrect`: `Spec => []FramesInOrder`. Up to the model, from `StreamInv`:
  pipeline, `cons`, window and `run` hold consecutive frames up to the last one read
  (`WindowFlow`, `PipeFlow`). Behind it, from `LineInv`: `shown`, the item being
  written, the publisher's queue and the slots that wait are one line of frames that
  ends with the last one decoded, as long as neither end of the output has failed.
* `PicturesCorrect`: `Spec => []ShowsItsFrame`, from `PicturesInv`: a queued conversion
  still has the input it was started with, and a slot that waits and is converted has
  the picture of its frame. It needs that decoder and slots own different buffers
  (`BuffersInv`), that the slots that wait are the last ones used, in order
  (`RingInv`), and that `in_flight` is set for exactly the slots not given back and the
  one reserved (`BusyInv`), so that `ReserveSlot` never hands out one that is read.
* `OkCompleteCorrect`: `Spec => []OkMeansComplete`, from `EndingInv`: an error, once
  raised, stays where the main thread looks before it reports success (`Noted`); past
  its drain of the window every frame is decoded, past `Drain` no slot waits, and past
  `Close` the publisher's thread has written its queue.

And about the operators on the device, `DeviceTiling` and `Nv12` (assumption:
`WordSizeAssumption`, words of more than 16 bits):

* `RowsSharedOut`: the rows that the NV12 kernel's cores take are all rows of the
  output, and no row is two cores'. `Offsets` shows that no product of a core's number
  and its share wraps; a core that begins behind the end takes nothing, which is the
  only case in which the tail of the last core wraps.
* `BufferFilled`: hence the picture does not depend on what its buffer held.
* `ElementsHandledOnce`: the same for cores and tiles of the prior's kernels, under
  the condition that no core begins behind the end. It is needed: the `Init` of
  these kernels (`mlvc_decode_prior_kernels.h:125-130`) has no `else` between its two
  tests, so a core behind the end gets a wrapped count, for instance with 5 elements
  on 4 cores. The runtimes ask for one core, with which the condition holds.

`PlainStreamsProofs` (assumptions: `OutputAssumption`, `PoolAssumption`; any number of
pool threads, frames and fragments):

* `EntropyCorrect`: `Spec => []EntropyJobsInOrder`, from `EntropyInv`. `Queued`:
  `pending_entropy` holds the last frames handed out, oldest first, and what is written
  and what `Update` has seen are all the ones before; so a retirement at the front is
  the next frame. `Places` says how many are pending at each point of `consume_frame`:
  with rate control exactly as many as the frame number says, which is what makes the
  quantiser of a frame depend on the frame number alone. `Tasks`: a task that is queued
  or running is one of `active` until it has completed, so `~EncodeFrameProcessor`, which
  waits for these, leaves none that touches what is freed next.

And about `RansByte` (no assumption): the state of the coder is a number and its bytes
a stack of any height.

* `DecodingUndoesEncoding`: after `RansEncPut`, `RansDecGet` finds a value within the
  symbol's interval and `RansDecAdvance` restores state and bytes. The argument is
  that of the coder: `PopInvertsPush` for the arithmetic by quotient and
  remainder, and that renormalisation takes back exactly the bytes it wrote, since
  the state before lay within its 31-bit limits.
* `BitsUndone`: the same for the two bits that an escape is made of.

`RtpFramesProofs` (assumption: `FramesAssumption`; any streams, window, and bounds on
losses and copies):

* `FramesComplete`: `Spec => []CompleteWithoutGap`, and `FramesForward`:
  `Spec => NeverBackwards`, from `FramesInv`. `InStep`: as long as no gap was declared
  the frames returned are consecutive and end just below `expected`, and before the first
  of them the frame to start at is in the window; who waits for a recovery frame has
  declared the gap. `EndsTrue`: an EOS names the length of the stream wherever it is, in
  the network, in `lateEos` or taken. The receiver's operations are applied one after
  the other to one record, so each has a lemma of its own (`Keeps`, `Stays`): it
  returns nothing, leaves `expected` alone, lets `config` only grow, and drops a
  frame only together with a declared gap.

`RtpLinkProofs` (assumptions: `SeqSpaceAssumption`, `SendQueueAssumption`,
`ReceiverAssumption`, `LinkAssumption`: sequence numbers are counted modulo something,
limits are natural numbers, and the application calls what its interface lets it call,
so SCUs come only from `SetSessionConfig` and `ResendSessionConfig`
(`udp_frame_transport.cc:384-433`) and none has configuration 0, which `ParseScu`
refuses; any calls, limits, commands and budgets of the network):

* `QueueAccountedAlways`: `Spec => []QueueAccounted`, from `Account`. The bytes
  reserved are those of the call between its reservation and its packets, and the
  packets weigh what was reserved (`PacketsWeigh`). The sum is exact as long as sending
  has not failed; after that nothing counts down any more, because the send thread has
  ended, and a late release is refused when it would go below zero.
* `RtcpActsOnceAlways`: `Spec => []RtcpActsOnce`, in three parts. `Separate`: commands
  taken and waiting differ and have been seen, which survives that the queue drops its
  oldest ones. `Marks`: what has been queued again, or is about to be, is marked or was
  forgotten, and a new batch has only unmarked packets (`BatchPicks`). `Replay`: every
  index let in is below the highest and, if it is near, in the window.
* `SwitchAlways`: `Spec => []SwitchStartsAtRandomAccess`, from `Story`. `Checked` is what
  the checks at the beginning of a call established of the session it is to leave,
  which the call has already changed and puts back if it throws; `Agree` says what the
  media accepted so far tell of the session: its SCU is the last one, and unless the
  gate is closed the last other unit is of its configuration.

`ReferenceSyncProofs` (assumptions: `ReferenceAssumption`, `IdSpaceAssumption`: options as
`ValidateEncodeOptions` and `ValidateForcedLtrConfiguration` accept them, the warp
schedule's GOP a multiple of its reset interval, as 96 is of 32, a word of at least
two values, a limit of the list of long-term frames above 0, and no more frames than
half of the frame numbers, which is as far as `Newer` can tell; any number of frames,
commands, requests and losses):

* `RefsAgreeAlways`: `Spec => [](Untouched => RefsAgree)`, and `CopiesAgreeAlways` the
  same of `CopiesAgree`. `Untouched`: nobody has requested random access, or the stream
  has translation warp. Run `access` shows that without it the property fails.
* `NeverRejectsAlways`: `Spec => [](~writerFailed /\ ~decoderFailed /\ (Unforced =>
  NeverRejects))`. Writer and decoder refuse nothing in any stream; that the receiver
  does not needs `Unforced`, no forced recovery over RTP. Runs `evicted` and
  `forced_loss` show why.
* `ForcedRecoverySoundAlways`: `Spec => []ForcedRecoverySound`, without a condition.

They follow from one invariant, `SyncInv`, of nine parts. Both ends compute the same
schedule from the number of a frame, so the idea is to write each end's state as a
function of that number (`SavedAt`, `LastOf`, `CacheAfter`) and each frame's metadata as
the description of what it was predicted from (`Described`, `Scheduled`, `From`):
`EncoderInv` says it of the encoder, `DecoderInv` of the decoder, `WireInv` and
`PacketsInv` of what is between them; `Described` survives the way through the unit
(`UnitAccepted`: no check of `SerializeEfu` and `ParseEfu` refuses it, and the reader gets
back what the writer wrote; `HeaderAccepted` the same for the header and its SCU).
Commands make the encoder leave its schedule, and losses make the decoder skip some
of it, so over RTP the long-term frames are no function of the number any more. There
the invariant follows them instead: `ListInv`, what the receiver lists the decoder
will have, and what it does not list it has dropped at its limit; `NewestInv`, the
newest long-term frame of the encoder, which is the one an unforced LTR frame names,
is on its way ahead of every frame that is predicted from it, or known to the
receiver, unless that has a gap to skip; `CacheInv`, without loss the caches differ
only by what is on its way. `PlaceInv` says where the receiver is, and that after
a gap it goes on with a frame it can recover at.

The proofs use that a nonempty set of numbers has a least element (`WFMin`) where a
reader expects an induction; so also for the sums and the batch of `RtpSendQueue`, which
are recursive functions of a sequence's length.

Only model-checked: liveness, which is out of reach of the prover; and all of
`FrameCodec`, safety included; of `RtpLink` `UnitsOnce` and `SequencesExact`; of
`RtpFrames` `HonestStreamAccepted`; of `PlainStreams` `FramesArriveWhole` and
`EndMeansAll`. What a recursive definition such as a whole stream of symbols gives for every
input is an induction over data, which is out of reach too: `frame_codec` checks it, the
theorems about `RansByte` are its step.

## 6. Plan

Done, in this order: the pipeline and its proofs; the reference schedule; the
input queue with its proofs and the encoder front end; the RTP link; the decoder;
RTP frame reception; files and legacy UDP; the range coder with its proofs, the
prior, the tensors and frame codecs; the camera; the conversion to NV12 and the
tiling with its proofs; proofs that the pipeline refines its window and loses nothing,
of the encoder front end with its file and camera, of the decoder with its output, of the
retirement of entropy jobs, of the order of frames over RTP, of the RTP sender, and of the
reference schedule.

To come: failing stages in `FrameCodec`; the checks of media units on
malformed input.

Not modelled, and why:

* rate control chooses a quantiser with floating-point models of rate; no other
  part depends on which value it chooses, only on its being written in the frame;
* the pacer delays a send and has no state another part reads;
* `codec_graph_executor` and the packet pool have no caller in the two programs;
* what the models compute is opaque to the host; `FrameModels` states what is taken
  for granted of them;
* byte layouts of RTCP packets and media units appear through the fields that
  the receiving side tests; `MlvcScuDecoderCompatible` compares the fields of a
  configuration switch, which only tests perform;
* motion estimation and the H.264 and JPEG codecs are numeric code and calls into
  drivers; the threads around them are modelled;
* command-line parsing is sequential; its checks appear as the assumptions on the
  constants of `ReferenceSync`.
