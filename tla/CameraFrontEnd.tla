---------------------------- MODULE CameraFrontEnd ----------------------------
(***************************************************************************)
(* EncodeFrontEnd with a camera as its source: the VideoFrameReader under  *)
(* the FrameSource that the input queue's worker reads and closes.  Its    *)
(* camera thread reads MJPEG frames and decodes them into surfaces, a      *)
(* tensor thread converts them into buffers of a pool, and a third thread  *)
(* publishes what it is given over RTSP.  A slot of the arena holds the    *)
(* pool's buffer itself until its packet is released.                      *)
(*                                                                         *)
(* A surface and a buffer are named by the camera frame in them: they are  *)
(* shared pointers, free again when nobody refers to the frame.  Waits are *)
(* guards: whoever changes a condition notifies all of its waiters after   *)
(* the change.                                                             *)
(***************************************************************************)
EXTENDS EncodeFrontEnd

CONSTANTS
  Sources,         \* the program's options, the kind of source, a bound on its frames
                   \* and output_surface_count
  CameraCapacity,  \* kCameraQueueCapacity
  TensorCapacity,  \* kTensorQueueCapacity
  RtspCapacity,    \* rtsp_queue_capacity
  BufferCount      \* kFp16OutputPoolCapacity

SourceKinds == {"file", "camera", "published camera"}
ASSUME SourcesAssumption ==
  Sources \subseteq [options : Settings, kind : SourceKinds,
                     frames : Nat \ {0}, surfaces : Nat \ {0}]
\* Nothing in the code keeps frame_buffer_slots below five.
ASSUME BuffersAssumption == BufferCount > SlotCount + TensorCapacity

VARIABLES
  source,       \* the source and the options of this run
  camera,       \* where the camera thread is
  shots,        \* frames the camera took
  shot,         \* the frame in the camera thread's hand
  cameraQueue,  \* camera_queue_
  cameraEnd,    \* camera_stop_, camera_eof_ and camera_error_
  tensor,       \* where the tensor thread is
  converting,   \* the frame in the tensor thread's hand
  tensorQueue,  \* tensor_queue_
  tensorEnd,    \* tensor_stop_, tensor_eof_ and tensor_error_
  lease,        \* the external buffer attached to each slot of the arena
  publisher,    \* where the worker of CameraRtspPipeline is
  publishing,   \* the frame in its hand
  rtspQueue,    \* its queue_
  rtspEnd,      \* its stopping_ or worker_error_
  closing,      \* where VideoFrameReader::Close is
  closeError,   \* the error it rethrows
  \* History, read by the properties only.
  spoilt,       \* frames JPEGD could not predict
  shown         \* the camera frame that each frame of the input queue shows

cameraVars == <<camera, shots, shot, cameraQueue, cameraEnd, spoilt>>
tensorVars == <<tensor, converting, tensorQueue, tensorEnd>>
rtspVars == <<publisher, publishing, rtspQueue, rtspEnd>>
closeVars == <<closing, closeError>>
readerVars == <<source, cameraVars, tensorVars, rtspVars, closeVars, lease, shown>>

OnlyReader == UNCHANGED <<vars, source, shown>>
Open == [stop |-> FALSE, eof |-> FALSE, error |-> FALSE]

CameraInit ==
  /\ source \in Sources /\ options = source.options /\ Init
  /\ camera = (IF source.kind = "file" THEN "gone" ELSE "room")
  /\ shots = 0 /\ shot = NoFrame /\ cameraQueue = <<>> /\ cameraEnd = Open
  /\ tensor = "unstarted" /\ converting = NoFrame /\ tensorQueue = <<>> /\ tensorEnd = Open
  /\ lease = [s \in Slots |-> NoFrame]
  /\ publisher = (IF source.kind = "published camera" THEN "wait" ELSE "gone")
  /\ publishing = NoFrame /\ rtspQueue = <<>> /\ rtspEnd = FALSE
  /\ closing = (IF source.kind = "file" THEN "closed" ELSE "open") /\ closeError = FALSE
  /\ spoilt = {} /\ shown = <<>>

\* The pools: who refers to a surface or to a buffer.
SurfacesHeld ==
  (Range(cameraQueue) \cup Range(rtspQueue) \cup {converting, publishing}
     \cup (IF camera = "push" THEN {shot} ELSE {})) \ {NoFrame}
BuffersHeld ==
  (Range(lease) \cup Range(tensorQueue)
     \cup (IF tensor = "push" THEN {converting} ELSE {})) \ {NoFrame}
-----------------------------------------------------------------------------
(* The camera thread, StartCameraPrefetch.  What it does between two waits *)
(* is one step, and V4L2's buffer is queued again in the step that read it. *)

\* camera_cv_.wait, then camera_stop_.
CameraStops ==
  /\ camera = "room" /\ cameraEnd.stop /\ camera' = "gone"
  /\ UNCHANGED <<shots, shot, cameraQueue, cameraEnd, spoilt, rtspVars>>

CameraRoom == camera = "room" /\ ~cameraEnd.stop /\ Len(cameraQueue) < CameraCapacity

\* V4l2MjpegCapture::Read gave up.
CameraReadsEnd ==
  /\ CameraRoom /\ camera' = "gone"
  /\ cameraEnd' = [cameraEnd EXCEPT !.eof = TRUE]
  /\ UNCHANGED <<shots, shot, cameraQueue, spoilt, rtspVars>>

\* A frame, which JPEGD can predict or not.
CameraReads ==
  /\ CameraRoom /\ shots < source.frames /\ shots' = shots + 1
  /\ \/ camera' = "decode" /\ shot' = shots /\ UNCHANGED spoilt
     \/ camera' = "room" /\ spoilt' = spoilt \cup {shots} /\ UNCHANGED shot
  /\ UNCHANGED <<cameraQueue, cameraEnd, rtspVars>>

\* CameraRtspPipeline::Enqueue drops the oldest frame of a full queue.
Enqueue(frame) ==
  rtspQueue' = IF rtspEnd THEN rtspQueue
               ELSE Append(IF Len(rtspQueue) < RtspCapacity THEN rtspQueue ELSE Tail(rtspQueue),
                           frame)

\* DecodeDevice once the surface pool has a surface; then the frame is published.
CameraDecodes ==
  /\ camera = "decode" /\ Cardinality(SurfacesHeld) < source.surfaces /\ camera' = "push"
  /\ IF source.kind = "published camera" THEN Enqueue(shot) ELSE UNCHANGED rtspQueue
  /\ UNCHANGED <<shots, shot, cameraQueue, cameraEnd, spoilt, publisher, publishing, rtspEnd>>

CameraPushes ==
  /\ camera = "push" /\ shot' = NoFrame
  /\ \/ cameraEnd.stop /\ camera' = "gone" /\ UNCHANGED cameraQueue
     \/ ~cameraEnd.stop /\ camera' = "room" /\ cameraQueue' = Append(cameraQueue, shot)
  /\ UNCHANGED <<shots, cameraEnd, spoilt, rtspVars>>

\* VIDIOC_DQBUF or VIDIOC_QBUF fails, or the decoder: the frame is lost either way.
CameraThrows ==
  /\ camera = "decode" /\ camera' = "gone" /\ shot' = NoFrame
  /\ cameraEnd' = [cameraEnd EXCEPT !.error = TRUE, !.stop = TRUE]
  /\ UNCHANGED <<shots, cameraQueue, spoilt, rtspVars>>

CameraThread ==
  /\ \/ CameraStops \/ CameraReadsEnd \/ CameraReads \/ CameraDecodes \/ CameraPushes
     \/ CameraThrows
  /\ OnlyReader /\ UNCHANGED <<tensorVars, closeVars, lease>>
-----------------------------------------------------------------------------
(* The tensor thread, StartTensorPrefetch.                                 *)

TensorPops ==
  /\ tensor = "pop" /\ ~cameraEnd.error /\ cameraQueue # <<>>
  /\ tensor' = "convert" /\ converting' = Head(cameraQueue)
  /\ cameraQueue' = Tail(cameraQueue)
  /\ UNCHANGED <<tensorQueue, tensorEnd, camera, shots, shot, cameraEnd, spoilt>>

\* PopCameraNv12 has nothing more to give: what is queued goes before the end, but an
\* error before what is queued.
TensorEnds ==
  /\ tensor = "pop" /\ tensor' = "gone"
  /\ \/ /\ cameraEnd.error
        /\ tensorEnd' = [tensorEnd EXCEPT !.error = TRUE, !.eof = TRUE]
     \/ /\ ~cameraEnd.error /\ cameraQueue = <<>> /\ (cameraEnd.stop \/ cameraEnd.eof)
        /\ tensorEnd' = [tensorEnd EXCEPT !.eof = TRUE]
  /\ UNCHANGED <<converting, tensorQueue, cameraVars>>

\* ConvertCameraFrame: Acquire has no other way out than a free buffer.
TensorConverts ==
  /\ tensor = "convert" /\ Cardinality(BuffersHeld) < BufferCount /\ tensor' = "push"
  /\ UNCHANGED <<converting, tensorQueue, tensorEnd, cameraVars>>

TensorThrows ==
  /\ tensor = "convert" /\ tensor' = "gone" /\ converting' = NoFrame
  /\ tensorEnd' = [tensorEnd EXCEPT !.error = TRUE, !.eof = TRUE]
  /\ UNCHANGED <<tensorQueue, cameraVars>>

\* Mutant: a full queue drops its oldest tensor, as the one of the publisher does.
TensorPushesOverOldest ==
  /\ tensor = "push" /\ converting' = NoFrame /\ tensor' = "pop"
  /\ tensorQueue' = Append(IF Len(tensorQueue) < TensorCapacity THEN tensorQueue
                           ELSE Tail(tensorQueue), converting)
  /\ UNCHANGED <<tensorEnd, cameraVars>>

TensorPushes ==
  /\ tensor = "push" /\ converting' = NoFrame
  /\ \/ /\ tensorEnd.stop /\ tensor' = "gone"
        /\ tensorEnd' = [tensorEnd EXCEPT !.eof = TRUE] /\ UNCHANGED tensorQueue
     \/ /\ ~tensorEnd.stop /\ Len(tensorQueue) < TensorCapacity /\ tensor' = "pop"
        /\ tensorQueue' = Append(tensorQueue, converting) /\ UNCHANGED tensorEnd
  /\ UNCHANGED cameraVars

TensorThread ==
  /\ TensorPops \/ TensorEnds \/ TensorConverts \/ TensorThrows \/ TensorPushes
  /\ OnlyReader /\ UNCHANGED <<rtspVars, closeVars, lease>>
-----------------------------------------------------------------------------
(* The worker of CameraRtspPipeline; the publisher may refuse a frame.     *)

RtspTakes ==
  /\ publisher = "wait"
  /\ \/ /\ rtspQueue # <<>> /\ publisher' = "send"
        /\ publishing' = Head(rtspQueue) /\ rtspQueue' = Tail(rtspQueue)
     \/ /\ rtspQueue = <<>> /\ rtspEnd /\ publisher' = "gone"
        /\ UNCHANGED <<publishing, rtspQueue>>
  /\ UNCHANGED rtspEnd

RtspSends ==
  /\ publisher = "send" /\ publishing' = NoFrame
  /\ \/ publisher' = "wait" /\ UNCHANGED <<rtspQueue, rtspEnd>>
     \/ publisher' = "gone" /\ rtspQueue' = <<>> /\ rtspEnd' = TRUE

RtspThread ==
  /\ RtspTakes \/ RtspSends
  /\ OnlyReader /\ UNCHANGED <<cameraVars, tensorVars, closeVars, lease>>
-----------------------------------------------------------------------------
(* VideoFrameReader::Close, called by the worker after its loop, or by the *)
(* destructor of the queue when the worker threw before that.              *)

CloseCalled == worker = "close" \/ (alive = "ending" /\ worker = "done")

\* camera_stop_ and tensor_stop_, each under its mutex, then everybody is notified.
CloseStops ==
  /\ closing = "open" /\ CloseCalled /\ closing' = "join"
  /\ cameraEnd' = [cameraEnd EXCEPT !.stop = TRUE]
  /\ tensorEnd' = [tensorEnd EXCEPT !.stop = TRUE]
  /\ UNCHANGED <<closeError, camera, shots, shot, cameraQueue, spoilt, tensor, converting,
                 tensorQueue, rtspVars>>

\* Both threads have left; only now are the queues emptied and the publisher stopped.
CloseJoins ==
  /\ closing = "join" /\ camera = "gone" /\ tensor \in {"unstarted", "gone"}
  /\ closing' = "join rtsp" /\ closeError' = (cameraEnd.error \/ tensorEnd.error)
  /\ cameraQueue' = <<>> /\ tensorQueue' = <<>> /\ rtspEnd' = TRUE
  /\ UNCHANGED <<camera, shots, shot, cameraEnd, spoilt, tensor, converting, tensorEnd,
                 publisher, publishing, rtspQueue>>

\* An error of the publisher is logged, not rethrown.
CloseJoinsRtsp ==
  /\ closing = "join rtsp" /\ publisher = "gone" /\ closing' = "closed"
  /\ UNCHANGED <<closeError, cameraVars, tensorVars, rtspVars>>

Close ==
  /\ CloseStops \/ CloseJoins \/ CloseJoinsRtsp
  /\ OnlyReader /\ UNCHANGED lease
-----------------------------------------------------------------------------
(* The input queue's worker reads the camera: ReadFrameAsTensor.           *)

\* The first call starts the tensor thread.
StartsTensors ==
  /\ worker = "read" /\ tensor = "unstarted" /\ tensor' = "pop"
  /\ UNCHANGED <<vars, source, cameraVars, converting, tensorQueue, tensorEnd, rtspVars,
                 closeVars, lease, shown>>

\* PopTensor; the slot's tensor takes the buffer over.
TakesTensor ==
  /\ worker = "read" /\ ~tensorEnd.error /\ tensorQueue # <<>>
  /\ tensorQueue' = Tail(tensorQueue)
  /\ lease' = [lease EXCEPT ![slot] = Head(tensorQueue)]
  /\ shown' = Append(shown, Head(tensorQueue))
  /\ UNCHANGED <<tensor, converting, tensorEnd>>

\* Without a tensor: an error, or the end of the stream, which is an error of its
\* own before the first frame and before a configured number of frames.
NoTensor ==
  /\ worker = "read"
  /\ tensorEnd.error \/ (tensorQueue = <<>> /\ tensorEnd.eof)
  /\ UNCHANGED <<tensorVars, lease, shown>>

\* Preparing the tensors or, with the tensor in its slot, the motion input fails.
ReadFails ==
  \/ worker = "read" /\ tensor = "unstarted" /\ UNCHANGED <<tensorVars, lease, shown>>
  \/ options.prefetch /\ TakesTensor

\* A step of the worker that leaves the reader alone.
LeavesReader == UNCHANGED <<tensorVars, lease, shown>>

CameraWorker ==
  /\ \/ /\ WorkerAcquire \/ WorkerLoopEnds \/ WorkerReturnSlot \/ WorkerPush \/ WorkerFinish
        /\ LeavesReader
     \/ WorkerRead /\ TakesTensor
     \/ WorkerReadEnd /\ NoTensor /\ ~tensorEnd.error /\ reading > 0
     \/ WorkerThrow /\ (NoTensor \/ ReadFails)
     \/ WorkerThrow /\ worker = "close" /\ closing = "closed" /\ closeError /\ LeavesReader
     \/ WorkerClose /\ closing = "closed" /\ ~closeError /\ LeavesReader
  /\ raised' = (raised \/ exception' # exception)
  /\ UNCHANGED <<running, pipeVars, prodVars, consVars, mainVars, encoded>>
  /\ UNCHANGED <<source, cameraVars, rtspVars, closeVars>>
-----------------------------------------------------------------------------
(* Everything else of the program.                                         *)

\* AsyncFrameInputQueue::Release clears the external buffer before the slot is free.
ClearExternalBuffers ==
  lease' = [s \in Slots |->
              IF \E f \in Frames : packet[f] = s /\ packet'[f] = NoSlot THEN NoFrame
              ELSE lease[s]]

\* The source is a member of the queue: the reader is closed before the queue is gone.
SourceGoesFirst == alive' = "no" => closing = "closed"

LeavesThreads == UNCHANGED <<source, cameraVars, tensorVars, rtspVars, closeVars, shown>>

\* A file may end before the frames to attempt.
FileWorker == SourceWorker /\ (reading < source.frames \/ content' = content)

Read == IF source.kind = "file"
        THEN FileWorker /\ LeavesThreads /\ UNCHANGED lease
        ELSE CameraWorker \/ StartsTensors

MainWithReader == Main /\ SourceGoesFirst /\ ClearExternalBuffers /\ LeavesThreads
ProducerWithReader == Producer /\ ClearExternalBuffers /\ LeavesThreads
ConsumerWithReader == Consumer /\ ClearExternalBuffers /\ LeavesThreads
WorkerWithReader(w) == PipelineWorker(w) /\ ClearExternalBuffers /\ LeavesThreads

CameraNext ==
  \/ LastReference /\ ClearExternalBuffers /\ LeavesThreads
  \/ /\ Unreferenced = {}
     /\ \/ Read \/ ProducerWithReader \/ ConsumerWithReader \/ MainWithReader
        \/ \E w \in Workers : WorkerWithReader(w)
        \/ CameraThread \/ TensorThread \/ RtspThread \/ Close
        \/ (Wakeup \/ RunOver) /\ LeavesThreads /\ UNCHANGED lease

allVars == <<vars, readerVars>>
CameraSpec == CameraInit /\ [][CameraNext]_allVars

\* Reading, decoding, converting and publishing a frame end.  A thread that C++ may
\* wake spuriously for ever (Read, ProducerWithReader) must not keep the others from
\* running; of those it is enough that one which can run does.
RunsThrough ==
  \/ LastReference /\ ClearExternalBuffers /\ LeavesThreads
  \/ /\ Unreferenced = {}
     /\ \/ ConsumerWithReader \/ MainWithReader \/ \E w \in Workers : WorkerWithReader(w)
        \/ CameraThread \/ TensorThread \/ RtspThread \/ Close

CameraFairSpec ==
  /\ CameraSpec
  /\ WF_allVars(RunsThrough)
  /\ WF_allVars(Unreferenced = {} /\ Read)
  /\ WF_allVars(Unreferenced = {} /\ ProducerWithReader)
-----------------------------------------------------------------------------
(* Properties.                                                             *)

\* What is between the lens and the packets, oldest first.
One(frame) == IF frame = NoFrame THEN <<>> ELSE <<frame>>
InTheReader == tensorQueue \o One(converting) \o cameraQueue \o One(shot)

Increasing(frames) == \A i, j \in DOMAIN frames : i < j => frames[i] < frames[j]

\* Until the reader is closed or fails, the frames of the camera that JPEGD could
\* predict are handed on in the order they were taken, none twice and none left out,
\* however full the queues are (StartCameraPrefetch, StartTensorPrefetch, PopTensor).
CameraKeepsItsFrames ==
  source.kind # "file" /\ closing = "open" /\ ~cameraEnd.error /\ ~tensorEnd.error
    /\ exception # "source" =>
       /\ Increasing(shown \o InTheReader)
       /\ Range(shown \o InTheReader) = 0..(shots - 1) \ spoilt

\* The buffer of the pool that the codec reads is the one of its frame, and no other
\* slot has it.
CodecReadsTheCamera ==
  cons = "process" /\ source.kind # "file" =>
    /\ lease[packet[data]] = shown[data + 1]
    /\ \A s \in Slots : lease[s] = shown[data + 1] => s = packet[data]

\* The frames reach the codec in the order the source gave them, none twice and none
\* left out, in buffers that nobody has taken back: from the lens to the codec
\* (CameraKeepsItsFrames, CodecReadsTheCamera, CodecTakesFrames).
CodecSeesTheSource == CodecTakesFrames /\ CameraKeepsItsFrames /\ CodecReadsTheCamera
===============================================================================
