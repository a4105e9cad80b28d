----------------------------- MODULE EncodeOutput -----------------------------
(***************************************************************************)
(* The encoder behind the codec: consume_frame hands each frame to an      *)
(* entropy task and keeps its future in pending_entropy, retires futures   *)
(* from the front, and EncodeOutput writes them to a file or to the UDP    *)
(* sender; at the end of the input the main thread does the same and       *)
(* closes; the destructors follow, also of a run that failed.              *)
(*                                                                         *)
(* The consumer thread and the main thread never run this code at the same *)
(* time (EncodeFrontEnd), so they are one thread here.                     *)
(***************************************************************************)
EXTENDS EntropyPool, UdpMessages, StreamFile

CONSTANTS
  Settings       \* medium, motion_prefetch_frames > 0, rate control, and the frames
                 \* the input may have: bound of the model

ASSUME OutputAssumption ==
  Settings \subseteq [medium : {"file", "udp"}, prefetch : BOOLEAN, rate : BOOLEAN,
                      frames : {n \in Nat : 0..n - 1 \subseteq DOMAIN FrameParts}]

VARIABLES
  options,  \* of the program
  enc,      \* the thread: where it is, where Flush returns to, encoded_frames,
            \* pending_entropy, closed_ of EncodeOutput, what the run came to
  active,   \* frames whose Completion has not run (entropy_tasks_.active)
  updated,  \* frames the rate controller knows
  solved,   \* history: for each frame, the frames it knew in SolveQIndex
  written   \* history: what the medium took, oldest first

historyVars == <<solved, written>>
outputVars == <<pool, udpVars, file, options, enc, active, updated, historyVars>>

kMaxPendingEntropyJobs == 2
ToFile == options.medium = "file"

OutputInit ==
  /\ PoolInit /\ UdpInit /\ FileInit
  /\ options \in Settings
  /\ enc = [at |-> "open", then |-> "none", frames |-> 0, pending |-> <<>>,
            closed |-> FALSE, outcome |-> "none"]
  /\ active = {} /\ updated = <<>> /\ solved = <<>> /\ written = <<>>

Gone == {"returned", "aborted", "crashed"}
EncGoto(label) == enc' = [enc EXCEPT !.at = label]
EncFails == enc' = [enc EXCEPT !.at = "freeProcessor", !.pending = <<>>, !.outcome = "failed"]
NoTasks == UNCHANGED <<pool, active>>
NoMedium == UNCHANGED <<udpVars, file>>
NoRate == UNCHANGED <<updated, solved>>
-----------------------------------------------------------------------------
(* EncodeOutput on its medium.                                             *)

WriteTo(m) ==
  /\ written' = Append(written, m)
  /\ IF ToFile THEN WriteUnit(m) /\ UNCHANGED udpVars ELSE Send(m) /\ UNCHANGED file

WriteToThrows ==
  /\ IF ToFile THEN WriteFails ELSE SendThrows /\ UNCHANGED file
  /\ UNCHANGED <<udpVars, written>>

\* The constructor, which writes the header; one that throws leaves no writer.
Opens ==
  /\ enc.at = "open"
  /\ \/ WriteTo(Header) /\ EncGoto("next")
     \/ /\ WriteToThrows
        /\ enc' = [enc EXCEPT !.at = IF ToFile THEN "freePool" ELSE "freeMedium",
                              !.outcome = "failed"]
  /\ NoTasks /\ NoRate /\ UNCHANGED options

\* Flush takes the value of the future at the front, or throws what it threw.
FlushGets ==
  /\ enc.at = "flush"
  /\ \/ Kept(Head(enc.pending), TRUE) /\ EncGoto("write")
     \/ Kept(Head(enc.pending), FALSE) /\ EncFails
  /\ NoTasks /\ NoMedium /\ NoRate /\ UNCHANGED <<written, options>>

FlushWrites ==
  /\ enc.at = "write"
  /\ WriteTo(Head(enc.pending))
  /\ updated' = Append(updated, Head(enc.pending))
  /\ enc' = [enc EXCEPT !.at = enc.then, !.pending = Tail(@)]
  /\ NoTasks /\ UNCHANGED <<solved, options>>

FlushThrows ==
  /\ enc.at = "write"
  /\ WriteToThrows /\ EncFails
  /\ NoTasks /\ NoRate /\ UNCHANGED options

FlushThen(label) == enc' = [enc EXCEPT !.at = "flush", !.then = label]
-----------------------------------------------------------------------------
(* consume_frame.                                                          *)

Quiet == NoTasks /\ NoMedium /\ NoRate /\ UNCHANGED <<written, options>>

\* A frame comes, the input has ended, or something before the codec failed.
Gets ==
  /\ enc.at = "next"
  /\ \/ enc.frames < options.frames /\ EncGoto("retireFirst")
     \/ EncGoto("drain")
     \/ EncFails
  /\ Quiet

\* Mutant: early retirement with rate control, too.
RetiresWithRate ==
  options.prefetch /\ enc.pending # <<>> /\ Ready(Head(enc.pending))

\* ShouldRetireReadyEntropy
Retires ==
  options.prefetch /\ ~options.rate /\ enc.pending # <<>> /\ Ready(Head(enc.pending))

\* retire_ready_entropy, before and after Process.
RetireReady ==
  /\ enc.at \in {"retireFirst", "retireThen"}
  /\ IF Retires THEN FlushThen(enc.at)
     ELSE EncGoto(IF enc.at = "retireFirst" THEN "process" ELSE "limit")
  /\ Quiet

\* Process: the Q index, the entropy task, the rest.
Process ==
  /\ enc.at = "process"
  /\ solved' = Append(solved, updated)
  /\ \/ /\ PoolEnqueue([frame |-> enc.frames]) /\ active' = active \cup {enc.frames}
        /\ \/ enc' = [enc EXCEPT !.at = "retireThen", !.frames = @ + 1,
                                 !.pending = Append(@, enc.frames)]
           \/ EncFails
     \/ NoTasks /\ EncFails
  /\ NoMedium /\ UNCHANGED <<updated, written, options>>

\* ShouldRetirePendingEntropy
RetirePending ==
  /\ enc.at = "limit"
  /\ IF Len(enc.pending) > kMaxPendingEntropyJobs THEN FlushThen("next") ELSE EncGoto("next")
  /\ Quiet
-----------------------------------------------------------------------------
(* The end of RunEncode.                                                   *)

\* Mutant: the frames that are still pending are left.
DrainsNothing == enc.at = "drain" /\ EncGoto("sendEnd") /\ Quiet

Drains ==
  /\ enc.at = "drain"
  /\ IF enc.pending = <<>> THEN EncGoto("sendEnd") ELSE FlushThen("drain")
  /\ Quiet

\* SendEnd: UDP has an end message and waits until it is sent.
SendsEnd ==
  /\ enc.at = "sendEnd"
  /\ IF ToFile THEN EncGoto("close") /\ NoMedium /\ UNCHANGED written
     ELSE /\ WriteTo(End) /\ EncGoto("flushEnd")
  /\ NoTasks /\ NoRate /\ UNCHANGED options

EndFlushed ==
  /\ enc.at = "flushEnd" /\ Flushed /\ EncGoto("close")
  /\ Quiet

EndThrows ==
  /\ \/ enc.at = "sendEnd" /\ ~ToFile /\ SendThrows
     \/ enc.at = "flushEnd" /\ snd.error
  /\ EncFails /\ Quiet

\* EncodeOutput::Close, from RunEncode and, unless it is closed_, from its
\* destructor, which swallows the error.
MediumCloses ==
  IF ToFile THEN FileCloses /\ UNCHANGED udpVars ELSE Flushed /\ NoMedium
MediumCloseThrows ==
  IF ToFile THEN FileCloseThrows /\ UNCHANGED udpVars ELSE snd.error /\ NoMedium

Closes ==
  /\ enc.at = "close"
  /\ \/ /\ MediumCloses
        /\ enc' = [enc EXCEPT !.at = "freeProcessor", !.closed = TRUE, !.outcome = "ok"]
     \/ /\ MediumCloseThrows
        /\ enc' = [enc EXCEPT !.at = "freeProcessor", !.closed = TRUE, !.outcome = "failed"]
  /\ NoTasks /\ NoRate /\ UNCHANGED <<written, options>>

\* ~EncodeFrameProcessor
ProcessorFreed ==
  /\ enc.at = "freeProcessor" /\ active = {} /\ EncGoto("freeOutput")
  /\ Quiet

\* ~EncodeOutput
OutputFreed ==
  /\ enc.at = "freeOutput" /\ enc' = [enc EXCEPT !.at = "freeMedium", !.closed = TRUE]
  /\ IF enc.closed THEN NoMedium ELSE MediumCloses \/ MediumCloseThrows
  /\ NoTasks /\ NoRate /\ UNCHANGED <<written, options>>

\* ~MlvcBitstreamWriter, or the Flush of ~UdpMessageSender.
MediumFreed ==
  /\ enc.at = "freeMedium"
  /\ IF ToFile
     THEN EncGoto(IF WriterAborts THEN "aborted" ELSE "freePool") /\ NoMedium
     ELSE (Flushed \/ snd.error) /\ EncGoto("joinSender") /\ StopSender /\ UNCHANGED file
  /\ NoTasks /\ NoRate /\ UNCHANGED <<written, options>>

SenderJoined ==
  /\ enc.at = "joinSender" /\ snd.at = "left" /\ EncGoto("freePool")
  /\ Quiet

\* The entropy worker of the run goes last.
PoolFreed ==
  /\ enc.at = "freePool" /\ EncGoto("joinPool") /\ PoolStop
  /\ NoMedium /\ NoRate /\ UNCHANGED <<active, written, options>>

Returns ==
  /\ enc.at = "joinPool" /\ PoolJoined /\ EncGoto("returned")
  /\ Quiet

Encoder == \/ Opens \/ FlushGets \/ FlushWrites \/ FlushThrows \/ Gets \/ RetireReady
           \/ Process \/ RetirePending \/ Drains \/ SendsEnd \/ EndFlushed \/ EndThrows
           \/ Closes \/ ProcessorFreed \/ OutputFreed \/ MediumFreed \/ SenderJoined
           \/ PoolFreed \/ Returns
-----------------------------------------------------------------------------
(* The entropy threads and the end of the process.                         *)

\* The task's Completion, the last it does with the processor.
TaskCompletes(t) ==
  /\ t \in Running /\ pool.runs[t].frame \in active
  /\ active' = active \ {pool.runs[t].frame}
  /\ UNCHANGED pool

\* The promise is kept after that.
EntropyThread(t) ==
  /\ \/ TaskCompletes(t)
     \/ TaskBegins(t) /\ UNCHANGED active
     \/ t \in Running /\ pool.runs[t].frame \notin active /\ TaskEnds(t) /\ UNCHANGED active
     \/ TaskThreadLeaves(t) /\ UNCHANGED active
  /\ NoMedium /\ NoRate /\ UNCHANGED <<enc, written, options>>

\* The process is killed.  What the writer buffered is lost.
Crash ==
  /\ enc.at \notin {"open"} \cup Gone
  /\ enc' = [enc EXCEPT !.at = "crashed", !.outcome = "failed"]
  /\ IF ToFile /\ ~file.bad /\ ~file.closed THEN Cut ELSE UNCHANGED file
  /\ NoTasks /\ NoRate /\ UNCHANGED <<udpVars, written, options>>

SenderThread ==
  /\ Sender
  /\ NoTasks /\ NoRate /\ UNCHANGED <<file, enc, written, options>>
==============================================================================
