----------------------------- MODULE PlainStreams -----------------------------
(***************************************************************************)
(* A stream without RTP from end to end: EncodeOutput writes a file or     *)
(* sends UDP messages, and read_next_packet of RunDecodeStream reads them, *)
(* while the network disturbs datagrams, writing fails or the encoder is   *)
(* killed.                                                                 *)
(***************************************************************************)
EXTENDS EncodeOutput

VARIABLE dec   \* the decoder's producer thread: where it is, the frames it read

vars == <<outputVars, dec>>

Init == OutputInit /\ dec = [at |-> "open", read |-> <<>>]

\* A message is the one its first fragment belongs to.
FirstOf(parts) == (CHOOSE p \in parts : p.index = 0).msg
Whole(parts) == \A p \in parts : p.msg = FirstOf(parts)

DecGoto(label) == dec' = [dec EXCEPT !.at = label]

\* A file is read when the encoder is gone.
FileReads ==
  /\ ToFile /\ enc.at \in Gone
  /\ LET n == IF dec.at = "open" THEN 0 ELSE Len(dec.read) + 1 IN
     \/ /\ dec.at = "open"
        /\ \/ ReadsUnit(0, Header) /\ DecGoto("read")
           \/ ReadThrows(0) /\ DecGoto("failed")
     \/ /\ dec.at = "read"
        /\ \/ \E f \in DOMAIN FrameParts :
                /\ ReadsUnit(n, f)
                /\ dec' = [dec EXCEPT !.read = Append(@, [frame |-> f, whole |-> TRUE])]
           \/ ReadsEnd(n) /\ DecGoto("end")
           \/ ReadThrows(n) /\ DecGoto("failed")
  /\ UNCHANGED udpVars

\* ReceiveHeader, then ReceiveFrame; the frames have to be consecutive.
UdpReads ==
  /\ ~ToFile /\ dec.at \in {"open", "read"}
  /\ \/ \E p \in SUBSET UNION {Range(Fragments(m)) : m \in {Header, End} \cup DOMAIN FrameParts} :
          /\ Receive(p)
          /\ LET m == FirstOf(p) IN
             \/ dec.at = "open" /\ DecGoto(IF m = Header THEN "read" ELSE "failed")
             \/ /\ dec.at = "read" /\ m = Len(dec.read)
                /\ dec' = [dec EXCEPT !.read = Append(@, [frame |-> m, whole |-> Whole(p)])]
             \/ dec.at = "read" /\ m = End /\ DecGoto("end")
             \/ dec.at = "read" /\ m \notin {End, Len(dec.read)} /\ DecGoto("failed")
     \/ ReceiveThrows /\ DecGoto("failed") /\ UNCHANGED udpVars

Reads == (FileReads \/ UdpReads) /\ UNCHANGED <<pool, file, options, enc, active, updated,
                                               historyVars>>

\* The receiver is destroyed.
Leaves ==
  /\ dec.at \in {"end", "failed"}
  /\ \/ ToFile /\ UNCHANGED udpVars
     \/ ~ToFile /\ rcv.stopping /\ rcv.at = "left" /\ UNCHANGED udpVars
  /\ UNCHANGED <<pool, file, options, enc, active, updated, historyVars>>
  /\ DecGoto(IF dec.at = "end" THEN "ended" ELSE "reported")

Shuts ==
  /\ ~ToFile /\ dec.at \in {"end", "failed"} /\ ~rcv.stopping
  /\ StopReceiver
  /\ UNCHANGED <<pool, file, options, enc, active, updated, historyVars, dec>>

Decoder == Reads \/ Shuts \/ Leaves

EncoderStep == enc.at \notin Gone /\ Encoder /\ UNCHANGED dec
PoolStep(t) == enc.at \notin Gone /\ EntropyThread(t) /\ UNCHANGED dec
SenderStep == enc.at \notin Gone /\ SenderThread /\ UNCHANGED dec
Killed == Crash /\ UNCHANGED dec
OtherSide == UNCHANGED <<pool, file, options, enc, active, updated, historyVars, dec>>
NetworkStep == Network /\ OtherSide
ReceiverStep == Receiver /\ OtherSide

Next ==
  \/ EncoderStep \/ (\E t \in PoolThreads : PoolStep(t)) \/ SenderStep \/ Killed
  \/ NetworkStep \/ ReceiverStep \/ Decoder

Spec == Init /\ [][Next]_vars

\* Entropy coding, sending and writing end, and while a thread of the two programs
\* can run, one does: no fairness between them is needed, and none of the network.
Runs == EncoderStep \/ SenderStep \/ ReceiverStep \/ Decoder \/ \E t \in PoolThreads : PoolStep(t)

FairSpec == Spec /\ WF_vars(Runs)
-----------------------------------------------------------------------------
(* Properties.                                                             *)

\* Whatever order the entropy tasks end in, and whichever way a frame is
\* retired, the frames leave in order behind the header with none left out, and
\* the end only after all of them; the rate controller decides on a frame knowing
\* exactly the frames up to the third before it, so that Q indexes do not depend
\* on timing; and when the processor is destroyed no task is left that uses it,
\* also one whose future was dropped (consume_frame, ~EncodeFrameProcessor).
EntropyJobsInOrder ==
  /\ \A i \in DOMAIN written :
       written[i] = CASE i = 1 -> Header [] written[i] = End -> End [] OTHER -> i - 2
  /\ End \in Range(written) =>
       Last(written) = End /\ Len(written) = enc.frames + 2
  /\ options.rate =>
       \A i \in DOMAIN solved : solved[i] = [j \in 1..(IF i > 3 THEN i - 3 ELSE 0) |-> j - 1]
  /\ enc.at \in {"freeOutput", "freeMedium", "joinSender", "freePool", "joinPool", "returned"} =>
       pool.tasks = <<>> /\ \A t \in Running : pool.runs[t].frame \notin active

\* The decoder reads frames the encoder wrote, in order and without a gap.  A
\* frame whose fragments come from two messages (they carry no message id) takes
\* a late copy of a datagram or two other faults: no lost and no overtaken datagram
\* makes one alone.
FramesArriveWhole ==
  \A i \in DOMAIN dec.read :
    /\ dec.read[i].frame = i - 1 /\ i - 1 \in Range(written)
    /\ dec.read[i].whole \/ copied > 0 \/ Troubled > 1

\* Two frames of the stream have several fragments and not the same number.
SizesDiffer ==
  \E f, g \in 0..(enc.frames - 1) : 1 < FrameParts[f] /\ FrameParts[f] < FrameParts[g]

\* The decoder takes a stream for complete only when it is: a file that the
\* encoder closed, or a UDP stream of which neither the frame after the last one
\* read was lost nor the order of datagrams disturbed.  A copy disturbs it only if
\* a datagram is lost too, or if two frames have not the same number of fragments:
\* a late copy of a first fragment makes the receiver drop the message of another
\* size that it is assembling, and no other sign of that frame ever comes.  A file
\* that was cut at a unit and a stream that lost its last frames end as if they had
\* been that short, because a file has no end unit and the end message no number of
\* frames.
EndMeansAll ==
  dec.at \in {"end", "ended"} =>
    \/ Len(dec.read) = enc.frames
    \/ ToFile /\ enc.outcome # "ok"
    \/ ~ToFile /\ (moved > 0 \/ \E d \in lost : d.msg = Len(dec.read))
    \/ ~ToFile /\ copied > 0 /\ (lost # {} \/ SizesDiffer)

\* RunEncode returns whoever fails; only a file that cannot be flushed ends the
\* program (~MlvcBitstreamWriter).  The decoder comes to an end with every file,
\* and with UDP when the encoder sent its end message and it was not lost: nothing
\* else tells it that no more messages come.
BothEnd ==
  /\ []<>(enc.at \in Gone /\ (enc.at = "aborted" => ToFile /\ file.bad))
  /\ []<>(\/ dec.at \in {"ended", "reported"}
          \/ ~ToFile /\ (enc.outcome = "failed" \/ \E d \in lost : d.msg = End))
==============================================================================
