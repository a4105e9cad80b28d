---------------------------- MODULE RtpSendQueue ----------------------------
(***************************************************************************)
(* The RTP sender of common/src/transport/rtp_mlvc.cc                      *)
(* (RtpMlvcSender::Impl): media units are split into packets that share a  *)
(* bounded queue with the retransmissions the receiver asks for.           *)
(*                                                                         *)
(* Three threads meet here: the application (SendUnit, SetSessionConfig,   *)
(* Flush, the destructor), the send thread (SendLoop) and the RTCP thread  *)
(* (HandleRtcpPacket).  An action is one region under queue_mutex, or one  *)
(* call outside it.  The network and the sender of RTCP packets are the    *)
(* environment: see RtpLink.                                               *)
(***************************************************************************)
EXTENDS RtpMedia

CONSTANTS
  FirstSequence,  \* the random first sequence number
  QueueBytes,     \* the smaller of max_queue_bytes and the delay budget in bytes
  HistoryLimit,   \* kPacketHistoryLimit
  BatchLimit,     \* packets one RTCP packet can have queued again (64)
  ControlLimit    \* commands control_queue holds (32)

ASSUME SendQueueAssumption ==
  /\ FirstSequence \in 0..(SeqSpace - 1)
  /\ {QueueBytes, HistoryLimit, BatchLimit, ControlLimit} \subseteq Nat

\* A call of the application is [op, unit, time]: op "config" (SetSessionConfig),
\* "resend" (ResendSessionConfig), "unit" (SendUnit) or "flush".  SCUs are sent by the
\* first two alone (RtpMlvcSender), and ParseScu refuses a configuration 0.
Calls ==
  [op: {"config"}, unit: {u \in Units: u.kind = "SCU" /\ u.config # 0}, time: Nat]
    \cup [op: {"unit"}, unit: {u \in Units: u.kind \in {"EFU", "EOS"}}, time: Nat]
    \cup [op: {"resend", "flush"}, unit: {NoUnit}, time: Nat]

VARIABLES
  app,          \* the application: [at, todo, held, saved], held the reserved bytes
  session,      \* [scu, gate]: the active SCU, and the config whose RA frame must be next
  nextSeq,      \* sequence
  queue,        \* queue: the packets to send
  queuedBytes,  \* queued_bytes
  sender,       \* the send thread: [at, packet]
  failed,       \* send_error is set
  stopping,     \* stopping
  waiting,      \* threads asleep on queue_cv
  history,      \* packet_history in packet_history_order
  marked,       \* sequences whose last_retransmit_time is less than 100 ms ago
  rtcp,         \* the RTCP thread: [at, batch]
  remote,       \* remote_control_ssrc
  controls,     \* [seen, queue, popped]: seen_control_transactions, control_queue,
                \* and the commands the application has taken
  accepted,     \* history variable: the media queued, in order
  requeued      \* history variable, of the last 100 ms: the sequences queued again, and
                \* those the history has forgotten

sendVars == <<app, session, nextSeq, queue, queuedBytes, sender, failed, stopping, waiting,
              history, marked, rtcp, remote, controls, accepted, requeued>>

SendInit(scripts) ==
  /\ app \in [at: {"idle"}, todo: scripts, held: {0}, saved: {[scu |-> NoUnit, gate |-> 0]}]
  /\ session = [scu |-> NoUnit, gate |-> 0]
  /\ nextSeq = FirstSequence
  /\ queue = <<>> /\ queuedBytes = 0
  /\ sender = [at |-> "wait", packet |-> <<>>]
  /\ failed = FALSE /\ stopping = FALSE /\ waiting = {}
  /\ history = <<>> /\ marked = {}
  /\ rtcp = [at |-> "idle", batch |-> <<>>] /\ remote = 0
  /\ controls = [seen |-> {}, queue |-> <<>>, popped |-> <<>>]
  /\ accepted = <<>> /\ requeued = [again |-> {}, forgotten |-> {}]

\* Mutant: only the send thread is woken.
NotifyAllSendOnly == waiting' = waiting \ {"send"}
NotifyAll == waiting' = {}
NotifyOne == IF waiting = {} THEN UNCHANGED waiting ELSE \E w \in waiting: waiting' = waiting \ {w}

---------------------------------------------------------------------------
(* The application's thread. *)

Call == Head(app.todo)
CallUnit == IF Call.op = "resend" THEN session.scu ELSE Call.unit

\* SetSessionConfig: the ID moves forward, or the same SCU is set again, and a
\* switch that still waits for its frame is not overtaken.
ConfigAllowed(u) ==
  /\ session.scu.config \in {0, u.config} \/ u.config > session.scu.config
  /\ u.config = session.scu.config => u = session.scu
  /\ session.gate # 0 => u.config <= session.scu.config

\* SendUnitLocked's checks of a unit against the session it is sent in.
UnitAllowed(u, s) ==
  /\ u.kind # "none"
  /\ u.kind = "SCU" \/ (s.scu.config # 0 /\ u.config = s.scu.config)
  /\ s.gate # 0 => \/ u.kind = "SCU" /\ u = s.scu
                   \/ u.kind = "EFU" /\ u.config = s.gate /\ u.ra

\* The session while the SCU of SetSessionConfig is queued (the gate is open)
\* and the gate armed once it is.
SessionDuring(u) == IF Call.op = "config" THEN [scu |-> u, gate |-> 0] ELSE session
\* Mutant: setting the pending configuration again opens its gate.
GateAfterForgets(u) ==
  CASE Call.op = "config" /\ app.saved.scu.config \notin {0, u.config} -> u.config
    [] Call.op = "config" /\ app.saved.scu.config \in {0, u.config} -> 0
    [] Call.op # "config" /\ u.kind = "EFU" -> 0
    [] OTHER -> session.gate
GateAfter(u) ==
  CASE Call.op = "config" /\ app.saved.gate # 0 -> app.saved.gate
    [] Call.op = "config" /\ app.saved.gate = 0 ->
         IF app.saved.scu.config \notin {0, u.config} THEN u.config ELSE 0
    [] Call.op # "config" /\ u.kind = "EFU" -> 0
    [] OTHER -> session.gate

\* A call that throws leaves the session as it was before; the caller goes on
\* with its next call or gives up.
Throws ==
  \E rest \in {Tail(app.todo), <<>>}:
    app' = [app EXCEPT !.at = "idle", !.todo = rest, !.held = 0]

Begin ==
  /\ app.at = "idle" /\ app.todo # <<>>
  /\ IF Call.op = "flush"
     THEN app' = [app EXCEPT !.at = "flush"] /\ UNCHANGED session
     ELSE LET u == CallUnit IN
          IF /\ Call.op = "config" => ConfigAllowed(u)
             /\ UnitAllowed(u, SessionDuring(u))
             /\ WireBytes(u) <= QueueBytes
          THEN /\ session' = SessionDuring(u)
               /\ app' = [app EXCEPT !.at = "reserve", !.saved = session]
          ELSE Throws /\ UNCHANGED session
  /\ UNCHANGED <<nextSeq, queue, queuedBytes, sender, failed, stopping, waiting, history, marked,
                 rtcp, remote, controls, accepted, requeued>>

\* Mutant: there is room while the queue is not full.
FitsWhenNotFull(bytes) == queuedBytes < QueueBytes
Fits(bytes) == queuedBytes + bytes <= QueueBytes

\* ReserveQueueBytes: asleep until the whole unit fits.
ReserveQueueBytes ==
  LET bytes == WireBytes(CallUnit) IN
  /\ app.at = "reserve" /\ "app" \notin waiting
  /\ \/ /\ failed \/ stopping
        /\ Throws /\ session' = app.saved
        /\ UNCHANGED <<queuedBytes, waiting>>
     \/ /\ ~failed /\ ~stopping /\ Fits(bytes)
        /\ queuedBytes' = queuedBytes + bytes
        /\ app' = [app EXCEPT !.at = "enqueue", !.held = bytes]
        /\ UNCHANGED <<session, waiting>>
     \/ /\ ~failed /\ ~stopping /\ ~Fits(bytes)
        /\ waiting' = waiting \cup {"app"}
        /\ UNCHANGED <<app, session, queuedBytes>>
  /\ UNCHANGED <<nextSeq, queue, sender, failed, stopping, history, marked, rtcp, remote,
                 controls, accepted, requeued>>

Medium == [time |-> Call.time, unit |-> CallUnit]

\* SendUnitLocked after the reservation, EnqueueReserved, and the release of the
\* reservation when the sender failed in between.
ReleaseQueueReservation ==
  queuedBytes' = IF app.held <= queuedBytes THEN queuedBytes - app.held ELSE queuedBytes

EnqueueReserved ==
  LET u == CallUnit IN
  /\ app.at = "enqueue"
  /\ nextSeq' = (nextSeq + Len(u.frags)) % SeqSpace
  /\ IF failed \/ stopping
     THEN /\ ReleaseQueueReservation /\ NotifyAll /\ Throws
          /\ session' = app.saved
          /\ UNCHANGED <<queue, accepted>>
     ELSE /\ queue' = queue \o Packets(Medium, nextSeq)
          /\ accepted' = Append(accepted, Medium)
          /\ session' = [session EXCEPT !.gate = GateAfter(u)]
          /\ app' = [app EXCEPT !.at = "idle", !.todo = Tail(app.todo), !.held = 0]
          /\ NotifyOne
          /\ UNCHANGED queuedBytes
  /\ UNCHANGED <<sender, failed, stopping, history, marked, rtcp, remote, controls, requeued>>

\* Flush, called by Close and, with its exception swallowed, by ~Impl.
Drained == queue = <<>> /\ sender.packet = <<>>
Flush ==
  /\ app.at \in {"flush", "leave"} /\ "app" \notin waiting
  /\ \/ /\ ~failed /\ ~Drained
        /\ waiting' = waiting \cup {"app"} /\ UNCHANGED app
     \/ /\ app.at = "flush" /\ failed /\ Throws /\ UNCHANGED waiting
     \/ /\ app.at = "flush" /\ ~failed /\ Drained
        /\ app' = [app EXCEPT !.at = "idle", !.todo = Tail(app.todo)] /\ UNCHANGED waiting
     \/ /\ app.at = "leave" /\ (failed \/ Drained)
        /\ app' = [app EXCEPT !.at = "stop"] /\ UNCHANGED waiting
  /\ UNCHANGED <<session, nextSeq, queue, queuedBytes, sender, failed, stopping, history, marked,
                 rtcp, remote, controls, accepted, requeued>>

\* PopMlvcControl, between two calls.
PopMlvcControl ==
  /\ app.at = "idle" /\ controls.queue # <<>>
  /\ controls' = [controls EXCEPT !.queue = Tail(@),
                                  !.popped = Append(@, Head(controls.queue))]
  /\ UNCHANGED <<app, session, nextSeq, queue, queuedBytes, sender, failed, stopping, waiting,
                 history, marked, rtcp, remote, accepted, requeued>>

\* ~Impl: flush, stop and join the send thread, then stop and join the RTCP thread.
Destroy ==
  /\ \/ app.at = "idle" /\ app.todo = <<>> /\ app' = [app EXCEPT !.at = "leave"]
        /\ UNCHANGED <<stopping, waiting>>
     \/ app.at = "stop" /\ stopping' = TRUE /\ NotifyAll /\ app' = [app EXCEPT !.at = "join"]
     \/ app.at = "join" /\ sender.at = "done" /\ app' = [app EXCEPT !.at = "joinRtcp"]
        /\ UNCHANGED <<stopping, waiting>>
     \/ app.at = "joinRtcp" /\ rtcp.at = "idle" /\ app' = [app EXCEPT !.at = "gone"]
        /\ UNCHANGED <<stopping, waiting>>
  /\ UNCHANGED <<session, nextSeq, queue, queuedBytes, sender, failed, history, marked, rtcp,
                 remote, controls, accepted, requeued>>

---------------------------------------------------------------------------
(* The send thread. *)

SendLoopPop ==
  /\ sender.at = "wait" /\ "send" \notin waiting
  /\ \/ /\ queue = <<>> /\ ~stopping
        /\ waiting' = waiting \cup {"send"} /\ UNCHANGED <<queue, sender>>
     \/ /\ queue = <<>> /\ stopping
        /\ sender' = [sender EXCEPT !.at = "done"] /\ UNCHANGED <<queue, waiting>>
     \/ /\ queue # <<>>
        /\ sender' = [at |-> "send", packet |-> <<Head(queue)>>]
        /\ queue' = Tail(queue) /\ NotifyAll
  /\ UNCHANGED <<app, session, nextSeq, queuedBytes, failed, stopping, history, marked, rtcp,
                 remote, controls, accepted, requeued>>

Sequences(packets) == {packets[i].seq: i \in 1..Len(packets)}
Known(n) == n \in Sequences(history)

\* sendto and RememberRtpPacket; RtpLink puts the packet on the network.
Remember(p) ==
  LET longer == IF Known(p.seq) THEN [i \in 1..Len(history) |-> IF history[i].seq = p.seq THEN p ELSE history[i]]
                ELSE Append(history, p)
  IN history' = IF Len(longer) > HistoryLimit THEN Tail(longer) ELSE longer

\* A sequence the history forgets loses its mark.
SendLoopSend(p) ==
  /\ sender.at = "send" /\ sender.packet = <<p>>
  /\ Remember(p)
  /\ marked' = marked \cap Sequences(history')
  /\ requeued' = [requeued EXCEPT !.forgotten =
                    @ \cup (Sequences(history) \ Sequences(history'))]
  /\ sender' = [sender EXCEPT !.at = "sent"]
  /\ UNCHANGED <<app, session, nextSeq, queue, queuedBytes, failed, stopping, waiting, rtcp,
                 remote, controls, accepted>>

SendLoopFinish ==
  /\ sender.at = "sent"
  /\ queuedBytes' = queuedBytes - BytesOf(sender.packet)
  /\ sender' = [at |-> "wait", packet |-> <<>>]
  /\ NotifyAll
  /\ UNCHANGED <<app, session, nextSeq, queue, failed, stopping, history, marked, rtcp, remote,
                 controls, accepted, requeued>>

\* sendto fails: everything queued is dropped and the sender ends.
SendLoopFail ==
  /\ sender.at = "send"
  /\ failed' = TRUE /\ stopping' = TRUE
  /\ queue' = <<>> /\ queuedBytes' = 0
  /\ sender' = [at |-> "done", packet |-> <<>>]
  /\ NotifyAll
  /\ UNCHANGED <<app, session, nextSeq, history, marked, rtcp, remote, controls, accepted,
                 requeued>>

---------------------------------------------------------------------------
(* The RTCP thread.  A compound packet is [from, report, nacks, control]:  *)
(* the receiver's SSRC, whether a report block names this sender, the      *)
(* sequences of its Generic NACKs in order, and an MLVC command (0: none). *)

Latest(s, n) == IF Len(s) > n THEN SubSeq(s, Len(s) - n + 1, Len(s)) ELSE s

\* Mutant: the 100 ms guard is left out.
DueAlways(n) == Known(n)
Due(n) == Known(n) /\ n \notin marked

\* The packets QueueRetransmissions picks in the order they are asked for, at most
\* BatchLimit; picked[k] are those of the first k numbers.
Batch(nacks) ==
  LET picked[k \in 0..Len(nacks)] ==
        IF k = 0 THEN <<>>
        ELSE IF Len(picked[k - 1]) < BatchLimit /\ Due(nacks[k])
             THEN Append(picked[k - 1], CHOOSE p \in ToSet(history): p.seq = nacks[k])
             ELSE picked[k - 1]
  IN picked[Len(nacks)]

Fresh(m) == m.control # 0 /\ m.control \notin controls.seen

HandleRtcpPacket(m) ==
  /\ rtcp.at = "idle" /\ app.at \notin {"joinRtcp", "gone"}
  /\ m.from # 0 /\ remote \in {0, m.from}
  /\ remote' = m.from
  /\ IF ~m.report
     THEN UNCHANGED <<controls, marked, rtcp>>
     ELSE LET batch == Batch(m.nacks) IN
             /\ controls' =
                  IF Fresh(m) THEN [controls EXCEPT !.seen = @ \cup {m.control},
                                                 !.queue = Latest(Append(@, m.control), ControlLimit)]
                           ELSE controls
             /\ marked' = marked \cup Sequences(batch)
             /\ rtcp' = IF batch = <<>> THEN rtcp ELSE [at |-> "requeue", batch |-> batch]
  /\ UNCHANGED <<app, session, nextSeq, queue, queuedBytes, sender, failed, stopping, waiting,
                 history, accepted, requeued>>

\* A packet of another SSRC than the one the sender follows is ignored.
IgnoreRtcpPacket(m) ==
  /\ rtcp.at = "idle" /\ app.at \notin {"joinRtcp", "gone"}
  /\ m.from = 0 \/ remote \notin {0, m.from}
  /\ UNCHANGED sendVars

\* QueueRetransmissions under queue_mutex: the whole batch, or nothing.
QueueRetransmissions ==
  LET bytes == BytesOf(rtcp.batch) IN
  /\ rtcp.at = "requeue"
  /\ IF stopping \/ failed \/ ~Fits(bytes)
     THEN UNCHANGED <<queue, queuedBytes, waiting, requeued>>
     ELSE /\ queuedBytes' = queuedBytes + bytes
          /\ queue' = queue \o rtcp.batch
          /\ requeued' = [requeued EXCEPT !.again = @ \cup Sequences(rtcp.batch)]
          /\ NotifyOne
  /\ rtcp' = [at |-> "idle", batch |-> <<>>]
  /\ UNCHANGED <<app, session, nextSeq, sender, failed, stopping, history, marked, remote,
                 controls, accepted>>

\* 100 ms pass while no retransmission is being queued.
RetransmitTimePasses ==
  /\ rtcp.at = "idle" /\ marked # {}
  /\ marked' = {} /\ requeued' = [again |-> {}, forgotten |-> {}]
  /\ UNCHANGED <<app, session, nextSeq, queue, queuedBytes, sender, failed, stopping, waiting,
                 history, rtcp, remote, controls, accepted>>

ApplicationNext == Begin \/ ReserveQueueBytes \/ EnqueueReserved \/ Flush \/ Destroy
SendLoopQuiet == SendLoopPop \/ SendLoopFinish
=============================================================================
