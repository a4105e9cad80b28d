------------------------------- MODULE RtpLink -------------------------------
(***************************************************************************)
(* The RTP sender and the RTP receiver joined by UDP: media packets one    *)
(* way, RTCP reports, Generic NACKs and MLVC commands the other way.  The  *)
(* network loses, duplicates and reorders what is in flight, within the    *)
(* budgets of the scenario.  A copy is not in flight for longer than half   *)
(* of SeqHistory numbers (2048, as many as the sender can send again): with *)
(* more, packets older and newer than it could push it out of the history.  *)
(***************************************************************************)
EXTENDS RtpSendQueue, RtpUnitReceiver

CONSTANTS
  ReplayWindow,  \* RTCP packets older than this are refused under a key (64)
  Commands,      \* the MLVC commands that may be sent: [from, report, transaction]
  Scenarios      \* what happens around the link

\* A scenario: the calls of the application (script), whether both ends share a
\* MLVC_RTCP_KEY (keyed), and how many packets may be lost (losses) or delivered
\* twice (copies), how many sendto may fail (failures), rounds of NACKs (rounds),
\* commands sent (commands), time-outs of fragments and of the retransmission guard
\* (timeouts), and how often the receiver may stop (stops).

BudgetFields == {"keyed", "losses", "copies", "failures", "rounds", "commands", "timeouts", "stops"}
ASSUME LinkAssumption ==
  /\ ReplayWindow \in Nat
  /\ Commands \subseteq [from: Nat, report: BOOLEAN, transaction: Nat]
  /\ \A scenario \in Scenarios:
       /\ DOMAIN scenario = BudgetFields \cup {"script"}
       /\ scenario.script \in Seq(Calls)
       /\ \A what \in BudgetFields: scenario[what] \in Nat

VARIABLES
  net,       \* media packets in flight
  feedback,  \* RTCP packets in flight to the sender
  endpoint,  \* RtcpUdpEndpoint: tx_index of the receiver's, rx_highest and rx_window of
             \* the sender's, and the history variable of what the sender let in
  budget     \* what the scenario has left

netVars == <<net, feedback, endpoint, budget>>
vars == <<sendVars, rxVars, netVars>>

ReceiverSsrc == 1
Spend(what) == budget[what] > 0 /\ budget' = [budget EXCEPT ![what] = @ - 1]

Init ==
  \E scenario \in Scenarios:
    /\ SendInit({scenario.script})
    /\ ReceiveInit
    /\ net = {} /\ feedback = {}
    /\ endpoint = [tx |-> 0, highest |-> 0, window |-> {}, heard |-> <<>>]
    /\ budget = [what \in BudgetFields |-> scenario[what]]

Index(s) == Delta(s, FirstSequence)
SenderSteps ==
  /\ ApplicationNext \/ PopMlvcControl \/ SendLoopQuiet \/ QueueRetransmissions
  /\ UNCHANGED <<rxVars, netVars>>

\* A packet leaves the socket; copies too old to be still under way are gone.
Transmit ==
  /\ \E p \in ToSet(sender.packet):
       /\ SendLoopSend(p)
       /\ net' = {q \in net \cup {p}: Delta(p.seq, q.seq) < SeqHistory \div 2 \/ Ahead(q.seq, p.seq)}
  /\ UNCHANGED <<rxVars, feedback, endpoint, budget>>

SendFails == SendLoopFail /\ Spend("failures") /\ UNCHANGED <<rxVars, net, feedback, endpoint>>

MarkExpires == RetransmitTimePasses /\ Spend("timeouts") /\ UNCHANGED <<rxVars, net, feedback, endpoint>>

\* VerifyAndStripRtcp: the index of a packet is new, and within the window. The
\* window is the set of accepted indices that rx_window has bits for.
LetIn(index) ==
  index > endpoint.highest \/ (index > endpoint.highest - ReplayWindow /\ index \notin endpoint.window)

Verified(index) ==
  LET highest == IF index > endpoint.highest THEN index ELSE endpoint.highest
  IN [endpoint EXCEPT !.highest = highest, !.heard = Append(@, index),
                      !.window = {i \in @ \cup {index}: i > highest - ReplayWindow}]

\* RTCP reaches the sender's endpoint; the network may deliver it again.
Hear ==
  /\ \E m \in feedback:
       /\ IF budget.keyed = 0 \/ LetIn(m.index)
          THEN /\ HandleRtcpPacket(m) \/ IgnoreRtcpPacket(m)
               /\ endpoint' = IF budget.keyed = 0 THEN endpoint ELSE Verified(m.index)
          ELSE UNCHANGED <<sendVars, endpoint>>
       /\ \/ feedback' = feedback \ {m} /\ UNCHANGED budget
          \/ Spend("copies") /\ UNCHANGED feedback
  /\ UNCHANGED <<rxVars, net>>

Deliver ==
  /\ \E p \in net:
       /\ ReceivePacket(p, 0)
       /\ \/ net' = net \ {p} /\ UNCHANGED budget
          \/ Spend("copies") /\ UNCHANGED net
  /\ UNCHANGED <<sendVars, feedback, endpoint>>

\* The same after the 2 s in which the oldest unit made no progress.
DeliverLate ==
  /\ reassembly.pending # <<>> /\ Spend("timeouts")
  /\ \E p \in net: ReceivePacket(p, 1) /\ net' = net \ {p}
  /\ UNCHANGED <<sendVars, feedback, endpoint>>

Lose ==
  /\ Spend("losses")
  /\ \/ \E p \in net: net' = net \ {p} /\ UNCHANGED feedback
     \/ \E m \in feedback: feedback' = feedback \ {m} /\ UNCHANGED net
  /\ UNCHANGED <<sendVars, rxVars, endpoint>>

ReceiverSteps == (PublishUnit \/ Receive) /\ UNCHANGED <<sendVars, netVars>>

ReceiverStops ==
  /\ \/ StopReceiver /\ Spend("stops")
     \/ ReceiveEnds /\ (IF rxStopping THEN UNCHANGED budget ELSE Spend("stops"))
  /\ UNCHANGED <<sendVars, net, feedback, endpoint>>

\* A compound packet of the receiver's endpoint, numbered when it is authenticated.
Send(from, report, nacks, control) ==
  /\ feedback' = feedback \cup {[index |-> endpoint.tx, from |-> from, report |-> report,
                                nacks |-> nacks, control |-> control]}
  /\ endpoint' = [endpoint EXCEPT !.tx = @ + budget.keyed]

\* The RTCP thread of the receiver: a report for a sender report, a report with
\* the NACKs of the moment.
Answer ==
  /\ HearSenderReport /\ history # <<>> /\ ~peerKnown
  /\ Send(ReceiverSsrc, TRUE, <<>>, 0)
  /\ UNCHANGED <<sendVars, net, budget>>

Nack ==
  /\ peerKnown /\ ~rxStopping /\ Spend("rounds")
  /\ \E oldest \in 1..Len(seqs.order):
       /\ PendingNacks(oldest) # <<>>
       /\ Send(ReceiverSsrc, TRUE, PendingNacks(oldest), 0)
  /\ UNCHANGED <<sendVars, rxVars, net>>

\* A command for the encoder: from the receiver or another one, perhaps not about
\* this sender, perhaps sent again under the same transaction ID.
Command ==
  /\ Spend("commands")
  /\ \E c \in Commands: Send(c.from, c.report, <<>>, c.transaction)
  /\ UNCHANGED <<sendVars, rxVars, net>>

Next ==
  \/ SenderSteps \/ Transmit \/ SendFails \/ MarkExpires \/ Hear
  \/ Deliver \/ DeliverLate \/ Lose
  \/ ReceiverSteps \/ ReceiverStops \/ Answer \/ Nack \/ Command

Spec == Init /\ [][Next]_vars

\* While a thread of the sender can run, or the receiver's while it is being destroyed,
\* one does; no fairness between them is needed.  Nothing is assumed of the network nor
\* of what it carries.
SenderRuns ==
  \/ (ApplicationNext \/ SendLoopQuiet \/ QueueRetransmissions) /\ UNCHANGED <<rxVars, netVars>>
  \/ Transmit \/ SendFails
ReceiverRunsDown ==
  rxStopping /\ (ReceiverStops \/ (PublishUnit /\ UNCHANGED <<sendVars, netVars>>))

FairSpec == Spec /\ WF_vars(SenderRuns \/ ReceiverRunsDown)

---------------------------------------------------------------------------
(* Properties *)

\* What queued_bytes counts is there: the packets queued, the one being sent and
\* the reservation of a unit that is being split; never more than the limit.  A
\* leak would block SendUnit for good, a shortfall would let it exceed the limit.
QueueAccounted ==
  /\ ~failed => queuedBytes = BytesOf(queue) + BytesOf(sender.packet) + app.held
  /\ queuedBytes \in 0..QueueBytes

\* After a configuration switch is announced, nothing but that SCU again precedes
\* its random-access frame, and a unit never precedes its SCU: whatever calls were
\* refused or failed in between.
SwitchStartsAtRandomAccess ==
  \A i \in 1..Len(accepted):
    LET u == accepted[i].unit
        scus == {j \in 1..i: accepted[j].unit.kind = "SCU"}
        others == {j \in 1..(i - 1): accepted[j].unit.kind # "SCU"}
        lastScu == CHOOSE j \in scus: \A k \in scus: k <= j
    IN /\ scus # {} /\ accepted[lastScu].unit.config = u.config
       /\ u.kind # "SCU" /\ others # {} =>
            LET before == CHOOSE j \in others: \A k \in others: k <= j
            IN accepted[before].unit.config # u.config => u.kind = "EFU" /\ u.ra

\* Nothing RTCP asks for is done twice, however often and in whatever order the
\* network brings it: a transaction is handed to the encoder at most once, a NACK
\* repeated within 100 ms queues no packet again, and under a key no packet passes
\* the 64-packet replay window twice (ISSUE_9_RTCP_PROGRESS.md).  What the history
\* has forgotten meanwhile is excepted: such a packet may still be in the queue, and
\* once it is sent it is known again, but its mark is gone (RememberRtpPacket).
CommandsOnce ==
  /\ IsInjective(controls.popped \o controls.queue)
  /\ ToSet(controls.popped \o controls.queue) \subseteq controls.seen
NacksOnce == Sequences(rtcp.batch) \cap requeued.again \subseteq requeued.forgotten
PacketsHeardOnce == IsInjective(endpoint.heard)
RtcpActsOnce == CommandsOnce /\ NacksOnce /\ PacketsHeardOnce

\* The receiver's application gets each unit sent at most once, whole, and no
\* damaged one, though packets are lost, doubled, reordered and sent again; and the
\* reassembler's counters are the bytes it holds and stay within its limit, so that
\* the differences it computes with them do not wrap round.
UnitsOnce ==
  LET got == delivered \o unitQueue \o receiver.unit IN
  /\ IsInjective(got)
  /\ \A m \in ToSet(got): m \in ToSet(accepted) /\ m.unit.intact
  /\ reassembly.pendingBytes = LengthOf(reassembly.pending)
  /\ reassembly.completedBytes = CompletedLength(reassembly.completed)
  /\ reassembly.preStart = PreOf(reassembly.pending)
  /\ reassembly.pendingBytes + reassembly.completedBytes <= MaxPendingBytes
  /\ reassembly.preStart \in 0..PreStartBytes
  /\ Len(reassembly.pending) <= MaxPendingUnits
  /\ Len(reassembly.completed) <= MaxPendingUnits

\* The gaps the receiver knows of, counts as lost and asks for are exactly the
\* numbers it has not received, from the first packet to the highest; and its
\* reports name that highest number, counting the wraps, as long as no packet from
\* before the first one came in across a wrap.
SequencesExact ==
  /\ seqs.have =>
       LET from == Index(arrived[1])
           missing == {s \in 0..(SeqSpace - 1):
                         Index(s) \in from..Index(seqs.highest) /\ s \notin ToSet(arrived)}
       IN /\ \A s \in ToSet(arrived): Index(s) <= Index(seqs.highest)
          /\ seqs.gaps = missing
          /\ seqs.lost = Cardinality(missing)
  /\ stats.have /\ (\A s \in ToSet(arrived): Index(s) >= Index(stats.base) \/ s < stats.base) =>
       stats.highest - stats.base = Index(seqs.highest) - Index(stats.base)

\* Every call returns and the sender can be destroyed, whatever fails: no thread
\* sleeps on queue_cv for a notification that went to another; and a receive thread
\* that waits for room in the queue still ends when the receiver is destroyed.
BothEndsClose ==
  /\ []<>(app.at = "gone")
  /\ []<>(rxStopping => receiver.at = "done")
=============================================================================
