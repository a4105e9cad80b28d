----------------------------- MODULE UdpMessages -----------------------------
(***************************************************************************)
(* The legacy UDP transport: UdpMessageSender with its queue and thread, a *)
(* network that loses, doubles and overtakes datagrams, and                *)
(* UdpMessageReceiver with its thread, which puts the fragments of one     *)
(* message together at a time.                                             *)
(*                                                                         *)
(* A fragment carries the size of its message and its number, and nothing  *)
(* that says which message it is of: two messages of one size cannot be    *)
(* told apart.  A message is a number: the header, a frame or the end.     *)
(***************************************************************************)
EXTENDS Integers, FiniteSets, SequencesExt

CONSTANTS
  FrameParts,    \* fragments of each frame of the stream
  QueueBytes,    \* max_queue_bytes, in fragments
  ReceiveQueue,  \* kMaxQueuedReceiveMessages: bound of the model
  Faults         \* what the network may do to datagrams: bound of the model

ASSUME UdpAssumption ==
  /\ \A f \in DOMAIN FrameParts : FrameParts[f] \in 1..QueueBytes
  /\ ReceiveQueue \in Nat \ {0} /\ Faults \in Nat

VARIABLES
  snd,    \* the sender: send_queue, queued_bytes, the fragments still to send
          \* of the message in hand, send_error, stopping, where its thread is
  net,    \* datagrams on their way, oldest first
  lost,   \* history: datagrams the network lost
  copied, \* history: how often it doubled one
  moved,  \* history: how often it let one overtake another
  rcv     \* the receiver: fragments that are assembled, message_queue,
          \* receive_error, stopping, where its thread is

udpVars == <<snd, net, lost, copied, moved, rcv>>
networkVars == <<net, lost, copied, moved>>

Header == -1
End == -2
Parts(m) == IF m \in {Header, End} THEN 1 ELSE FrameParts[m]
\* The size of a message, as far as the receiver compares it.
Size(m) == IF m \in {Header, End} THEN m ELSE FrameParts[m]
Fragments(m) == [i \in 1..Parts(m) |-> [msg |-> m, index |-> i - 1]]

UdpInit ==
  /\ snd = [queue |-> <<>>, bytes |-> 0, sending |-> <<>>, busy |-> 0, error |-> FALSE,
            stopping |-> FALSE, at |-> "wait"]
  /\ net = <<>> /\ lost = {} /\ copied = 0 /\ moved = 0
  /\ rcv = [parts |-> {}, queue |-> <<>>, error |-> FALSE, stopping |-> FALSE, at |-> "recv"]
-----------------------------------------------------------------------------
(* UdpMessageSender.                                                       *)

\* Send, once there is room; the message in flight still counts.
Send(m) ==
  /\ ~snd.error /\ ~snd.stopping /\ snd.bytes + Parts(m) <= QueueBytes
  /\ snd' = [snd EXCEPT !.queue = Append(@, m), !.bytes = @ + Parts(m)]
  /\ UNCHANGED <<networkVars, rcv>>

SendThrows == snd.error \/ snd.stopping

Flushed == snd.queue = <<>> /\ snd.busy = 0 /\ ~snd.error

\* SendLoop takes a message, or leaves when there is none and it has to stop.
SenderTakes ==
  /\ snd.at = "wait" /\ snd.queue # <<>>
  /\ snd' = [snd EXCEPT !.queue = Tail(@), !.sending = Fragments(Head(snd.queue)),
                        !.busy = Parts(Head(snd.queue)), !.at = "send"]
  /\ UNCHANGED <<networkVars, rcv>>

SenderLeaves ==
  /\ snd.at = "wait" /\ snd.queue = <<>> /\ snd.stopping
  /\ snd' = [snd EXCEPT !.at = "left"]
  /\ UNCHANGED <<networkVars, rcv>>

\* SendMessageNow, one fragment.
SenderSends ==
  /\ snd.at = "send" /\ snd.sending # <<>>
  /\ snd' = [snd EXCEPT !.sending = Tail(@)]
  /\ net' = Append(net, Head(snd.sending))
  /\ UNCHANGED <<lost, copied, moved, rcv>>

\* The message has been sent.
SenderReleases ==
  /\ snd.at = "send" /\ snd.sending = <<>>
  /\ snd' = [snd EXCEPT !.bytes = @ - snd.busy, !.busy = 0, !.at = "wait"]
  /\ UNCHANGED <<networkVars, rcv>>

\* Mutant: the callers of Send and Flush are not told.
SenderFailsQuietly ==
  /\ snd.at = "send" /\ snd.sending # <<>>
  /\ snd' = [snd EXCEPT !.sending = <<>>, !.at = "left"]
  /\ UNCHANGED <<networkVars, rcv>>

\* sendto fails; everything that is queued is dropped.
SenderFails ==
  /\ snd.at = "send" /\ snd.sending # <<>>
  /\ snd' = [queue |-> <<>>, bytes |-> 0, sending |-> <<>>, busy |-> 0, error |-> TRUE,
             stopping |-> TRUE, at |-> "left"]
  /\ UNCHANGED <<networkVars, rcv>>

Sender == SenderTakes \/ SenderLeaves \/ SenderSends \/ SenderReleases \/ SenderFails

\* ~Impl once its Flush returned or threw; the join needs SenderLeaves.
StopSender == snd' = [snd EXCEPT !.stopping = TRUE] /\ UNCHANGED <<networkVars, rcv>>
-----------------------------------------------------------------------------
(* The network.                                                            *)

Troubled == Cardinality(lost) + copied + moved

NetworkLoses ==
  /\ net # <<>> /\ Troubled < Faults
  /\ net' = Tail(net) /\ lost' = lost \cup {Head(net)}
  /\ UNCHANGED <<snd, copied, moved, rcv>>

\* The copy comes at once or after everything that is on its way.
NetworkDoubles ==
  /\ net # <<>> /\ Troubled < Faults /\ copied' = copied + 1
  /\ net' \in {<<Head(net)>> \o net, Append(net, Head(net))}
  /\ UNCHANGED <<snd, lost, moved, rcv>>

NetworkSwaps ==
  /\ Len(net) > 1 /\ Troubled < Faults /\ moved' = moved + 1
  /\ net' = <<net[2], net[1]>> \o SubSeq(net, 3, Len(net))
  /\ UNCHANGED <<snd, lost, copied, rcv>>

Network == NetworkLoses \/ NetworkDoubles \/ NetworkSwaps
-----------------------------------------------------------------------------
(* UdpMessageReceiver.                                                     *)

\* The fragment is of the size of the message that is assembled.
SameSize(d) == \E p \in rcv.parts : Size(p.msg) = Size(d.msg)

\* Mutant: the bytes of a fragment that is there already are not compared.
ConflictsNever(d) == FALSE

Conflicts(d) ==
  SameSize(d) /\ \E p \in rcv.parts : p.index = d.index /\ p.msg # d.msg

\* What is assembled after fragment d: the first fragment of another size starts
\* anew, any other one of another size, and one that is there, change nothing.
Assembled(d) ==
  IF d.index = 0 /\ ~SameSize(d) THEN {d}
  ELSE IF ~SameSize(d) \/ (\E p \in rcv.parts : p.index = d.index) THEN rcv.parts
  ELSE rcv.parts \cup {d}

Complete(parts) == \E p \in parts : Cardinality(parts) = Parts(p.msg)

ReceiverTakes ==
  /\ rcv.at = "recv" /\ ~rcv.stopping /\ net # <<>>
  /\ ~Conflicts(Head(net))
  /\ net' = Tail(net)
  /\ LET parts == Assembled(Head(net)) IN
       rcv' = [rcv EXCEPT !.parts = parts, !.at = IF Complete(parts) THEN "put" ELSE "recv"]
  /\ UNCHANGED <<snd, lost, copied, moved>>

\* "conflicting duplicate", or no packet for five seconds in mid-message.
ReceiverThrows ==
  /\ rcv.at = "recv" /\ ~rcv.stopping
  /\ \/ net # <<>> /\ Conflicts(Head(net)) /\ net' = Tail(net)
     \/ net = <<>> /\ rcv.parts # {} /\ UNCHANGED net
  /\ rcv' = [rcv EXCEPT !.error = TRUE, !.at = "left"]
  /\ UNCHANGED <<snd, lost, copied, moved>>

ReceiverPuts ==
  /\ rcv.at = "put" /\ ~rcv.stopping /\ Len(rcv.queue) < ReceiveQueue
  /\ rcv' = [rcv EXCEPT !.queue = Append(@, rcv.parts), !.parts = {}, !.at = "recv"]
  /\ UNCHANGED <<snd, networkVars>>

\* The destructor's flag, or recvfrom on its socket that has been shut.
ReceiverLeaves ==
  /\ rcv.at \in {"recv", "put"} /\ rcv.stopping
  /\ rcv' = [rcv EXCEPT !.at = "left"]
  /\ UNCHANGED <<snd, networkVars>>

Receiver == ReceiverTakes \/ ReceiverThrows \/ ReceiverPuts \/ ReceiverLeaves

\* Receive: an error comes before the messages that are there.
ReceiveThrows == rcv.error
Receive(parts) ==
  /\ ~rcv.error /\ rcv.queue # <<>> /\ parts = Head(rcv.queue)
  /\ rcv' = [rcv EXCEPT !.queue = Tail(@)]
  /\ UNCHANGED <<snd, networkVars>>

StopReceiver == rcv' = [rcv EXCEPT !.stopping = TRUE] /\ UNCHANGED <<snd, networkVars>>
==============================================================================
