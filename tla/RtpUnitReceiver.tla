--------------------------- MODULE RtpUnitReceiver ---------------------------
(***************************************************************************)
(* The RTP receiver: sequence tracking, RTCP statistics and the unit queue *)
(* of common/src/transport/rtp_message_receiver.cc, and the reassembler it *)
(* feeds (RtpMlvcReassembler in rtp_mlvc.cc).                              *)
(*                                                                         *)
(* The receive thread takes a packet, tracks it and pushes its fragment in *)
(* one action: all of that state is its own but for sequence_mutex_, which *)
(* guards exactly what the RTCP thread reads.  Publishing the unit is an   *)
(* action of its own, since it may wait for room in the queue.             *)
(***************************************************************************)
EXTENDS RtpMedia

CONSTANTS
  SeqHistory,       \* kMaxSequenceHistory
  MaxPendingUnits,  \* of the reassembler, also the completed units it remembers
  MaxPendingBytes,  \* of the reassembler, pending and remembered
  PreStartBytes,    \* kMaxPreStartFragmentBytes
  QueuedUnits,      \* kMaxQueuedUnits
  QueuedUnitBytes,  \* kMaxQueuedUnitBytes
  NackLimit         \* numbers one round of NACKs names (256)

ASSUME ReceiverAssumption == SeqHistory \in Nat /\ NackLimit \in Nat

VARIABLES
  seqs,        \* have_sequence_, highest_sequence_, seen_sequence_order_ (seen), the
               \* missing sequences (gaps) in missing_sequence_order_ (order), lost_packets_
  stats,       \* the statistics of a report block: max, cycles, base, highest, received
  reassembly,  \* pending_ by last_updated, completed_ by key, and their byte counters
  receiver,    \* the receive thread: [at, unit]
  unitQueue,   \* unit_queue_
  rxError,     \* receive_error_
  rxStopping,  \* stopping_ and rtcp_stopping_
  peerKnown,   \* the RTCP thread has seen a sender report
  delivered,   \* history variable: what Receive has returned
  arrived      \* history variable: the numbers received, in the order they came first

rxVars == <<seqs, stats, reassembly, receiver, unitQueue, rxError, rxStopping, peerKnown,
            delivered, arrived>>

ReceiveInit ==
  /\ seqs = [have |-> FALSE, highest |-> 0, seen |-> <<>>, gaps |-> {}, order |-> <<>>, lost |-> 0]
  /\ stats = [have |-> FALSE, max |-> 0, cycles |-> 0, base |-> 0, highest |-> 0, received |-> 0]
  /\ reassembly = [pending |-> <<>>, completed |-> <<>>,
                   pendingBytes |-> 0, completedBytes |-> 0, preStart |-> 0]
  /\ receiver = [at |-> "recv", unit |-> <<>>]
  /\ unitQueue = <<>> /\ rxError = FALSE /\ rxStopping = FALSE /\ peerKnown = FALSE
  /\ delivered = <<>> /\ arrived = <<>>

Drop(s, n) == SubSeq(s, n + 1, Len(s))
Newest(s) == IF Len(s) > SeqHistory THEN Drop(s, Len(s) - SeqHistory) ELSE s

---------------------------------------------------------------------------
(* TrackSequence and UpdateRtcpReceiveStats *)

\* Mutant: repeated packets are left to the reassembler.
IsDuplicateNever(s) == FALSE
IsDuplicate(s) == \E i \in 1..Len(seqs.seen): seqs.seen[i] = s

\* Mutant: the skipped numbers are off by one.
SkippedOffByOne(s) ==
  LET gap == Delta(s, seqs.highest) - 1
  IN [i \in 1..gap |-> (s - gap + i) % SeqSpace]
\* The numbers skipped when s arrives ahead of the highest, in order.
Skipped(s) ==
  LET gap == Delta(s, seqs.highest) - 1
      tracked == IF gap > SeqHistory THEN SeqHistory ELSE gap
  IN [i \in 1..tracked |-> (s - tracked + i - 1) % SeqSpace]

TrackSequence(s) ==
  LET r == [seqs EXCEPT !.seen = Newest(Append(@, s))] IN
  CASE ~seqs.have -> [r EXCEPT !.have = TRUE, !.highest = s]
    [] seqs.have /\ Ahead(s, seqs.highest) ->
         LET order == seqs.order \o Skipped(s)
             expired == ToSet(SubSeq(order, 1, Len(order) - Len(Newest(order))))
         IN [r EXCEPT !.highest = s,
                      !.lost = @ + IF s = seqs.highest THEN 0 ELSE Delta(s, seqs.highest) - 1,
                      !.order = Newest(order),
                      !.gaps = (@ \cup ToSet(Skipped(s))) \ expired]
    [] OTHER ->
         [r EXCEPT !.gaps = @ \ {s},
                   !.lost = IF s \in seqs.gaps /\ @ > 0 THEN @ - 1 ELSE @]

\* The extended number of a packet that is not the new highest.
ExtendLate(s) ==
  IF ~Ahead(s, stats.max) /\ s > stats.max /\ stats.cycles >= SeqSpace
  THEN stats.cycles - SeqSpace + s
  ELSE stats.cycles + s

UpdateRtcpReceiveStats(s) ==
  IF ~stats.have
  THEN [have |-> TRUE, max |-> s, cycles |-> 0, base |-> s, highest |-> s, received |-> 1]
  ELSE IF s # stats.max /\ Ahead(s, stats.max)
  THEN LET cycles == stats.cycles + IF s < stats.max THEN SeqSpace ELSE 0 IN
       [stats EXCEPT !.max = s, !.cycles = cycles, !.highest = cycles + s, !.received = @ + 1]
  ELSE [stats EXCEPT !.received = @ + 1,
                     !.highest = IF ExtendLate(s) > @ THEN ExtendLate(s) ELSE @]

---------------------------------------------------------------------------
(* RtpMlvcReassembler::Push.  A pending unit is [media, got, pre]: the      *)
(* fragments it holds and, until the first fragment is one of them, the     *)
(* bytes held apart (pre_start_fragments).                                  *)

\* unit_length, counted with the headers of its packets.
UnitLength(m) == WireBytes(m.unit)
LengthOf(entries) == FoldSeq(LAMBDA e, total: UnitLength(e.media) + total, 0, entries)
PreOf(entries) == FoldSeq(LAMBDA e, total: e.pre + total, 0, entries)
CompletedLength(media) == FoldSeq(LAMBDA m, total: UnitLength(m) + total, 0, media)

\* The order of UnitKey: timestamp, type, config_id, unit_id.
TypeOrder(kind) == CASE kind = "SCU" -> 1 [] kind = "EFU" -> 2 [] OTHER -> 3
KeyBefore(a, b) ==
  \/ a.time < b.time
  \/ a.time = b.time /\ TypeOrder(a.unit.kind) < TypeOrder(b.unit.kind)

\* How many of the first entries of s to drop: as few as are enough, or all.
FewestDropped(s, enough) == Min(enough \cup {Len(s)})

ErasePending(r, entries) ==
  [r EXCEPT !.pending = SelectSeq(@, LAMBDA e: e \notin ToSet(entries)),
            !.pendingBytes = @ - LengthOf(entries),
            !.preStart = @ - PreOf(entries)]

ForgetCompleted(r, n) ==
  [r EXCEPT !.completed = Drop(@, n),
            !.completedBytes = @ - CompletedLength(SubSeq(r.completed, 1, n))]

\* Make room for a new unit: remembered units go first, then the stalest pending.
ForgetFor(r, length) ==
  ForgetCompleted(r, FewestDropped(r.completed,
    {n \in 0..Len(r.completed):
       CompletedLength(Drop(r.completed, n)) <= MaxPendingBytes - length}))

EvictFor(r, length) ==
  LET enough == {n \in 0..Len(r.pending):
        /\ Len(r.pending) - n < MaxPendingUnits
        /\ LengthOf(Drop(r.pending, n)) + r.completedBytes + length <= MaxPendingBytes}
  IN ErasePending(r, SubSeq(r.pending, 1, FewestDropped(r.pending, enough)))

MakeRoom(r, length) == EvictFor(ForgetFor(r, length), length)

EntryOf(r, m) == SelectSeq(r.pending, LAMBDA e: e.media = m)
WithEntry(r, m) ==
  IF EntryOf(r, m) # <<>> THEN r
  ELSE [MakeRoom(r, UnitLength(m)) EXCEPT
          !.pending = Append(@, [media |-> m, got |-> {}, pre |-> 0]),
          !.pendingBytes = @ + UnitLength(m)]

\* The fragment is stored; the entry becomes the freshest.
Stored(r, e, p) ==
  LET started == 1 \in e.got \cup {p.frag}
      entry == [e EXCEPT !.got = @ \cup {p.frag}, !.pre = IF started THEN 0 ELSE @ + p.bytes]
  IN [r EXCEPT !.pending = Append(SelectSeq(@, LAMBDA x: x # e), entry),
               !.preStart = @ + entry.pre - e.pre]

\* As few remembered units are forgotten as bring the bytes and the count in range.
WithinLimits(r) ==
  LET enough == {n \in 0..Len(r.completed):
        /\ CompletedLength(Drop(r.completed, n)) + r.pendingBytes <= MaxPendingBytes
        /\ Len(r.completed) - n <= MaxPendingUnits}
  IN ForgetCompleted(r, FewestDropped(r.completed, enough))

\* The unit of entry e is complete: it moves from pending to the remembered units.
Complete(r, e) ==
  LET after(c) == KeyBefore(e.media, c)
      before(c) == ~KeyBefore(e.media, c)
  IN WithinLimits([ErasePending(r, <<e>>) EXCEPT
       !.completed = SelectSeq(@, before) \o <<e.media>> \o SelectSeq(@, after),
       !.completedBytes = @ + UnitLength(e.media)])

\* A fragment that comes before the first one of its unit is held apart, if it fits.
NoRoomApart(r, e, p) ==
  /\ p.frag # 1 /\ 1 \notin e.got
  /\ \/ p.bytes > PreStartBytes - r.preStart
     \/ p.bytes > MaxPendingBytes - r.pendingBytes - r.completedBytes

\* Fragment p joins the entry e of its unit.
PushFragment(r, e, p) ==
  CASE p.frag \in e.got -> <<r, FALSE>>
    [] p.frag \notin e.got /\ NoRoomApart(r, e, p) -> <<ErasePending(r, <<e>>), FALSE>>
    [] p.frag \notin e.got /\ ~NoRoomApart(r, e, p) ->
         IF Cardinality(e.got) + 1 = Len(p.media.unit.frags)
         THEN <<Complete(Stored(r, e, p), EntryOf(Stored(r, e, p), p.media)[1]), TRUE>>
         ELSE <<Stored(r, e, p), FALSE>>

PushPending(r, p) == PushFragment(r, EntryOf(r, p.media)[1], p)

\* <<the reassembler after fragment p, whether it completed its unit>>.
PushSwept(r, p) ==
  IF p.media \in ToSet(r.completed) THEN <<r, FALSE>> ELSE PushPending(WithEntry(r, p.media), p)

\* `expired` pending units have been idle for fragment_timeout_.
Push(p, expired) == PushSwept(ErasePending(reassembly, SubSeq(reassembly.pending, 1, expired)), p)

---------------------------------------------------------------------------
(* The receive thread *)

\* One packet from the socket: a unit whose CRC is wrong is skipped, a good one
\* is held until the queue has room.
ReceivePacket(p, expired) ==
  /\ receiver.at = "recv"
  /\ IF IsDuplicate(p.seq)
     THEN UNCHANGED <<seqs, stats, reassembly, receiver, arrived>>
     ELSE /\ seqs' = TrackSequence(p.seq)
          /\ stats' = UpdateRtcpReceiveStats(p.seq)
          /\ \E pushed \in {Push(p, expired)}:
               /\ reassembly' = pushed[1]
               /\ receiver' = IF pushed[2] /\ p.media.unit.intact
                              THEN [at |-> "put", unit |-> <<p.media>>] ELSE receiver
          /\ arrived' = IF p.seq \in ToSet(arrived) THEN arrived ELSE Append(arrived, p.seq)
  /\ UNCHANGED <<unitQueue, rxError, rxStopping, peerKnown, delivered>>

\* queue_not_full_: wait for room, or leave when the receiver is destroyed.
PublishUnit ==
  /\ receiver.at = "put"
  /\ \/ rxStopping /\ receiver' = [at |-> "done", unit |-> <<>>] /\ UNCHANGED unitQueue
     \/ /\ ~rxStopping /\ Len(unitQueue) < QueuedUnits
        /\ CompletedLength(unitQueue \o receiver.unit) <= QueuedUnitBytes
        /\ unitQueue' = unitQueue \o receiver.unit
        /\ receiver' = [at |-> "recv", unit |-> <<>>]
  /\ UNCHANGED <<seqs, stats, reassembly, rxError, rxStopping, peerKnown, delivered, arrived>>

\* The socket times out or fails, or a packet is refused (another SSRC, a bad
\* descriptor): SetReceiveError, unless the receiver is being destroyed.
ReceiveEnds ==
  /\ receiver.at = "recv"
  /\ rxError' = (rxError \/ ~rxStopping)
  /\ receiver' = [receiver EXCEPT !.at = "done"]
  /\ UNCHANGED <<seqs, stats, reassembly, unitQueue, rxStopping, peerKnown, delivered, arrived>>

(* The application: Receive and ReceiveFor, and the destructor. *)
Receive ==
  /\ ~rxError /\ ~rxStopping /\ unitQueue # <<>>
  /\ delivered' = Append(delivered, Head(unitQueue))
  /\ unitQueue' = Tail(unitQueue)
  /\ UNCHANGED <<seqs, stats, reassembly, receiver, rxError, rxStopping, peerKnown, arrived>>

StopReceiver ==
  /\ ~rxStopping /\ rxStopping' = TRUE
  /\ UNCHANGED <<seqs, stats, reassembly, receiver, unitQueue, rxError, peerKnown, delivered,
                 arrived>>

(* The RTCP thread: a sender report makes the peer known and is answered    *)
(* with a report; after that, gaps older than 20 ms are asked for again.    *)
HearSenderReport ==
  /\ ~rxStopping /\ seqs.have /\ peerKnown' = TRUE
  /\ UNCHANGED <<seqs, stats, reassembly, receiver, unitQueue, rxError, rxStopping, delivered,
                 arrived>>

\* The numbers a round of NACKs names: the gaps found first, lowest numbers first.
PendingNacks(oldest) ==
  LET due == seqs.gaps \cap ToSet(SubSeq(seqs.order, 1, oldest))
      count == IF Cardinality(due) > NackLimit THEN NackLimit ELSE Cardinality(due)
  IN [k \in 1..count |-> CHOOSE n \in due: Cardinality({m \in due: m < n}) = k - 1]
=============================================================================
