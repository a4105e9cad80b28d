------------------------------ MODULE RtpMedia ------------------------------
(***************************************************************************)
(* What the RTP sender and receiver exchange (rtp_mlvc.cc and              *)
(* mlvc_media_unit.h): media units, the packets that carry their fragments *)
(* and RTP sequence numbers.  Payloads are abstract: a unit knows whether  *)
(* its CRC holds, a fragment its place in the unit and its bytes.          *)
(***************************************************************************)
EXTENDS Integers, Sequences, FiniteSets, SequencesExt

CONSTANT SeqSpace  \* RTP sequence numbers are counted modulo this (2^16)
ASSUME SeqSpaceAssumption == SeqSpace \in Nat /\ SeqSpace > 1

(***************************************************************************)
(* A unit is a record [kind, config, id, ra, intact, frags]: kind "SCU",   *)
(* "EFU" or "EOS", ra a random-access I-frame that resets the reference,   *)
(* intact its CRC, frags the wire bytes of the packets it is split into.   *)
(* A medium [time, unit] is a unit sent under an RTP timestamp; a packet   *)
(* is [seq, media, frag, bytes].                                           *)
(***************************************************************************)
NoUnit == [kind |-> "none", config |-> 0, id |-> 0, ra |-> FALSE, intact |-> TRUE, frags |-> <<>>]

Units == [kind: {"none", "SCU", "EFU", "EOS"}, config: Nat, id: Nat, ra: BOOLEAN,
          intact: BOOLEAN, frags: Seq(Nat)]

SumOf(bytes) ==
  LET total[n \in 0..Len(bytes)] == IF n = 0 THEN 0 ELSE total[n - 1] + bytes[n]
  IN total[Len(bytes)]
WireBytes(u) == SumOf(u.frags)
BytesOf(packets) == SumOf([i \in 1..Len(packets) |-> packets[i].bytes])

\* SendUnitLocked and EncodeRtpMlvcFragment: the packets of medium m, numbered from seq.
Packets(m, seq) ==
  [i \in 1..Len(m.unit.frags) |->
     [seq |-> (seq + i - 1) % SeqSpace, media |-> m, frag |-> i, bytes |-> m.unit.frags[i]]]

\* The distance from t forward to s, and whether s is ahead of t rather than behind.
Delta(s, t) == (s - t) % SeqSpace
Ahead(s, t) == Delta(s, t) < SeqSpace \div 2
=============================================================================
