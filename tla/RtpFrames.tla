------------------------------ MODULE RtpFrames ------------------------------
(***************************************************************************)
(* Frames over RTP: RtpMlvcSender turns configurations and frames into     *)
(* media units, RtpMlvcReceiver puts the units that arrive in frame order  *)
(* again, changes configuration where the sender did, and after a gap      *)
(* resumes at a frame that can be decoded without the missing ones.        *)
(*                                                                         *)
(* A unit (see RtpLink) arrives once, twice, late or never.  Configuration *)
(* ids and frame ids are small here, so serial order is the order of the   *)
(* numbers.  Checks that two copies of a unit have the same bytes hold for *)
(* the sender modelled and are left out.                                   *)
(***************************************************************************)
EXTENDS Integers, FiniteSets, SequencesExt, FiniteSetsExt

CONSTANTS
  Streams,      \* sequences of frames the application may send, see Frame
  MaxPending,   \* kMaxPendingRtpFrames
  NetSize,      \* bound of the model: units under way at a time
  Losses, Copies  \* bounds of the model: units lost and units doubled

Frame == [type : {"I", "P", "reset", "ltr"}, config : Nat, store : BOOLEAN, long : Int]

ASSUME FramesAssumption ==
  /\ \A s \in Streams : s \in Seq(Frame) /\ Len(s) > 0 /\ s[1].type = "I"
  /\ MaxPending \in Nat \ {0} /\ NetSize \in Nat \ {0} /\ Losses \in Nat /\ Copies \in Nat

VARIABLES
  stream,   \* what the application sends
  tx,       \* the sender: config_id_, a switch is pending, expected_frame_index_
  net,      \* units under way
  budget,   \* losses and copies left
  rx,       \* the receiver, see RxInit
  got       \* history: frames returned; lost: units were; early: frames came before the
            \* start and were dropped; gap: one was declared

vars == <<stream, tx, net, budget, rx, got>>

None == -1
NoUnit == [kind |-> "none"]

\* A frame's unit names the frame it needs; a P frame that is no reset needs the
\* frame before it.
Efu(n) == [kind |-> "efu", config |-> stream[n + 1].config, id |-> n,
           type |-> stream[n + 1].type, store |-> stream[n + 1].store,
           long |-> stream[n + 1].long]
\* The frame after an SCU tells its copies apart in the network.
Scu(c, n) == [kind |-> "scu", config |-> c, id |-> n]
Eos == [kind |-> "eos", config |-> tx.config, id |-> tx.next]

RxInit ==
  [at |-> "header",      \* in ReceiveHeader, in ReceiveFrame, ended, failed
   why |-> "none",       \* the failure
   started |-> FALSE,    \* header_received_
   config |-> 0,         \* config_id_
   switching |-> 0,      \* pending_config_id_
   scus |-> {},          \* configurations of pending_config_units_
   frames |-> {},        \* pending_frames_
   expected |-> 0,       \* expected_frame_index_
   deadline |-> "none",  \* reorder_deadline_: none, armed, passed
   waiting |-> FALSE,    \* waiting_for_recovery_
   eos |-> None,         \* eos_frame_count_
   lateEos |-> NoUnit,   \* pending_eos_unit_
   short |-> None,       \* available_short_reference_id_
   ltrs |-> {}]          \* ltr_frame_ids_

Init ==
  /\ stream \in Streams
  /\ tx = [config |-> stream[1].config, switching |-> FALSE, next |-> 0, open |-> TRUE]
  /\ net = {Scu(stream[1].config, 0)}
  /\ budget = [losses |-> Losses, copies |-> Copies]
  /\ rx = RxInit
  /\ got = [frames |-> <<>>, lost |-> FALSE, early |-> FALSE, gap |-> FALSE]
-----------------------------------------------------------------------------
(* RtpMlvcSender.  SendHeader is in Init.                                  *)

Room == Cardinality(net) < NetSize

SendConfiguration ==
  /\ tx.open /\ ~tx.switching /\ tx.next < Len(stream)
  /\ stream[tx.next + 1].config > tx.config
  /\ tx' = [tx EXCEPT !.config = stream[tx.next + 1].config, !.switching = TRUE]
  /\ UNCHANGED <<stream, net, budget, rx, got>>

\* The SCU goes out ahead of the first frame under it and of every later I frame.
SendFrame ==
  LET n == tx.next
      f == stream[n + 1]
  IN /\ tx.open /\ n < Len(stream) /\ Room
     /\ tx.config = f.config /\ (tx.switching => f.type = "I")
     /\ net' = net \cup {Efu(n)}
                 \cup (IF tx.switching \/ (f.type = "I" /\ n > 0)
                       THEN {Scu(f.config, n)} ELSE {})
     /\ tx' = [tx EXCEPT !.next = n + 1, !.switching = FALSE]
     /\ UNCHANGED <<stream, budget, rx, got>>

\* SendEnd, then Close.
SendEnd ==
  /\ tx.open /\ tx.next = Len(stream) /\ ~tx.switching /\ Room
  /\ net' = net \cup {Eos}
  /\ tx' = [tx EXCEPT !.open = FALSE]
  /\ UNCHANGED <<stream, budget, rx, got>>

Sender == SendConfiguration \/ SendFrame \/ SendEnd

Lose ==
  /\ budget.losses > 0
  /\ \E u \in net : net' = net \ {u}
  /\ budget' = [budget EXCEPT !.losses = @ - 1]
  /\ got' = [got EXCEPT !.lost = TRUE]
  /\ UNCHANGED <<stream, tx, rx>>
-----------------------------------------------------------------------------
(* The receiver's operations, on its state r.                              *)

Fails(r, why) == [r EXCEPT !.at = "failed", !.why = why]

RandomAccess(u) == u.type = "I"
\* Mutant: an LTR frame recovers whether or not its reference was decoded.
RecoversByAnyLtr(r, u) == RandomAccess(u) \/ (u.config = r.config /\ u.type = "ltr")

\* A frame that can be decoded although the frames before it are missing.
Recovers(r, u) ==
  RandomAccess(u) \/ (u.config = r.config /\ u.type = "ltr" /\ u.long \in r.ltrs)

At(r, id) == {u \in r.frames : u.id = id}
Missing(r) == At(r, r.expected) = {}
First(us) == CHOOSE u \in us : \A v \in us : u.id <= v.id

MarkDependencyGap(r) ==
  [r EXCEPT !.waiting = TRUE, !.deadline = "none",
            !.frames = {u \in @ : u.id = r.expected \/ Recovers(r, u)}]

\* FindRecoveryFrame.
Recoveries(r) ==
  {u \in r.frames : /\ u.id > r.expected /\ Recovers(r, u)
                    /\ u.config = r.config \/ (u.config > r.config /\ u.config \in r.scus)}

\* QueueConfigurationUnit.
QueueConfiguration(r, c) ==
  IF c \in r.scus THEN r
  ELSE IF Cardinality(r.scus) = 8 THEN Fails(r, "limit")
  ELSE [r EXCEPT !.scus = @ \cup {c}]

\* HandleConfigurationUnit, for a newer configuration.
HandleConfiguration(r, c) ==
  IF r.switching # 0 THEN Fails(r, "switch is pending")
  ELSE [r EXCEPT !.config = c, !.switching = c, !.deadline = "none", !.waiting = FALSE,
                 !.eos = None, !.short = None, !.ltrs = {}]

HandleEnd(r, u) ==
  IF u.id < r.expected THEN Fails(r, "end is behind")
  ELSE IF r.eos # None THEN r
  ELSE IF \E f \in r.frames : f.config = r.config /\ f.id >= u.id
       THEN Fails(r, "frame beyond end")
  ELSE [r EXCEPT !.eos = u.id]

WithFrame(r, u) ==
  IF Cardinality(r.frames) >= MaxPending THEN Fails(r, "limit")
  ELSE [r EXCEPT !.frames = @ \cup {u}]

\* BufferFrameUnit once the stream has started.
BufferStarted(r, u) ==
  LET full == Cardinality(r.frames) >= MaxPending
      helps == Recovers(r, u)
      ahead == u.id > r.expected
  IN IF \/ u.config < r.config \/ u.id < r.expected
        \/ r.waiting /\ ahead /\ ~helps THEN r
     ELSE IF ~helps /\ u.id - r.expected >= MaxPending THEN MarkDependencyGap(r)
     ELSE IF u \in r.frames THEN r
     ELSE IF ~full THEN WithFrame(r, u)
     ELSE IF ~helps /\ ahead THEN MarkDependencyGap(r)
     ELSE WithFrame(MarkDependencyGap(r), u)

BufferFrame(r, u) ==
  IF u.config = r.config /\ r.eos # None /\ u.id >= r.eos THEN Fails(r, "frame beyond end")
  ELSE IF r.started THEN BufferStarted(r, u)
  ELSE IF ~RandomAccess(u) \/ u \in r.frames THEN r
  ELSE WithFrame(r, u)

\* TryStartAtRandomAccess: only I frames are pending before the start.
TryStart(r) ==
  LET own == {u \in r.frames : u.config = r.config}
      f == First(own)
  IN IF r.at = "failed" THEN r
     ELSE IF own = {} THEN [r EXCEPT !.frames = {u \in @ : u.config >= r.config}]
     ELSE [r EXCEPT !.expected = f.id, !.frames = {u \in @ : u.id >= f.id},
                    !.started = TRUE, !.at = "frame", !.switching = 0,
                    !.deadline = "none", !.waiting = FALSE]
-----------------------------------------------------------------------------
(* A unit arrives while the receiver waits for one.                        *)

\* Mutant: every SCU before the start is taken, the late ones too.
HeaderTakesAnyScu(r, u) ==
  CASE u.kind = "eos" -> Fails(r, "end before start")
    [] u.kind = "efu" -> IF r.config = 0 THEN BufferFrame(r, u) ELSE TryStart(BufferFrame(r, u))
    [] u.kind = "scu" -> TryStart([r EXCEPT !.config = u.config])

\* ReceiveHeader.
HeaderTakes(r, u) ==
  CASE u.kind = "eos" -> Fails(r, "end before start")
    [] u.kind = "efu" -> IF r.config = 0 THEN BufferFrame(r, u) ELSE TryStart(BufferFrame(r, u))
    [] u.kind = "scu" /\ u.config < r.config -> r
    [] u.kind = "scu" /\ u.config = r.config -> TryStart(r)
    [] u.kind = "scu" /\ u.config > r.config -> TryStart([r EXCEPT !.config = u.config])

\* ReceiveFrame from Receive on.
FrameTakes(r, u) ==
  CASE u.kind = "eos" /\ u.config < r.config -> r
    [] u.kind = "eos" /\ u.config = r.config -> HandleEnd(r, u)
    [] u.kind = "eos" /\ u.config > r.config -> [r EXCEPT !.lateEos = u]
    [] u.kind = "scu" -> IF u.config > r.config THEN QueueConfiguration(r, u.config) ELSE r
    [] u.kind = "efu" -> BufferFrame(r, u)
-----------------------------------------------------------------------------
(* One pass of the loop in ReceiveFrame, up to where it would receive.     *)

\* The EOS of a configuration that was not there yet.
SettleEnd(r) ==
  IF r.lateEos = NoUnit \/ r.lateEos.config > r.config THEN r
  ELSE LET s == [r EXCEPT !.lateEos = NoUnit] IN
       IF r.lateEos.config = r.config THEN HandleEnd(s, r.lateEos) ELSE s

\* The configuration the next frame to decode asks for, if it is a newer one.
Target(r) ==
  LET next == IF Missing(r) THEN Recoveries(r) ELSE At(r, r.expected) IN
  IF r.switching = 0 /\ r.scus # {} /\ next # {} /\ First(next).config > r.config
  THEN First(next).config ELSE 0

\* Other frames wait for the missing one: time to start the clock.
Stalls(r) ==
  /\ Missing(r) /\ ~r.waiting
  /\ Target(r) # 0 \/ \E u \in r.frames : u.id > r.expected /\ u.config = r.config

\* Mutant: a gap already declared does not count, only the deadline does.
AdoptsAfterDeadline(r) == Target(r) \in r.scus /\ (Missing(r) => r.deadline = "passed")

Adopts(r) ==
  Target(r) \in r.scus /\ (Missing(r) => r.waiting \/ r.deadline = "passed")

Adopt(r) ==
  LET c == Target(r)
      g == IF Missing(r) /\ ~r.waiting THEN MarkDependencyGap(r) ELSE r
      s == HandleConfiguration([g EXCEPT !.scus = {d \in @ : d > c}], c)
  IN IF Missing(r) THEN [s EXCEPT !.waiting = TRUE] ELSE s

\* Mutant: a frame to resume at is taken before the gap is declared.
JumpsAtOnce(r) ==
  Missing(r) /\ Recoveries(r) # {} /\ First(Recoveries(r)).config = r.config

Jumps(r) ==
  /\ Missing(r) /\ r.waiting
  /\ Recoveries(r) # {} /\ First(Recoveries(r)).config = r.config

Jump(r) ==
  LET id == First(Recoveries(r)).id IN
  [r EXCEPT !.expected = id, !.frames = {u \in @ : u.id >= id}, !.waiting = FALSE,
            !.deadline = "none"]

\* PopReadyFrame finds the expected frame under the current configuration.
Ready(r) == \E u \in At(r, r.expected) : u.config = r.config

\* The checks of a frame that is about to be returned.
Rejected(r, u) ==
  IF r.switching # 0 /\ (u.config # r.switching \/ ~RandomAccess(u)) THEN "switch without I"
  ELSE IF u.type = "P" /\ r.short # u.id - 1 THEN "short reference"
  ELSE IF u.type = "ltr" /\ u.long \notin r.ltrs THEN "long reference"
  ELSE "none"

Deliver(r) ==
  LET u == First(At(r, r.expected)) IN
  IF Rejected(r, u) # "none" THEN Fails(r, Rejected(r, u))
  ELSE [r EXCEPT !.frames = @ \ {u}, !.deadline = "none", !.waiting = FALSE,
                 !.switching = 0, !.short = u.id, !.expected = @ + 1,
                 !.ltrs = (IF RandomAccess(u) THEN {} ELSE @)
                            \cup (IF u.store THEN {u.id} ELSE {})]

AtEnd(r) ==
  r.eos = r.expected /\ r.frames = {} /\ r.scus = {} /\ r.switching = 0

\* What the pass does; "wait" is the call of Receive or ReceiveFor.
Pass(r) ==
  IF r.at = "failed" THEN "fail"
  ELSE IF Adopts(r) THEN "adopt"
  ELSE IF Stalls(r) /\ r.deadline = "none" THEN "arm"
  ELSE IF Missing(r) /\ r.deadline = "passed" THEN "gap"
  ELSE IF Jumps(r) THEN "jump"
  ELSE IF Ready(r) THEN "deliver"
  ELSE IF AtEnd(r) THEN "end"
  ELSE IF r.deadline = "passed" THEN "gap"
  ELSE "wait"

After(r) ==
  CASE Pass(r) = "fail" -> r
    [] Pass(r) = "adopt" -> Adopt(r)
    [] Pass(r) = "arm" -> [r EXCEPT !.deadline = "armed"]
    [] Pass(r) = "gap" -> MarkDependencyGap(r)
    [] Pass(r) = "jump" -> Jump(r)
    [] Pass(r) = "deliver" -> Deliver(r)
    [] Pass(r) = "end" -> [r EXCEPT !.at = "ended"]
    [] Pass(r) = "wait" -> r

Settled == SettleEnd(rx)
Waits == rx.at = "header" \/ (rx.at = "frame" /\ Pass(Settled) = "wait")

Noted(r) ==
  [got EXCEPT !.gap = @ \/ r.waiting,
              !.frames = IF rx.at = "frame" /\ Pass(Settled) = "deliver" /\ r.at # "failed"
                         THEN Append(@, First(At(Settled, Settled.expected))) ELSE @]

Loop ==
  /\ rx.at = "frame" /\ (Pass(Settled) # "wait" \/ Settled # rx)
  /\ rx' = After(Settled)
  /\ got' = Noted(rx')
  /\ UNCHANGED <<stream, tx, net, budget>>

\* A unit comes; a copy of it may come again.
Arrive ==
  /\ Waits
  /\ \E u \in net :
       /\ rx' = IF rx.at = "header" THEN HeaderTakes(rx, u) ELSE FrameTakes(Settled, u)
       /\ got' = [got EXCEPT !.gap = @ \/ rx'.waiting,
                              !.early = @ \/ (~rx.started /\ u.kind = "efu" /\ ~RandomAccess(u))]
       /\ \/ net' = net \ {u} /\ UNCHANGED budget
          \/ /\ budget.copies > 0 /\ budget' = [budget EXCEPT !.copies = @ - 1]
             /\ UNCHANGED net
  /\ UNCHANGED <<stream, tx>>

\* 100 ms go by.
DeadlinePasses ==
  /\ rx.deadline = "armed"
  /\ rx' = [rx EXCEPT !.deadline = "passed"]
  /\ UNCHANGED <<stream, tx, net, budget, got>>

\* Two seconds after the EOS, longer than a unit is under way.
EndTimesOut ==
  /\ rx.at = "frame" /\ Pass(rx) = "wait" /\ rx = Settled
  /\ rx.deadline = "none" /\ rx.eos # None /\ net = {} /\ ~tx.open
  /\ rx' = Fails(rx, "end timeout")
  /\ UNCHANGED <<stream, tx, net, budget, got>>

Receiver == Loop \/ Arrive \/ EndTimesOut

Next == Sender \/ Lose \/ Receiver \/ DeadlinePasses

Spec == Init /\ [][Next]_vars

\* The sender sends, what is not lost arrives, and time passes; no fairness between
\* them is needed.
FairSpec == Spec /\ WF_vars(Sender \/ Receiver \/ DeadlinePasses)
-----------------------------------------------------------------------------
(* Properties.                                                             *)

\* Whatever is lost, doubled or late, a stream of this sender never makes the
\* receiver throw: no reference is missing, no switch is pending twice or begins
\* without an I frame, no frame lies behind the end (the checks of
\* RtpMlvcReceiver).  Three failures are left: the stream ended before it had
\* started; frames before its end were lost, given up or dropped before the
\* start; or the window is full of frames one could resume at and so are never
\* given up, all but the expected one, or so many newer configurations are pending
\* (the Checks of BufferFrameUnit and QueueConfigurationUnit).
HonestStreamAccepted ==
  /\ rx.why \in {"none", "limit", "end before start", "end timeout"}
  /\ rx.why = "end timeout" => got.lost \/ got.early \/ got.gap
  /\ rx.why = "limit" =>
       \/ Cardinality({u \in rx.frames : Recovers(rx, u) /\ u.id # rx.expected}) >= MaxPending - 1
       \/ Cardinality(rx.scus) = 8

\* A receiver that ended without having declared a gap returned every frame from
\* the one it started at, in order: reordering alone costs nothing.
CompleteWithoutGap ==
  rx.at = "ended" /\ ~got.gap =>
    /\ \A i \in DOMAIN got.frames : got.frames[i].id = got.frames[1].id + i - 1
    /\ got.frames # <<>> /\ Last(got.frames).id = Len(stream) - 1

\* The receiver never returns to an earlier frame or an earlier configuration,
\* whatever comes late, before the start and after it.
NeverBackwards ==
  [][rx'.expected >= rx.expected /\ rx'.config >= rx.config]_vars

\* The receiver ends once it has the EOS of the configuration it is in: it does
\* not wait for a frame that never comes (the 2 s of ReceiveFor).
EndsAfterEos == rx.at = "frame" /\ rx.eos # None ~> rx.at \in {"ended", "failed"}

\* A receiver that misses its next frame leaves the gap once a frame to resume at
\* is there, be it under a newer configuration.  (If the next frame came and only
\* its SCU is missing, ReceiveFrame does not look for another frame.)
GapEndsAtRecovery ==
  rx.waiting /\ Missing(rx) /\ Recoveries(rx) # {} ~> ~rx.waiting \/ rx.at = "failed"

\* Neither a lost end nor a lost frame holds the receiver for good.
ReceiverMovesOn == EndsAfterEos /\ GapEndsAtRecovery
==============================================================================
