--------------------------- MODULE RtpFramesProofs ---------------------------
(***************************************************************************)
(* CompleteWithoutGap and NeverBackwards for every stream, window and      *)
(* network: until a gap is declared the receiver keeps every frame it put  *)
(* by, so the frame it started at is returned and each one after it; the   *)
(* number in the EOS is the number of frames of the stream, so an end that *)
(* is reached is the end of the stream.                                    *)
(***************************************************************************)
EXTENDS RtpFrames, WellFoundedInduction, TLAPS

Types == {"I", "P", "reset", "ltr"}
Frames == [kind : {"efu"}, config : Nat, id : Nat, type : Types, store : BOOLEAN, long : Int]
Scus == [kind : {"scu"}, config : Nat, id : Nat]
Ends == [kind : {"eos"}, config : Nat, id : Nat]

Reasons == {"none", "limit", "switch is pending", "end is behind", "frame beyond end",
            "end before start", "switch without I", "short reference", "long reference",
            "end timeout"}

Rx == [at : {"header", "frame", "ended", "failed"}, why : Reasons, started : BOOLEAN,
       config : Nat, switching : Nat, scus : SUBSET (Nat \ {0}), frames : SUBSET Frames,
       expected : Nat, deadline : {"none", "armed", "passed"}, waiting : BOOLEAN, eos : Int,
       lateEos : {NoUnit} \cup Ends, short : Int, ltrs : SUBSET Int]

Typed ==
  /\ stream \in Seq(Frame) /\ Len(stream) > 0
  /\ tx \in [config : Nat, switching : BOOLEAN, next : Nat, open : BOOLEAN]
  /\ tx.next <= Len(stream)
  /\ net \subseteq Frames \cup Scus \cup Ends
  /\ rx \in Rx
  /\ got \in [frames : Seq(Frames), lost : BOOLEAN, early : BOOLEAN, gap : BOOLEAN]

\* The EOS says how many frames the stream has.
EndsTrue ==
  /\ \A u \in net : u.kind = "eos" => u.id = Len(stream)
  /\ rx.eos \in {None, Len(stream)}
  /\ rx.lateEos = NoUnit \/ rx.lateEos.id = Len(stream)

\* Without a gap the frames returned are consecutive and the next one follows them;
\* if none was returned yet the one to start with is there.
InStep ==
  /\ rx.waiting => got.gap
  /\ rx.at = "header" => got.frames = <<>> /\ rx.expected = 0
  /\ rx.at \in {"frame", "ended"} /\ ~got.gap =>
       /\ got.frames = <<>> => ~Missing(rx)
       /\ \A i \in 1..Len(got.frames) : got.frames[i].id = rx.expected - Len(got.frames) + i - 1
  /\ rx.at = "ended" => rx.eos = rx.expected /\ rx.frames = {}

FramesInv == Typed /\ EndsTrue /\ InStep
-----------------------------------------------------------------------------
(* The operations of the receiver on its state r: what all of them keep.   *)

EndOk(r, n) == r.eos \in {None, n} /\ (r.lateEos = NoUnit \/ r.lateEos.id = n)

\* s is r after operations that return no frame and leave none out, unless they
\* declare a gap.
Keeps(r, s, n) ==
  /\ s \in Rx /\ s.at \in {r.at, "failed"} /\ s.expected = r.expected /\ s.config >= r.config
  /\ s.waiting \/ r.frames \subseteq s.frames
  /\ EndOk(r, n) => EndOk(s, n)

\* The only operations that change config are the ones of HandleConfiguration.
Stays(r, s, n) == Keeps(r, s, n) /\ s.config = r.config

LEMMA RxFields ==
  ASSUME NEW r \in Rx
  PROVE  /\ r.at \in {"header", "frame", "ended", "failed"} /\ r.why \in Reasons
         /\ r.started \in BOOLEAN /\ r.config \in Nat /\ r.switching \in Nat
         /\ r.scus \subseteq Nat \ {0} /\ r.frames \subseteq Frames /\ r.expected \in Nat
         /\ r.deadline \in {"none", "armed", "passed"} /\ r.waiting \in BOOLEAN
         /\ r.eos \in Int /\ r.lateEos \in {NoUnit} \cup Ends /\ r.short \in Int
         /\ r.ltrs \subseteq Int
BY DEF Rx

LEMMA FrameFields ==
  ASSUME NEW u \in Frames
  PROVE  /\ u.kind = "efu" /\ u.config \in Nat /\ u.id \in Nat /\ u.type \in Types
         /\ u.store \in BOOLEAN /\ u.long \in Int
BY DEF Frames

LEMMA UnchangedStays ==
  ASSUME NEW r \in Rx, NEW n
  PROVE  Stays(r, r, n)
BY RxFields DEF Stays, Keeps

LEMMA FailsStays ==
  ASSUME NEW r \in Rx, NEW why \in Reasons, NEW n
  PROVE  Stays(r, Fails(r, why), n) /\ Fails(r, why).at = "failed"
<1>1. Fails(r, why) \in Rx
  BY DEF Fails, Rx
<1>2. /\ Fails(r, why).at = "failed" /\ Fails(r, why).expected = r.expected
      /\ Fails(r, why).config = r.config /\ Fails(r, why).frames = r.frames
      /\ Fails(r, why).eos = r.eos /\ Fails(r, why).lateEos = r.lateEos
  BY DEF Fails, Rx
<1> QED
  BY <1>1, <1>2, RxFields DEF Stays, Keeps, EndOk

LEMMA GapStays ==
  ASSUME NEW r \in Rx, NEW n
  PROVE  /\ Stays(r, MarkDependencyGap(r), n) /\ MarkDependencyGap(r).waiting
         /\ MarkDependencyGap(r).at = r.at
<1> DEFINE s == MarkDependencyGap(r)
<1>1. s \in Rx
  <2>1. {u \in r.frames : u.id = r.expected \/ Recovers(r, u)} \subseteq Frames
    BY RxFields
  <2> QED
    BY <2>1 DEF MarkDependencyGap, Rx
<1>2. /\ s.at = r.at /\ s.expected = r.expected /\ s.config = r.config /\ s.waiting = TRUE
      /\ s.eos = r.eos /\ s.lateEos = r.lateEos
  BY DEF MarkDependencyGap, Rx
<1> QED
  BY <1>1, <1>2, RxFields DEF Stays, Keeps, EndOk

LEMMA QueueConfigurationStays ==
  ASSUME NEW r \in Rx, NEW c \in Nat \ {0}, NEW n
  PROVE  Stays(r, QueueConfiguration(r, c), n)
<1>1. CASE c \in r.scus
  BY <1>1, UnchangedStays DEF QueueConfiguration
<1>2. CASE c \notin r.scus /\ Cardinality(r.scus) = 8
  BY <1>2, FailsStays DEF QueueConfiguration, Reasons
<1>3. CASE c \notin r.scus /\ Cardinality(r.scus) # 8
  <2> DEFINE s == [r EXCEPT !.scus = @ \cup {c}]
  <2>1. s \in Rx
    BY DEF Rx
  <2>2. /\ s.at = r.at /\ s.expected = r.expected /\ s.config = r.config
        /\ s.frames = r.frames /\ s.eos = r.eos /\ s.lateEos = r.lateEos
    BY DEF Rx
  <2>3. Stays(r, s, n)
    BY <2>1, <2>2, RxFields DEF Stays, Keeps, EndOk
  <2> QED
    BY <1>3, <2>3 DEF QueueConfiguration
<1> QED
  BY <1>1, <1>2, <1>3

LEMMA HandleEndStays ==
  ASSUME NEW r \in Rx, NEW u \in Ends, NEW n \in Nat, u.id = n
  PROVE  /\ HandleEnd(r, u) \in Rx
         /\ HandleEnd(r, u).at \in {r.at, "failed"} /\ HandleEnd(r, u).expected = r.expected
         /\ HandleEnd(r, u).config = r.config /\ HandleEnd(r, u).frames = r.frames
         /\ HandleEnd(r, u).waiting = r.waiting
         /\ EndOk(r, n) => EndOk(HandleEnd(r, u), n)
<1>1. ASSUME NEW why \in Reasons
      PROVE  /\ Fails(r, why) \in Rx
             /\ Fails(r, why).at = "failed" /\ Fails(r, why).expected = r.expected
             /\ Fails(r, why).config = r.config /\ Fails(r, why).frames = r.frames
             /\ Fails(r, why).waiting = r.waiting
             /\ EndOk(r, n) => EndOk(Fails(r, why), n)
  BY DEF Fails, Rx, EndOk
<1>2. "end is behind" \in Reasons /\ "frame beyond end" \in Reasons
  BY DEF Reasons
<1>3. CASE u.id < r.expected
  BY <1>1, <1>2, <1>3 DEF HandleEnd
<1>4. CASE ~(u.id < r.expected) /\ r.eos # None
  BY <1>4 DEF HandleEnd
<1>5. CASE /\ ~(u.id < r.expected) /\ r.eos = None
           /\ \E f \in r.frames : f.config = r.config /\ f.id >= u.id
  BY <1>1, <1>2, <1>5 DEF HandleEnd
<1>6. CASE /\ ~(u.id < r.expected) /\ r.eos = None
           /\ ~(\E f \in r.frames : f.config = r.config /\ f.id >= u.id)
  <2>1. HandleEnd(r, u) = [r EXCEPT !.eos = u.id]
    BY <1>6 DEF HandleEnd
  <2>2. u.id \in Int
    OBVIOUS
  <2> QED
    BY <2>1, <2>2 DEF Rx, EndOk
<1> QED
  BY <1>3, <1>4, <1>5, <1>6

LEMMA WithFrameStays ==
  ASSUME NEW r \in Rx, NEW u \in Frames, NEW n
  PROVE  /\ Stays(r, WithFrame(r, u), n) /\ r.frames \subseteq WithFrame(r, u).frames
         /\ WithFrame(r, u).waiting = r.waiting
<1>1. CASE Cardinality(r.frames) >= MaxPending
  <2>1. WithFrame(r, u) = Fails(r, "limit") /\ "limit" \in Reasons
    BY <1>1 DEF WithFrame, Reasons
  <2>2. Fails(r, "limit").frames = r.frames /\ Fails(r, "limit").waiting = r.waiting
    BY DEF Fails, Rx
  <2> QED
    BY <2>1, <2>2, FailsStays
<1>2. CASE ~(Cardinality(r.frames) >= MaxPending)
  <2> DEFINE s == [r EXCEPT !.frames = @ \cup {u}]
  <2>1. s \in Rx
    BY DEF Rx
  <2>2. /\ s.at = r.at /\ s.expected = r.expected /\ s.config = r.config
        /\ s.frames = r.frames \cup {u} /\ s.eos = r.eos /\ s.lateEos = r.lateEos
        /\ s.waiting = r.waiting
    BY DEF Rx
  <2>3. Stays(r, s, n) /\ r.frames \subseteq s.frames
    BY <2>1, <2>2, RxFields DEF Stays, Keeps, EndOk
  <2> QED
    BY <1>2, <2>2, <2>3 DEF WithFrame
<1> QED
  BY <1>1, <1>2

LEMMA GapThenFrameStays ==
  ASSUME NEW r \in Rx, NEW u \in Frames, NEW n
  PROVE  Stays(r, WithFrame(MarkDependencyGap(r), u), n)
<1> DEFINE g == MarkDependencyGap(r)
           s == WithFrame(g, u)
<1>1. Stays(r, g, n) /\ g.waiting /\ g.at = r.at
  BY GapStays
<1>2. g \in Rx
  BY <1>1 DEF Stays, Keeps
<1>3. Stays(g, s, n) /\ s.waiting = g.waiting
  BY <1>2, WithFrameStays
<1> HIDE DEF g, s
<1>4. Stays(r, s, n)
  BY <1>1, <1>3 DEF Stays, Keeps
<1> QED
  BY <1>4 DEF g, s

LEMMA BufferStartedStays ==
  ASSUME NEW r \in Rx, NEW u \in Frames, NEW n
  PROVE  Stays(r, BufferStarted(r, u), n)
<1>1. /\ Stays(r, r, n) /\ Stays(r, MarkDependencyGap(r), n)
      /\ Stays(r, WithFrame(MarkDependencyGap(r), u), n) /\ Stays(r, WithFrame(r, u), n)
  BY UnchangedStays, GapStays, GapThenFrameStays, WithFrameStays
<1>2. BufferStarted(r, u) \in {r, MarkDependencyGap(r), WithFrame(MarkDependencyGap(r), u),
                               WithFrame(r, u)}
  BY DEF BufferStarted
<1> QED
  BY <1>1, <1>2

LEMMA BufferFrameStays ==
  ASSUME NEW r \in Rx, NEW u \in Frames, NEW n
  PROVE  Stays(r, BufferFrame(r, u), n)
<1>1. /\ Stays(r, r, n) /\ Stays(r, BufferStarted(r, u), n) /\ Stays(r, WithFrame(r, u), n)
      /\ Stays(r, Fails(r, "frame beyond end"), n)
  BY UnchangedStays, BufferStartedStays, WithFrameStays, FailsStays DEF Reasons
<1>2. BufferFrame(r, u) \in {r, Fails(r, "frame beyond end"), BufferStarted(r, u), WithFrame(r, u)}
  BY DEF BufferFrame
<1> QED
  BY <1>1, <1>2

\* A unit that comes while the receiver is in ReceiveFrame.
LEMMA FrameTakesStays ==
  ASSUME NEW r \in Rx, NEW u \in Frames \cup Scus \cup Ends, NEW n \in Nat,
         u.kind = "eos" => u.id = n
  PROVE  Stays(r, FrameTakes(r, u), n)
<1>1. CASE u \in Frames
  <2>1. u.kind = "efu"
    BY <1>1, FrameFields
  <2>2. FrameTakes(r, u) = BufferFrame(r, u)
    BY <2>1 DEF FrameTakes
  <2> QED
    BY <1>1, <2>2, BufferFrameStays
<1>2. CASE u \in Scus
  <2>1. u.kind = "scu" /\ u.config \in Nat
    BY <1>2 DEF Scus
  <2>2. CASE u.config > r.config
    <3>1. u.config \in Nat \ {0}
      BY <2>1, <2>2, RxFields
    <3>2. FrameTakes(r, u) = QueueConfiguration(r, u.config)
      BY <2>1, <2>2 DEF FrameTakes
    <3> QED
      BY <3>1, <3>2, QueueConfigurationStays
  <2>3. CASE ~(u.config > r.config)
    <3>1. FrameTakes(r, u) = r
      BY <2>1, <2>3 DEF FrameTakes
    <3> QED
      BY <3>1, UnchangedStays
  <2> QED
    BY <2>2, <2>3
<1>3. CASE u \in Ends
  <2>1. u.kind = "eos" /\ u.config \in Nat /\ u.id = n
    BY <1>3 DEF Ends
  <2>2. CASE u.config < r.config
    <3>1. FrameTakes(r, u) = r
      BY <2>1, <2>2, RxFields DEF FrameTakes
    <3> QED
      BY <3>1, UnchangedStays
  <2>3. CASE u.config = r.config
    <3>1. FrameTakes(r, u) = HandleEnd(r, u)
      BY <2>1, <2>3, RxFields DEF FrameTakes
    <3> QED
      BY <1>3, <2>1, <3>1, HandleEndStays, RxFields DEF Stays, Keeps
  <2>4. CASE u.config > r.config
    <3> DEFINE s == [r EXCEPT !.lateEos = u]
    <3>1. FrameTakes(r, u) = s
      BY <2>1, <2>4, RxFields DEF FrameTakes
    <3>2. s \in Rx
      BY <1>3 DEF Rx
    <3>3. /\ s.at = r.at /\ s.expected = r.expected /\ s.config = r.config
          /\ s.frames = r.frames /\ s.eos = r.eos /\ s.lateEos = u
      BY DEF Rx
    <3>4. Stays(r, s, n)
      BY <2>1, <3>2, <3>3, RxFields DEF Stays, Keeps, EndOk
    <3> QED
      BY <3>1, <3>4
  <2> QED
    BY <2>1, <2>2, <2>3, <2>4, RxFields
<1> QED
  BY <1>1, <1>2, <1>3

LEMMA SettleEndStays ==
  ASSUME NEW r \in Rx, NEW n \in Nat, EndOk(r, n)
  PROVE  /\ Stays(r, SettleEnd(r), n)
         /\ SettleEnd(r).frames = r.frames /\ SettleEnd(r).waiting = r.waiting
<1>1. CASE r.lateEos = NoUnit \/ r.lateEos.config > r.config
  BY <1>1, UnchangedStays DEF SettleEnd
<1>2. CASE ~(r.lateEos = NoUnit \/ r.lateEos.config > r.config)
  <2> DEFINE s == [r EXCEPT !.lateEos = NoUnit]
  <2>1. s \in Rx
    BY DEF Rx
  <2>2. /\ s.at = r.at /\ s.expected = r.expected /\ s.config = r.config
        /\ s.frames = r.frames /\ s.eos = r.eos /\ s.lateEos = NoUnit /\ s.waiting = r.waiting
    BY DEF Rx
  <2>3. EndOk(s, n)
    BY <2>2 DEF EndOk
  <2>4. r.lateEos \in Ends /\ r.lateEos.id = n
    BY <1>2, RxFields DEF EndOk
  <2> HIDE DEF s
  <2>5. CASE r.lateEos.config = r.config
    <3> DEFINE h == HandleEnd(s, r.lateEos)
    <3>1. SettleEnd(r) = h
      BY <1>2, <2>5 DEF SettleEnd, s
    <3>2. /\ h \in Rx /\ h.at \in {s.at, "failed"} /\ h.expected = s.expected
          /\ h.config = s.config /\ h.frames = s.frames /\ h.waiting = s.waiting
          /\ EndOk(h, n)
      BY <2>1, <2>3, <2>4, HandleEndStays
    <3> HIDE DEF h
    <3> QED
      BY <2>2, <3>1, <3>2, RxFields DEF Stays, Keeps
  <2>6. CASE r.lateEos.config # r.config
    <3>1. SettleEnd(r) = s
      BY <1>2, <2>6 DEF SettleEnd, s
    <3> QED
      BY <2>1, <2>2, <2>3, <3>1, RxFields DEF Stays, Keeps
  <2> QED
    BY <2>5, <2>6
<1> QED
  BY <1>1, <1>2
-----------------------------------------------------------------------------
(* The earliest of some frames.                                            *)

LEMMA FirstIn ==
  ASSUME NEW us, us \subseteq Frames, us # {}
  PROVE  First(us) \in us /\ \A v \in us : First(us).id <= v.id
<1> DEFINE ids == {u.id : u \in us}
<1>1. ids \subseteq Nat /\ ids # {}
  BY FrameFields
<1> HIDE DEF ids
<1>2. PICK x \in ids : \A y \in ids : ~ (<<y, x>> \in OpToRel(<, Nat))
  BY <1>1, NatLessThanWellFounded, WFMin
<1>3. \A y \in ids : y < x => <<y, x>> \in OpToRel(<, Nat)
  BY <1>1 DEF OpToRel
<1>4. \A y \in ids : ~(y < x)
  BY <1>2, <1>3, Zenon
<1>5. \A y \in ids : x <= y
  BY <1>1, <1>4
<1>6. \E u \in us : \A v \in us : u.id <= v.id
  <2>1. PICK u \in us : u.id = x
    BY DEF ids
  <2> QED
    BY <1>5, <2>1 DEF ids
<1> QED
  BY <1>6 DEF First

LEMMA AtFrames ==
  ASSUME NEW r \in Rx, NEW id
  PROVE  At(r, id) \subseteq r.frames /\ \A u \in At(r, id) : u.id = id
BY DEF At

\* What the next frame is found in.
LEMMA RecoveriesFrames ==
  ASSUME NEW r \in Rx
  PROVE  /\ Recoveries(r) \subseteq Frames
         /\ \A u \in Recoveries(r) : u \in r.frames /\ u.id > r.expected
BY RxFields DEF Recoveries

\* A configuration to adopt is one whose SCU came, and a newer one.
LEMMA TargetIsNewer ==
  ASSUME NEW r \in Rx, Target(r) # 0
  PROVE  Target(r) > r.config /\ Target(r) \in Nat
<1> DEFINE next == IF Missing(r) THEN Recoveries(r) ELSE At(r, r.expected)
<1>1. next # {} /\ First(next).config > r.config /\ Target(r) = First(next).config
  BY DEF Target
<1>2. next \subseteq Frames
  BY RecoveriesFrames, AtFrames, RxFields
<1> HIDE DEF next
<1>3. First(next) \in Frames
  BY <1>1, <1>2, FirstIn
<1> QED
  BY <1>1, <1>3, FrameFields
-----------------------------------------------------------------------------
(* Before the start.                                                       *)

\* s is r after a unit in ReceiveHeader: still there, started at a frame it has,
\* or failed.
Begins(r, s, n) ==
  /\ s \in Rx /\ s.config >= r.config /\ s.expected >= r.expected
  /\ \/ s.at \in {"header", "failed"} /\ s.expected = r.expected
     \/ s.at = "frame" /\ ~Missing(s)
  /\ EndOk(r, n) => EndOk(s, n)

LEMMA TryStartBegins ==
  ASSUME NEW r \in Rx, r.at \in {"header", "failed"}, r.expected = 0, NEW n
  PROVE  Begins(r, TryStart(r), n)
<1> DEFINE own == {u \in r.frames : u.config = r.config}
<1>1. own \subseteq Frames
  BY RxFields
<1>2. CASE r.at = "failed"
  BY <1>2, RxFields DEF TryStart, Begins
<1>3. CASE r.at # "failed" /\ own = {}
  <2> DEFINE s == [r EXCEPT !.frames = {u \in @ : u.config >= r.config}]
  <2>1. {u \in r.frames : u.config >= r.config} \subseteq Frames
    BY RxFields
  <2>2. s \in Rx
    BY <2>1 DEF Rx
  <2>3. /\ s.at = r.at /\ s.expected = r.expected /\ s.config = r.config
        /\ s.eos = r.eos /\ s.lateEos = r.lateEos
    BY DEF Rx
  <2>4. Begins(r, s, n)
    BY <2>2, <2>3, RxFields DEF Begins, EndOk
  <2> QED
    BY <1>3, <2>4 DEF TryStart
<1>4. CASE r.at # "failed" /\ own # {}
  <2> DEFINE f == First(own)
             s == [r EXCEPT !.expected = f.id, !.frames = {u \in @ : u.id >= f.id},
                            !.started = TRUE, !.at = "frame", !.switching = 0,
                            !.deadline = "none", !.waiting = FALSE]
  <2>1. f \in own
    BY <1>1, <1>4, FirstIn
  <2>2. f \in Frames /\ f \in r.frames /\ f.id \in Nat
    BY <1>1, <2>1, FrameFields
  <2>3. {u \in r.frames : u.id >= f.id} \subseteq Frames
    BY RxFields
  <2>4. TryStart(r) = s
    BY <1>4 DEF TryStart
  <2> HIDE DEF f, own
  <2>5. s \in Rx
    BY <2>2, <2>3 DEF Rx
  <2>6. /\ s.at = "frame" /\ s.expected = f.id /\ s.config = r.config
        /\ s.eos = r.eos /\ s.lateEos = r.lateEos
        /\ s.frames = {u \in r.frames : u.id >= f.id}
    BY DEF Rx
  <2>7. f \in At(s, s.expected)
    BY <2>2, <2>6 DEF At
  <2>8. ~Missing(s)
    BY <2>7 DEF Missing
  <2>9. Begins(r, s, n)
    BY <2>2, <2>5, <2>6, <2>8, RxFields DEF Begins, EndOk
  <2> QED
    BY <2>4, <2>9
<1> QED
  BY <1>2, <1>3, <1>4

LEMMA HeaderTakesBegins ==
  ASSUME NEW r \in Rx, r.at = "header", r.expected = 0,
         NEW u \in Frames \cup Scus \cup Ends, NEW n
  PROVE  Begins(r, HeaderTakes(r, u), n)
<1>1. CASE u \in Frames
  <2> DEFINE s == BufferFrame(r, u)
  <2>1. u.kind = "efu"
    BY <1>1, FrameFields
  <2>2. HeaderTakes(r, u) \in {s, TryStart(s)}
    BY <2>1 DEF HeaderTakes
  <2>3. Stays(r, s, n)
    BY <1>1, BufferFrameStays
  <2> HIDE DEF s
  <2>4. s \in Rx /\ s.at \in {"header", "failed"} /\ s.expected = 0 /\ s.config = r.config
    BY <2>3 DEF Stays, Keeps
  <2>5. Begins(r, s, n)
    BY <2>3, <2>4, RxFields DEF Stays, Keeps, Begins
  <2>6. Begins(s, TryStart(s), n)
    BY <2>4, TryStartBegins
  <2>7. Begins(r, TryStart(s), n)
    BY <2>3, <2>4, <2>6 DEF Stays, Keeps, Begins
  <2> QED
    BY <2>2, <2>5, <2>7
<1>2. CASE u \in Scus
  <2>1. u.kind = "scu" /\ u.config \in Nat
    BY <1>2 DEF Scus
  <2>2. CASE u.config < r.config
    <3>1. HeaderTakes(r, u) = r
      BY <2>1, <2>2, RxFields DEF HeaderTakes
    <3> QED
      BY <3>1, RxFields DEF Begins
  <2>3. CASE u.config = r.config
    <3>1. HeaderTakes(r, u) = TryStart(r)
      BY <2>1, <2>3, RxFields DEF HeaderTakes
    <3> QED
      BY <3>1, TryStartBegins
  <2>4. CASE u.config > r.config
    <3> DEFINE s == [r EXCEPT !.config = u.config]
    <3>1. HeaderTakes(r, u) = TryStart(s)
      BY <2>1, <2>4, RxFields DEF HeaderTakes
    <3>2. s \in Rx
      BY <2>1 DEF Rx
    <3>3. /\ s.at = r.at /\ s.expected = r.expected /\ s.config = u.config
          /\ s.eos = r.eos /\ s.lateEos = r.lateEos
      BY DEF Rx
    <3> HIDE DEF s
    <3>4. Begins(s, TryStart(s), n)
      BY <3>2, <3>3, TryStartBegins
    <3>5. Begins(r, TryStart(s), n)
      <4>1. TryStart(s) \in Rx
        BY <3>4 DEF Begins
      <4>2. TryStart(s).config >= r.config
        BY <2>1, <2>4, <3>3, <3>4, <4>1, RxFields DEF Begins
      <4> QED
        BY <3>3, <3>4, <4>2 DEF Begins, EndOk
    <3> QED
      BY <3>1, <3>5
  <2> QED
    BY <2>1, <2>2, <2>3, <2>4, RxFields
<1>3. CASE u \in Ends
  <2>1. HeaderTakes(r, u) = Fails(r, "end before start")
    BY <1>3 DEF HeaderTakes, Ends
  <2>2. Stays(r, Fails(r, "end before start"), n) /\ Fails(r, "end before start").at = "failed"
    BY FailsStays DEF Reasons
  <2> DEFINE s == Fails(r, "end before start")
  <2>3. s \in Rx /\ s.at = "failed" /\ s.expected = r.expected /\ s.config = r.config
    BY <2>2 DEF Stays, Keeps
  <2>4. EndOk(r, n) => EndOk(s, n)
    BY <2>2 DEF Stays, Keeps
  <2> HIDE DEF s
  <2>5. Begins(r, s, n)
    BY <2>3, <2>4, RxFields DEF Begins
  <2> QED
    BY <2>1, <2>5 DEF s
<1> QED
  BY <1>1, <1>2, <1>3
-----------------------------------------------------------------------------
(* A pass of the loop in ReceiveFrame.                                     *)

LEMMA HandleConfigurationKeeps ==
  ASSUME NEW r \in Rx, NEW c \in Nat, c > r.config, NEW n
  PROVE  /\ Keeps(r, HandleConfiguration(r, c), n)
         /\ HandleConfiguration(r, c).frames = r.frames
<1>1. CASE r.switching # 0
  <2>1. /\ HandleConfiguration(r, c) = Fails(r, "switch is pending")
        /\ "switch is pending" \in Reasons
    BY <1>1 DEF HandleConfiguration, Reasons
  <2>2. Fails(r, "switch is pending").frames = r.frames
    BY DEF Fails, Rx
  <2> QED
    BY <2>1, <2>2, FailsStays DEF Stays
<1>2. CASE r.switching = 0
  <2> DEFINE s == [r EXCEPT !.config = c, !.switching = c, !.deadline = "none",
                            !.waiting = FALSE, !.eos = None, !.short = None, !.ltrs = {}]
  <2>1. s \in Rx
    <3>1. None \in Int /\ {} \in SUBSET Int
      BY DEF None
    <3> QED
      BY <3>1 DEF Rx
  <2>2. /\ s.at = r.at /\ s.expected = r.expected /\ s.config = c
        /\ s.frames = r.frames /\ s.eos = None /\ s.lateEos = r.lateEos
    BY DEF Rx
  <2>3. Keeps(r, s, n)
    BY <2>1, <2>2, RxFields DEF Keeps, EndOk
  <2> QED
    BY <1>2, <2>2, <2>3 DEF HandleConfiguration
<1> QED
  BY <1>1, <1>2

LEMMA AdoptKeeps ==
  ASSUME NEW r \in Rx, Target(r) # 0, NEW n
  PROVE  Keeps(r, Adopt(r), n)
<1> DEFINE c == Target(r)
           g == IF Missing(r) /\ ~r.waiting THEN MarkDependencyGap(r) ELSE r
           h == [g EXCEPT !.scus = {d \in @ : d > c}]
           s == HandleConfiguration(h, c)
           t == [s EXCEPT !.waiting = TRUE]
<1>1. Adopt(r) = IF Missing(r) THEN t ELSE s
  BY DEF Adopt
<1>2. c \in Nat /\ c > r.config
  BY TargetIsNewer
<1>3. Stays(r, g, n) /\ (~Missing(r) => g.frames = r.frames)
  BY GapStays, UnchangedStays
<1> HIDE DEF c, g
<1>4. g \in Rx /\ g.config = r.config
  BY <1>3 DEF Stays, Keeps
<1>5. h \in Rx
  <2>1. {d \in g.scus : d > c} \subseteq Nat \ {0}
    BY <1>4, RxFields
  <2> QED
    BY <1>4, <2>1 DEF Rx
<1>6. /\ h.at = g.at /\ h.expected = g.expected /\ h.config = g.config
      /\ h.frames = g.frames /\ h.eos = g.eos /\ h.lateEos = g.lateEos
  BY <1>4 DEF Rx
<1> HIDE DEF h
<1>7. Keeps(h, s, n) /\ s.frames = h.frames
  BY <1>2, <1>4, <1>5, <1>6, HandleConfigurationKeeps
<1> HIDE DEF s
<1>8. /\ s \in Rx /\ s.at \in {r.at, "failed"} /\ s.expected = r.expected
      /\ s.config >= r.config /\ (EndOk(r, n) => EndOk(s, n))
  BY <1>3, <1>6, <1>7 DEF Stays, Keeps, EndOk
<1>9. CASE Missing(r)
  <2>1. t \in Rx
    BY <1>8 DEF Rx
  <2>2. /\ t.at = s.at /\ t.expected = s.expected /\ t.config = s.config /\ t.waiting = TRUE
        /\ t.eos = s.eos /\ t.lateEos = s.lateEos
    BY <1>8 DEF Rx
  <2>3. Keeps(r, t, n)
    BY <1>8, <2>1, <2>2 DEF Keeps, EndOk
  <2> QED
    BY <1>1, <1>9, <2>3
<1>10. CASE ~Missing(r)
  <2>1. r.frames \subseteq s.frames
    BY <1>3, <1>6, <1>7, <1>10
  <2>2. Keeps(r, s, n)
    BY <1>8, <2>1 DEF Keeps
  <2> QED
    BY <1>1, <1>10, <2>2
<1> QED
  BY <1>9, <1>10

LEMMA JumpAhead ==
  ASSUME NEW r \in Rx, Jumps(r), NEW n
  PROVE  /\ Jump(r) \in Rx /\ Jump(r).at = r.at /\ Jump(r).config = r.config
         /\ Jump(r).expected > r.expected /\ r.waiting
         /\ EndOk(r, n) => EndOk(Jump(r), n)
<1> DEFINE f == First(Recoveries(r))
           s == [r EXCEPT !.expected = f.id, !.frames = {u \in @ : u.id >= f.id},
                          !.waiting = FALSE, !.deadline = "none"]
<1>1. Jump(r) = s
  BY DEF Jump
<1>2. f \in Frames /\ f.id > r.expected
  <2>1. Recoveries(r) # {}
    BY DEF Jumps
  <2> QED
    BY <2>1, RecoveriesFrames, FirstIn
<1>3. f.id \in Nat
  BY <1>2, FrameFields
<1> HIDE DEF f
<1>4. {u \in r.frames : u.id >= f.id} \subseteq Frames
  BY RxFields
<1>5. s \in Rx
  BY <1>3, <1>4 DEF Rx
<1>6. /\ s.at = r.at /\ s.config = r.config /\ s.expected = f.id /\ s.eos = r.eos
      /\ s.lateEos = r.lateEos
  BY DEF Rx
<1>7. r.waiting
  BY DEF Jumps
<1> QED
  BY <1>1, <1>2, <1>5, <1>6, <1>7 DEF EndOk

\* The frame returned is the expected one.
LEMMA DeliverNext ==
  ASSUME NEW r \in Rx, Ready(r), NEW n
  PROVE  /\ Deliver(r) \in Rx /\ Deliver(r).config = r.config
         /\ First(At(r, r.expected)) \in Frames /\ First(At(r, r.expected)).id = r.expected
         /\ \/ Deliver(r).at = "failed" /\ Deliver(r).expected = r.expected
            \/ Deliver(r).at = r.at /\ Deliver(r).expected = r.expected + 1
         /\ EndOk(r, n) => EndOk(Deliver(r), n)
<1> DEFINE u == First(At(r, r.expected))
           s == [r EXCEPT !.frames = @ \ {u}, !.deadline = "none", !.waiting = FALSE,
                 !.switching = 0, !.short = u.id, !.expected = @ + 1,
                 !.ltrs = (IF RandomAccess(u) THEN {} ELSE @)
                            \cup (IF u.store THEN {u.id} ELSE {})]
<1>1. u \in Frames /\ u.id = r.expected
  <2>1. At(r, r.expected) # {} /\ At(r, r.expected) \subseteq Frames
    BY AtFrames, RxFields DEF Ready
  <2> QED
    BY <2>1, AtFrames, FirstIn
<1>2. CASE Rejected(r, u) # "none"
  <2>1. Rejected(r, u) \in Reasons
    BY DEF Rejected, Reasons
  <2>2. Deliver(r) = Fails(r, Rejected(r, u))
    BY <1>2 DEF Deliver
  <2> HIDE DEF u
  <2>3. /\ Stays(r, Fails(r, Rejected(r, u)), n)
        /\ Fails(r, Rejected(r, u)).at = "failed"
    BY <2>1, FailsStays
  <2> QED
    BY <1>1, <2>2, <2>3 DEF Stays, Keeps, u
<1>3. CASE Rejected(r, u) = "none"
  <2>1. Deliver(r) = s
    BY <1>3 DEF Deliver
  <2>2. u.id \in Int
    BY <1>1, FrameFields
  <2>3. (IF RandomAccess(u) THEN {} ELSE r.ltrs) \cup (IF u.store THEN {u.id} ELSE {}) \subseteq Int
    BY <2>2, RxFields
  <2> DEFINE ltrs == (IF RandomAccess(u) THEN {} ELSE r.ltrs)
                        \cup (IF u.store THEN {u.id} ELSE {})
  <2>6. ltrs \in SUBSET Int /\ r.frames \ {u} \in SUBSET Frames /\ r.expected + 1 \in Nat
    BY <2>3, RxFields
  <2>7. s = [r EXCEPT !.frames = r.frames \ {u}, !.deadline = "none", !.waiting = FALSE,
                      !.switching = 0, !.short = u.id, !.expected = r.expected + 1,
                      !.ltrs = ltrs]
    BY DEF Rx
  <2> HIDE DEF u, ltrs
  <2>4. s \in Rx
    <3> DEFINE fs == r.frames \ {u}
               e == r.expected + 1
               id == u.id
    <3>1. fs \in SUBSET Frames /\ e \in Nat /\ id \in Int
      BY <2>2, <2>6
    <3>2. s = [r EXCEPT !.frames = fs, !.deadline = "none", !.waiting = FALSE,
                        !.switching = 0, !.short = id, !.expected = e, !.ltrs = ltrs]
      BY <2>7
    <3> HIDE DEF fs, e, id, s
    <3> QED
      BY <2>6, <3>1, <3>2 DEF Rx
  <2>5. /\ s.at = r.at /\ s.config = r.config /\ s.expected = r.expected + 1
        /\ s.eos = r.eos /\ s.lateEos = r.lateEos
    BY DEF Rx
  <2> QED
    BY <1>1, <2>1, <2>4, <2>5 DEF EndOk, u
<1> QED
  BY <1>2, <1>3
-----------------------------------------------------------------------------
(* The steps of the receiver.                                              *)

\* Neither the frame nor the configuration goes back.
Forward == rx'.expected >= rx.expected /\ rx'.config >= rx.config

LEMMA TypedFields ==
  ASSUME Typed
  PROVE  /\ rx \in Rx /\ rx.expected \in Nat /\ rx.config \in Nat
         /\ got.frames \in Seq(Frames) /\ Len(got.frames) \in Nat /\ got.gap \in BOOLEAN
         /\ got.lost \in BOOLEAN /\ got.early \in BOOLEAN
         /\ tx.config \in Nat /\ tx.switching \in BOOLEAN /\ tx.next \in Nat
         /\ tx.open \in BOOLEAN /\ Len(stream) \in Nat
BY RxFields DEF Typed

LEMMA GotTyped ==
  ASSUME Typed, NEW fs \in Seq(Frames), NEW gap \in BOOLEAN, NEW early \in BOOLEAN,
         NEW lost \in BOOLEAN, NEW g,
         g = [got EXCEPT !.frames = fs, !.gap = gap, !.early = early, !.lost = lost]
  PROVE  /\ g \in [frames : Seq(Frames), lost : BOOLEAN, early : BOOLEAN, gap : BOOLEAN]
         /\ g.frames = fs /\ g.gap = gap
BY DEF Typed

LEMMA KeptPresent ==
  ASSUME NEW r, NEW s, s.expected = r.expected, r.frames \subseteq s.frames, ~Missing(r)
  PROVE  ~Missing(s)
BY DEF Missing, At

\* The receiver goes on from rx and no frame is returned.
LEMMA KeepsInStep ==
  ASSUME FramesInv, rx.at \in {"header", "frame"}, NEW n, Keeps(rx, rx', n),
         rx.at = "header" => rx'.at \in {"header", "failed"},
         got'.frames = got.frames, got'.gap = (got.gap \/ rx'.waiting), got'.gap \in BOOLEAN
  PROVE  InStep'
<1>1. /\ rx'.at \in {rx.at, "failed"} /\ rx'.expected = rx.expected
      /\ rx'.waiting \/ rx.frames \subseteq rx'.frames
  BY DEF Keeps
<1>2. rx'.waiting => got'.gap
  OBVIOUS
<1>3. rx'.at = "header" => got'.frames = <<>> /\ rx'.expected = 0
  BY <1>1 DEF FramesInv, InStep
<1>4. ASSUME rx'.at \in {"frame", "ended"}, ~got'.gap
      PROVE  /\ got'.frames = <<>> => ~Missing(rx')
             /\ \A i \in 1..Len(got'.frames) :
                  got'.frames[i].id = rx'.expected - Len(got'.frames) + i - 1
  <2>1. rx.at = "frame" /\ ~got.gap /\ rx.frames \subseteq rx'.frames
    BY <1>1, <1>4
  <2>2. got.frames = <<>> => ~Missing(rx)
    BY <2>1 DEF FramesInv, InStep
  <2>3. \A i \in 1..Len(got.frames) :
           got.frames[i].id = rx.expected - Len(got.frames) + i - 1
    BY <2>1 DEF FramesInv, InStep
  <2>4. got'.frames = <<>> => ~Missing(rx')
    BY <1>1, <2>1, <2>2, KeptPresent
  <2> QED
    BY <1>1, <2>3, <2>4
<1>5. rx'.at # "ended"
  BY <1>1
<1> QED
  BY <1>2, <1>3, <1>4, <1>5 DEF InStep, Missing, At

\* What is before a pass: the loop has settled the end.
LEMMA SettledStays ==
  ASSUME FramesInv
  PROVE  /\ Stays(rx, Settled, Len(stream)) /\ Settled.frames = rx.frames
         /\ Settled.waiting = rx.waiting
<1>1. rx \in Rx /\ Len(stream) \in Nat /\ EndOk(rx, Len(stream))
  BY TypedFields DEF FramesInv, EndsTrue, EndOk
<1> QED
  BY <1>1, SettleEndStays DEF Settled

\* Operations after the end is settled.
LEMMA KeepsAfterSettled ==
  ASSUME NEW r, NEW s, NEW t, NEW n, Stays(r, s, n), s.frames = r.frames, Keeps(s, t, n)
  PROVE  Keeps(r, t, n)
BY DEF Stays, Keeps

LEMMA EndsTrueKept ==
  ASSUME FramesInv, UNCHANGED stream, net' \subseteq net,
         EndOk(rx, Len(stream)) => EndOk(rx', Len(stream))
  PROVE  EndsTrue'
BY DEF FramesInv, EndsTrue, EndOk

LEMMA TypedKept ==
  ASSUME Typed, UNCHANGED <<stream, tx>>, net' \subseteq net, rx' \in Rx,
         got' \in [frames : Seq(Frames), lost : BOOLEAN, early : BOOLEAN, gap : BOOLEAN]
  PROVE  Typed'
BY DEF Typed

\* A step of ReceiveFrame that returns no frame.
LEMMA KeepsStep ==
  ASSUME FramesInv, rx.at = "frame", Keeps(rx, rx', Len(stream)),
         UNCHANGED <<stream, tx>>, net' \subseteq net, NEW early \in BOOLEAN,
         got' = [got EXCEPT !.gap = @ \/ rx'.waiting, !.early = early]
  PROVE  FramesInv' /\ Forward
<1>1. rx' \in Rx /\ rx'.expected = rx.expected /\ rx'.config >= rx.config
  BY DEF Keeps
<1>2. Typed /\ rx.expected \in Nat
  BY TypedFields DEF FramesInv
<1>3. rx'.waiting \in BOOLEAN
  BY <1>1, RxFields
<1>4. /\ got' \in [frames : Seq(Frames), lost : BOOLEAN, early : BOOLEAN, gap : BOOLEAN]
      /\ got'.frames = got.frames /\ got'.gap = (got.gap \/ rx'.waiting)
  BY <1>2, <1>3 DEF Typed
<1>5. InStep'
  BY <1>4, KeepsInStep
<1>6. EndsTrue'
  BY EndsTrueKept DEF Keeps
<1>7. Typed'
  BY <1>1, <1>2, <1>4, TypedKept
<1> QED
  BY <1>1, <1>2, <1>5, <1>6, <1>7 DEF FramesInv, Forward

\* The pass hands out the expected frame, or jumps: what Keeps does not cover.
LEMMA JumpStep ==
  ASSUME FramesInv, rx.at = "frame", Jumps(Settled), rx' = Jump(Settled),
         UNCHANGED <<stream, tx, net>>, got' = [got EXCEPT !.gap = @ \/ rx'.waiting]
  PROVE  FramesInv' /\ Forward
<1>1. Settled \in Rx /\ Settled.expected = rx.expected /\ Settled.config = rx.config
  BY SettledStays DEF Stays, Keeps
<1>2. /\ rx' \in Rx /\ rx'.at = Settled.at /\ rx'.config = Settled.config
      /\ rx'.expected > Settled.expected /\ Settled.waiting
      /\ EndOk(Settled, Len(stream)) => EndOk(rx', Len(stream))
  BY <1>1, JumpAhead
<1>3. Typed /\ rx.expected \in Nat /\ rx.config \in Nat /\ rx'.waiting \in BOOLEAN
      /\ rx'.expected \in Nat
  BY <1>2, TypedFields, RxFields DEF FramesInv
<1>4. got.gap
  BY <1>2, SettledStays DEF FramesInv, InStep
<1>5. /\ got' \in [frames : Seq(Frames), lost : BOOLEAN, early : BOOLEAN, gap : BOOLEAN]
      /\ got'.gap
  BY <1>3, <1>4 DEF Typed
<1>6. rx'.at \in {"frame", "failed"}
  BY <1>2, SettledStays DEF Stays, Keeps
<1>7. InStep'
  BY <1>5, <1>6 DEF InStep
<1>8. EndsTrue'
  <2>1. EndOk(rx, Len(stream)) => EndOk(rx', Len(stream))
    BY <1>2, SettledStays DEF Stays, Keeps
  <2> QED
    BY <2>1, EndsTrueKept
<1>9. Typed'
  BY <1>2, <1>3, <1>5, TypedKept
<1> QED
  BY <1>1, <1>2, <1>3, <1>7, <1>8, <1>9 DEF FramesInv, Forward

LEMMA DeliverStep ==
  ASSUME FramesInv, rx.at = "frame", Settled.at # "failed", Ready(Settled),
         rx' = Deliver(Settled), UNCHANGED <<stream, tx, net>>,
         got' = [got EXCEPT !.gap = @ \/ rx'.waiting,
                            !.frames = IF rx'.at # "failed"
                                       THEN Append(@, First(At(Settled, Settled.expected)))
                                       ELSE @]
  PROVE  FramesInv' /\ Forward
<1>1. /\ Settled \in Rx /\ Settled.expected = rx.expected /\ Settled.config = rx.config
      /\ Settled.at \in {"frame", "failed"}
  BY SettledStays DEF Stays, Keeps
<1> DEFINE u == First(At(Settled, Settled.expected))
<1>2. /\ rx' \in Rx /\ rx'.config = rx.config /\ u \in Frames /\ u.id = rx.expected
      /\ \/ rx'.at = "failed" /\ rx'.expected = rx.expected
         \/ rx'.at = "frame" /\ rx'.expected = rx.expected + 1
      /\ EndOk(Settled, Len(stream)) => EndOk(rx', Len(stream))
  BY <1>1, DeliverNext
<1> HIDE DEF u
<1>3. /\ Typed /\ rx.expected \in Nat /\ rx.config \in Nat /\ rx'.waiting \in BOOLEAN
      /\ got.frames \in Seq(Frames) /\ got.gap \in BOOLEAN
  BY <1>2, TypedFields, RxFields DEF FramesInv
<1> DEFINE fs == IF rx'.at # "failed" THEN Append(got.frames, u) ELSE got.frames
<1>4. got' = [got EXCEPT !.gap = got.gap \/ rx'.waiting, !.frames = fs]
  BY <1>3 DEF u, Typed
<1>5. fs \in Seq(Frames)
  BY <1>2, <1>3
<1> HIDE DEF fs
<1>6. /\ got' \in [frames : Seq(Frames), lost : BOOLEAN, early : BOOLEAN, gap : BOOLEAN]
      /\ got'.gap = (got.gap \/ rx'.waiting) /\ got'.frames = fs
  BY <1>3, <1>4, <1>5 DEF Typed
<1>7. InStep'
  <2>1. CASE rx'.at = "failed"
    BY <1>6, <2>1 DEF InStep
  <2>2. CASE rx'.at = "frame"
    <3>1. rx'.expected = rx.expected + 1 /\ fs = Append(got.frames, u)
      BY <1>2, <2>2 DEF fs
    <3>2. fs # <<>> /\ Len(fs) = Len(got.frames) + 1 /\ fs[Len(got.frames) + 1] = u
          /\ \A i \in 1..Len(got.frames) : fs[i] = got.frames[i]
      BY <1>2, <1>3, <3>1
    <3>3. ASSUME ~got'.gap, NEW i \in 1..Len(fs)
          PROVE  fs[i].id = rx'.expected - Len(fs) + i - 1
      <4>1. ~got.gap
        BY <1>6, <3>3
      <4>2. \A j \in 1..Len(got.frames) :
              got.frames[j].id = rx.expected - Len(got.frames) + j - 1
        BY <4>1 DEF FramesInv, InStep
      <4>5. PICK n \in Nat : n = Len(got.frames)
        BY <1>3
      <4>6. \A j \in 1..n : rx.expected - n + j - 1 = rx'.expected - (n + 1) + j - 1
        BY <1>3, <3>1
      <4>3. CASE i \in 1..n
        BY <3>2, <4>2, <4>3, <4>5, <4>6
      <4>4. CASE i = n + 1
        <5>1. rx'.expected - (n + 1) + (n + 1) - 1 = rx.expected
          BY <1>3, <3>1
        <5> QED
          BY <1>2, <3>2, <4>4, <4>5, <5>1
      <4>7. i \in 1..n \/ i = n + 1
        BY <3>2, <3>3, <4>5
      <4> QED
        BY <4>3, <4>4, <4>7
    <3> QED
      BY <1>6, <2>2, <3>2, <3>3 DEF InStep
  <2> QED
    BY <1>2, <2>1, <2>2
<1>8. EndsTrue'
  <2>1. EndOk(rx, Len(stream)) => EndOk(rx', Len(stream))
    BY <1>2, SettledStays DEF Stays, Keeps
  <2> QED
    BY <2>1, EndsTrueKept
<1>9. Typed'
  BY <1>2, <1>3, <1>6, TypedKept
<1> QED
  BY <1>2, <1>3, <1>7, <1>8, <1>9 DEF FramesInv, Forward

LEMMA EndStep ==
  ASSUME FramesInv, rx.at = "frame", Settled.at # "failed", AtEnd(Settled),
         rx' = [Settled EXCEPT !.at = "ended"], UNCHANGED <<stream, tx, net>>,
         got' = [got EXCEPT !.gap = @ \/ rx'.waiting]
  PROVE  FramesInv' /\ Forward
<1>1. /\ Settled \in Rx /\ Settled.expected = rx.expected /\ Settled.config = rx.config
      /\ EndOk(rx, Len(stream)) => EndOk(Settled, Len(stream))
      /\ Settled.frames = rx.frames
  BY SettledStays DEF Stays, Keeps
<1>2. Settled.eos = Settled.expected /\ Settled.frames = {}
  BY DEF AtEnd
<1>3. /\ rx' \in Rx /\ rx'.at = "ended" /\ rx'.expected = rx.expected
      /\ rx'.config = rx.config /\ rx'.frames = {} /\ rx'.eos = rx.expected
      /\ rx'.eos = Settled.eos /\ rx'.lateEos = Settled.lateEos
  BY <1>1, <1>2 DEF Rx
<1>4. Typed /\ rx.expected \in Nat /\ rx.config \in Nat /\ rx'.waiting \in BOOLEAN
  BY <1>3, TypedFields, RxFields DEF FramesInv
<1>5. /\ got' \in [frames : Seq(Frames), lost : BOOLEAN, early : BOOLEAN, gap : BOOLEAN]
      /\ got'.frames = got.frames /\ got'.gap = (got.gap \/ rx'.waiting)
  BY <1>4 DEF Typed
<1>6. InStep'
  <2>1. ASSUME ~got'.gap
        PROVE  /\ got'.frames = <<>> => ~Missing(rx')
               /\ \A i \in 1..Len(got'.frames) :
                    got'.frames[i].id = rx'.expected - Len(got'.frames) + i - 1
    <3>1. ~got.gap
      BY <1>5, <2>1
    <3>2. /\ got.frames = <<>> => ~Missing(rx)
          /\ \A i \in 1..Len(got.frames) :
               got.frames[i].id = rx.expected - Len(got.frames) + i - 1
      BY <3>1 DEF FramesInv, InStep
    <3>3. got'.frames = <<>> => ~Missing(rx')
      BY <1>1, <1>2, <1>3, <1>5, <3>2, KeptPresent
    <3> QED
      BY <1>3, <1>5, <3>2, <3>3
  <2> QED
    BY <1>3, <1>5, <2>1 DEF InStep
<1>7. EndsTrue'
  <2>1. EndOk(rx, Len(stream)) => EndOk(rx', Len(stream))
    BY <1>1, <1>3 DEF EndOk
  <2> QED
    BY <2>1, EndsTrueKept
<1>8. Typed'
  BY <1>3, <1>4, <1>5, TypedKept
<1> QED
  BY <1>3, <1>4, <1>6, <1>7, <1>8 DEF FramesInv, Forward

\* What the pass found.
LEMMA PassFound ==
  ASSUME NEW r
  PROVE  /\ Pass(r) = "adopt" => Adopts(r)
         /\ Pass(r) = "jump" => Jumps(r)
         /\ Pass(r) = "deliver" => Ready(r) /\ r.at # "failed"
         /\ Pass(r) = "end" => AtEnd(r) /\ r.at # "failed"
         /\ Pass(r) \in {"fail", "wait", "adopt", "arm", "gap", "jump", "deliver", "end"}
BY DEF Pass

\* A pass of the loop.
LEMMA LoopStep ==
  ASSUME FramesInv, Loop
  PROVE  FramesInv' /\ Forward
<1> DEFINE r == Settled
           n == Len(stream)
<1>1. rx.at = "frame" /\ rx' = After(r) /\ UNCHANGED <<stream, tx, net, budget>>
  BY DEF Loop
<1>2. Stays(rx, r, n) /\ r.frames = rx.frames /\ r \in Rx
  BY SettledStays DEF Stays, Keeps
<1>3. /\ got \in [frames : Seq(Frames), lost : BOOLEAN, early : BOOLEAN, gap : BOOLEAN]
      /\ got.early \in BOOLEAN /\ r.waiting \in BOOLEAN
  BY <1>2, RxFields, TypedFields DEF FramesInv, Typed
<1>4. Pass(r) # "deliver" =>
        /\ got' = [got EXCEPT !.gap = @ \/ rx'.waiting]
        /\ got' = [got EXCEPT !.gap = @ \/ rx'.waiting, !.early = got.early]
  BY <1>3 DEF Loop, Noted
<1>5. Pass(r) = "deliver" =>
        got' = [got EXCEPT !.gap = @ \/ rx'.waiting,
                           !.frames = IF rx'.at # "failed"
                                      THEN Append(@, First(At(r, r.expected))) ELSE @]
  BY <1>1 DEF Loop, Noted
<1>6. ASSUME Keeps(r, rx', n), Pass(r) # "deliver"
      PROVE  FramesInv' /\ Forward
  <2>1. Keeps(rx, rx', n)
    BY <1>2, <1>6, KeepsAfterSettled
  <2> QED
    BY <1>1, <1>3, <1>4, <1>6, <2>1, KeepsStep
<1>7. CASE Pass(r) \in {"fail", "wait"}
  <2>1. rx' = r
    BY <1>1, <1>7 DEF After
  <2>2. Keeps(r, rx', n)
    BY <1>2, <2>1, UnchangedStays DEF Stays
  <2> QED
    BY <1>6, <1>7, <2>2
<1>8. CASE Pass(r) = "adopt"
  <2>1. rx' = Adopt(r) /\ Adopts(r)
    BY PassFound, <1>1, <1>8 DEF After
  <2>2. Target(r) # 0
    BY <1>2, <2>1, RxFields DEF Adopts
  <2>3. Keeps(r, rx', n)
    BY <1>2, <2>1, <2>2, AdoptKeeps
  <2> QED
    BY <1>6, <1>8, <2>3
<1>9. CASE Pass(r) = "arm"
  <2> DEFINE s == [r EXCEPT !.deadline = "armed"]
  <2>1. rx' = s
    BY <1>1, <1>9 DEF After
  <2> HIDE DEF r
  <2>2. /\ s \in Rx /\ s.at = r.at /\ s.expected = r.expected /\ s.config = r.config
        /\ s.frames = r.frames /\ s.eos = r.eos /\ s.lateEos = r.lateEos
    BY <1>2 DEF Rx
  <2>3. Keeps(r, s, n)
    BY <1>2, <2>2, RxFields DEF Keeps, EndOk
  <2> QED
    BY <1>6, <1>9, <2>1, <2>3
<1>10. CASE Pass(r) = "gap"
  <2>1. rx' = MarkDependencyGap(r)
    BY <1>1, <1>10 DEF After
  <2>2. Keeps(r, rx', n)
    BY <1>2, <2>1, GapStays DEF Stays
  <2> QED
    BY <1>6, <1>10, <2>2
<1>11. CASE Pass(r) = "jump"
  <2>1. rx' = Jump(r) /\ Jumps(r)
    BY PassFound, <1>1, <1>11 DEF After
  <2> QED
    BY <1>1, <1>4, <1>11, <2>1, JumpStep
<1>12. CASE Pass(r) = "deliver"
  <2>1. rx' = Deliver(r) /\ Ready(r) /\ r.at # "failed"
    BY PassFound, <1>1, <1>12 DEF After
  <2> QED
    BY <1>1, <1>5, <1>12, <2>1, DeliverStep
<1>13. CASE Pass(r) = "end"
  <2>1. rx' = [r EXCEPT !.at = "ended"] /\ AtEnd(r) /\ r.at # "failed"
    BY PassFound, <1>1, <1>13 DEF After
  <2> QED
    BY <1>1, <1>4, <1>13, <2>1, EndStep
<1>14. Pass(r) \in {"fail", "wait", "adopt", "arm", "gap", "jump", "deliver", "end"}
  BY PassFound
<1> QED
  BY <1>7, <1>8, <1>9, <1>10, <1>11, <1>12, <1>13, <1>14

\* A unit comes before the start.
LEMMA HeaderStep ==
  ASSUME FramesInv, rx.at = "header", NEW u \in net, rx' = HeaderTakes(rx, u),
         UNCHANGED <<stream, tx>>, net' \subseteq net, NEW early \in BOOLEAN,
         got' = [got EXCEPT !.gap = @ \/ rx'.waiting, !.early = early]
  PROVE  FramesInv' /\ Forward
<1>1. /\ Typed /\ rx \in Rx /\ rx.expected = 0 /\ got.frames = <<>>
      /\ u \in Frames \cup Scus \cup Ends
  BY TypedFields DEF FramesInv, InStep, Typed
<1>2. Begins(rx, rx', Len(stream))
  BY <1>1, HeaderTakesBegins
<1>3. rx' \in Rx /\ rx'.waiting \in BOOLEAN
  BY <1>2, RxFields DEF Begins
<1>4. /\ got' \in [frames : Seq(Frames), lost : BOOLEAN, early : BOOLEAN, gap : BOOLEAN]
      /\ got'.frames = <<>> /\ got'.gap = (got.gap \/ rx'.waiting)
  BY <1>1, <1>3 DEF Typed
<1>5. InStep'
  <2>1. \A i \in 1..Len(got'.frames) :
           got'.frames[i].id = rx'.expected - Len(got'.frames) + i - 1
    BY <1>4
  <2>2. /\ rx'.at \in {"header", "frame", "failed"}
        /\ rx'.at = "header" => rx'.expected = 0
        /\ rx'.at = "frame" => ~Missing(rx')
    BY <1>1, <1>2 DEF Begins
  <2> QED
    BY <1>4, <2>1, <2>2 DEF InStep
<1>6. EndsTrue'
  BY <1>2, EndsTrueKept DEF Begins
<1>7. Typed'
  BY <1>1, <1>3, <1>4, TypedKept
<1> QED
  BY <1>2, <1>5, <1>6, <1>7 DEF Begins, FramesInv, Forward

LEMMA ArriveStep ==
  ASSUME FramesInv, Arrive
  PROVE  FramesInv' /\ Forward
<1>1. PICK u \in net :
        /\ rx' = IF rx.at = "header" THEN HeaderTakes(rx, u) ELSE FrameTakes(Settled, u)
        /\ got' = [got EXCEPT !.gap = @ \/ rx'.waiting,
                              !.early = @ \/ (~rx.started /\ u.kind = "efu" /\ ~RandomAccess(u))]
        /\ net' \subseteq net
  BY DEF Arrive
<1>2. rx.at \in {"header", "frame"} /\ UNCHANGED <<stream, tx>>
  BY DEF Arrive, Waits
<1>3. PICK early \in BOOLEAN : got' = [got EXCEPT !.gap = @ \/ rx'.waiting, !.early = early]
  <2> DEFINE e == got.early \/ (~rx.started /\ u.kind = "efu" /\ ~RandomAccess(u))
  <2>1. e \in BOOLEAN /\ got' = [got EXCEPT !.gap = @ \/ rx'.waiting, !.early = e]
    BY <1>1
  <2> QED
    BY <2>1
<1>4. CASE rx.at = "header"
  BY <1>1, <1>2, <1>3, <1>4, HeaderStep
<1>5. CASE rx.at = "frame"
  <2>1. Stays(rx, Settled, Len(stream)) /\ Settled.frames = rx.frames /\ Settled \in Rx
    BY SettledStays DEF Stays, Keeps
  <2>2. /\ u \in Frames \cup Scus \cup Ends /\ Len(stream) \in Nat
        /\ u.kind = "eos" => u.id = Len(stream)
    BY TypedFields DEF FramesInv, Typed, EndsTrue
  <2>3. rx' = FrameTakes(Settled, u)
    BY <1>1, <1>5
  <2>4. Keeps(Settled, rx', Len(stream))
    BY <2>1, <2>2, <2>3, FrameTakesStays DEF Stays
  <2>5. Keeps(rx, rx', Len(stream))
    BY <2>1, <2>4, KeepsAfterSettled
  <2> QED
    BY <1>1, <1>2, <1>3, <1>5, <2>5, KeepsStep
<1> QED
  BY <1>2, <1>4, <1>5

LEMMA DeadlineStep ==
  ASSUME FramesInv, DeadlinePasses
  PROVE  FramesInv' /\ Forward
<1>1. rx' = [rx EXCEPT !.deadline = "passed"] /\ UNCHANGED <<stream, tx, net, got>>
  BY DEF DeadlinePasses
<1>2. Typed /\ rx \in Rx /\ rx.expected \in Nat /\ rx.config \in Nat
  BY TypedFields DEF FramesInv
<1>3. /\ rx' \in Rx /\ rx'.at = rx.at /\ rx'.expected = rx.expected /\ rx'.config = rx.config
      /\ rx'.frames = rx.frames /\ rx'.eos = rx.eos /\ rx'.lateEos = rx.lateEos
      /\ rx'.waiting = rx.waiting
  BY <1>1, <1>2 DEF Rx
<1>4. Missing(rx') <=> Missing(rx)
  BY <1>3 DEF Missing, At
<1>5. InStep'
  BY <1>1, <1>3, <1>4 DEF FramesInv, InStep
<1>6. EndsTrue'
  BY <1>1, <1>3 DEF FramesInv, EndsTrue
<1>7. Typed'
  BY <1>1, <1>2, <1>3 DEF Typed
<1> QED
  BY <1>2, <1>3, <1>5, <1>6, <1>7 DEF FramesInv, Forward

LEMMA EndTimesOutStep ==
  ASSUME FramesInv, EndTimesOut
  PROVE  FramesInv' /\ Forward
<1>1. rx.at = "frame" /\ rx' = Fails(rx, "end timeout") /\ UNCHANGED <<stream, tx, net, got>>
  BY DEF EndTimesOut
<1>2. Typed /\ rx \in Rx /\ rx.expected \in Nat /\ rx.config \in Nat
      /\ (rx.waiting => got.gap)
  BY TypedFields DEF FramesInv, InStep
<1>3. /\ rx' \in Rx /\ rx'.at = "failed" /\ rx'.expected = rx.expected
      /\ rx'.config = rx.config /\ rx'.waiting = rx.waiting
      /\ rx'.eos = rx.eos /\ rx'.lateEos = rx.lateEos
  BY <1>1, <1>2 DEF Rx, Fails, Reasons
<1>4. InStep'
  BY <1>1, <1>2, <1>3 DEF InStep
<1>5. EndsTrue'
  BY <1>1, <1>3 DEF FramesInv, EndsTrue
<1>6. Typed'
  BY <1>1, <1>2, <1>3 DEF Typed
<1> QED
  BY <1>2, <1>3, <1>4, <1>5, <1>6 DEF FramesInv, Forward
-----------------------------------------------------------------------------
(* The sender and the network.                                             *)

\* A step that leaves the receiver alone.
LEMMA SenderSide ==
  ASSUME FramesInv, UNCHANGED <<stream, rx>>, got'.frames = got.frames, got'.gap = got.gap,
         got' \in [frames : Seq(Frames), lost : BOOLEAN, early : BOOLEAN, gap : BOOLEAN],
         tx' \in [config : Nat, switching : BOOLEAN, next : Nat, open : BOOLEAN],
         tx'.next <= Len(stream), net' \subseteq Frames \cup Scus \cup Ends,
         \A u \in net' : u.kind = "eos" => u.id = Len(stream)
  PROVE  FramesInv' /\ Forward
<1>1. Typed'
  BY DEF FramesInv, Typed
<1>2. EndsTrue'
  BY DEF FramesInv, EndsTrue
<1>3. InStep'
  BY DEF FramesInv, InStep, Missing, At
<1>4. Forward
  BY TypedFields DEF FramesInv, Forward
<1> QED
  BY <1>1, <1>2, <1>3, <1>4 DEF FramesInv

LEMMA SenderStep ==
  ASSUME FramesInv, Sender \/ Lose
  PROVE  FramesInv' /\ Forward
<1>1. /\ Typed /\ tx.config \in Nat /\ tx.switching \in BOOLEAN /\ tx.next \in Nat
      /\ tx.open \in BOOLEAN /\ Len(stream) \in Nat /\ stream \in Seq(Frame)
      /\ tx.next <= Len(stream) /\ net \subseteq Frames \cup Scus \cup Ends
      /\ tx \in [config : Nat, switching : BOOLEAN, next : Nat, open : BOOLEAN]
      /\ got \in [frames : Seq(Frames), lost : BOOLEAN, early : BOOLEAN, gap : BOOLEAN]
  BY TypedFields DEF FramesInv, Typed
<1>2. \A u \in net : u.kind = "eos" => u.id = Len(stream)
  BY DEF FramesInv, EndsTrue
<1>3. CASE SendConfiguration
  <2>1. stream[tx.next + 1].config \in Nat
    <3>1. tx.next + 1 \in 1..Len(stream)
      BY <1>1, <1>3 DEF SendConfiguration
    <3>2. stream[tx.next + 1] \in Frame
      BY <1>1, <3>1
    <3> QED
      BY <3>2 DEF Frame
  <2>2. /\ tx' \in [config : Nat, switching : BOOLEAN, next : Nat, open : BOOLEAN]
        /\ tx'.next = tx.next /\ UNCHANGED <<stream, net, rx, got>>
    BY <1>1, <1>3, <2>1 DEF SendConfiguration
  <2> QED
    BY <1>1, <1>2, <2>2, SenderSide
<1>4. CASE SendFrame
  <2> DEFINE n == tx.next
  <2>1. n < Len(stream) /\ stream[n + 1] \in Frame
    BY <1>1, <1>4 DEF SendFrame
  <2>2. Efu(n) \in Frames
    BY <1>1, <2>1 DEF Efu, Frames, Frame, Types
  <2>3. Scu(stream[n + 1].config, n) \in Scus
    BY <1>1, <2>1 DEF Scu, Scus, Frame
  <2>4. /\ net' \subseteq net \cup {Efu(n), Scu(stream[n + 1].config, n)}
        /\ tx' = [tx EXCEPT !.next = n + 1, !.switching = FALSE]
        /\ UNCHANGED <<stream, rx, got>>
    BY <1>4 DEF SendFrame
  <2>5. /\ tx' \in [config : Nat, switching : BOOLEAN, next : Nat, open : BOOLEAN]
        /\ tx'.next <= Len(stream)
    <3>1. n + 1 \in Nat /\ n + 1 <= Len(stream)
      BY <1>1, <2>1
    <3>2. tx'.next = n + 1
      BY <1>1, <2>4
    <3> QED
      BY <1>1, <2>4, <3>1, <3>2
  <2>6. Efu(n).kind # "eos" /\ Scu(stream[n + 1].config, n).kind # "eos"
    BY DEF Efu, Scu
  <2>7. /\ net' \subseteq Frames \cup Scus \cup Ends
        /\ \A u \in net' : u.kind = "eos" => u.id = Len(stream)
    BY <1>1, <1>2, <2>2, <2>3, <2>4, <2>6
  <2> QED
    BY <1>1, <2>4, <2>5, <2>7, SenderSide
<1>5. CASE SendEnd
  <2>1. /\ tx.next = Len(stream) /\ net' = net \cup {Eos}
        /\ tx' = [tx EXCEPT !.open = FALSE] /\ UNCHANGED <<stream, rx, got>>
    BY <1>5 DEF SendEnd
  <2>2. Eos \in Ends /\ Eos.id = Len(stream)
    BY <1>1, <2>1 DEF Eos, Ends
  <2>3. /\ tx' \in [config : Nat, switching : BOOLEAN, next : Nat, open : BOOLEAN]
        /\ tx'.next <= Len(stream)
    BY <1>1, <2>1
  <2>4. /\ net' \subseteq Frames \cup Scus \cup Ends
        /\ \A u \in net' : u.kind = "eos" => u.id = Len(stream)
    BY <1>1, <1>2, <2>1, <2>2
  <2> QED
    BY <1>1, <2>1, <2>3, <2>4, SenderSide
<1>6. CASE Lose
  <2>1. /\ net' \subseteq net /\ got' = [got EXCEPT !.lost = TRUE]
        /\ UNCHANGED <<stream, tx, rx>>
    BY <1>6 DEF Lose
  <2>2. /\ got'.frames = got.frames /\ got'.gap = got.gap
        /\ got' \in [frames : Seq(Frames), lost : BOOLEAN, early : BOOLEAN, gap : BOOLEAN]
    BY <1>1, <2>1
  <2>3. /\ net' \subseteq Frames \cup Scus \cup Ends
        /\ \A u \in net' : u.kind = "eos" => u.id = Len(stream)
    BY <1>1, <1>2, <2>1
  <2> QED
    BY <1>1, <2>1, <2>2, <2>3, SenderSide
<1> QED
  BY <1>3, <1>4, <1>5, <1>6 DEF Sender
-----------------------------------------------------------------------------
(* The theorems.                                                           *)

LEMMA FramesInvInit ==
  ASSUME Init
  PROVE  FramesInv
<1>1. stream \in Seq(Frame) /\ Len(stream) > 0 /\ stream[1] \in Frame
  BY FramesAssumption DEF Init
<1>2. stream[1].config \in Nat /\ Len(stream) \in Nat
  BY <1>1 DEF Frame
<1>3. rx = RxInit
  BY DEF Init
<1>4. RxInit \in Rx
  <2>1. None \in Int /\ {} \in SUBSET (Nat \ {0}) /\ {} \in SUBSET Frames /\ {} \in SUBSET Int
    BY DEF None
  <2> QED
    BY <2>1 DEF RxInit, Rx, Reasons
<1>5. /\ rx.at = "header" /\ rx.expected = 0 /\ rx.eos = None /\ rx.lateEos = NoUnit
      /\ ~rx.waiting
  BY <1>3 DEF RxInit
<1>6. /\ tx = [config |-> stream[1].config, switching |-> FALSE, next |-> 0, open |-> TRUE]
      /\ net = {Scu(stream[1].config, 0)}
      /\ got = [frames |-> <<>>, lost |-> FALSE, early |-> FALSE, gap |-> FALSE]
  BY DEF Init
<1>7. Scu(stream[1].config, 0) \in Scus /\ Scu(stream[1].config, 0).kind # "eos"
  BY <1>2 DEF Scu, Scus
<1>8. Typed
  BY <1>1, <1>2, <1>3, <1>4, <1>6, <1>7 DEF Typed
<1>9. EndsTrue
  BY <1>5, <1>6, <1>7 DEF EndsTrue
<1>10. InStep
  BY <1>5, <1>6 DEF InStep
<1> QED
  BY <1>8, <1>9, <1>10 DEF FramesInv

LEMMA FramesInvNext ==
  ASSUME FramesInv, [Next]_vars
  PROVE  FramesInv' /\ Forward
<1>1. CASE UNCHANGED vars
  <2>1. UNCHANGED <<stream, tx, net, rx, got>>
    BY <1>1 DEF vars
  <2>2. rx.expected \in Nat /\ rx.config \in Nat
    BY TypedFields DEF FramesInv
  <2> QED
    BY <2>1, <2>2 DEF FramesInv, Typed, EndsTrue, InStep, Missing, At, Forward
<1> QED
  BY <1>1, SenderStep, LoopStep, ArriveStep, EndTimesOutStep, DeadlineStep DEF Next, Receiver

LEMMA FramesInvComplete ==
  ASSUME FramesInv
  PROVE  CompleteWithoutGap
<1> SUFFICES ASSUME rx.at = "ended", ~got.gap
             PROVE  /\ \A i \in DOMAIN got.frames :
                         got.frames[i].id = got.frames[1].id + i - 1
                    /\ got.frames # <<>> /\ Last(got.frames).id = Len(stream) - 1
  BY DEF CompleteWithoutGap
<1>1. /\ rx.expected \in Nat /\ got.frames \in Seq(Frames) /\ Len(got.frames) \in Nat
      /\ Len(stream) \in Nat
  BY TypedFields DEF FramesInv
<1>2. /\ rx.eos = rx.expected /\ rx.frames = {}
      /\ got.frames = <<>> => ~Missing(rx)
      /\ \A i \in 1..Len(got.frames) :
           got.frames[i].id = rx.expected - Len(got.frames) + i - 1
  BY DEF FramesInv, InStep
<1>3. got.frames # <<>>
  BY <1>2 DEF Missing, At
<1>4. rx.expected = Len(stream)
  BY <1>1, <1>2 DEF FramesInv, EndsTrue, None
<1>5. DOMAIN got.frames = 1..Len(got.frames) /\ Len(got.frames) >= 1
  BY <1>1, <1>3
<1>6. Last(got.frames) = got.frames[Len(got.frames)]
  BY DEF Last
<1>7. Last(got.frames).id = Len(stream) - 1
  <2>1. Len(got.frames) \in 1..Len(got.frames)
    BY <1>1, <1>5
  <2>2. got.frames[Len(got.frames)].id = rx.expected - Len(got.frames) + Len(got.frames) - 1
    BY <1>2, <2>1
  <2>3. rx.expected - Len(got.frames) + Len(got.frames) - 1 = Len(stream) - 1
    BY <1>1, <1>4
  <2> QED
    BY <1>6, <2>2, <2>3
<1>8. got.frames[1].id = rx.expected - Len(got.frames)
  BY <1>1, <1>2, <1>5
<1> QED
  BY <1>1, <1>2, <1>3, <1>5, <1>7, <1>8

\* Reordering alone costs no frame: a receiver that ended without having declared
\* a gap returned every frame from the one it started at to the last of the
\* stream (FindRecoveryFrame, PopReadyFrame and HandleEosUnit of RtpMlvcReceiver).
THEOREM FramesComplete == Spec => []CompleteWithoutGap
<1>1. Spec => []FramesInv
  BY FramesInvInit, FramesInvNext, PTL DEF Spec
<1> QED
  BY <1>1, FramesInvComplete, PTL

\* The receiver's frame and configuration never go back, whatever comes late.
THEOREM FramesForward == Spec => NeverBackwards
<1>1. Spec => []FramesInv
  BY FramesInvInit, FramesInvNext, PTL DEF Spec
<1>2. FramesInv /\ [Next]_vars => [Forward]_vars
  BY FramesInvNext
<1>3. Spec => [][Forward]_vars
  BY <1>1, <1>2, PTL DEF Spec
<1> QED
  BY <1>3 DEF NeverBackwards, Forward
=============================================================================
