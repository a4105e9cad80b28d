------------------------- MODULE ReferenceSyncProofs -------------------------
(***************************************************************************)
(* Encoder, receiver and decoder keep the same references, for every       *)
(* stream the options allow, any length, commands and losses, as long as   *)
(* nobody requests random access; and what is refused, and when, whatever  *)
(* is requested.                                                           *)
(*                                                                         *)
(* The encoder's state is a function of the number of frames it has made,  *)
(* until the peer steers it (EncoderInv).  Each unit on its way describes  *)
(* its frame: what it is predicted from and what it is of the schedule     *)
(* (WireInv, PacketsInv), and the reader gets back what the writer wrote.  *)
(* So the decoder's state is the same function of the frame it has come to *)
(* (DecoderInv).  What the receiver knows is where it is (PlaceInv) and    *)
(* which long-term frames the decoder will have (ListInv); that it refuses *)
(* none needs that the encoder's newest one always reaches it before a     *)
(* frame that is predicted from it (NewestInv), and that the caches are    *)
(* equal without loss is what the units on their way add to them           *)
(* (CacheInv).  The parts need one another: SyncInv is their conjunction.  *)
(***************************************************************************)
EXTENDS ReferenceSync, FiniteSetTheorems, WellFoundedInduction, TLAPS

-----------------------------------------------------------------------------
(* The schedule, from the number of a frame alone.                         *)

Marks(i) == ShouldSaveLtrFeatures(i % opt.gop, opt.ltrStart, opt.ltrPeriod)
SameGop(a, b) == a \div opt.gop = b \div opt.gop
\* The long-term frames when frame n is encoded, and after it.
CacheBefore(n) == {k \in 0 .. n - 1 : SameGop(k, n) /\ Marks(k)}
CacheAfter(n) == {k \in 0 .. n : SameGop(k, n) /\ Marks(k)}
\* After n frames: the feature saved for the next reset, and the last one.
SavedAt(n) ==
  IF opt.warp /\ n > 0 /\ n % opt.reset = 0 /\ n % opt.gop # 0 THEN n - 1 ELSE NoFrame
LastOf(n) == IF n = 0 THEN Zero ELSE Feature(n - 1)

\* The peer has not requested random access, or the encoder resets its reference
\* for such a frame, as it does only with translation warp.
Untouched == requestsSeen = 0 \/ opt.warp
\* No recovery frame is forced where frames may be lost.
Unforced == opt.transport = "rtp" => opt.recovery = NoFrame

-----------------------------------------------------------------------------
(* The parts of the invariant.                                             *)

Typed ==
  /\ opt \in Options /\ header = OptionsHeader
  /\ encodedFrames \in 0 .. Bounds[opt.warp].frames
  /\ gopOverride \in Int
  /\ controls \in Seq(Commands[opt.warp])
  /\ requests \in Nat /\ requestsSeen \in Nat /\ losses \in Nat
  /\ {encoderFailed, writerFailed, receiverFailed, decoderFailed, steered} \subseteq BOOLEAN
  /\ wire \in Seq(ToSet(wire)) /\ packets \in Seq(ToSet(packets))
  /\ requests <= requestsSeen
  /\ opt.transport # "rtp" => controls = <<>> /\ requestsSeen = 0 /\ losses = 0

\* The encoder is where the number of its frames says, unless it was steered: by a
\* GOP command or a request, over RTP and without warp.
EncoderInv ==
  /\ reference = LastOf(encodedFrames)
  /\ savedFrame = SavedAt(encodedFrames)
  /\ ltrFeatures \subseteq 0 .. encodedFrames - 1
  /\ ~steered => gopOverride = -1 /\ ltrFeatures = CacheAfter(encodedFrames - 1)
  /\ opt.warp \/ opt.transport # "rtp" => ~steered
  /\ encoderFailed => steered
  /\ ~writerFailed

\* What the encoder predicted the frame with these metadata from.
From(e) ==
  IF e.type = "LTR" THEN Feature(e.long)
  ELSE IF "reset" \in e.flags THEN IF opt.warp THEN Adapted(NoFrame) ELSE Zero
  ELSE IF opt.warp /\ e.id % opt.reset = 0 THEN Adapted(e.id - 1)
  ELSE Feature(e.id - 1)

\* The frame is the one of the schedule.
Scheduled(e) ==
  /\ e.type = "I" <=> e.id % opt.gop = 0
  /\ "reset" \in e.flags <=> IF opt.warp THEN e.type = "I"
                             ELSE ShouldResetReferenceFeature(e.id, opt.gop, opt.reset)
  /\ "store" \in e.flags <=> Marks(e.id)
  /\ e.type = "LTR" <=> /\ e.id % opt.gop # 0 /\ CacheBefore(e.id) # {}
                        /\ e.id = opt.recovery \/ Marks(e.id)
  /\ e.type = "LTR" =>
       /\ e.long \in CacheBefore(e.id)
       /\ e.long = IF e.id = opt.recovery THEN opt.reference ELSE Max(CacheBefore(e.id))

\* The metadata of a frame are consistent, and its payload is predicted from what
\* they say.
Described(e) ==
  /\ e.id \in 0 .. Bounds[opt.warp].frames - 1
  /\ e.config = ConfigId
  /\ e.type \in {"I", "P", "LTR"}
  /\ e.flags \subseteq {"ra", "reset", "store", "warp", "crc"}
  /\ "warp" \in e.flags <=> opt.warp
  /\ "ra" \in e.flags <=> e.type = "I"
  /\ e.type = "I" => "reset" \in e.flags
  /\ e.id = 0 => e.type = "I"
  /\ e.short = IF e.type = "P" /\ "reset" \notin e.flags THEN e.id - 1 ELSE NoReference
  /\ IF e.type = "LTR" THEN e.long \in 0 .. e.id - 1 ELSE e.long = NoReference
  /\ opt.recovery = NoFrame /\ e.type = "LTR" => "store" \in e.flags
  /\ e.kx \in -128 .. 127 /\ e.ky \in -128 .. 127
  /\ ~opt.warp \/ e.type = "I" => e.kx = 0 /\ e.ky = 0
  /\ e.payload = << e.payload[1] >>
  /\ Untouched => e.payload[1] = Prediction(From(e), e.kx, e.ky)
  /\ opt.warp \/ opt.transport # "rtp" => Scheduled(e)

\* What the reader makes of a unit.
Received(u) == IF Explicit THEN ParsedEfu(u) ELSE u
NextOnWire == encodedFrames - Len(wire)

WireItem(u, id) ==
  u.id = id /\ Described(Received(u)) /\ (Explicit => ~ParseEfuRefused(u))

\* The frames on the wire are the last ones encoded, and none is refused.
WireInv == \A k \in 1 .. Len(wire) : WireItem(wire[k], NextOnWire + k - 1)

NoIFrame(q, from) == \A m \in from .. Len(q) : q[m].type # "I"
\* The frame is kept by someone who decodes q.
StoredIn(q, id) ==
  \E j \in 1 .. Len(q) : /\ q[j].id = id /\ "store" \in q[j].flags /\ NoIFrame(q, j + 1)
\* In the decoder's cache once it has decoded what has been read.
WillHold(id) == StoredIn(packets, id) \/ (id \in DOMAIN dLtr /\ NoIFrame(packets, 1))
\* ... and what is on the wire.
WillHoldAll(id) == StoredIn(wire, id) \/ (NoIFrame(wire, 1) /\ WillHold(id))

Previous(k) == IF k = 1 THEN activeShort ELSE packets[k - 1].id

\* The receiver's list is what the decoder will have, or the newest of it.
ListInv ==
  /\ ltrIds \subseteq 0 .. expectedFrame - 1
  /\ Cardinality(ltrIds) <= MaxLtrFrames
  /\ \A id \in ltrIds : WillHold(id)
  /\ \A id : WillHold(id) /\ id \notin ltrIds => Cardinality(ltrIds) = MaxLtrFrames

\* The receiver expects the first frame on the wire, or has missed some; after a
\* loss the first one it takes is one to recover at.
PlaceInv ==
  /\ expectedFrame \in 0 .. NextOnWire
  /\ ~receiverFailed /\ losses = 0 => expectedFrame = NextOnWire
  /\ shortAvailable = IF packets = <<>> THEN activeShort ELSE packets[Len(packets)].id
  /\ \/ receiverFailed
     \/ shortAvailable = expectedFrame - 1
     \/ /\ opt.transport = "rtp"
        /\ NextOnWire > expectedFrame \/ (wire # <<>> /\ Recoverable(wire[1]))
  /\ Unforced => ~receiverFailed

\* The long-term reference of q[k] will be there.
Reachable(q, held, k) ==
  LET long == q[k].long
  IN \/ \E j \in 1 .. k - 1 : /\ q[j].id = long /\ "store" \in q[j].flags
                              /\ \A m \in j + 1 .. k : q[m].type # "I"
     \/ long \in held /\ \A m \in 1 .. k : q[m].type # "I"

\* A frame that is predicted from the one before follows it.
Follows(e, previous) ==
  opt.transport # "rtp" \/ (e.type = "P" /\ "reset" \notin e.flags) => e.id = previous + 1

\* What the receiver has let through: the decoder has what each frame needs.
PacketsInv ==
  \A k \in 1 .. Len(packets) :
    /\ Described(packets[k])
    /\ Follows(packets[k], Previous(k))
    /\ opt.transport = "rtp" /\ packets[k].type = "LTR" => Reachable(packets, DOMAIN dLtr, k)

\* The decoder is where the encoder was after the same frame.
DecoderInv ==
  /\ activeShort \in {NoFrame} \cup Nat
  /\ dSaved = SavedAt(activeShort + 1)
  /\ Untouched => /\ mismatched = {}
                  /\ dReference = LastOf(activeShort + 1)
                  /\ \A k \in DOMAIN dLtr : dLtr[k] = k
  /\ opt.transport # "rtp" => DOMAIN dLtr = CacheAfter(activeShort)
  /\ DOMAIN dLtr \subseteq Nat
  /\ ~decoderFailed

\* Whether the newest long-term frame before q[k] is in q: NoNewer, it is older, or
\* OnTheWay, it is the one given.
Plain(e) == e.type # "I" /\ "store" \notin e.flags
NoNewer(q, k) == \A m \in 1 .. k - 1 : Plain(q[m])
OnTheWay(q, id, k) ==
  \E j \in 1 .. k - 1 : /\ q[j].id = id /\ "store" \in q[j].flags
                        /\ \A m \in j + 1 .. k - 1 : Plain(q[m])
InReach(id, k) ==
  \/ OnTheWay(wire, id, k)
  \/ NoNewer(wire, k) /\ (expectedFrame = NextOnWire => id \in ltrIds)

\* The encoder's newest long-term frame, and the one each frame on the wire is
\* predicted from, is on the wire before it or known to the receiver, if that
\* has missed nothing.
NewestInv ==
  opt.transport = "rtp" /\ opt.recovery = NoFrame =>
    /\ ltrFeatures # {} => InReach(Max(ltrFeatures), Len(wire) + 1)
    /\ \A k \in 1 .. Len(wire) : wire[k].type = "LTR" => InReach(wire[k].long, k)

\* Without loss the encoder's long-term frames are the decoder's, once it has them.
CacheInv ==
  losses = 0 /\ ~receiverFailed =>
    \A id : id \in ltrFeatures <=> WillHoldAll(id)

-----------------------------------------------------------------------------
(* Numbers, and the largest of a set of them.                              *)

\* A set of numbers has a least one, and a largest if it is bounded.
LEMMA LeastNumber ==
  ASSUME NEW S \in SUBSET Nat, S # {}
  PROVE  \E n \in S : \A m \in S : n <= m
<1>1. PICK n \in S : \A m \in Nat : <<m, n>> \in OpToRel(<, Nat) => m \notin S
  BY NatLessThanWellFounded, WFMin, Zenon
<1>2. \A m \in S : ~(m < n)
  BY <1>1 DEF OpToRel
<1> QED
  BY <1>2

LEMMA Largest ==
  ASSUME NEW n \in Nat, NEW S \in SUBSET (0 .. n), S # {}
  PROVE  Max(S) \in S /\ \A k \in S : k <= Max(S)
<1> DEFINE U == {m \in Nat : \A k \in S : k <= m}
<1>1. n \in U
  OBVIOUS
<1>2. PICK m \in U : \A k \in U : m <= k
  BY <1>1, LeastNumber, U \in SUBSET Nat
<1>3. m \in S
  <2>1. SUFFICES ASSUME m \notin S PROVE FALSE
    OBVIOUS
  <2>2. \A k \in S : k < m
    BY <1>2, <2>1
  <2>3. m - 1 \in U
    <3>0. PICK k \in S : TRUE
      OBVIOUS
    <3>1. m # 0 /\ m - 1 \in Nat
      <4>1. k \in 0 .. n /\ k < m /\ m \in Nat
        BY <2>2, <1>2
      <4> QED
        BY <4>1
    <3>2. \A j \in S : j <= m - 1
      <4>1. \A j \in S : j \in 0 .. n /\ j < m /\ m \in Nat
        BY <2>2, <1>2
      <4> QED
        BY <4>1
    <3> QED
      BY <3>1, <3>2
  <2> QED
    BY <2>3, <1>2
<1>4. \E x \in S : \A y \in S : x >= y
  BY <1>2, <1>3
<1>5. Max(S) \in S /\ \A y \in S : Max(S) >= y
  BY <1>4, Zenon DEF Max
<1> QED
  BY <1>5

\* Max is that one.
LEMMA LargestIs ==
  ASSUME NEW n \in Nat, NEW S \in SUBSET (0 .. n), NEW m \in S, \A k \in S : k <= m
  PROVE  Max(S) = m
<1>1. Max(S) \in S /\ \A k \in S : k <= Max(S)
  BY Largest
<1>2. \A k \in S : k \in Int
  OBVIOUS
<1>3. Max(S) \in Int /\ m \in Int /\ Max(S) <= m /\ m <= Max(S)
  BY <1>1, <1>2
<1> QED
  BY <1>3

\* Division splits a number into quotient and remainder.
LEMMA Split ==
  ASSUME NEW n \in Nat, NEW g \in Nat \ {0}
  PROVE  /\ n \div g \in Nat
         /\ n % g \in 0 .. g - 1
         /\ n = g * (n \div g) + (n % g)
  BY SMT

\* The quotient and the remainder are the only ones.
LEMMA Quotient ==
  ASSUME NEW n \in Nat, NEW g \in Nat \ {0}, NEW q \in Nat, NEW r \in 0 .. g - 1,
         n = g * q + r
  PROVE  n \div g = q /\ n % g = r
  BY SMT

\* The frame after another one opens a GOP or is in the same one.
LEMMA NextInGop ==
  ASSUME NEW n \in Nat, NEW g \in Nat \ {0}
  PROVE  IF (n + 1) % g = 0 THEN \A k \in 0 .. n : k \div g # (n + 1) \div g
         ELSE (n + 1) \div g = n \div g
<1> DEFINE q == n \div g
           r == n % g
<1>1. q \in Nat /\ r \in 0 .. g - 1 /\ n = g * q + r
  BY Split
<1> HIDE DEF q, r
<1>2. CASE r = g - 1
  <2>0. g * (q + 1) = g * q + g
    BY <1>1
  <2>1. n + 1 = g * (q + 1) + 0
    BY <1>1, <1>2, <2>0
  <2>2. (n + 1) \div g = q + 1 /\ (n + 1) % g = 0
    <3>1. n + 1 \in Nat /\ q + 1 \in Nat /\ 0 \in 0 .. g - 1
      BY <1>1
    <3> QED
      BY <3>1, <2>1, Quotient
  <2>3. ASSUME NEW k \in 0 .. n, k \div g = q + 1 PROVE FALSE
    <3>1. k \in Nat /\ k = g * (k \div g) + (k % g) /\ k % g >= 0
      BY Split
    <3> QED
      BY <3>1, <2>3, <2>1, <1>1
  <2> QED
    BY <2>2, <2>3
<1>3. CASE r # g - 1
  <2>1. n + 1 = g * q + (r + 1) /\ r + 1 \in 0 .. g - 1 /\ n + 1 \in Nat /\ r + 1 # 0
    BY <1>1, <1>3
  <2>2. (n + 1) \div g = q /\ (n + 1) % g = r + 1
    BY <2>1, <1>1, Quotient
  <2> QED
    BY <2>1, <2>2 DEF q
<1> QED
  BY <1>2, <1>3

\* A sequence holds its own elements.
LEMMA OwnElements ==
  ASSUME NEW S, NEW s \in Seq(S)
  PROVE  s \in Seq(ToSet(s)) /\ \A x : Append(s, x) \in Seq(ToSet(Append(s, x)))
<1>1. \A T, t : t \in Seq(T) => t \in Seq(ToSet(t))
  BY DEF ToSet
<1>2. \A x : Append(s, x) \in Seq(S \cup {x})
  OBVIOUS
<1> QED
  BY <1>1, <1>2

\* What is left of a sequence when its head is taken.
LEMMA TailElements ==
  ASSUME NEW S, NEW s \in Seq(S), s # <<>>
  PROVE  /\ Tail(s) \in Seq(ToSet(Tail(s)))
         /\ Len(Tail(s)) = Len(s) - 1 /\ Head(s) = s[1] /\ Len(s) \in Nat \ {0}
         /\ \A k \in 1 .. Len(s) - 1 : Tail(s)[k] = s[k + 1]
<1>1. Tail(s) \in Seq(S)
  OBVIOUS
<1>2. Tail(s) \in Seq(ToSet(Tail(s)))
  BY <1>1, OwnElements
<1>3. /\ Len(Tail(s)) = Len(s) - 1 /\ Head(s) = s[1] /\ Len(s) \in Nat \ {0}
      /\ \A k \in 1 .. Len(s) - 1 : Tail(s)[k] = s[k + 1]
  OBVIOUS
<1> QED
  BY <1>2, <1>3

-----------------------------------------------------------------------------
(* The units: what the writer makes of the header and of a frame, none of  *)
(* the checks refuses, and the reader gets back.                           *)

LEMMA IdFacts ==
  /\ IdSpace \in Nat /\ IdSpace >= 2 /\ IdSpace \div 2 \in Nat
  /\ IdSpace = 2 * (IdSpace \div 2) /\ IdSpace \div 2 >= 1
BY IdSpaceAssumption

\* An option survives the way into a word and back.
LEMMA WordAndBack ==
  ASSUME NEW v \in -1 .. (IdSpace \div 2) - 1
  PROVE  /\ Value(Word(v)) = v
         /\ ~ValueRefused(Word(v), TRUE)
         /\ v >= 0 => ~ValueRefused(Word(v), FALSE)
<1>1. CASE v = -1
  <2>1. IdSpace - 1 \in 0 .. IdSpace - 1 /\ -1 = IdSpace * (-1) + (IdSpace - 1)
    BY IdFacts
  <2>2. (-1) % IdSpace = IdSpace - 1
    BY IdFacts, <2>1
  <2>3. Word(v) = IdSpace - 1
    BY <1>1, <2>2 DEF Word
  <2> QED
    BY <2>3, <1>1, IdFacts DEF Value, ValueRefused
<1>2. CASE v # -1
  <2>1. v \in Nat /\ v < IdSpace \div 2 /\ v \in 0 .. IdSpace - 1 /\ v = IdSpace * 0 + v
    BY IdFacts, <1>2
  <2>2. Word(v) = v
    BY <2>1, IdFacts, Quotient DEF Word
  <2> QED
    BY <2>1, <2>2, IdFacts DEF Value, ValueRefused
<1> QED
  BY <1>1, <1>2

\* The TLV found is the first of its type, which is usually the only one.
LEMMA FirstTlv ==
  ASSUME NEW S, NEW tlvs \in Seq(S), NEW type, NEW n \in 1 .. Len(tlvs),
         tlvs[n].type = type, \A m \in 1 .. n - 1 : tlvs[m].type # type
  PROVE  FindTlv(tlvs, type) = tlvs[n].value
<1> DEFINE I == {i \in 1 .. Len(tlvs) : tlvs[i].type = type}
<1>1. n \in I /\ \A i \in I : n <= i
  OBVIOUS
<1>2. Min(I) \in I /\ \A i \in I : Min(I) <= i
  <2>1. \E x \in I : \A y \in I : x <= y
    BY <1>1
  <2> HIDE DEF I
  <2> QED
    BY <2>1, Zenon DEF Min
<1>3. Min(I) = n
  <2>1. Min(I) \in Int /\ Min(I) <= n /\ n <= Min(I)
    BY <1>1, <1>2
  <2> QED
    BY <2>1
<1>4. SelectInSeq(tlvs, LAMBDA t : t.type = type) = Min(I)
  BY <1>1, Zenon DEF SelectInSeq
<1> QED
  BY <1>3, <1>4, Zenon DEF FindTlv

LEMMA CountsOnce ==
  ASSUME NEW S, NEW tlvs \in Seq(S), NEW type, NEW n \in 1 .. Len(tlvs),
         \A m \in 1 .. Len(tlvs) : tlvs[m].type = type => m = n
  PROVE  Count(tlvs, type) \in {0, 1} /\ (tlvs[n].type = type => Count(tlvs, type) = 1)
<1>1. {k \in DOMAIN tlvs : tlvs[k].type = type} = IF tlvs[n].type = type THEN {n} ELSE {}
  OBVIOUS
<1> QED
  BY <1>1, FS_Singleton, FS_EmptySet, Zenon DEF Count

\* The TLVs of the configuration unit of a stream.
Policy == Tlv("policy", << Word(opt.gop), Word(opt.reset), Word(opt.ltrStart),
                           Word(opt.ltrPeriod) >>)
Vendor == Tlv("vendor", << Word(opt.recovery), Word(opt.reference) >>)
Warp == Tlv("warp", <<1>>)
Bundle == Tlv("bundle", << BundleHash >>)
StreamTlvs ==
  IF opt.warp THEN << Policy, Vendor, Warp, Bundle >> ELSE << Policy, Vendor, Bundle >>

\* What the assumption says of the options of a run.
LEMMA OptionFacts ==
  ASSUME opt \in Options
  PROVE  /\ opt \in OptionTypes /\ ValidOptions(opt)
         /\ opt.gop \in Nat \ {0} /\ opt.reset \in Nat \ {0}
         /\ opt.ltrStart \in Nat /\ opt.ltrPeriod \in Nat
         /\ opt.recovery \in {-1} \cup Nat /\ opt.reference \in {-1} \cup Nat
         /\ \A v \in {opt.gop, opt.reset, opt.ltrStart, opt.ltrPeriod, opt.recovery,
                      opt.reference} : v \in -1 .. (IdSpace \div 2) - 1
         /\ opt.warp => /\ opt.gop = WarpGop /\ opt.reset = WarpReset
                        /\ opt.ltrPeriod = 0 /\ opt.recovery = -1 /\ opt.reference = -1
                        /\ opt.transport # "udp" /\ opt.gop % opt.reset = 0
         /\ opt.warp \in BOOLEAN /\ opt.transport \in {"file", "rtp", "udp"}
         /\ Bounds[opt.warp].frames \in Nat /\ Bounds[opt.warp].frames <= IdSpace \div 2
<1>1. opt \in OptionTypes /\ ValidOptions(opt)
  BY ReferenceAssumption
<1>2. /\ opt.gop \in Ints /\ opt.reset \in Ints /\ opt.ltrStart \in Ints
      /\ opt.ltrPeriod \in Ints /\ opt.recovery \in Ints /\ opt.reference \in Ints
      /\ opt.warp \in BOOLEAN /\ opt.transport \in {"file", "rtp", "udp"}
  BY <1>1 DEF OptionTypes
<1>3. /\ opt.gop > 0 /\ opt.reset > 0 /\ opt.ltrStart >= 0 /\ opt.ltrPeriod >= 0
      /\ opt.recovery >= -1 /\ opt.reference >= -1
      /\ (opt.recovery >= 0) <=> (opt.reference >= 0)
  BY <1>1 DEF ValidOptions, ForcedLtrValid
<1>4. opt.warp => /\ opt.gop = WarpGop /\ opt.reset = WarpReset
                  /\ opt.ltrPeriod = 0 /\ opt.recovery = -1 /\ opt.transport # "udp"
  BY <1>1 DEF ValidOptions, NoFrame
<1>5. Bounds[opt.warp] \in [frames : 0 .. IdSpace \div 2, commands : Nat,
                            requests : Nat, losses : Nat]
  BY <1>2, ReferenceAssumption
<1>6. Bounds[opt.warp].frames \in 0 .. IdSpace \div 2
  BY <1>5
<1>7. WarpGop % WarpReset = 0
  BY ReferenceAssumption
<1> QED
  BY <1>1, <1>2, <1>3, <1>4, <1>6, <1>7, IdFacts DEF Ints

\* The concatenation of two, three and four short sequences.
LEMMA Together ==
  ASSUME NEW S, NEW a \in Seq(S), NEW b \in Seq(S), NEW c \in Seq(S),
         Len(c) = Len(a) + Len(b),
         \A k \in 1 .. Len(c) : c[k] = IF k <= Len(a) THEN a[k] ELSE b[k - Len(a)]
  PROVE  a \o b = c
<1>1. a \o b \in Seq(S) /\ Len(a \o b) = Len(c)
  OBVIOUS
<1>2. \A k \in 1 .. Len(c) : (a \o b)[k] = c[k]
  OBVIOUS
<1> QED
  BY <1>1, <1>2

LEMMA ThreeTogether ==
  ASSUME NEW a, NEW b, NEW c
  PROVE  << a, b >> \o << c >> = << a, b, c >>
<1> DEFINE left == << a, b >>
           right == << c >>
           both == << a, b, c >>
           S == {a, b, c}
<1>1. /\ left \in Seq(S) /\ right \in Seq(S) /\ both \in Seq(S)
      /\ Len(both) = 3 /\ Len(left) = 2 /\ Len(right) = 1
  OBVIOUS
<1>2. ASSUME NEW k \in 1 .. 3
      PROVE  both[k] = IF k <= 2 THEN left[k] ELSE right[k - 2]
  <2>1. k \in {1, 2, 3}
    OBVIOUS
  <2> QED
    BY <2>1
<1> HIDE DEF S, left, right, both
<1>3. /\ Len(both) = Len(left) + Len(right)
      /\ \A k \in 1 .. Len(both) :
           both[k] = IF k <= Len(left) THEN left[k] ELSE right[k - Len(left)]
  BY <1>1, <1>2
<1>4. left \o right = both
  BY <1>1, <1>3, Together, Zenon
<1> QED
  BY <1>4 DEF left, right, both

LEMMA FourTogether ==
  ASSUME NEW a, NEW b, NEW c, NEW d
  PROVE  << a, b, c >> \o << d >> = << a, b, c, d >>
<1> DEFINE left == << a, b, c >>
           right == << d >>
           both == << a, b, c, d >>
           S == {a, b, c, d}
<1>1. /\ left \in Seq(S) /\ right \in Seq(S) /\ both \in Seq(S)
      /\ Len(both) = 4 /\ Len(left) = 3 /\ Len(right) = 1
  OBVIOUS
<1>2. ASSUME NEW k \in 1 .. 4
      PROVE  both[k] = IF k <= 3 THEN left[k] ELSE right[k - 3]
  <2>1. k \in {1, 2, 3, 4}
    OBVIOUS
  <2> QED
    BY <2>1
<1> HIDE DEF S, left, right, both
<1>3. /\ Len(both) = Len(left) + Len(right)
      /\ \A k \in 1 .. Len(both) :
           both[k] = IF k <= Len(left) THEN left[k] ELSE right[k - Len(left)]
  BY <1>1, <1>2
<1>4. left \o right = both
  BY <1>1, <1>3, Together, Zenon
<1> QED
  BY <1>4 DEF left, right, both

\* They are the ones the writer writes, each is there once.
LEMMA ScuTlvsAre ==
  ASSUME opt \in Options
  PROVE  /\ ScuTlvs(SentScu) = StreamTlvs
         /\ SentScu.config = ConfigId /\ SentScu.warp = opt.warp
         /\ SentScu.bundle = BundleHash /\ SentScu.hash = NoHash
         /\ SentScu.tlvs = << Policy, Vendor >>
<1>1. /\ SentScu.config = ConfigId /\ SentScu.warp = opt.warp
      /\ SentScu.bundle = BundleHash /\ SentScu.hash = NoHash
      /\ SentScu.tlvs = << Policy, Vendor >>
  BY DEF SentScu, MakeScu, OptionsHeader, Policy, Vendor
<1>2. Policy.type = "policy" /\ Vendor.type = "vendor"
  BY DEF Policy, Vendor, Tlv
<1>3. ~Has(<< Policy, Vendor >>, "warp") /\ ~Has(<< Policy, Vendor >>, "bundle")
  BY <1>2 DEF Has
<1>4. ScuTlvs(SentScu) = << Policy, Vendor >> \o (IF opt.warp THEN << Warp >> ELSE <<>>)
                           \o << Bundle >>
  BY <1>1, <1>3 DEF ScuTlvs, Warp, Bundle
<1>5. ASSUME NEW p, NEW v, NEW w, NEW b
      PROVE  /\ << p, v >> \o << w >> \o << b >> = << p, v, w, b >>
             /\ << p, v >> \o <<>> \o << b >> = << p, v, b >>
  <2>1. << p, v >> \o << w >> = << p, v, w >> /\ << p, v >> \o << b >> = << p, v, b >>
    BY ThreeTogether
  <2>2. << p, v, w >> \o << b >> = << p, v, w, b >>
    BY FourTogether
  <2>3. << p, v >> \in Seq({p, v}) /\ << p, v >> \o <<>> = << p, v >>
    OBVIOUS
  <2> QED
    BY <2>1, <2>2, <2>3
<1>6. ScuTlvs(SentScu) = StreamTlvs
  <2>1. /\ << Policy, Vendor >> \o << Warp >> \o << Bundle >> = << Policy, Vendor, Warp, Bundle >>
        /\ << Policy, Vendor >> \o <<>> \o << Bundle >> = << Policy, Vendor, Bundle >>
    BY <1>5, Zenon
  <2>2. opt.warp => ScuTlvs(SentScu) = << Policy, Vendor, Warp, Bundle >>
    BY <1>4, <2>1, Zenon
  <2>3. ~opt.warp => ScuTlvs(SentScu) = << Policy, Vendor, Bundle >>
    BY <1>4, <2>1, Zenon
  <2> QED
    BY <2>2, <2>3, Zenon DEF StreamTlvs
<1> QED
  BY <1>1, <1>6

LEMMA StreamTlvFacts ==
  ASSUME opt \in Options
  PROVE  /\ FindTlv(StreamTlvs, "policy") = Policy.value
         /\ FindTlv(StreamTlvs, "vendor") = Vendor.value
         /\ FindTlv(StreamTlvs, "bundle") = << BundleHash >>
         /\ Count(StreamTlvs, "bundle") = 1
         /\ Has(StreamTlvs, "warp") <=> opt.warp
         /\ ~TlvsRefused(StreamTlvs)
<1> DEFINE T == StreamTlvs
           last == IF opt.warp THEN 4 ELSE 3
<1>1. /\ Policy.type = "policy" /\ Vendor.type = "vendor" /\ Warp.type = "warp"
      /\ Bundle.type = "bundle" /\ Warp.value = <<1>> /\ Bundle.value = << BundleHash >>
      /\ Len(Policy.value) = 4 /\ Len(Bundle.value) = 1
  BY DEF Policy, Vendor, Warp, Bundle, Tlv
<1>2. opt.warp \in BOOLEAN
  BY OptionFacts
<1>3. /\ T \in Seq({Policy, Vendor, Warp, Bundle}) /\ Len(T) = last /\ DOMAIN T = 1 .. last
      /\ T[1] = Policy /\ T[2] = Vendor /\ T[last] = Bundle
      /\ opt.warp => T[3] = Warp
  <2>1. ASSUME NEW p, NEW v, NEW w, NEW b
        PROVE  /\ << p, v, w, b >> \in Seq({p, v, w, b}) /\ Len(<< p, v, w, b >>) = 4
               /\ DOMAIN << p, v, w, b >> = 1 .. 4
               /\ << p, v, b >> \in Seq({p, v, w, b}) /\ Len(<< p, v, b >>) = 3
               /\ DOMAIN << p, v, b >> = 1 .. 3
    OBVIOUS
  <2>2. CASE opt.warp
    BY <2>1, <2>2 DEF StreamTlvs
  <2>3. CASE ~opt.warp
    BY <2>1, <2>3 DEF StreamTlvs
  <2> QED
    BY <2>2, <2>3
<1> HIDE DEF T
<1>4. \A k \in 1 .. last : /\ T[k].type = "policy" => k = 1
                           /\ T[k].type = "vendor" => k = 2
                           /\ T[k].type = "warp" => opt.warp /\ k = 3
                           /\ T[k].type = "bundle" => k = last
  <2> SUFFICES ASSUME NEW k \in 1 .. last
               PROVE  /\ T[k].type = "policy" => k = 1
                      /\ T[k].type = "vendor" => k = 2
                      /\ T[k].type = "warp" => opt.warp /\ k = 3
                      /\ T[k].type = "bundle" => k = last
    OBVIOUS
  <2>1. k = 1 \/ k = 2 \/ (k = 3 /\ opt.warp) \/ k = last
    BY <1>2
  <2> QED
    BY <2>1, <1>1, <1>3
<1>5. FindTlv(T, "policy") = Policy.value
  BY <1>1, <1>2, <1>3, FirstTlv
<1>6. FindTlv(T, "vendor") = Vendor.value
  <2>1. 2 \in 1 .. Len(T) /\ T[2].type = "vendor" /\ \A m \in 1 .. 2 - 1 : T[m].type # "vendor"
    BY <1>1, <1>2, <1>3
  <2> QED
    BY <2>1, <1>3, FirstTlv
<1>7. FindTlv(T, "bundle") = << BundleHash >>
  <2>1. /\ last \in 1 .. Len(T) /\ T[last].type = "bundle"
        /\ \A m \in 1 .. last - 1 : T[m].type # "bundle"
    BY <1>1, <1>2, <1>3, <1>4
  <2>2. FindTlv(T, "bundle") = T[last].value
    <3>1. T \in Seq({Policy, Vendor, Warp, Bundle})
      BY <1>3
    <3> HIDE DEF last
    <3> QED
      BY <2>1, <3>1, FirstTlv
  <2> QED
    BY <2>2, <1>1, <1>3
<1>8. Count(T, "policy") \in {0, 1} /\ Count(T, "warp") \in {0, 1} /\ Count(T, "bundle") = 1
  <2>1. 1 \in 1 .. Len(T) /\ 3 \in 1 .. Len(T) /\ last \in 1 .. Len(T)
    BY <1>2, <1>3
  <2>2. Count(T, "policy") \in {0, 1}
    <3>1. \A m \in 1 .. Len(T) : T[m].type = "policy" => m = 1
      BY <1>3, <1>4
    <3>2. T \in Seq({Policy, Vendor, Warp, Bundle})
      BY <1>3
    <3> HIDE DEF last
    <3> QED
      BY <2>1, <3>1, <3>2, CountsOnce
  <2>3. Count(T, "warp") \in {0, 1}
    <3>1. \A m \in 1 .. Len(T) : T[m].type = "warp" => m = 3
      BY <1>3, <1>4
    <3>2. T \in Seq({Policy, Vendor, Warp, Bundle})
      BY <1>3
    <3> HIDE DEF last
    <3> QED
      BY <2>1, <3>1, <3>2, CountsOnce
  <2>4. Count(T, "bundle") = 1
    BY <2>1, <1>1, <1>3, <1>4, CountsOnce
  <2> QED
    BY <2>2, <2>3, <2>4
<1>9. Has(T, "warp") <=> opt.warp
  BY <1>1, <1>2, <1>3, <1>4 DEF Has
<1>10. \A k \in DOMAIN T : ~TlvRefused(T[k])
  <2> SUFFICES ASSUME NEW k \in 1 .. last PROVE ~TlvRefused(T[k])
    BY <1>3
  <2>1. k = 1 \/ k = 2 \/ (k = 3 /\ opt.warp) \/ k = last
    BY <1>2
  <2> QED
    BY <2>1, <1>1, <1>3 DEF TlvRefused
<1>11. ~TlvsRefused(T)
  BY <1>8, <1>10 DEF TlvsRefused
<1> QED
  BY <1>5, <1>6, <1>7, <1>8, <1>9, <1>11 DEF T

\* The stream's header is accepted and read as it was written.
LEMMA HeaderAccepted ==
  ASSUME opt \in Options
  PROVE  /\ ~BitstreamHeaderRefused(OptionsHeader) /\ ~DecoderRefuses(OptionsHeader)
         /\ ~ScuRefused(SentScu) /\ ~ParseScuRefused(ScuUnit(SentScu))
         /\ ~HeaderRefused(ReadScu) /\ HeaderOf(ReadScu) = OptionsHeader
<1>1. ~BitstreamHeaderRefused(OptionsHeader) /\ ~DecoderRefuses(OptionsHeader)
  <2>1. ForcedLtrValid(OptionsHeader)
    BY OptionFacts DEF ValidOptions, ForcedLtrValid, OptionsHeader
  <2> QED
    BY <2>1, OptionFacts DEF BitstreamHeaderRefused, DecoderRefuses, OptionsHeader
<1>2. /\ ScuUnit(SentScu).tlvs = StreamTlvs /\ ScuUnit(SentScu).hash = BundleHash
      /\ ScuUnit(SentScu).config = ConfigId
  BY ScuTlvsAre DEF ScuUnit
<1>3. ~ScuRefused(SentScu)
  <2>1. ~Has(SentScu.tlvs, "warp")
    BY ScuTlvsAre DEF Has, Policy, Vendor, Tlv
  <2> QED
    BY <2>1, ScuTlvsAre, StreamTlvFacts DEF ScuRefused, ConfigId, NoHash, BundleHash
<1>4. ~ParseScuRefused(ScuUnit(SentScu))
  BY <1>2, StreamTlvFacts DEF ParseScuRefused, NoHash, BundleHash
<1>5. ReadScu.tlvs = StreamTlvs /\ ReadScu.warp = opt.warp
  <2>1. ReadScu.tlvs = StreamTlvs /\ ReadScu.warp = Has(StreamTlvs, "warp")
    BY <1>2 DEF ReadScu, ParsedScu
  <2>2. Has(StreamTlvs, "warp") \in BOOLEAN /\ opt.warp \in BOOLEAN
    BY OptionFacts DEF Has
  <2> QED
    BY <2>1, <2>2, StreamTlvFacts
<1>6. /\ Policy.value = << Word(opt.gop), Word(opt.reset), Word(opt.ltrStart),
                           Word(opt.ltrPeriod) >>
      /\ Vendor.value = << Word(opt.recovery), Word(opt.reference) >>
  BY DEF Policy, Vendor, Tlv
<1>7. \A v \in {opt.gop, opt.reset, opt.ltrStart, opt.ltrPeriod} :
        ~ValueRefused(Word(v), FALSE) /\ Value(Word(v)) = v
  <2> SUFFICES ASSUME NEW v \in {opt.gop, opt.reset, opt.ltrStart, opt.ltrPeriod}
               PROVE  ~ValueRefused(Word(v), FALSE) /\ Value(Word(v)) = v
    OBVIOUS
  <2>1. v \in -1 .. (IdSpace \div 2) - 1 /\ v >= 0
    BY OptionFacts
  <2> QED
    BY <2>1, WordAndBack
<1>8. \A v \in {opt.recovery, opt.reference} :
        ~ValueRefused(Word(v), TRUE) /\ Value(Word(v)) = v
  BY OptionFacts, WordAndBack
<1>9. ~HeaderRefused(ReadScu)
  <2>1. FindTlv(ReadScu.tlvs, "policy") = Policy.value /\ FindTlv(ReadScu.tlvs, "vendor") = Vendor.value
    BY <1>5, StreamTlvFacts
  <2>2. \A k \in 1 .. 4 : ~ValueRefused(Policy.value[k], FALSE)
    <3> SUFFICES ASSUME NEW k \in 1 .. 4 PROVE ~ValueRefused(Policy.value[k], FALSE)
      OBVIOUS
    <3>1. k \in {1, 2, 3, 4}
      OBVIOUS
    <3>2. Policy.value[k] \in {Word(opt.gop), Word(opt.reset), Word(opt.ltrStart),
                               Word(opt.ltrPeriod)}
      BY <3>1, <1>6
    <3> QED
      BY <3>2, <1>7, Zenon
  <2>3. \A k \in 1 .. 2 : ~ValueRefused(Vendor.value[k], TRUE)
    <3> SUFFICES ASSUME NEW k \in 1 .. 2 PROVE ~ValueRefused(Vendor.value[k], TRUE)
      OBVIOUS
    <3>1. k \in {1, 2}
      OBVIOUS
    <3>2. Vendor.value[k] \in {Word(opt.recovery), Word(opt.reference)}
      BY <3>1, <1>6
    <3> QED
      BY <3>2, <1>8, Zenon
  <2> QED
    BY <2>1, <2>2, <2>3 DEF HeaderRefused
<1>10. HeaderOf(ReadScu) = OptionsHeader
  <2>1. HeaderOf(ReadScu) =
          [warp |-> opt.warp, gop |-> Value(Policy.value[1]), reset |-> Value(Policy.value[2]),
           ltrStart |-> Value(Policy.value[3]), ltrPeriod |-> Value(Policy.value[4]),
           recovery |-> Value(Vendor.value[1]), reference |-> Value(Vendor.value[2])]
    BY <1>5, StreamTlvFacts DEF HeaderOf
  <2> QED
    BY <2>1, <1>6, <1>7, <1>8 DEF OptionsHeader
<1> QED
  BY <1>1, <1>3, <1>4, <1>9, <1>10

\* Numbers below half of the space compare as they are.
LEMMA SerialOrder ==
  ASSUME NEW a \in 0 .. (IdSpace \div 2) - 1, NEW b \in 0 .. a - 1
  PROVE  Newer(a, b) /\ b # NoReference /\ a # NoReference
<1>1. /\ a - b \in 0 .. IdSpace - 1 /\ a - b \in Nat /\ a - b = IdSpace * 0 + (a - b)
      /\ a - b # 0 /\ a - b < IdSpace \div 2
  BY IdFacts
<1>2. (a - b) % IdSpace = a - b
  BY <1>1, IdFacts, Quotient
<1> QED
  BY <1>1, <1>2, IdFacts DEF Newer, NoReference

\* Translation warp has no long-term frames.
LEMMA NoCache ==
  ASSUME opt \in Options, opt.warp, NEW n
  PROVE  CacheBefore(n) = {} /\ CacheAfter(n) = {} /\ ~Marks(n)
<1>1. \A i : ~Marks(i)
  BY OptionFacts DEF Marks, ShouldSaveLtrFeatures
<1> QED
  BY <1>1 DEF CacheBefore, CacheAfter

\* The checks of writer and reader accept a frame that is described.
LEMMA DescribedIsAccepted ==
  ASSUME opt \in Options, NEW e, Described(e)
  PROVE  ~EfuRefused(e) /\ ~WarpRefused(e, opt.warp)
<1>1. e.id \in 0 .. (IdSpace \div 2) - 1 /\ opt.warp \in BOOLEAN
  BY OptionFacts, IdFacts DEF Described
<1>2. opt.warp => e.type # "LTR" /\ ("reset" \in e.flags => e.type = "I")
  <2>1. opt.warp => Scheduled(e)
    BY DEF Described
  <2> QED
    BY <2>1, NoCache DEF Scheduled
<1>3. ~WarpRefused(e, opt.warp)
  BY <1>1, <1>2 DEF Described, WarpRefused
<1>4. ("warp" \in e.flags) = opt.warp
  BY <1>1 DEF Described
<1>5. e.id # NoReference /\ ConfigId # 0
  BY <1>1, IdFacts DEF NoReference, ConfigId
<1>6. ~ReferenceIdsRefused(e)
  <2>1. CASE e.type = "P" /\ "reset" \notin e.flags
    <3>1. e.short \in 0 .. e.id - 1 /\ e.long = NoReference
      BY <1>1, <2>1 DEF Described
    <3>2. Newer(e.id, e.short) /\ e.short # NoReference
      BY <1>1, <3>1, SerialOrder
    <3> QED
      BY <2>1, <3>1, <3>2 DEF ReferenceIdsRefused, Described
  <2>2. CASE e.type = "LTR"
    <3>1. e.long \in 0 .. e.id - 1 /\ e.short = NoReference
      BY <1>1, <2>2 DEF Described
    <3>2. Newer(e.id, e.long) /\ e.long # NoReference
      BY <1>1, <3>1, SerialOrder
    <3> QED
      BY <2>2, <3>1, <3>2 DEF ReferenceIdsRefused, Described
  <2>3. CASE e.type = "I" \/ (e.type = "P" /\ "reset" \in e.flags)
    BY <2>3 DEF ReferenceIdsRefused, Described
  <2> QED
    BY <2>1, <2>2, <2>3 DEF Described
<1>7. ~WarpRefused(e, "warp" \in e.flags)
  BY <1>3, <1>4
<1>8. e.config # 0 /\ "discardable" \notin e.flags
  BY <1>5 DEF Described
<1> QED
  BY <1>3, <1>5, <1>6, <1>7, <1>8 DEF EfuRefused

\* A byte of a kernel offset is read with its sign.
LEMMA SignedAgain ==
  ASSUME NEW v \in -128 .. 127
  PROVE  SignedByte(v % 256) = v
<1>1. CASE v >= 0
  BY <1>1 DEF SignedByte
<1>2. CASE v < 0
  BY <1>2 DEF SignedByte
<1> QED
  BY <1>1, <1>2

LEMMA LastOfThree ==
  ASSUME NEW a, NEW b, NEW c
  PROVE  SubSeq(<< a, b, c >>, 3, 3) = << c >>
<1> DEFINE s == << a, b, c >>
<1>1. s \in Seq({a, b, c}) /\ Len(s) = 3 /\ s[3] = c
  OBVIOUS
<1> HIDE DEF s
<1>2. SubSeq(s, 3, 3) \in Seq({a, b, c}) /\ Len(SubSeq(s, 3, 3)) = 1 /\ SubSeq(s, 3, 3)[1] = s[3]
  BY <1>1
<1>3. SubSeq(s, 3, 3) = << c >>
  <2> DEFINE t == SubSeq(s, 3, 3)
  <2>1. t \in Seq({a, b, c}) /\ Len(t) = 1 /\ t[1] = c
    BY <1>1, <1>2
  <2> HIDE DEF t
  <2>2. t = << c >>
    BY <2>1
  <2> QED
    BY <2>2 DEF t
<1> QED
  BY <1>3 DEF s

\* The reader takes the geometry off the payload.
LEMMA GeometryRead ==
  ASSUME NEW u, HasGeometry(u), u.payload = << u.payload[1], u.payload[2], u.payload[3] >>
  PROVE  /\ ParsedEfu(u).kx = SignedByte(u.payload[1])
         /\ ParsedEfu(u).ky = SignedByte(u.payload[2])
         /\ ParsedEfu(u).payload = << u.payload[3] >>
<1>1. Len(u.payload) = 3
  OBVIOUS
<1>2. SubSeq(<< u.payload[1], u.payload[2], u.payload[3] >>, 3, 3) = << u.payload[3] >>
  BY LastOfThree, Zenon
<1>3. SubSeq(u.payload, 3, Len(u.payload)) = << u.payload[3] >>
  BY <1>1, <1>2
<1> QED
  BY <1>3 DEF ParsedEfu

\* A frame's unit is accepted, and read as the frame that was written.
LEMMA UnitAccepted ==
  ASSUME opt \in Options, NEW e, Described(e)
  PROVE  LET u == EfuUnit(e)
             f == ParsedEfu(u)
         IN  /\ ~ParseEfuRefused(u) /\ Described(f) /\ ~WarpRefused(f, opt.warp)
             /\ u.id = e.id /\ u.type = e.type /\ u.flags = e.flags \cup {"crc"}
             /\ u.short = e.short /\ u.long = e.long
<1> DEFINE u == EfuUnit(e)
           f == ParsedEfu(u)
           p == e.payload[1]
<1>1. /\ u.config = e.config /\ u.id = e.id /\ u.type = e.type /\ u.flags = e.flags \cup {"crc"}
      /\ u.short = e.short /\ u.long = e.long
      /\ u.payload = WirePayload(e) /\ u.crc = u.payload
  BY DEF EfuUnit
<1>2. HasGeometry(u) = HasGeometry(e)
  BY <1>1 DEF HasGeometry
<1>3. /\ f.config = e.config /\ f.id = e.id /\ f.type = e.type /\ f.flags = e.flags \cup {"crc"}
      /\ f.short = e.short /\ f.long = e.long
  BY <1>1 DEF ParsedEfu
<1>4. /\ e.payload = << p >> /\ e.kx \in -128 .. 127 /\ e.ky \in -128 .. 127
      /\ ~HasGeometry(e) => e.kx = 0 /\ e.ky = 0
  <2>1. ~HasGeometry(e) => ~opt.warp \/ e.type = "I" \/ e.type = "LTR"
    BY DEF HasGeometry, Described
  <2>2. e.type = "LTR" => ~opt.warp
    BY NoCache DEF Described, Scheduled
  <2>3. e.payload = << p >> /\ e.kx \in -128 .. 127 /\ e.ky \in -128 .. 127
        /\ (~opt.warp \/ e.type = "I" => e.kx = 0 /\ e.ky = 0)
    BY DEF Described
  <2> QED
    BY <2>1, <2>2, <2>3
<1>5. f.kx = e.kx /\ f.ky = e.ky /\ f.payload = << p >> /\ (HasGeometry(u) => Len(u.payload) >= 2)
  <2>1. CASE HasGeometry(e)
    <3>1. u.payload = << e.kx % 256, e.ky % 256, p >>
      <4>1. WirePayload(e) = << e.kx % 256, e.ky % 256 >> \o e.payload
        <5> HIDE DEF u, f, p
        <5> QED
          BY <2>1 DEF WirePayload
      <4>2. u.payload = << e.kx % 256, e.ky % 256 >> \o << p >>
        BY <4>1, <1>1, <1>4, Zenon
      <4>3. ASSUME NEW x, NEW y PROVE << x, y >> \o << p >> = << x, y, p >>
        BY ThreeTogether
      <4> HIDE DEF u, p
      <4> QED
        BY <4>2, <4>3
    <3>2. /\ u.payload[1] = e.kx % 256 /\ u.payload[2] = e.ky % 256 /\ Len(u.payload) = 3
          /\ SubSeq(u.payload, 3, 3) = << p >>
      BY <3>1, LastOfThree
    <3>3. f.kx = SignedByte(e.kx % 256) /\ f.ky = SignedByte(e.ky % 256) /\ f.payload = << p >>
      <4>1. HasGeometry(u)
        BY <1>2, <2>1, Zenon
      <4>2. f = ParsedEfu(u)
        OBVIOUS
      <4> HIDE DEF u, f, p
      <4>3. u.payload = << u.payload[1], u.payload[2], u.payload[3] >>
        BY <3>1
      <4>4. u.payload[1] = e.kx % 256 /\ u.payload[2] = e.ky % 256 /\ u.payload[3] = p
        BY <3>1
      <4>5. /\ ParsedEfu(u).kx = SignedByte(u.payload[1])
            /\ ParsedEfu(u).ky = SignedByte(u.payload[2])
            /\ ParsedEfu(u).payload = << u.payload[3] >>
        BY <4>1, <4>3, GeometryRead, Zenon
      <4> QED
        BY <4>2, <4>4, <4>5
    <3>4. SignedByte(e.kx % 256) = e.kx /\ SignedByte(e.ky % 256) = e.ky
      BY <1>4, SignedAgain, Zenon
    <3> QED
      BY <3>2, <3>3, <3>4
  <2>2. CASE ~HasGeometry(e)
    <3>1. u.payload = << p >>
      BY <1>1, <1>4, <2>2 DEF WirePayload
    <3>2. f.kx = 0 /\ f.ky = 0 /\ f.payload = u.payload
      BY <1>2, <2>2 DEF ParsedEfu
    <3> QED
      BY <1>2, <1>4, <2>2, <3>1, <3>2
  <2> QED
    BY <2>1, <2>2
<1> HIDE DEF u, f
<1>6. From(f) = From(e)
  BY <1>3 DEF From
<1>7. Scheduled(e) => Scheduled(f)
  BY <1>3 DEF Scheduled
<1>8. f.payload[1] = p /\ f.payload = << f.payload[1] >>
  BY <1>5
<1>9. Described(f)
  BY <1>3, <1>4, <1>5, <1>6, <1>7, <1>8 DEF Described
<1>10. ~EfuRefused(f) /\ ~WarpRefused(f, opt.warp)
  BY <1>9, DescribedIsAccepted
<1>11. ~ParseEfuRefused(u)
  BY <1>1, <1>5, <1>10 DEF ParseEfuRefused, f
<1> QED
  BY <1>1, <1>9, <1>10, <1>11 DEF u, f

-----------------------------------------------------------------------------
(* The commands of the peer.                                               *)

\* The members of a set of places can be listed in order.
LEMMA InOrder ==
  ASSUME NEW n \in Nat, NEW K \in SUBSET (1 .. n)
  PROVE  /\ Cardinality(K) \in Nat
         /\ \E f \in [1 .. Cardinality(K) -> K] : \A a, b \in DOMAIN f : a < b => f[a] < f[b]
<1> DEFINE Listed(S) ==
             \E f \in [1 .. Cardinality(S) -> S] : \A a, b \in DOMAIN f : a < b => f[a] < f[b]
           Bad == {m \in Nat : \E S \in SUBSET (1 .. m) : ~Listed(S)}
<1>1. \A m \in Nat : \A S \in SUBSET (1 .. m) : IsFiniteSet(S) /\ Cardinality(S) \in Nat
  <2> SUFFICES ASSUME NEW m \in Nat, NEW S \in SUBSET (1 .. m)
               PROVE  IsFiniteSet(S) /\ Cardinality(S) \in Nat
    OBVIOUS
  <2>1. IsFiniteSet(1 .. m)
    BY FS_Interval
  <2>2. IsFiniteSet(S)
    BY <2>1, FS_Subset
  <2> QED
    BY <2>2, FS_CardinalityType
<1>2. SUFFICES Bad = {}
  <2>1. ASSUME Bad = {} PROVE Listed(K)
    <3> HIDE DEF Listed
    <3> QED
      BY <2>1
  <2> QED
    BY <1>1, <2>1, <1>2
<1>3. SUFFICES ASSUME Bad # {} PROVE FALSE
  OBVIOUS
<1>4. PICK m \in Bad : \A j \in Bad : m <= j
  <2>1. Bad \in SUBSET Nat
    OBVIOUS
  <2> HIDE DEF Bad
  <2> QED
    BY <1>3, <2>1, LeastNumber
<1>5. PICK S \in SUBSET (1 .. m) : ~Listed(S)
  BY <1>4
<1>6. m \in Nat /\ IsFiniteSet(S) /\ Cardinality(S) \in Nat
  BY <1>1, <1>4
<1>7. S # {}
  <2>1. ASSUME S = {} PROVE FALSE
    <3>1. Cardinality(S) = 0
      BY <2>1, FS_EmptySet
    <3>2. 1 .. Cardinality(S) = {}
      BY <3>1
    <3>3. [x \in {} |-> x] \in [1 .. Cardinality(S) -> S]
      BY <3>2
    <3>4. Listed(S)
      BY <3>2, <3>3
    <3> QED
      BY <3>4, <1>5
  <2> QED
    BY <2>1
<1>8. m # 0 /\ m - 1 \in Nat /\ ~(m <= m - 1)
  <2>1. PICK x \in S : TRUE
    BY <1>7
  <2>2. x \in 1 .. m
    BY <2>1
  <2> QED
    BY <1>6, <2>2
<1> DEFINE R == S \ {m}
<1>9. R \in SUBSET (1 .. m - 1)
  BY <1>6
<1>10. Listed(R)
  <2>1. m - 1 \notin Bad
    BY <1>4, <1>8
  <2> HIDE DEF Listed
  <2> QED
    BY <2>1, <1>8, <1>9
<1>11. PICK f \in [1 .. Cardinality(R) -> R] : \A a, b \in DOMAIN f : a < b => f[a] < f[b]
  BY <1>10
<1>12. m \in S
  <2>1. ASSUME m \notin S PROVE FALSE
    <3>1. R = S
      BY <2>1
    <3> HIDE DEF Listed, R
    <3> QED
      BY <3>1, <1>5, <1>10
  <2> QED
    BY <2>1
<1> DEFINE c == Cardinality(R)
<1>13. c \in Nat /\ Cardinality(S) = c + 1
  <2>1. Cardinality(R) \in Nat
    BY <1>1, <1>8, <1>9
  <2>2. Cardinality(R) = Cardinality(S) - 1
    BY <1>6, <1>12, FS_RemoveElement
  <2> HIDE DEF R
  <2> QED
    BY <1>6, <2>1, <2>2
<1> HIDE DEF c
<1>14. f \in [1 .. c -> R] /\ \A a, b \in 1 .. c : a < b => f[a] < f[b]
  BY <1>11 DEF c
<1> DEFINE g == [x \in 1 .. c + 1 |-> IF x = c + 1 THEN m ELSE f[x]]
<1>15. g \in [1 .. c + 1 -> S]
  <2>1. \A x \in 1 .. c + 1 : x # c + 1 => x \in 1 .. c
    BY <1>13
  <2>2. \A x \in 1 .. c : f[x] \in S
    BY <1>14
  <2> HIDE DEF R
  <2> QED
    BY <1>12, <2>1, <2>2
<1>16. ASSUME NEW a \in 1 .. c + 1, NEW b \in 1 .. c + 1, a < b PROVE g[a] < g[b]
  <2>1. a \in 1 .. c /\ g[a] = f[a] /\ f[a] \in R
    <3>1. a \in 1 .. c /\ a # c + 1
      BY <1>13, <1>16
    <3>2. g[a] = f[a]
      BY <3>1, <1>16
    <3> QED
      BY <3>1, <3>2, <1>14
  <2>2. CASE b = c + 1
    <3>1. g[b] = m /\ f[a] \in 1 .. m - 1
      BY <1>9, <2>1, <2>2
    <3> QED
      BY <1>6, <2>1, <3>1
  <2>3. CASE b # c + 1
    <3>1. b \in 1 .. c /\ g[b] = f[b]
      BY <1>13, <1>16, <2>3
    <3>2. f[a] < f[b]
      BY <1>14, <1>16, <2>1, <3>1
    <3> QED
      BY <2>1, <3>1, <3>2
  <2> QED
    BY <2>2, <2>3
<1>17. Listed(S)
  BY <1>13, <1>15, <1>16
<1> QED
  BY <1>5, <1>17

\* What is not due is kept in the queue.
LEMMA CommandsKept ==
  ASSUME NEW C, controls \in Seq(C)
  PROVE  NotDue \in Seq(C) /\ (controls = <<>> => NotDue = <<>>)
<1> DEFINE kept == {k \in DOMAIN controls : ~Due(controls[k])}
           order == CHOOSE f \in [1 .. Cardinality(kept) -> kept] :
                      \A a, b \in DOMAIN f : a < b => f[a] < f[b]
<1>1. Len(controls) \in Nat /\ DOMAIN controls = 1 .. Len(controls)
      /\ \A k \in 1 .. Len(controls) : controls[k] \in C
  OBVIOUS
<1>2. kept \in SUBSET (1 .. Len(controls))
  BY <1>1
<1>3. NotDue = [n \in 1 .. Cardinality(kept) |-> controls[order[n]]]
  BY Zenon DEF NotDue
<1> HIDE DEF kept
<1>4. /\ Cardinality(kept) \in Nat
      /\ \E f \in [1 .. Cardinality(kept) -> kept] : \A a, b \in DOMAIN f : a < b => f[a] < f[b]
  BY <1>1, <1>2, InOrder
<1>5. order \in [1 .. Cardinality(kept) -> kept]
  BY <1>4, Zenon
<1> HIDE DEF order
<1>6. NotDue \in Seq(C)
  <2>1. \A n \in 1 .. Cardinality(kept) : order[n] \in 1 .. Len(controls)
    BY <1>2, <1>5
  <2>2. \A n \in 1 .. Cardinality(kept) : controls[order[n]] \in C
    BY <1>1, <2>1
  <2> QED
    BY <1>3, <1>4, <2>2
<1>7. ASSUME controls = <<>> PROVE NotDue = <<>>
  <2>1. kept = {}
    BY <1>2, <1>7
  <2>2. Cardinality(kept) = 0
    BY <2>1, FS_EmptySet
  <2>3. 1 .. Cardinality(kept) = {}
    BY <2>2
  <2> QED
    BY <1>3, <2>3
<1> QED
  BY <1>6, <1>7

\* What the assumption says of a command.
LEMMA CommandFacts ==
  ASSUME Typed, NEW k \in DOMAIN controls
  PROVE  controls[k] \in CommandTypes /\ controls[k].gop \in Int
<1>1. controls[k] \in Commands[opt.warp]
  BY DEF Typed
<1>2. opt.warp \in BOOLEAN
  BY OptionFacts DEF Typed
<1>3. controls[k] \in CommandTypes
  BY <1>1, <1>2, ReferenceAssumption
<1> QED
  BY <1>3 DEF CommandTypes

\* Only commands change the GOP, and not with translation warp.
LEMMA Override ==
  ASSUME Typed
  PROVE  /\ OverrideAfter \in Int
         /\ controls = <<>> \/ opt.warp => OverrideAfter = gopOverride
<1> DEFINE gops == {k \in DOMAIN controls : /\ Due(controls[k]) /\ Accepted(controls[k])
                                            /\ controls[k].gop # NoGop}
<1>1. OverrideAfter = IF gops = {} THEN gopOverride ELSE controls[Max(gops)].gop
  BY Zenon DEF OverrideAfter
<1>2. Len(controls) \in Nat /\ DOMAIN controls = 1 .. Len(controls) /\ gopOverride \in Int
  BY DEF Typed
<1>3. gops \in SUBSET (0 .. Len(controls)) /\ gops \subseteq DOMAIN controls
  BY <1>2
<1>4. ASSUME controls = <<>> \/ opt.warp PROVE gops = {}
  <2>1. ASSUME opt.warp, NEW k \in gops PROVE FALSE
    BY <2>1 DEF Accepted, ChangesGop
  <2> QED
    BY <1>2, <1>4, <2>1
<1> HIDE DEF gops
<1>5. gops # {} => Max(gops) \in gops
  BY <1>2, <1>3, Largest
<1>6. OverrideAfter \in Int
  BY <1>1, <1>2, <1>3, <1>5, CommandFacts
<1> QED
  BY <1>1, <1>4, <1>6

-----------------------------------------------------------------------------
(* What the encoder decides for one frame.                                 *)

Gop == EffectiveGop(OverrideAfter)
Decision == BeginFrame(encodedFrames, Gop, RandomAccessForced)
SteeredBy == steered \/ RandomAccessForced \/ OverrideAfter # gopOverride

\* The schedule of long-term frames, from one frame to the next.
LEMMA CacheStep ==
  ASSUME opt \in Options, NEW n \in Nat
  PROVE  /\ CacheBefore(n) = IF n % opt.gop = 0 THEN {} ELSE CacheAfter(n - 1)
         /\ CacheAfter(n) = CacheBefore(n) \cup (IF Marks(n) THEN {n} ELSE {})
         /\ CacheBefore(n) \subseteq 0 .. n - 1 /\ CacheAfter(n) \subseteq 0 .. n
         /\ CacheAfter(-1) = {}
<1>1. opt.gop \in Nat \ {0}
  BY OptionFacts
<1>2. CacheBefore(n) = IF n % opt.gop = 0 THEN {} ELSE CacheAfter(n - 1)
  <2>1. CASE n = 0
    <3>1. n % opt.gop = 0
      BY <1>1, <2>1
    <3>2. CacheBefore(n) = {}
      BY <2>1 DEF CacheBefore
    <3> QED
      BY <3>1, <3>2
  <2>2. CASE n # 0
    <3>1. n - 1 \in Nat /\ (n - 1) + 1 = n
      BY <2>2
    <3>2. IF n % opt.gop = 0 THEN \A k \in 0 .. n - 1 : k \div opt.gop # n \div opt.gop
          ELSE n \div opt.gop = (n - 1) \div opt.gop
      BY <1>1, <3>1, NextInGop
    <3>3. CASE n % opt.gop = 0
      BY <3>2, <3>3 DEF CacheBefore, SameGop
    <3>4. CASE n % opt.gop # 0
      BY <3>2, <3>4 DEF CacheBefore, CacheAfter, SameGop
    <3> QED
      BY <3>3, <3>4
  <2> QED
    BY <2>1, <2>2
<1>3. CacheAfter(n) = CacheBefore(n) \cup (IF Marks(n) THEN {n} ELSE {})
  <2>1. \A k : k \in 0 .. n <=> k \in 0 .. n - 1 \/ k = n
    OBVIOUS
  <2> QED
    BY <2>1 DEF CacheBefore, CacheAfter, SameGop
<1>4. CacheBefore(n) \subseteq 0 .. n - 1 /\ CacheAfter(n) \subseteq 0 .. n
  BY DEF CacheBefore, CacheAfter
<1>5. CacheAfter(-1) = {}
  BY DEF CacheAfter
<1> QED
  BY <1>2, <1>3, <1>4, <1>5

\* What BeginFrame decides, in any state.
LEMMA DecisionFacts ==
  ASSUME Typed, EncoderInv
  PROVE  /\ Gop \in Nat \ {0} /\ encodedFrames \in Nat
         /\ Decision.isI <=> RandomAccessForced \/ encodedFrames % Gop = 0
         /\ Decision.mark <=> ShouldSaveLtrFeatures(encodedFrames % Gop, opt.ltrStart, opt.ltrPeriod)
         /\ Decision.forced <=> encodedFrames = opt.recovery
         /\ Decision.ltr = IF Decision.isI THEN {} ELSE ltrFeatures
         /\ Decision.ltr \subseteq 0 .. encodedFrames - 1
         /\ Decision.reset <=> ResetsReference(encodedFrames, Gop, Decision.isI)
         /\ Decision.type = IF Decision.isI THEN "I"
                            ELSE IF Decision.ltr # {} /\ (Decision.forced \/ Decision.mark)
                            THEN "LTR" ELSE "P"
         /\ encodedFrames = 0 => Decision.isI
         /\ Decision.isI /\ Untouched => Decision.reset
         /\ Decision.isI /\ opt.warp => Decision.reset
         /\ Untouched => ~RandomAccessForced
         /\ opt.warp \/ opt.transport # "rtp" => ~SteeredBy
<1>1. /\ opt.gop \in Nat \ {0} /\ encodedFrames \in Nat /\ OverrideAfter \in Int
      /\ ltrFeatures \subseteq 0 .. encodedFrames - 1
  <2>1. Bounds[opt.warp].frames \in Nat /\ opt.gop \in Nat \ {0}
    BY OptionFacts DEF Typed
  <2>2. OverrideAfter \in Int
    BY Override
  <2> QED
    BY <2>1, <2>2 DEF Typed, EncoderInv
<1>2. Gop \in Nat \ {0}
  BY <1>1 DEF Gop, EffectiveGop
<1>3. /\ Decision.isI <=> RandomAccessForced \/ encodedFrames % Gop = 0
      /\ Decision.mark <=> ShouldSaveLtrFeatures(encodedFrames % Gop, opt.ltrStart, opt.ltrPeriod)
      /\ Decision.forced <=> encodedFrames = opt.recovery
      /\ Decision.ltr = IF Decision.isI THEN {} ELSE ltrFeatures
      /\ Decision.reset <=> ResetsReference(encodedFrames, Gop, Decision.isI)
      /\ Decision.type = IF Decision.isI THEN "I"
                         ELSE IF Decision.ltr # {} /\ (Decision.forced \/ Decision.mark)
                         THEN "LTR" ELSE "P"
  BY DEF Decision, BeginFrame, IsMlvcIFrame
<1>4. encodedFrames = 0 => Decision.isI
  BY <1>2, <1>3
<1>5. Untouched => ~RandomAccessForced
  BY DEF Untouched, RandomAccessForced, Typed
<1>6. Decision.isI /\ Untouched => Decision.reset
  BY <1>3, <1>5 DEF ResetsReference, ShouldResetReferenceFeature, IsMlvcIFrame
<1>7. Decision.isI /\ opt.warp => Decision.reset
  BY <1>3 DEF ResetsReference
<1>8. opt.warp \/ opt.transport # "rtp" => ~SteeredBy
  <2>1. opt.warp \/ opt.transport # "rtp" => OverrideAfter = gopOverride
    BY Override DEF Typed
  <2>2. opt.warp \/ opt.transport # "rtp" => Untouched
    BY DEF Untouched, Typed
  <2> QED
    BY <2>1, <2>2, <1>5 DEF SteeredBy, EncoderInv
<1>9. Decision.ltr \subseteq 0 .. encodedFrames - 1
  BY <1>1, <1>3
<1> QED
  BY <1>1, <1>2, <1>3, <1>4, <1>5, <1>6, <1>7, <1>8, <1>9

\* As long as the peer has not steered the stream, it follows its schedule.
LEMMA DecisionScheduled ==
  ASSUME Typed, EncoderInv, ~SteeredBy
  PROVE  /\ Gop = opt.gop
         /\ Decision.isI <=> encodedFrames % opt.gop = 0
         /\ Decision.mark <=> Marks(encodedFrames)
         /\ Decision.ltr = CacheBefore(encodedFrames)
<1>1. Gop = opt.gop /\ ~RandomAccessForced /\ ltrFeatures = CacheAfter(encodedFrames - 1)
  BY DEF SteeredBy, Gop, EffectiveGop, EncoderInv
<1>2. /\ Decision.isI <=> RandomAccessForced \/ encodedFrames % Gop = 0
      /\ Decision.mark <=> ShouldSaveLtrFeatures(encodedFrames % Gop, opt.ltrStart, opt.ltrPeriod)
      /\ Decision.ltr = IF Decision.isI THEN {} ELSE ltrFeatures
      /\ encodedFrames \in Nat
  BY DecisionFacts
<1>3. CacheBefore(encodedFrames) = IF encodedFrames % opt.gop = 0 THEN {}
                                   ELSE CacheAfter(encodedFrames - 1)
  BY <1>2, CacheStep DEF Typed
<1> QED
  BY <1>1, <1>2, <1>3 DEF Marks

\* The saved frame is there when a warp stream resets between two I-frames.
LEMMA SavedForReset ==
  ASSUME Typed, EncoderInv, opt.warp, Decision.reset, ~Decision.isI
  PROVE  savedFrame = encodedFrames - 1 /\ encodedFrames # 0 /\ encodedFrames % opt.reset = 0
<1>1. ~SteeredBy /\ encodedFrames # 0 /\ encodedFrames \in Nat
  BY DecisionFacts
<1>2. encodedFrames % opt.gop # 0
  BY <1>1, DecisionScheduled
<1>3. encodedFrames % opt.reset = 0
  BY DecisionFacts DEF ResetsReference
<1>4. savedFrame = SavedAt(encodedFrames) /\ encodedFrames > 0
  BY <1>1 DEF EncoderInv
<1> QED
  BY <1>1, <1>2, <1>3, <1>4 DEF SavedAt

\* A forced recovery frame is never the first of a GOP, and its reference is kept.
LEMMA ForcedPair ==
  ASSUME opt \in Options, NEW i \in Nat, i = opt.recovery
  PROVE  i % opt.gop # 0 /\ opt.reference \in CacheBefore(i)
<1>1. /\ opt.reference >= 0 /\ opt.reference < i /\ SameGop(opt.reference, i)
      /\ i % opt.gop # 0 /\ Marks(opt.reference)
  BY OptionFacts DEF ValidOptions, ForcedLtrValid, SameGop, Marks
<1>2. opt.reference \in 0 .. i - 1
  BY <1>1, OptionFacts
<1> QED
  BY <1>1, <1>2 DEF CacheBefore

\* So the encoder rejects a frame only when it was steered.
LEMMA NotRejected ==
  ASSUME Typed, EncoderInv, ~SteeredBy
  PROVE  ~EncoderRejects(Decision)
<1> DEFINE d == Decision
           i == encodedFrames
<1>1. /\ d.isI <=> i % opt.gop = 0
      /\ d.ltr = CacheBefore(i)
  BY DecisionScheduled
<1>2. /\ i \in Nat
      /\ d.forced <=> i = opt.recovery
      /\ d.ltr \subseteq 0 .. i - 1
      /\ d.type = IF d.isI THEN "I" ELSE IF d.ltr # {} /\ (d.forced \/ d.mark) THEN "LTR" ELSE "P"
  BY DecisionFacts
<1>3. d.forced => ~d.isI /\ d.ltr # {} /\ opt.reference \in d.ltr
  BY <1>1, <1>2, ForcedPair DEF Typed
<1>4. d.ltr # {} => Max(d.ltr) \in d.ltr
  <2>1. d.ltr \in SUBSET (0 .. i)
    BY <1>2
  <2> HIDE DEF d
  <2> QED
    BY <1>2, <2>1, Largest
<1>5. d.type = "LTR" => LtrReference(d) \in d.ltr
  BY <1>2, <1>3, <1>4 DEF LtrReference
<1>6. opt.warp /\ d.reset /\ ~d.isI => savedFrame # NoFrame
  <2>1. opt.warp /\ d.reset /\ ~d.isI => savedFrame = i - 1 /\ i # 0
    BY SavedForReset
  <2> HIDE DEF d
  <2> QED
    BY <1>2, <2>1 DEF NoFrame
<1> QED
  BY <1>3, <1>5, <1>6 DEF EncoderRejects

\* What the encoder does not reject is described by its metadata.
LEMMA EncodedDescribed ==
  ASSUME Typed, EncoderInv, encodedFrames < Bounds[opt.warp].frames,
         ~EncoderRejects(Decision), NEW t \in TranslationsOf(Decision)
  PROVE  Described(EncodedFrame(encodedFrames, Decision, t))
<1> DEFINE d == Decision
           i == encodedFrames
           e == EncodedFrame(i, d, t)
<1>0. /\ opt \in Options /\ i \in Nat /\ Bounds[opt.warp].frames \in Nat
      /\ opt.warp \in BOOLEAN
  BY OptionFacts, DecisionFacts DEF Typed
<1>1. /\ e.config = ConfigId /\ e.id = i /\ e.type = d.type
      /\ e.flags = (IF d.isI THEN {"ra", "reset"} ELSE {})
                     \cup (IF d.reset /\ (~opt.warp \/ d.isI) THEN {"reset"} ELSE {})
                     \cup (IF d.mark THEN {"store"} ELSE {})
                     \cup (IF opt.warp THEN {"warp"} ELSE {})
      /\ e.short = ShortReference(i, d)
      /\ e.long = IF d.type = "LTR" THEN LtrReference(d) ELSE NoReference
      /\ e.kx = t[1] /\ e.ky = t[2]
      /\ e.payload = << Prediction(EncoderReference(d), t[1], t[2]) >>
  BY DEF EncodedFrame
<1>2. /\ d.forced <=> i = opt.recovery
      /\ d.ltr \subseteq 0 .. i - 1
      /\ d.type = IF d.isI THEN "I" ELSE IF d.ltr # {} /\ (d.forced \/ d.mark) THEN "LTR" ELSE "P"
      /\ i = 0 => d.isI
      /\ d.isI /\ Untouched => d.reset
      /\ d.isI /\ opt.warp => d.reset
      /\ d.reset <=> ResetsReference(i, Gop, d.isI)
      /\ opt.warp \/ opt.transport # "rtp" => ~SteeredBy
  BY DecisionFacts
<1>3. d.type = "LTR" => LtrReference(d) \in d.ltr
  BY DEF EncoderRejects
<1>4. opt.warp => d.type # "LTR"
  <2>1. opt.warp => ~d.forced /\ ~d.mark
    <3>1. opt.warp => ~Marks(i) /\ opt.recovery = -1
      BY <1>0, NoCache, OptionFacts
    <3> HIDE DEF d
    <3>2. opt.warp => ~d.mark
      BY <1>2, <3>1, DecisionScheduled DEF d
    <3> QED
      BY <1>0, <1>2, <3>1, <3>2
  <2> QED
    BY <1>2, <2>1
<1>5. opt.warp /\ d.reset /\ ~d.isI => savedFrame = i - 1 /\ i % opt.reset = 0
  BY SavedForReset
<1>6. t[1] \in -128 .. 127 /\ t[2] \in -128 .. 127 /\ (~opt.warp \/ d.isI => t[1] = 0 /\ t[2] = 0)
  <2>1. CASE opt.warp /\ ~d.isI
    <3>1. t \in Translations
      BY <2>1 DEF TranslationsOf
    <3>2. t \in (-128 .. 127) \X (-128 .. 127)
      BY <3>1, ReferenceAssumption
    <3> QED
      BY <2>1, <3>2
  <2>2. CASE ~(opt.warp /\ ~d.isI)
    <3>1. t = << 0, 0 >>
      BY <2>2 DEF TranslationsOf
    <3> QED
      BY <3>1
  <2> QED
    BY <2>1, <2>2
<1>7. opt.warp \/ opt.transport # "rtp" =>
        /\ Gop = opt.gop
        /\ d.isI <=> i % opt.gop = 0
        /\ d.mark <=> Marks(i)
        /\ d.ltr = CacheBefore(i)
  BY <1>2, DecisionScheduled
<1>8. savedFrame = SavedAt(i) /\ reference = LastOf(i)
  BY DEF EncoderInv
<1> HIDE DEF d, e
<1>9. /\ e.type \in {"I", "P", "LTR"}
      /\ e.type = "I" <=> d.isI
      /\ "reset" \in e.flags <=> d.isI \/ (d.reset /\ ~opt.warp)
      /\ "store" \in e.flags <=> d.mark
      /\ "ra" \in e.flags <=> d.isI
      /\ "warp" \in e.flags <=> opt.warp
      /\ e.flags \subseteq {"ra", "reset", "store", "warp", "crc"}
  BY <1>1, <1>2
<1>10. e.short = IF e.type = "P" /\ "reset" \notin e.flags THEN e.id - 1 ELSE NoReference
  BY <1>1, <1>2, <1>9 DEF ShortReference
<1>11. IF e.type = "LTR" THEN e.long \in 0 .. e.id - 1 ELSE e.long = NoReference
  BY <1>1, <1>2, <1>3
<1>12. opt.recovery = NoFrame /\ e.type = "LTR" => "store" \in e.flags
  BY <1>0, <1>1, <1>2, <1>9 DEF NoFrame
<1>13. e.payload = << e.payload[1] >> /\ e.payload[1] = Prediction(EncoderReference(d), e.kx, e.ky)
  BY <1>1
<1>14. ASSUME Untouched PROVE EncoderReference(d) = From(e)
  <2>1. CASE e.type = "LTR"
    BY <1>1, <2>1 DEF EncoderReference, From
  <2>2. CASE e.type # "LTR" /\ ~opt.warp
    <3>1. CASE d.reset
      BY <1>1, <1>9, <2>2, <3>1 DEF EncoderReference, From
    <3>2. CASE ~d.reset
      <4>1. ~d.isI /\ i # 0
        BY <1>2, <1>14, <3>2
      <4>2. reference = Feature(i - 1)
        BY <1>8, <4>1 DEF LastOf
      <4> QED
        BY <1>1, <1>9, <2>2, <3>2, <4>1, <4>2 DEF EncoderReference, From
    <3> QED
      BY <3>1, <3>2
  <2>3. CASE opt.warp
    <3>0. d.type # "LTR" /\ e.type # "LTR" /\ e.id = i
      BY <1>1, <1>4, <2>3
    <3>1. CASE d.isI
      BY <1>2, <1>9, <2>3, <3>0, <3>1 DEF EncoderReference, From
    <3>2. CASE ~d.isI /\ d.reset
      BY <1>5, <1>9, <2>3, <3>0, <3>2 DEF EncoderReference, From
    <3>3. CASE ~d.isI /\ ~d.reset
      <4>1. reference = Feature(i - 1) /\ i % opt.reset # 0
        BY <1>2, <1>8, <2>3, <3>3 DEF LastOf, ResetsReference
      <4> QED
        BY <1>9, <2>3, <3>0, <3>3, <4>1 DEF EncoderReference, From
    <3> QED
      BY <3>1, <3>2, <3>3
  <2> QED
    BY <2>1, <2>2, <2>3
<1>15. ASSUME opt.warp \/ opt.transport # "rtp" PROVE Scheduled(e)
  <2>1. e.type = "I" <=> e.id % opt.gop = 0
    BY <1>1, <1>7, <1>9, <1>15
  <2>2. "reset" \in e.flags <=> IF opt.warp THEN e.type = "I"
                                ELSE ShouldResetReferenceFeature(e.id, opt.gop, opt.reset)
    <3>1. ~opt.warp => (d.reset <=> ShouldResetReferenceFeature(i, opt.gop, opt.reset))
      BY <1>2, <1>7, <1>15 DEF ResetsReference
    <3>2. d.isI => ShouldResetReferenceFeature(i, opt.gop, opt.reset)
      BY <1>7, <1>15 DEF ShouldResetReferenceFeature, IsMlvcIFrame
    <3> QED
      BY <1>0, <1>1, <1>9, <3>1, <3>2
  <2>3. "store" \in e.flags <=> Marks(e.id)
    BY <1>1, <1>7, <1>9, <1>15
  <2>4. e.type = "LTR" <=> /\ e.id % opt.gop # 0 /\ CacheBefore(e.id) # {}
                           /\ e.id = opt.recovery \/ Marks(e.id)
    BY <1>1, <1>2, <1>7, <1>15
  <2>5. e.type = "LTR" =>
          /\ e.long \in CacheBefore(e.id)
          /\ e.long = IF e.id = opt.recovery THEN opt.reference ELSE Max(CacheBefore(e.id))
    BY <1>1, <1>2, <1>3, <1>7, <1>15 DEF LtrReference
  <2> QED
    BY <2>1, <2>2, <2>3, <2>4, <2>5 DEF Scheduled
<1>16. e.id \in 0 .. Bounds[opt.warp].frames - 1 /\ (e.id = 0 => e.type = "I")
  BY <1>0, <1>1, <1>2, <1>9
<1>17. e.config = ConfigId /\ (e.type = "I" => "reset" \in e.flags)
       /\ ("ra" \in e.flags <=> e.type = "I")
       /\ (Untouched => e.payload[1] = Prediction(From(e), e.kx, e.ky))
  BY <1>1, <1>9, <1>13, <1>14
<1>18. e.kx \in -128 .. 127 /\ e.ky \in -128 .. 127
       /\ (~opt.warp \/ e.type = "I" => e.kx = 0 /\ e.ky = 0)
  BY <1>1, <1>6, <1>9
<1>19. Described(e)
  BY <1>9, <1>10, <1>11, <1>12, <1>13, <1>15, <1>16, <1>17, <1>18 DEF Described
<1> QED
  BY <1>19 DEF d, e

-----------------------------------------------------------------------------
(* Frames in sequence.                                                     *)

LEMMA AppendElements ==
  ASSUME NEW S, NEW s \in Seq(S), NEW x
  PROVE  /\ Append(s, x) \in Seq(ToSet(Append(s, x)))
         /\ Len(Append(s, x)) = Len(s) + 1 /\ Append(s, x)[Len(s) + 1] = x /\ Len(s) \in Nat
         /\ \A k \in 1 .. Len(s) : Append(s, x)[k] = s[k]
         /\ Append(s, x) # <<>>
<1>1. Append(s, x) \in Seq(ToSet(Append(s, x)))
  BY OwnElements
<1>2. /\ Len(Append(s, x)) = Len(s) + 1 /\ Append(s, x)[Len(s) + 1] = x /\ Len(s) \in Nat
      /\ \A k \in 1 .. Len(s) : Append(s, x)[k] = s[k]
  OBVIOUS
<1>3. Append(s, x) # <<>>
  <2>1. Len(<<>>) = 0
    OBVIOUS
  <2> HIDE DEF ToSet
  <2> QED
    BY <1>2, <2>1
<1> QED
  BY <1>1, <1>2, <1>3

\* What is kept of a sequence when a frame comes behind or the first one goes.
LEMMA StoredAppended ==
  ASSUME NEW S, NEW q \in Seq(S), NEW x
  PROVE  /\ NoIFrame(Append(q, x), 1) <=> NoIFrame(q, 1) /\ x.type # "I"
         /\ \A id : StoredIn(Append(q, x), id) <=>
                      \/ x.id = id /\ "store" \in x.flags
                      \/ x.type # "I" /\ StoredIn(q, id)
<1> DEFINE p == Append(q, x)
           n == Len(q)
<1>1. n \in Nat /\ Len(p) = n + 1 /\ p[n + 1] = x /\ \A k \in 1 .. n : p[k] = q[k]
  BY AppendElements
<1> HIDE DEF p
<1>2. \A a, b : a \in 1 .. n + 1 => (b \in a .. n + 1 <=> b \in a .. n \/ b = n + 1)
  BY <1>1
<1>3. ASSUME NEW a \in 1 .. n + 1 PROVE NoIFrame(p, a) <=> NoIFrame(q, a) /\ x.type # "I"
  <2>1. \A m \in a .. n : m \in 1 .. n
    BY <1>1
  <2> QED
    BY <1>1, <1>2, <2>1 DEF NoIFrame
<1>4. NoIFrame(p, n + 2)
  BY <1>1 DEF NoIFrame
<1>5. ASSUME NEW id
      PROVE  StoredIn(p, id) <=> \/ x.id = id /\ "store" \in x.flags
                                 \/ x.type # "I" /\ StoredIn(q, id)
  <2>1. \A j \in 1 .. n : j + 1 \in 1 .. n + 1
    BY <1>1
  <2>2. \A j : j \in 1 .. n + 1 <=> j \in 1 .. n \/ j = n + 1
    BY <1>1
  <2>3. (n + 1) + 1 = n + 2
    BY <1>1
  <2>4. ASSUME NEW j \in 1 .. n
        PROVE  (p[j].id = id /\ "store" \in p[j].flags /\ NoIFrame(p, j + 1))
                 <=> (x.type # "I" /\ q[j].id = id /\ "store" \in q[j].flags /\ NoIFrame(q, j + 1))
    BY <1>1, <1>3, <2>1
  <2>5. (p[n + 1].id = id /\ "store" \in p[n + 1].flags /\ NoIFrame(p, (n + 1) + 1))
          <=> x.id = id /\ "store" \in x.flags
    BY <1>1, <1>4, <2>3
  <2> QED
    BY <1>1, <2>2, <2>4, <2>5 DEF StoredIn
<1>6. NoIFrame(p, 1) <=> NoIFrame(q, 1) /\ x.type # "I"
  BY <1>1, <1>3
<1> QED
  BY <1>5, <1>6 DEF p

LEMMA StoredTail ==
  ASSUME NEW S, NEW q \in Seq(S), q # <<>>
  PROVE  /\ NoIFrame(q, 1) <=> NoIFrame(Tail(q), 1) /\ q[1].type # "I"
         /\ \A id : StoredIn(q, id) <=>
                      \/ StoredIn(Tail(q), id)
                      \/ q[1].id = id /\ "store" \in q[1].flags /\ NoIFrame(Tail(q), 1)
<1> DEFINE p == Tail(q)
           n == Len(p)
<1>1. n \in Nat /\ Len(q) = n + 1 /\ \A k \in 1 .. n : p[k] = q[k + 1]
  BY TailElements
<1> HIDE DEF p
<1>2. ASSUME NEW a \in 1 .. n + 1 PROVE NoIFrame(q, a + 1) <=> NoIFrame(p, a)
  <2>1. ASSUME NoIFrame(p, a), NEW m \in a + 1 .. n + 1 PROVE q[m].type # "I"
    <3>1. m - 1 \in a .. n /\ m - 1 \in 1 .. n /\ (m - 1) + 1 = m
      BY <1>1
    <3> QED
      BY <1>1, <2>1, <3>1 DEF NoIFrame
  <2>2. ASSUME NoIFrame(q, a + 1), NEW m \in a .. n PROVE p[m].type # "I"
    <3>1. m \in 1 .. n /\ m + 1 \in a + 1 .. n + 1
      BY <1>1
    <3> QED
      BY <1>1, <2>2, <3>1 DEF NoIFrame
  <2> QED
    BY <1>1, <2>1, <2>2 DEF NoIFrame
<1>3. NoIFrame(q, 2) <=> NoIFrame(p, 1)
  <2>1. 1 \in 1 .. n + 1 /\ 1 + 1 = 2
    BY <1>1
  <2> QED
    BY <1>2, <2>1
<1>4. NoIFrame(q, 1) <=> NoIFrame(q, 2) /\ q[1].type # "I"
  <2>1. \A m : m \in 1 .. n + 1 <=> m \in 2 .. n + 1 \/ m = 1
    BY <1>1
  <2> QED
    BY <1>1, <2>1 DEF NoIFrame
<1>5. ASSUME NEW id
      PROVE  StoredIn(q, id) <=>
               \/ StoredIn(p, id)
               \/ q[1].id = id /\ "store" \in q[1].flags /\ NoIFrame(p, 1)
  <2>1. ASSUME NEW j \in 1 .. n
        PROVE  (p[j].id = id /\ "store" \in p[j].flags /\ NoIFrame(p, j + 1))
                 <=> (q[j + 1].id = id /\ "store" \in q[j + 1].flags /\ NoIFrame(q, (j + 1) + 1))
    <3>1. j + 1 \in 1 .. n + 1
      BY <1>1
    <3> QED
      BY <1>1, <1>2, <3>1
  <2>2. ASSUME NEW j \in 1 .. n + 1, j # 1 PROVE j - 1 \in 1 .. n /\ (j - 1) + 1 = j
    BY <1>1, <2>2
  <2>3. \A j \in 1 .. n : j + 1 \in 1 .. n + 1
    BY <1>1
  <2>4. 1 \in 1 .. n + 1 /\ 1 + 1 = 2
    BY <1>1
  <2>5. ASSUME StoredIn(q, id)
        PROVE  \/ StoredIn(p, id)
               \/ q[1].id = id /\ "store" \in q[1].flags /\ NoIFrame(p, 1)
    <3>1. PICK j \in 1 .. n + 1 : q[j].id = id /\ "store" \in q[j].flags /\ NoIFrame(q, j + 1)
      BY <1>1, <2>5 DEF StoredIn
    <3>2. CASE j = 1
      BY <1>3, <2>4, <3>1, <3>2
    <3>3. CASE j # 1
      <4>1. j - 1 \in 1 .. n /\ (j - 1) + 1 = j
        BY <2>2, <3>3
      <4>2. p[j - 1].id = id /\ "store" \in p[j - 1].flags /\ NoIFrame(p, (j - 1) + 1)
        BY <2>1, <3>1, <4>1
      <4> QED
        BY <4>1, <4>2 DEF StoredIn
    <3> QED
      BY <3>2, <3>3
  <2>6. ASSUME StoredIn(p, id) PROVE StoredIn(q, id)
    <3>1. PICK j \in 1 .. n : p[j].id = id /\ "store" \in p[j].flags /\ NoIFrame(p, j + 1)
      BY <2>6 DEF StoredIn
    <3> QED
      BY <1>1, <2>1, <2>3, <3>1 DEF StoredIn
  <2>7. ASSUME q[1].id = id /\ "store" \in q[1].flags /\ NoIFrame(p, 1) PROVE StoredIn(q, id)
    BY <1>1, <1>3, <2>4, <2>7 DEF StoredIn
  <2> QED
    BY <2>5, <2>6, <2>7
<1> QED
  BY <1>3, <1>4, <1>5 DEF p

\* The same of a frame's long-term reference.
LEMMA ReachAppended ==
  ASSUME NEW S, NEW q \in Seq(S), NEW x
  PROVE  /\ \A k \in 1 .. Len(q) + 1 :
              /\ NoNewer(Append(q, x), k) <=> NoNewer(q, k)
              /\ \A id : OnTheWay(Append(q, x), id, k) <=> OnTheWay(q, id, k)
         /\ Plain(x) => /\ NoNewer(q, Len(q) + 1) => NoNewer(Append(q, x), Len(q) + 2)
                        /\ \A id : OnTheWay(q, id, Len(q) + 1)
                                     => OnTheWay(Append(q, x), id, Len(q) + 2)
         /\ "store" \in x.flags => OnTheWay(Append(q, x), x.id, Len(q) + 2)
<1> DEFINE p == Append(q, x)
           n == Len(q)
<1>1. n \in Nat /\ Len(p) = n + 1 /\ p[n + 1] = x /\ \A k \in 1 .. n : p[k] = q[k]
  BY AppendElements
<1> HIDE DEF p
<1>2. ASSUME NEW k \in 1 .. n + 1
      PROVE  /\ NoNewer(p, k) <=> NoNewer(q, k)
             /\ \A id : OnTheWay(p, id, k) <=> OnTheWay(q, id, k)
  <2>1. \A m \in 1 .. k - 1 : p[m] = q[m]
    BY <1>1
  <2>2. \A j \in 1 .. k - 1 : \A m \in j + 1 .. k - 1 : m \in 1 .. k - 1
    BY <1>1
  <2> QED
    BY <2>1, <2>2 DEF NoNewer, OnTheWay
<1>3. /\ (n + 2) - 1 = n + 1 /\ (n + 1) - 1 = n /\ n + 1 \in 1 .. n + 1
      /\ \A m : m \in 1 .. n + 1 <=> m \in 1 .. n \/ m = n + 1
      /\ \A j \in 1 .. n : \A m : m \in j + 1 .. n + 1 <=> m \in j + 1 .. n \/ m = n + 1
      /\ \A j \in 1 .. n : \A m \in j + 1 .. n : m \in 1 .. n
      /\ \A m : m \notin (n + 1) + 1 .. n + 1
  BY <1>1
<1>4. Plain(x) /\ NoNewer(q, n + 1) => NoNewer(p, n + 2)
  BY <1>1, <1>3 DEF NoNewer
<1>5. ASSUME Plain(x), NEW id, OnTheWay(q, id, n + 1) PROVE OnTheWay(p, id, n + 2)
  <2>1. PICK j \in 1 .. n : /\ q[j].id = id /\ "store" \in q[j].flags
                            /\ \A m \in j + 1 .. n : Plain(q[m])
    BY <1>3, <1>5 DEF OnTheWay
  <2>2. j \in 1 .. n + 1 /\ p[j] = q[j] /\ \A m \in j + 1 .. n + 1 : Plain(p[m])
    BY <1>1, <1>3, <1>5, <2>1
  <2> QED
    BY <1>3, <2>1, <2>2 DEF OnTheWay
<1>6. "store" \in x.flags => OnTheWay(p, x.id, n + 2)
  BY <1>1, <1>3 DEF OnTheWay
<1> QED
  BY <1>2, <1>4, <1>5, <1>6 DEF p

LEMMA ReachTail ==
  ASSUME NEW S, NEW q \in Seq(S), q # <<>>, NEW k \in 1 .. Len(q)
  PROVE  /\ NoNewer(q, k + 1) <=> NoNewer(Tail(q), k) /\ Plain(q[1])
         /\ \A id : OnTheWay(q, id, k + 1) =>
                      \/ OnTheWay(Tail(q), id, k)
                      \/ q[1].id = id /\ "store" \in q[1].flags /\ NoNewer(Tail(q), k)
<1> DEFINE p == Tail(q)
           n == Len(p)
<1>1. n \in Nat /\ Len(q) = n + 1 /\ \A m \in 1 .. n : p[m] = q[m + 1]
  BY TailElements
<1> HIDE DEF p
<1>2. k \in 1 .. n + 1 /\ (k + 1) - 1 = k
  BY <1>1
<1>3. ASSUME NEW j \in 1 .. k, \A m \in j + 1 .. k : Plain(q[m])
      PROVE  \A m \in j .. k - 1 : Plain(p[m])
  <2> TAKE m \in j .. k - 1
  <2>1. m \in 1 .. n /\ m + 1 \in j + 1 .. k
    BY <1>1, <1>2
  <2> QED
    BY <1>1, <1>3, <2>1
<1>4. NoNewer(q, k + 1) => NoNewer(p, k) /\ Plain(q[1])
  <2>1. 1 \in 1 .. k /\ \A m \in 1 + 1 .. k : m \in 1 .. k
    BY <1>2
  <2> QED
    BY <1>2, <1>3, <2>1 DEF NoNewer
<1>5. ASSUME NoNewer(p, k), Plain(q[1]), NEW m \in 1 .. k PROVE Plain(q[m])
  <2>1. CASE m # 1
    <3>1. m - 1 \in 1 .. k - 1 /\ m - 1 \in 1 .. n /\ (m - 1) + 1 = m
      BY <1>1, <1>2, <2>1
    <3> QED
      BY <1>1, <1>5, <3>1 DEF NoNewer
  <2> QED
    BY <1>5, <2>1
<1>6. ASSUME NEW id, OnTheWay(q, id, k + 1)
      PROVE  \/ OnTheWay(p, id, k)
             \/ q[1].id = id /\ "store" \in q[1].flags /\ NoNewer(p, k)
  <2>1. PICK j \in 1 .. k : /\ q[j].id = id /\ "store" \in q[j].flags
                            /\ \A m \in j + 1 .. k : Plain(q[m])
    BY <1>2, <1>6 DEF OnTheWay
  <2>2. \A m \in j .. k - 1 : Plain(p[m])
    BY <1>3, <2>1
  <2>3. CASE j = 1
    BY <2>1, <2>2, <2>3 DEF NoNewer
  <2>4. CASE j # 1
    <3>1. j - 1 \in 1 .. k - 1 /\ j - 1 \in 1 .. n /\ (j - 1) + 1 = j
      BY <1>1, <1>2, <2>4
    <3>2. p[j - 1] = q[j]
      BY <1>1, <3>1
    <3> QED
      BY <2>1, <2>2, <3>1, <3>2 DEF OnTheWay
  <2> QED
    BY <2>3, <2>4
<1> QED
  BY <1>2, <1>4, <1>5, <1>6 DEF p, NoNewer

\* What a frame's reference is reached by once the frame before it is decoded.
LEMMA ReachableTail ==
  ASSUME NEW S, NEW q \in Seq(S), q # <<>>, NEW k \in 1 .. Len(q) - 1, NEW held, NEW after,
         Reachable(q, held, k + 1), q[k + 1].type # "I",
         "store" \in q[1].flags => q[1].id \in after,
         q[1].type # "I" => held \subseteq after
  PROVE  Reachable(Tail(q), after, k)
<1> DEFINE p == Tail(q)
           n == Len(p)
           long == p[k].long
<1>1. n \in Nat /\ Len(q) = n + 1 /\ \A m \in 1 .. n : p[m] = q[m + 1]
  BY TailElements
<1> SUFFICES Reachable(p, after, k)
  OBVIOUS
<1> HIDE DEF p
<1>2. k \in 1 .. n /\ (k + 1) - 1 = k /\ p[k] = q[k + 1]
  BY <1>1
<1>3. ASSUME NEW j \in 1 .. k, \A m \in j + 1 .. k + 1 : q[m].type # "I"
      PROVE  \A m \in j .. k : p[m].type # "I"
  <2> TAKE m \in j .. k
  <2>1. m \in 1 .. n /\ m + 1 \in j + 1 .. k + 1
    BY <1>1, <1>2
  <2> QED
    BY <1>1, <1>3, <2>1
<1>4. CASE \E j \in 1 .. k : /\ q[j].id = long /\ "store" \in q[j].flags
                             /\ \A m \in j + 1 .. k + 1 : q[m].type # "I"
  <2>1. PICK j \in 1 .. k : /\ q[j].id = long /\ "store" \in q[j].flags
                            /\ \A m \in j + 1 .. k + 1 : q[m].type # "I"
    BY <1>4
  <2>2. \A m \in j .. k : p[m].type # "I"
    BY <1>3, <2>1
  <2>3. CASE j = 1
    BY <2>1, <2>2, <2>3 DEF Reachable
  <2>4. CASE j # 1
    <3>1. j - 1 \in 1 .. k - 1 /\ j - 1 \in 1 .. n /\ (j - 1) + 1 = j
      BY <1>1, <1>2, <2>4
    <3>2. p[j - 1] = q[j]
      BY <1>1, <3>1
    <3> QED
      BY <2>1, <2>2, <3>1, <3>2 DEF Reachable
  <2> QED
    BY <2>3, <2>4
<1>5. CASE long \in held /\ \A m \in 1 .. k + 1 : q[m].type # "I"
  <2>1. 1 \in 1 .. k /\ 1 \in 1 .. k + 1 /\ \A m \in 1 + 1 .. k + 1 : m \in 1 .. k + 1
    BY <1>2
  <2>2. \A m \in 1 .. k : p[m].type # "I"
    BY <1>3, <1>5, <2>1
  <2>3. long \in after
    BY <1>5, <2>1
  <2> QED
    BY <2>2, <2>3 DEF Reachable
<1> QED
  BY <1>2, <1>4, <1>5 DEF Reachable

\* ... and of the newest long-term frame.
LEMMA NewestFacts ==
  ASSUME NEW n \in Nat, NEW T \in SUBSET (0 .. n - 1), Cardinality(T) <= MaxLtrFrames
  PROVE  /\ Newest(T) = T
         /\ Newest(T \cup {n}) \subseteq T \cup {n} /\ n \in Newest(T \cup {n})
         /\ Cardinality(Newest(T \cup {n})) <= MaxLtrFrames
         /\ Newest(T \cup {n}) # T \cup {n} => Cardinality(Newest(T \cup {n})) = MaxLtrFrames
         /\ Cardinality(T) = MaxLtrFrames => Cardinality(Newest(T \cup {n})) = MaxLtrFrames
<1>0. MaxLtrFrames \in Nat \ {0}
  BY ReferenceAssumption
<1>1. /\ IsFiniteSet(T) /\ Cardinality(T) \in Nat /\ n \notin T
      /\ IsFiniteSet(T \cup {n}) /\ Cardinality(T \cup {n}) = Cardinality(T) + 1
  <2>1. IsFiniteSet(0 .. n - 1)
    BY FS_Interval
  <2>2. IsFiniteSet(T)
    BY <2>1, FS_Subset
  <2>3. n \notin T
    OBVIOUS
  <2> QED
    BY <2>2, <2>3, FS_CardinalityType, FS_AddElement
<1>2. ASSUME NEW U, U \subseteq Nat, IsFiniteSet(U), NEW k \in U
      PROVE  /\ IsFiniteSet({j \in U : j > k}) /\ Cardinality({j \in U : j > k}) \in Nat
             /\ Cardinality({j \in U : j > k}) < Cardinality(U)
  <2>1. {j \in U : j > k} \subseteq U \ {k}
    BY <1>2
  <2>2. IsFiniteSet(U \ {k}) /\ Cardinality(U \ {k}) = Cardinality(U) - 1
        /\ Cardinality(U) \in Nat
    BY <1>2, FS_RemoveElement, FS_CardinalityType
  <2>3. IsFiniteSet({j \in U : j > k}) /\ Cardinality({j \in U : j > k}) <= Cardinality(U \ {k})
    BY <2>1, <2>2, FS_Subset
  <2>4. Cardinality({j \in U : j > k}) \in Nat
    BY <2>3, FS_CardinalityType
  <2> QED
    BY <2>2, <2>3, <2>4
<1>3. ASSUME NEW U, U \subseteq Nat, IsFiniteSet(U), Cardinality(U) <= MaxLtrFrames
      PROVE  Newest(U) = U
  <2>1. Cardinality(U) \in Nat
    BY <1>3, FS_CardinalityType
  <2>2. ASSUME NEW k \in U PROVE Cardinality({j \in U : j > k}) < MaxLtrFrames
    <3>1. /\ Cardinality({j \in U : j > k}) \in Nat
          /\ Cardinality({j \in U : j > k}) < Cardinality(U)
      BY <1>2, <1>3, <2>2
    <3> QED
      BY <1>0, <1>3, <2>1, <3>1
  <2> QED
    BY <2>2 DEF Newest
<1>4. T \subseteq Nat /\ T \cup {n} \subseteq Nat
  OBVIOUS
<1>5. Newest(T) = T
  BY <1>1, <1>3, <1>4
<1> DEFINE U == T \cup {n}
<1>6. CASE Cardinality(T) < MaxLtrFrames
  <2>1. Newest(U) = U /\ Cardinality(U) <= MaxLtrFrames
    <3>1. Cardinality(U) <= MaxLtrFrames
      BY <1>0, <1>1, <1>6
    <3> QED
      BY <1>1, <1>3, <1>4, <3>1
  <2> QED
    BY <1>0, <1>1, <1>5, <1>6, <2>1
<1>7. CASE Cardinality(T) = MaxLtrFrames
  <2>1. T # {}
    BY <1>0, <1>7, FS_EmptySet
  <2>2. PICK l \in T : \A k \in T : l <= k
    BY <1>4, <2>1, LeastNumber
  <2>3. l \in 0 .. n - 1 /\ l \in U /\ l # n
    BY <2>2
  <2>4. {j \in U : j > l} = U \ {l}
    <3>1. \A k \in U : k \in Nat /\ l <= k /\ l \in Nat
      BY <1>4, <2>2, <2>3
    <3>2. \A k \in U : k > l <=> k # l
      BY <3>1
    <3> HIDE DEF U
    <3> QED
      BY <3>2
  <2>5. Cardinality(U \ {l}) = MaxLtrFrames /\ IsFiniteSet(U \ {l})
    <3>1. /\ Cardinality(U \ {l}) = Cardinality(U) - 1 /\ IsFiniteSet(U \ {l})
          /\ Cardinality(U) = Cardinality(T) + 1
      BY <1>1, <2>3, FS_RemoveElement
    <3> HIDE DEF U
    <3> QED
      BY <1>0, <1>1, <1>7, <3>1
  <2>6. l \notin Newest(U)
    BY <1>0, <2>4, <2>5 DEF Newest
  <2>7. ASSUME NEW k \in U \ {l} PROVE k \in Newest(U)
    <3>1. {j \in U : j > k} \subseteq {j \in U \ {l} : j > k}
      <4>1. k \in Nat /\ l \in Nat /\ l <= k
        BY <1>4, <2>2, <2>3
      <4> QED
        BY <4>1
    <3>2. {j \in U : j > k} = {j \in U \ {l} : j > k}
      BY <3>1
    <3>3. Cardinality({j \in U \ {l} : j > k}) < Cardinality(U \ {l})
      <4>1. U \ {l} \subseteq Nat
        BY <1>4
      <4> HIDE DEF U
      <4> QED
        BY <1>2, <2>5, <2>7, <4>1
    <3> QED
      BY <2>5, <2>7, <3>2, <3>3 DEF Newest
  <2>8. Newest(U) = U \ {l}
    <3>1. Newest(U) \subseteq U
      BY DEF Newest
    <3> QED
      BY <2>6, <2>7, <3>1
  <2> QED
    BY <1>0, <1>5, <2>3, <2>5, <2>8
<1> QED
  BY <1>0, <1>1, <1>6, <1>7

-----------------------------------------------------------------------------
(* What the steps change, and what they leave as it is.                    *)

LEMMA SteadyStream ==
  ASSUME Typed, [Next]_vars
  PROVE  opt' = opt /\ header' = header /\ header = OptionsHeader /\ (Untouched' => Untouched)
<1>1. header = OptionsHeader /\ requestsSeen \in Nat
  BY DEF Typed
<1>2. CASE RequestRandomAccess
  <2>1. opt' = opt /\ header' = header /\ requestsSeen' = requestsSeen + 1
    BY <1>2 DEF RequestRandomAccess, streamVars
  <2> QED
    BY <1>1, <2>1 DEF Untouched
<1>3. ASSUME opt' = opt /\ header' = header /\ requestsSeen' = requestsSeen
      PROVE  opt' = opt /\ header' = header /\ (Untouched' => Untouched)
  BY <1>3 DEF Untouched
<1>4. CASE \E c \in Commands[opt.warp] : ReceiveControl(c)
  BY <1>1, <1>3, <1>4 DEF ReceiveControl, streamVars
<1>5. CASE EncodeFrame
  BY <1>1, <1>3, <1>5 DEF EncodeFrame, streamVars
<1>6. CASE LoseFrame
  BY <1>1, <1>3, <1>6 DEF LoseFrame, streamVars, peerVars
<1>7. CASE SkipGap
  BY <1>1, <1>3, <1>7 DEF SkipGap, streamVars, peerVars
<1>8. CASE ReceiveFrame
  BY <1>1, <1>3, <1>8 DEF ReceiveFrame, streamVars, peerVars
<1>9. CASE DecodeFrame
  BY <1>1, <1>3, <1>9 DEF DecodeFrame, streamVars, peerVars
<1>10. CASE UNCHANGED vars
  BY <1>1, <1>3, <1>10 DEF vars, streamVars, peerVars
<1> QED
  BY <1>1, <1>2, <1>4, <1>5, <1>6, <1>7, <1>8, <1>9, <1>10 DEF Next

\* What is said of units and frames depends only on what does not change.
LEMMA Stays ==
  ASSUME opt' = opt, Untouched' => Untouched
  PROVE  /\ \A e : Described(e) => Described(e)'
         /\ \A u, id : WireItem(u, id) => WireItem(u, id)'
         /\ \A u : Received(u)' = Received(u)
         /\ \A e, previous : Follows(e, previous)' <=> Follows(e, previous)
         /\ \A n : SavedAt(n)' = SavedAt(n) /\ CacheAfter(n)' = CacheAfter(n)
         /\ Explicit' = Explicit /\ Unforced' = Unforced
<1>1. ASSUME NEW e PROVE From(e)' = From(e) /\ (Scheduled(e)' <=> Scheduled(e))
  BY DEF From, Scheduled, Marks, CacheBefore, SameGop
<1>2. ASSUME NEW e, Described(e) PROVE Described(e)'
  BY <1>1, <1>2 DEF Described
<1>3. Explicit' = Explicit /\ Unforced' = Unforced
  BY DEF Explicit, Unforced
<1>4. \A u : Received(u)' = Received(u)
  BY <1>3 DEF Received
<1>5. ASSUME NEW u, NEW id, WireItem(u, id) PROVE WireItem(u, id)'
  BY <1>2, <1>3, <1>4, <1>5 DEF WireItem
<1>6. \A e, previous : Follows(e, previous)' <=> Follows(e, previous)
  BY DEF Follows
<1>7. \A n : SavedAt(n)' = SavedAt(n) /\ CacheAfter(n)' = CacheAfter(n)
  BY DEF SavedAt, CacheAfter, Marks, SameGop
<1> QED
  BY <1>2, <1>3, <1>4, <1>5, <1>6, <1>7

\* The reader's frame has what decides of the caches from its unit.
LEMMA ItemFacts ==
  ASSUME opt \in Options, NEW u, NEW id, WireItem(u, id)
  PROVE  /\ Received(u).id = id /\ u.id = id
         /\ Received(u).type = u.type /\ Received(u).flags = u.flags
         /\ Received(u).short = u.short /\ Received(u).long = u.long
         /\ Described(Received(u)) /\ ~WarpRefused(Received(u), opt.warp)
         /\ Explicit => ~ParseEfuRefused(u)
<1>1. Described(Received(u)) /\ ~WarpRefused(Received(u), opt.warp)
  BY DescribedIsAccepted DEF WireItem
<1>2. /\ Received(u).id = u.id
      /\ Received(u).type = u.type /\ Received(u).flags = u.flags
      /\ Received(u).short = u.short /\ Received(u).long = u.long
  BY DEF Received, ParsedEfu
<1> QED
  BY <1>1, <1>2 DEF WireItem

\* The frame saved for the next reset, of the encoder and of the decoder.
LEMMA SavedStep ==
  ASSUME opt \in Options, NEW i \in Nat, NEW reset \in BOOLEAN, NEW saved,
         ~opt.warp => saved = NoFrame,
         opt.warp /\ ~reset => saved = NoFrame
  PROVE  SavedAfter(opt, i, i, reset, saved) = SavedAt(i + 1)
BY DEF SavedAfter, SavedAt

\* A step of the encoder puts the frame it decided on on the wire, or fails.
LEMMA EncodeStep ==
  ASSUME Typed, EncoderInv, EncodeFrame
  PROVE  /\ encodedFrames < Bounds[opt.warp].frames
         /\ controls' = NotDue /\ requests' = (IF requests > 0 THEN requests - 1 ELSE 0)
         /\ gopOverride' = OverrideAfter /\ steered' = SteeredBy
         /\ opt' = opt /\ header' = header /\ packets' = packets /\ losses' = losses
         /\ requestsSeen' = requestsSeen
         /\ UNCHANGED <<expectedFrame, shortAvailable, ltrIds, receiverFailed>>
         /\ UNCHANGED <<dReference, dSaved, dLtr, activeShort, decoderFailed, mismatched>>
         /\ writerFailed' = writerFailed
         /\ \/ /\ EncoderRejects(Decision)
               /\ encoderFailed' = TRUE
               /\ UNCHANGED <<encodedFrames, reference, savedFrame, ltrFeatures, wire>>
            \/ /\ ~EncoderRejects(Decision)
               /\ encoderFailed' = encoderFailed
               /\ encodedFrames' = encodedFrames + 1
               /\ reference' = Feature(encodedFrames)
               /\ savedFrame' = SavedAfter(opt, encodedFrames, encodedFrames, Decision.reset, savedFrame)
               /\ ltrFeatures' = Decision.ltr \cup (IF Decision.mark THEN {encodedFrames} ELSE {})
               /\ \E u : /\ wire' = Append(wire, u) /\ WireItem(u, encodedFrames)
                         /\ u.type = Decision.type
                         /\ "store" \in u.flags <=> Decision.mark
                         /\ u.type = "LTR" => u.long = LtrReference(Decision)
<1>1. /\ encodedFrames < Bounds[opt.warp].frames
      /\ controls' = NotDue /\ requests' = (IF requests > 0 THEN requests - 1 ELSE 0)
      /\ gopOverride' = OverrideAfter /\ steered' = SteeredBy
      /\ opt' = opt /\ header' = header /\ packets' = packets /\ losses' = losses
      /\ requestsSeen' = requestsSeen
      /\ UNCHANGED <<expectedFrame, shortAvailable, ltrIds, receiverFailed>>
      /\ UNCHANGED <<dReference, dSaved, dLtr, activeShort, decoderFailed, mismatched>>
  BY Zenon DEF EncodeFrame, SteeredBy, streamVars, receiverVars, decoderVars
<1>2. IF EncoderRejects(Decision)
      THEN /\ encoderFailed' = TRUE
           /\ UNCHANGED <<encodedFrames, reference, savedFrame, ltrFeatures,
                          writerFailed, wire>>
      ELSE /\ encodedFrames' = encodedFrames + 1
           /\ reference' = Feature(encodedFrames)
           /\ savedFrame' = SavedAfter(opt, encodedFrames, encodedFrames, Decision.reset, savedFrame)
           /\ ltrFeatures' = Decision.ltr \cup (IF Decision.mark THEN {encodedFrames} ELSE {})
           /\ \E t \in TranslationsOf(Decision) :
                LET e == EncodedFrame(encodedFrames, Decision, t)
                    refused == Explicit /\ EfuRefused(e)
                IN /\ writerFailed' = refused
                   /\ wire' = IF refused THEN wire
                              ELSE Append(wire, IF Explicit THEN EfuUnit(e) ELSE e)
           /\ UNCHANGED encoderFailed
  BY Zenon DEF EncodeFrame, Decision, Gop
<1>3. CASE EncoderRejects(Decision)
  BY <1>1, <1>2, <1>3
<1>4. CASE ~EncoderRejects(Decision)
  <2>1. PICK t \in TranslationsOf(Decision) :
          LET e == EncodedFrame(encodedFrames, Decision, t)
              refused == Explicit /\ EfuRefused(e)
          IN /\ writerFailed' = refused
             /\ wire' = IF refused THEN wire
                        ELSE Append(wire, IF Explicit THEN EfuUnit(e) ELSE e)
    BY <1>2, <1>4, Zenon
  <2> DEFINE e == EncodedFrame(encodedFrames, Decision, t)
             u == IF Explicit THEN EfuUnit(e) ELSE e
  <2>2. opt \in Options /\ Described(e)
    BY <1>1, <1>4, EncodedDescribed DEF Typed
  <2>3. /\ e.id = encodedFrames /\ e.type = Decision.type
        /\ "store" \in e.flags <=> Decision.mark
        /\ e.type = "LTR" => e.long = LtrReference(Decision)
    BY DEF EncodedFrame
  <2> HIDE DEF e
  <2>4. ~EfuRefused(e)
    BY <2>2, DescribedIsAccepted
  <2>5. writerFailed' = FALSE /\ wire' = Append(wire, u)
    BY <2>1, <2>4 DEF e
  <2>6. /\ ~ParseEfuRefused(EfuUnit(e)) /\ Described(ParsedEfu(EfuUnit(e)))
        /\ EfuUnit(e).id = e.id /\ EfuUnit(e).type = e.type
        /\ EfuUnit(e).flags = e.flags \cup {"crc"} /\ EfuUnit(e).long = e.long
    BY <2>2, UnitAccepted, Zenon
  <2>7. /\ WireItem(u, encodedFrames)
        /\ u.type = Decision.type
        /\ "store" \in u.flags <=> Decision.mark
        /\ u.type = "LTR" => u.long = LtrReference(Decision)
    BY <2>2, <2>3, <2>6 DEF WireItem, Received
  <2> HIDE DEF u
  <2>8. writerFailed = FALSE
    BY DEF EncoderInv, Typed
  <2>9. \E v : /\ wire' = Append(wire, v) /\ WireItem(v, encodedFrames)
               /\ v.type = Decision.type
               /\ "store" \in v.flags <=> Decision.mark
               /\ v.type = "LTR" => v.long = LtrReference(Decision)
    BY <2>5, <2>7
  <2> QED
    BY <1>1, <1>2, <1>4, <2>5, <2>8, <2>9
<1> QED
  BY <1>3, <1>4

-----------------------------------------------------------------------------
(* What the decoder makes of the next frame.                               *)

\* Its reference is there, and is the encoder's.
LEMMA DecoderFinds ==
  ASSUME Typed, PacketsInv, DecoderInv, packets # <<>>
  PROVE  LET f == packets[1]
         IN  /\ Described(f) /\ f.id \in Nat
             /\ opt.transport # "rtp" \/ (f.type = "P" /\ "reset" \notin f.flags)
                  => f.id = activeShort + 1
             /\ WireReset(f) <=> "reset" \in f.flags
             /\ DecoderStores(f) <=> "store" \in f.flags
             /\ DecoderResets(f) <=> IF opt.warp THEN f.type = "I" \/ f.id % opt.reset = 0
                                     ELSE "reset" \in f.flags
             /\ f.type = "LTR" => /\ ~opt.warp
                                  /\ DecoderLtrReference(f) = f.long
                                  /\ f.long \in DOMAIN dLtr
             /\ opt.warp /\ f.type # "I" =>
                  /\ f.id = activeShort + 1 /\ f.id # 0 /\ f.id % opt.gop # 0
                  /\ "reset" \notin f.flags
             /\ f.id = 0 => f.type = "I"
             /\ f.type \in {"I", "P", "LTR"}
             /\ f.type = "I" => "reset" \in f.flags
             /\ f.type = "P" /\ "reset" \notin f.flags => f.short = f.id - 1
<1> DEFINE f == packets[1]
<1>0. /\ opt \in Options /\ header = OptionsHeader /\ 1 \in 1 .. Len(packets)
      /\ opt.warp \in BOOLEAN /\ Bounds[opt.warp].frames \in Nat
  <2>1. packets \in Seq(ToSet(packets))
    BY DEF Typed
  <2>2. Len(packets) \in Nat \ {0}
    BY <2>1, TailElements
  <2> QED
    BY <2>2, OptionFacts DEF Typed
<1>1. /\ Described(f) /\ Follows(f, activeShort)
      /\ opt.transport = "rtp" /\ f.type = "LTR" => Reachable(packets, DOMAIN dLtr, 1)
  BY <1>0 DEF PacketsInv, Previous
<1> HIDE DEF f
<1>2. f.id \in Nat /\ f.type \in {"I", "P", "LTR"} /\ (f.id = 0 => f.type = "I")
      /\ (f.type = "I" => "reset" \in f.flags)
      /\ (f.type = "P" /\ "reset" \notin f.flags => f.short = f.id - 1)
  BY <1>0, <1>1 DEF Described
<1>3. opt.transport # "rtp" \/ (f.type = "P" /\ "reset" \notin f.flags)
        => f.id = activeShort + 1
  BY <1>1 DEF Follows
<1>4. opt.warp \/ opt.transport # "rtp" => Scheduled(f)
  BY <1>1 DEF Described
<1>5. Explicit \/ (opt.transport # "rtp" /\ ~opt.warp)
  BY <1>0, OptionFacts DEF Explicit
<1>6. WireReset(f) <=> "reset" \in f.flags
  BY <1>0, <1>4, <1>5 DEF WireReset, Scheduled, OptionsHeader
<1>7. DecoderStores(f) <=> "store" \in f.flags
  BY <1>0, <1>4, <1>5 DEF DecoderStores, Scheduled, OptionsHeader, Marks
<1>8. DecoderResets(f) <=> IF opt.warp THEN f.type = "I" \/ f.id % opt.reset = 0
                           ELSE "reset" \in f.flags
  BY <1>0, <1>6 DEF DecoderResets, OptionsHeader
<1>9. opt.warp => f.type # "LTR"
  BY <1>0, <1>4, NoCache DEF Scheduled
<1>10. opt.warp /\ f.type # "I" =>
         /\ f.id = activeShort + 1 /\ f.id # 0 /\ f.id % opt.gop # 0
         /\ "reset" \notin f.flags
  BY <1>2, <1>3, <1>4, <1>9 DEF Scheduled
<1>11. ASSUME f.type = "LTR" PROVE DecoderLtrReference(f) = f.long /\ f.long \in DOMAIN dLtr
  <2>1. CASE opt.transport = "rtp"
    <3>1. Reachable(packets, DOMAIN dLtr, 1) /\ \A j : j \notin 1 .. 1 - 1
      BY <1>1, <1>11, <2>1
    <3>2. f.long \in DOMAIN dLtr
      BY <3>1 DEF Reachable, f
    <3> QED
      BY <2>1, <3>2 DEF DecoderLtrReference, Explicit
  <2>2. CASE opt.transport # "rtp"
    <3>1. Scheduled(f) /\ f.id = activeShort + 1 /\ DOMAIN dLtr = CacheAfter(activeShort)
      BY <1>3, <1>4, <2>2 DEF DecoderInv
    <3>2. /\ f.id % opt.gop # 0 /\ f.long \in CacheBefore(f.id)
          /\ f.long = IF f.id = opt.recovery THEN opt.reference ELSE Max(CacheBefore(f.id))
      BY <1>11, <3>1 DEF Scheduled
    <3>3. activeShort = f.id - 1
      BY <3>1, <1>2 DEF DecoderInv, NoFrame
    <3>4. CacheBefore(f.id) = DOMAIN dLtr
      BY <1>0, <1>2, <3>1, <3>2, <3>3, CacheStep
    <3>5. DecoderLtrReference(f) = f.long
      BY <1>0, <3>2, <3>4 DEF DecoderLtrReference, OptionsHeader
    <3> QED
      BY <3>2, <3>4, <3>5
  <2> QED
    BY <2>1, <2>2
<1> QED
  BY <1>1, <1>2, <1>3, <1>6, <1>7, <1>8, <1>9, <1>10, <1>11 DEF f

\* No check of the decoder refuses it.
LEMMA DecoderAccepts ==
  ASSUME Typed, PacketsInv, DecoderInv, packets # <<>>
  PROVE  LET f == packets[1]
         IN  /\ ~DecoderRejects(f)
             /\ opt.warp /\ DecoderResets(f) /\ f.type # "I" => dSaved = f.id - 1
             /\ Untouched => Prediction(DecoderReference(f), f.kx, f.ky) = f.payload[1]
<1> DEFINE f == packets[1]
<1>1. /\ Described(f) /\ f.id \in Nat
      /\ opt.transport # "rtp" \/ (f.type = "P" /\ "reset" \notin f.flags)
           => f.id = activeShort + 1
      /\ WireReset(f) <=> "reset" \in f.flags
      /\ DecoderResets(f) <=> IF opt.warp THEN f.type = "I" \/ f.id % opt.reset = 0
                              ELSE "reset" \in f.flags
      /\ f.type = "LTR" => /\ ~opt.warp
                           /\ DecoderLtrReference(f) = f.long
                           /\ f.long \in DOMAIN dLtr
      /\ opt.warp /\ f.type # "I" =>
           /\ f.id = activeShort + 1 /\ f.id # 0 /\ f.id % opt.gop # 0
           /\ "reset" \notin f.flags
      /\ f.id = 0 => f.type = "I"
      /\ f.type \in {"I", "P", "LTR"}
      /\ f.type = "I" => "reset" \in f.flags
      /\ f.type = "P" /\ "reset" \notin f.flags => f.short = f.id - 1
  BY DecoderFinds, Zenon
<1>2. header.warp = opt.warp /\ opt.warp \in BOOLEAN /\ activeShort \in {NoFrame} \cup Nat
      /\ dSaved = SavedAt(activeShort + 1) /\ opt \in Options
  BY OptionFacts DEF Typed, OptionsHeader, DecoderInv
<1> HIDE DEF f
<1>3. opt.warp /\ DecoderResets(f) /\ f.type # "I" => dSaved = f.id - 1 /\ f.id - 1 # NoFrame
  BY <1>1, <1>2 DEF SavedAt, NoFrame
<1>4. f.type = "P" /\ "reset" \notin f.flags => f.short = activeShort /\ activeShort # NoFrame
  BY <1>1, <1>2 DEF NoFrame
<1>5. f.type = "LTR" => dLtr # [k \in {} |-> k]
  <2>1. DOMAIN [k \in {} |-> k] = {}
    OBVIOUS
  <2> QED
    BY <1>1, <2>1
<1>6. ~DecoderRejects(f)
  <2>1. ~(/\ Explicit /\ f.type = "P" /\ ~WireReset(f)
          /\ LET short == IF DecoderResets(f) /\ WireReset(f) THEN NoFrame ELSE activeShort
             IN short = NoFrame \/ f.short # short)
    BY <1>1, <1>4
  <2> QED
    BY <1>1, <1>2, <1>3, <1>5, <2>1 DEF DecoderRejects
<1>7. ASSUME Untouched PROVE DecoderReference(f) = From(f)
  <2>1. /\ dReference = LastOf(activeShort + 1) /\ \A k \in DOMAIN dLtr : dLtr[k] = k
    BY <1>7 DEF DecoderInv
  <2>2. CASE f.type = "LTR"
    BY <1>1, <2>1, <2>2 DEF DecoderReference, From
  <2>3. CASE f.type # "LTR" /\ ~opt.warp
    <3>1. CASE "reset" \in f.flags
      BY <1>1, <1>2, <2>3, <3>1 DEF DecoderReference, From
    <3>2. CASE "reset" \notin f.flags
      <4>1. dReference = Feature(f.id - 1)
        BY <1>1, <2>1, <2>3, <3>2 DEF LastOf
      <4> QED
        BY <1>1, <1>2, <2>3, <3>2, <4>1 DEF DecoderReference, From
    <3> QED
      BY <3>1, <3>2
  <2>4. CASE opt.warp
    <3>1. CASE f.type = "I"
      BY <1>1, <1>2, <2>4, <3>1 DEF DecoderReference, From
    <3>2. CASE f.type # "I"
      <4>1. dReference = Feature(f.id - 1)
        BY <1>1, <2>1, <2>4, <3>2 DEF LastOf
      <4> QED
        BY <1>1, <1>2, <1>3, <2>4, <3>2, <4>1 DEF DecoderReference, From
    <3> QED
      BY <3>1, <3>2
  <2> QED
    BY <2>2, <2>3, <2>4
<1>8. Untouched => f.payload[1] = Prediction(From(f), f.kx, f.ky)
  BY <1>1 DEF Described
<1> QED
  BY <1>3, <1>6, <1>7, <1>8 DEF f

\* So the decoder comes one frame further.
LEMMA DecodeStep ==
  ASSUME Typed, PacketsInv, DecoderInv, DecodeFrame
  PROVE  LET f == packets[1]
         IN  /\ packets # <<>> /\ packets' = Tail(packets) /\ activeShort' = f.id
             /\ decoderFailed' = decoderFailed
             /\ dSaved' = SavedAt(f.id + 1)
             /\ Untouched => /\ mismatched' = mismatched
                             /\ dReference' = Feature(f.id)
                             /\ \A k \in DOMAIN dLtr' : dLtr'[k] = k
             /\ DOMAIN dLtr' = (IF f.type = "I" THEN {} ELSE DOMAIN dLtr)
                                 \cup (IF "store" \in f.flags THEN {f.id} ELSE {})
             /\ UNCHANGED <<encodedFrames, gopOverride, reference, savedFrame, ltrFeatures,
                            encoderFailed, writerFailed, steered, expectedFrame,
                            shortAvailable, ltrIds, receiverFailed, wire, losses>>
             /\ UNCHANGED <<opt, header, controls, requests, requestsSeen>>
<1> DEFINE f == packets[1]
           own == IF Prediction(DecoderReference(f), f.kx, f.ky) = f.payload[1] THEN f.id ELSE Wrong
           ltr == DecoderLtr(f)
           kept == DOMAIN ltr \cup (IF DecoderStores(f) THEN {f.id} ELSE {})
<1>1. packets # <<>> /\ packets' = Tail(packets) /\ Head(packets) = f
      /\ UNCHANGED <<encodedFrames, gopOverride, reference, savedFrame, ltrFeatures,
                     encoderFailed, writerFailed, steered, expectedFrame,
                     shortAvailable, ltrIds, receiverFailed, wire, losses>>
      /\ UNCHANGED <<opt, header, controls, requests, requestsSeen>>
  <2>1. packets # <<>> /\ packets' = Tail(packets)
        /\ UNCHANGED <<streamVars, encoderVars, receiverVars, peerVars, wire, losses>>
    BY DEF DecodeFrame
  <2>2. packets \in Seq(ToSet(packets))
    BY DEF Typed
  <2>3. Head(packets) = f
    BY <2>1, <2>2, TailElements
  <2> QED
    BY <2>1, <2>3 DEF streamVars, encoderVars, receiverVars, peerVars
<1>2. ~DecoderRejects(f)
      /\ (opt.warp /\ DecoderResets(f) /\ f.type # "I" => dSaved = f.id - 1)
      /\ (Untouched => Prediction(DecoderReference(f), f.kx, f.ky) = f.payload[1])
  BY <1>1, DecoderAccepts, Zenon
<1>3. IF DecoderRejects(f)
      THEN /\ decoderFailed' = TRUE
           /\ UNCHANGED <<dReference, dSaved, dLtr, activeShort, mismatched>>
      ELSE /\ dReference' = Feature(own)
           /\ dSaved' = SavedAfter(header, f.id, own, DecoderResets(f), dSaved)
           /\ dLtr' = [k \in kept |-> IF k = f.id THEN own ELSE ltr[k]]
           /\ activeShort' = f.id
           /\ mismatched' = mismatched \cup
                            (IF own = Wrong THEN {f.id} ELSE {})
           /\ UNCHANGED decoderFailed
  <2> DEFINE Result(g, x, l, k) ==
               IF DecoderRejects(g)
               THEN /\ decoderFailed' = TRUE
                    /\ UNCHANGED <<dReference, dSaved, dLtr, activeShort, mismatched>>
               ELSE /\ dReference' = Feature(x)
                    /\ dSaved' = SavedAfter(header, g.id, x, DecoderResets(g), dSaved)
                    /\ dLtr' = [j \in k |-> IF j = g.id THEN x ELSE l[j]]
                    /\ activeShort' = g.id
                    /\ mismatched' = mismatched \cup
                                     (IF x = Wrong THEN {g.id} ELSE {})
                    /\ UNCHANGED decoderFailed
             Own(g) == IF Prediction(DecoderReference(g), g.kx, g.ky) = g.payload[1]
                       THEN g.id ELSE Wrong
             Kept(g) == DOMAIN DecoderLtr(g) \cup (IF DecoderStores(g) THEN {g.id} ELSE {})
  <2>1. Result(Head(packets), Own(Head(packets)), DecoderLtr(Head(packets)), Kept(Head(packets)))
    BY Zenon DEF DecodeFrame
  <2> HIDE DEF Result, Own, Kept, f
  <2>2. Result(f, Own(f), DecoderLtr(f), Kept(f))
    BY <1>1, <2>1
  <2> QED
    BY <2>2 DEF Result, Own, Kept
<1>4. /\ dReference' = Feature(own)
      /\ dSaved' = SavedAfter(header, f.id, own, DecoderResets(f), dSaved)
      /\ dLtr' = [k \in kept |-> IF k = f.id THEN own ELSE ltr[k]]
      /\ activeShort' = f.id
      /\ mismatched' = mismatched \cup (IF own = Wrong THEN {f.id} ELSE {})
      /\ decoderFailed' = decoderFailed
  BY <1>2, <1>3, Zenon
<1>5. Untouched => own = f.id
  BY <1>2
<1>6. /\ f.id \in Nat
      /\ DecoderStores(f) <=> "store" \in f.flags
      /\ DecoderResets(f) <=> IF opt.warp THEN f.type = "I" \/ f.id % opt.reset = 0
                              ELSE "reset" \in f.flags
      /\ opt.warp /\ f.type # "I" =>
           f.id = activeShort + 1 /\ f.id # 0 /\ f.id % opt.gop # 0
  BY <1>1, DecoderFinds, Zenon
<1>7. header = OptionsHeader /\ opt \in Options /\ opt.warp \in BOOLEAN
      /\ dSaved = SavedAt(activeShort + 1)
  BY OptionFacts DEF Typed, DecoderInv
<1> HIDE DEF f, own
<1>8. dSaved' = SavedAt(f.id + 1)
  <2>1. SavedAfter(header, f.id, own, DecoderResets(f), dSaved)
          = SavedAfter(opt, f.id, own, DecoderResets(f), dSaved)
    BY <1>7 DEF SavedAfter, OptionsHeader
  <2>2. CASE opt.warp
    <3>1. own = f.id
      BY <1>5, <2>2 DEF Untouched
    <3>2. ~DecoderResets(f) => dSaved = NoFrame
      BY <1>6, <1>7, <2>2 DEF SavedAt
    <3>3. DecoderResets(f) \in BOOLEAN
      BY <1>7, <2>2 DEF DecoderResets, OptionsHeader
    <3>4. SavedAfter(opt, f.id, f.id, DecoderResets(f), dSaved) = SavedAt(f.id + 1)
      BY <1>6, <1>7, <2>2, <3>2, <3>3, SavedStep
    <3> QED
      BY <1>4, <2>1, <3>1, <3>4
  <2>3. CASE ~opt.warp
    BY <1>4, <1>7, <2>1, <2>3 DEF SavedAfter, SavedAt
  <2> QED
    BY <1>7, <2>2, <2>3
<1>9. DOMAIN dLtr' = kept
  BY <1>4
<1>10. DOMAIN ltr = IF f.type = "I" THEN {} ELSE DOMAIN dLtr
  BY DEF DecoderLtr
<1>11. DOMAIN dLtr' = (IF f.type = "I" THEN {} ELSE DOMAIN dLtr)
                        \cup (IF "store" \in f.flags THEN {f.id} ELSE {})
  BY <1>6, <1>9, <1>10
<1>12. ASSUME Untouched
       PROVE  /\ mismatched' = mismatched
              /\ dReference' = Feature(f.id)
              /\ \A k \in DOMAIN dLtr' : dLtr'[k] = k
  <2>1. own = f.id /\ own # Wrong
    BY <1>5, <1>6, <1>12 DEF Wrong
  <2>2. ASSUME NEW k \in kept PROVE dLtr'[k] = k
    <3>1. dLtr'[k] = IF k = f.id THEN own ELSE ltr[k]
      BY <1>4, <2>2
    <3>2. CASE k # f.id
      <4>1. k \in DOMAIN ltr
        BY <2>2, <3>2
      <4>2. f.type # "I" /\ ltr = dLtr /\ k \in DOMAIN dLtr
        BY <1>10, <4>1 DEF DecoderLtr
      <4> QED
        BY <1>12, <3>1, <3>2, <4>2 DEF DecoderInv
    <3> QED
      BY <2>1, <3>1, <3>2
  <2> QED
    BY <1>4, <1>9, <2>1, <2>2
<1> QED
  BY <1>1, <1>4, <1>8, <1>11, <1>12 DEF f

-----------------------------------------------------------------------------
(* What the receiver makes of the next unit.                               *)

LEMMA HeadOfWire ==
  ASSUME Typed, WireInv, wire # <<>>
  PROVE  /\ Head(wire) = wire[1] /\ WireItem(wire[1], NextOnWire) /\ wire[1].id = NextOnWire
         /\ 1 \in 1 .. Len(wire) /\ Len(wire) \in Nat \ {0} /\ encodedFrames \in Nat
<1>1. wire \in Seq(ToSet(wire)) /\ encodedFrames \in Nat
  BY OptionFacts DEF Typed
<1>2. Head(wire) = wire[1] /\ Len(wire) \in Nat \ {0} /\ 1 \in 1 .. Len(wire)
  BY <1>1, TailElements
<1>3. NextOnWire + 1 - 1 = NextOnWire
  BY <1>1, <1>2 DEF NextOnWire
<1>4. WireItem(wire[1], NextOnWire + 1 - 1)
  BY <1>2 DEF WireInv
<1> QED
  BY <1>1, <1>2, <1>3, <1>4 DEF WireItem

\* The frame expected refers to what the receiver knows.
LEMMA ReceiverSees ==
  ASSUME Typed, WireInv, PlaceInv, NewestInv, ~receiverFailed, wire # <<>>,
         wire[1].id = expectedFrame
  PROVE  LET f == Received(wire[1])
         IN  /\ NextOnWire = expectedFrame /\ expectedFrame \in Nat
             /\ f.type = "P" /\ "reset" \notin f.flags =>
                  f.short = shortAvailable /\ f.short # NoReference
             /\ Follows(f, shortAvailable)
             /\ Unforced /\ opt.transport = "rtp" /\ f.type = "LTR" => f.long \in ltrIds
<1> DEFINE f == Received(wire[1])
<1>1. /\ wire[1].id = NextOnWire /\ NextOnWire = expectedFrame /\ WireItem(wire[1], NextOnWire)
      /\ encodedFrames \in Nat /\ 1 \in 1 .. Len(wire)
  BY HeadOfWire
<1>2. /\ f.id = expectedFrame /\ f.type = wire[1].type /\ f.flags = wire[1].flags
      /\ f.long = wire[1].long /\ Described(f)
  BY <1>1, ItemFacts DEF Typed
<1> HIDE DEF f
<1>3. /\ f.id \in 0 .. Bounds[opt.warp].frames - 1
      /\ f.short = IF f.type = "P" /\ "reset" \notin f.flags THEN f.id - 1 ELSE NoReference
      /\ f.id = 0 => f.type = "I"
  BY <1>2 DEF Described
<1>4. f.id \in 0 .. (IdSpace \div 2) - 1 /\ f.id \in Nat
  <2>1. Bounds[opt.warp].frames <= IdSpace \div 2 /\ Bounds[opt.warp].frames \in Nat
    BY OptionFacts DEF Typed
  <2> QED
    BY <1>3, <2>1, IdFacts
<1>5. \/ shortAvailable = expectedFrame - 1
      \/ opt.transport = "rtp" /\ Recoverable(wire[1])
  BY <1>1, <1>2, <1>4 DEF PlaceInv
<1>6. f.type = "P" \/ opt.transport # "rtp" => shortAvailable = f.id - 1
  BY <1>2, <1>5 DEF Recoverable
<1>7. ASSUME f.type = "P" /\ "reset" \notin f.flags
      PROVE  f.short = shortAvailable /\ f.short # NoReference
  <2>1. f.short = f.id - 1 /\ f.short = shortAvailable /\ f.id # 0
    BY <1>3, <1>6, <1>7
  <2>2. f.short \in 0 .. f.id - 1
    BY <1>4, <2>1
  <2> QED
    BY <1>4, <2>1, <2>2, SerialOrder
<1>8. Follows(f, shortAvailable)
  BY <1>4, <1>6 DEF Follows
<1>9. ASSUME Unforced, opt.transport = "rtp", f.type = "LTR" PROVE f.long \in ltrIds
  <2>1. InReach(f.long, 1)
    BY <1>1, <1>2, <1>9 DEF NewestInv, Unforced
  <2>2. ~OnTheWay(wire, f.long, 1)
    BY DEF OnTheWay
  <2> QED
    BY <1>1, <2>1, <2>2 DEF InReach
<1> QED
  BY <1>1, <1>2, <1>4, <1>7, <1>8, <1>9 DEF f

\* It takes the frame and knows its long-term frames, or refuses the reference.
LEMMA ReceiveStep ==
  ASSUME Typed, WireInv, PlaceInv, NewestInv, ReceiveFrame
  PROVE  LET f == Received(wire[1])
         IN  /\ wire # <<>> /\ wire' = Tail(wire) /\ wire[1].id = expectedFrame /\ ~receiverFailed
             /\ WireItem(wire[1], NextOnWire) /\ NextOnWire = expectedFrame
             /\ UNCHANGED <<encodedFrames, gopOverride, reference, savedFrame, ltrFeatures,
                            encoderFailed, writerFailed, steered, losses>>
             /\ UNCHANGED <<opt, header, controls, requests, requestsSeen>>
             /\ UNCHANGED <<dReference, dSaved, dLtr, activeShort, decoderFailed, mismatched>>
             /\ \/ /\ ~Unforced /\ opt.transport = "rtp" /\ receiverFailed' = TRUE
                   /\ UNCHANGED <<expectedFrame, shortAvailable, ltrIds, packets>>
                \/ /\ receiverFailed' = receiverFailed
                   /\ expectedFrame' = f.id + 1 /\ shortAvailable' = f.id
                   /\ ltrIds' = Newest(LtrIdsBefore(f) \cup
                                       (IF "store" \in f.flags THEN {f.id} ELSE {}))
                   /\ packets' = Append(packets, f)
                   /\ Follows(f, shortAvailable)
                   /\ opt.transport = "rtp" /\ f.type = "LTR" => f.long \in ltrIds
<1> DEFINE f == Received(wire[1])
<1>1. /\ wire # <<>> /\ wire' = Tail(wire) /\ ~receiverFailed /\ Head(wire).id = expectedFrame
      /\ UNCHANGED <<streamVars, encoderVars, decoderVars, peerVars, losses>>
  BY DEF ReceiveFrame
<1>2. /\ Head(wire) = wire[1] /\ WireItem(wire[1], NextOnWire) /\ wire[1].id = NextOnWire
  BY <1>1, HeadOfWire
<1>3. /\ UNCHANGED <<encodedFrames, gopOverride, reference, savedFrame, ltrFeatures,
                     encoderFailed, writerFailed, steered, losses>>
      /\ UNCHANGED <<opt, header, controls, requests, requestsSeen>>
      /\ UNCHANGED <<dReference, dSaved, dLtr, activeShort, decoderFailed, mismatched>>
  BY <1>1 DEF streamVars, encoderVars, decoderVars, peerVars
<1>4. IF \/ Explicit /\ (ParseEfuRefused(wire[1]) \/ WarpRefused(f, header.warp))
         \/ opt.transport = "rtp" /\ ReceiverRejects(f)
      THEN /\ receiverFailed' = TRUE
           /\ UNCHANGED <<expectedFrame, shortAvailable, ltrIds, packets>>
      ELSE /\ expectedFrame' = f.id + 1
           /\ shortAvailable' = f.id
           /\ ltrIds' = Newest(LtrIdsBefore(f) \cup
                               (IF "store" \in f.flags THEN {f.id} ELSE {}))
           /\ packets' = Append(packets, f)
           /\ UNCHANGED receiverFailed
  <2> DEFINE Result(u, g) ==
               IF \/ Explicit /\ (ParseEfuRefused(u) \/ WarpRefused(g, header.warp))
                  \/ opt.transport = "rtp" /\ ReceiverRejects(g)
               THEN /\ receiverFailed' = TRUE
                    /\ UNCHANGED <<expectedFrame, shortAvailable, ltrIds, packets>>
               ELSE /\ expectedFrame' = g.id + 1
                    /\ shortAvailable' = g.id
                    /\ ltrIds' = Newest(LtrIdsBefore(g) \cup
                                        (IF "store" \in g.flags THEN {g.id} ELSE {}))
                    /\ packets' = Append(packets, g)
                    /\ UNCHANGED receiverFailed
  <2>1. Result(Head(wire), Received(Head(wire)))
    BY Zenon DEF ReceiveFrame, Received
  <2> HIDE DEF Result
  <2>2. Result(wire[1], f)
    BY <1>2, <2>1
  <2> QED
    BY <2>2 DEF Result
<1>5. /\ ~WarpRefused(f, header.warp) /\ (Explicit => ~ParseEfuRefused(wire[1]))
  BY <1>2, ItemFacts DEF Typed, OptionsHeader
<1>6. /\ f.type = "P" /\ "reset" \notin f.flags =>
           f.short = shortAvailable /\ f.short # NoReference
      /\ Follows(f, shortAvailable)
      /\ Unforced /\ opt.transport = "rtp" /\ f.type = "LTR" => f.long \in ltrIds
      /\ NextOnWire = expectedFrame
  BY <1>1, <1>2, ReceiverSees, Zenon
<1> HIDE DEF f
<1>7. ReceiverRejects(f) => f.type = "LTR" /\ f.long \notin ltrIds
  BY <1>6 DEF ReceiverRejects, LtrIdsBefore
<1>8. ~ReceiverRejects(f) => (f.type = "LTR" => f.long \in ltrIds)
  BY DEF ReceiverRejects, LtrIdsBefore
<1>9. CASE opt.transport = "rtp" /\ ReceiverRejects(f)
  BY <1>1, <1>2, <1>3, <1>4, <1>6, <1>7, <1>9 DEF f
<1>10. CASE ~(opt.transport = "rtp" /\ ReceiverRejects(f))
  <2>1. /\ expectedFrame' = f.id + 1 /\ shortAvailable' = f.id
        /\ ltrIds' = Newest(LtrIdsBefore(f) \cup
                            (IF "store" \in f.flags THEN {f.id} ELSE {}))
        /\ packets' = Append(packets, f) /\ receiverFailed' = receiverFailed
    BY <1>4, <1>5, <1>10
  <2> QED
    BY <1>1, <1>2, <1>3, <1>6, <1>8, <1>10, <2>1 DEF f
<1> QED
  BY <1>9, <1>10

\* A frame lost or skipped is a gap.
LEMMA GapStep ==
  ASSUME Typed, WireInv, PlaceInv, LoseFrame \/ SkipGap
  PROVE  /\ wire # <<>> /\ opt.transport = "rtp" /\ (losses' # 0 \/ receiverFailed)
         /\ UNCHANGED <<encodedFrames, gopOverride, reference, savedFrame, ltrFeatures,
                        encoderFailed, writerFailed, steered>>
         /\ UNCHANGED <<opt, header, controls, requests, requestsSeen>>
         /\ UNCHANGED <<dReference, dSaved, dLtr, activeShort, decoderFailed, mismatched>>
         /\ UNCHANGED <<packets, shortAvailable, ltrIds, receiverFailed>>
         /\ losses' \in Nat
         /\ \/ wire' = Tail(wire) /\ expectedFrame' = expectedFrame
            \/ /\ wire' = wire /\ expectedFrame' = NextOnWire
               /\ ~receiverFailed /\ Recoverable(wire[1])
<1>1. CASE LoseFrame
  BY <1>1 DEF LoseFrame, streamVars, encoderVars, receiverVars, decoderVars, peerVars, Typed
<1>2. CASE SkipGap
  <2>1. /\ wire # <<>> /\ opt.transport = "rtp" /\ ~receiverFailed
        /\ Head(wire).id # expectedFrame /\ losses' = losses
        /\ UNCHANGED <<streamVars, encoderVars, decoderVars, peerVars, packets,
                       shortAvailable, ltrIds, receiverFailed>>
        /\ IF Recoverable(Head(wire))
           THEN expectedFrame' = Head(wire).id /\ UNCHANGED wire
           ELSE wire' = Tail(wire) /\ UNCHANGED expectedFrame
    BY <1>2 DEF SkipGap
  <2>2. Head(wire) = wire[1] /\ wire[1].id = NextOnWire
    BY <2>1, HeadOfWire
  <2>3. losses # 0 /\ losses \in Nat
    BY <2>1, <2>2 DEF PlaceInv, Typed
  <2> QED
    BY <2>1, <2>2, <2>3 DEF streamVars, encoderVars, decoderVars, peerVars
<1> QED
  BY <1>1, <1>2

-----------------------------------------------------------------------------
(* Every step keeps the invariant.                                         *)

\* The inductive invariant.
SyncInv ==
  /\ Typed /\ EncoderInv /\ WireInv /\ PlaceInv /\ ListInv
  /\ PacketsInv /\ DecoderInv /\ NewestInv /\ CacheInv

\* A step of the peer, which nobody has seen yet, or none at all.
Quiet ==
  /\ UNCHANGED <<opt, header, encodedFrames, gopOverride, reference, savedFrame, ltrFeatures,
                 encoderFailed, writerFailed, steered, losses>>
  /\ UNCHANGED <<expectedFrame, shortAvailable, ltrIds, receiverFailed, wire, packets>>
  /\ UNCHANGED <<dReference, dSaved, dLtr, activeShort, decoderFailed, mismatched>>

LEMMA Cases ==
  ASSUME [Next]_vars
  PROVE  Quiet \/ EncodeFrame \/ LoseFrame \/ SkipGap \/ ReceiveFrame \/ DecodeFrame
<1>1. CASE \E c \in Commands[opt.warp] : ReceiveControl(c)
  BY <1>1 DEF ReceiveControl, Quiet, streamVars, encoderVars, receiverVars, decoderVars
<1>2. CASE RequestRandomAccess
  BY <1>2 DEF RequestRandomAccess, Quiet, streamVars, encoderVars, receiverVars, decoderVars
<1>3. CASE UNCHANGED vars
  BY <1>3 DEF vars, Quiet, streamVars, encoderVars, receiverVars, decoderVars
<1> QED
  BY <1>1, <1>2, <1>3 DEF Next

\* One lemma for each part.
LEMMA KeepsTyped ==
  ASSUME SyncInv, [Next]_vars
  PROVE  Typed'
<1>1. /\ opt' = opt /\ opt \in Options /\ header' = header /\ header = OptionsHeader
      /\ OptionsHeader' = OptionsHeader
  BY SteadyStream DEF SyncInv, Typed, OptionsHeader
<1>2. /\ Bounds[opt.warp].frames \in Nat
      /\ encodedFrames \in 0 .. Bounds[opt.warp].frames
      /\ gopOverride \in Int
      /\ controls \in Seq(Commands[opt.warp])
      /\ requests \in Nat /\ requestsSeen \in Nat /\ losses \in Nat
      /\ {encoderFailed, writerFailed, receiverFailed, decoderFailed, steered} \subseteq BOOLEAN
      /\ wire \in Seq(ToSet(wire)) /\ packets \in Seq(ToSet(packets))
      /\ requests <= requestsSeen
      /\ opt.transport # "rtp" => controls = <<>> /\ requestsSeen = 0 /\ losses = 0
  BY OptionFacts DEF SyncInv, Typed
<1> DEFINE Seen == /\ controls' \in Seq(Commands[opt.warp])
                   /\ requests' \in Nat /\ requestsSeen' \in Nat /\ losses' \in Nat
                   /\ requests' <= requestsSeen'
                   /\ opt.transport # "rtp" => controls' = <<>> /\ requestsSeen' = 0 /\ losses' = 0
           Sides == /\ encodedFrames' \in 0 .. Bounds[opt.warp].frames
                    /\ gopOverride' \in Int
                    /\ {encoderFailed', writerFailed', receiverFailed', decoderFailed', steered'}
                         \subseteq BOOLEAN
                    /\ wire' \in Seq(ToSet(wire')) /\ packets' \in Seq(ToSet(packets'))
<1>3. SUFFICES Seen /\ Sides
  <2>1. ToSet(wire)' = ToSet(wire') /\ ToSet(packets)' = ToSet(packets')
    BY DEF ToSet
  <2> QED
    BY <1>1, <2>1 DEF Typed
<1>4. Quiet => Sides
  <2>1. ASSUME Quiet PROVE wire' = wire /\ packets' = packets
    BY <2>1 DEF Quiet
  <2> QED
    BY <1>2, <2>1 DEF Quiet
<1>5. CASE \E c \in Commands[opt.warp] : ReceiveControl(c)
  <2>1. PICK c \in Commands[opt.warp] : ReceiveControl(c)
    BY <1>5
  <2>2. opt.transport = "rtp" /\ controls' = Append(controls, c)
        /\ UNCHANGED <<requests, requestsSeen, losses>> /\ Quiet
    BY <2>1 DEF ReceiveControl, Quiet, streamVars, encoderVars, receiverVars, decoderVars
  <2>3. controls' \in Seq(Commands[opt.warp])
    BY <1>2, <2>2
  <2> QED
    BY <1>2, <1>4, <2>2, <2>3
<1>6. CASE RequestRandomAccess
  <2>1. opt.transport = "rtp" /\ requests' = requests + 1 /\ requestsSeen' = requestsSeen + 1
        /\ UNCHANGED <<controls, losses>> /\ Quiet
    BY <1>6 DEF RequestRandomAccess, Quiet, streamVars, encoderVars, receiverVars, decoderVars
  <2> QED
    BY <1>2, <1>4, <2>1
<1>7. CASE UNCHANGED vars
  <2>1. UNCHANGED <<controls, requests, requestsSeen, losses>> /\ Quiet
    BY <1>7 DEF vars, Quiet, streamVars, encoderVars, receiverVars, decoderVars, peerVars
  <2> QED
    BY <1>2, <1>4, <2>1
<1>8. CASE EncodeFrame
  <2>1. /\ encodedFrames < Bounds[opt.warp].frames
        /\ controls' = NotDue /\ requests' = (IF requests > 0 THEN requests - 1 ELSE 0)
        /\ gopOverride' = OverrideAfter /\ steered' = SteeredBy
        /\ packets' = packets /\ losses' = losses /\ requestsSeen' = requestsSeen
        /\ receiverFailed' = receiverFailed /\ decoderFailed' = decoderFailed
        /\ writerFailed' = writerFailed
        /\ \/ encoderFailed' = TRUE /\ encodedFrames' = encodedFrames /\ wire' = wire
           \/ /\ encoderFailed' = encoderFailed /\ encodedFrames' = encodedFrames + 1
              /\ \E u : wire' = Append(wire, u)
    BY <1>8, EncodeStep DEF SyncInv
  <2>2. OverrideAfter \in Int /\ SteeredBy \in BOOLEAN
    BY Override DEF SyncInv, SteeredBy, Typed
  <2>3. NotDue \in Seq(Commands[opt.warp]) /\ (controls = <<>> => NotDue = <<>>)
    BY <1>2, CommandsKept
  <2>4. Seen
    BY <1>2, <2>1, <2>3
  <2>5. wire' \in Seq(ToSet(wire')) /\ packets' \in Seq(ToSet(packets'))
    BY <1>2, <2>1, OwnElements
  <2>6. encodedFrames' \in 0 .. Bounds[opt.warp].frames
    BY <1>2, <2>1
  <2>7. {encoderFailed', writerFailed', receiverFailed', decoderFailed', steered'} \subseteq BOOLEAN
    BY <1>2, <2>1, <2>2
  <2> QED
    BY <2>1, <2>2, <2>4, <2>5, <2>6, <2>7
<1>9. CASE LoseFrame \/ SkipGap
  <2>1. /\ wire # <<>> /\ opt.transport = "rtp" /\ losses' \in Nat
        /\ UNCHANGED <<encodedFrames, gopOverride, encoderFailed, writerFailed, steered>>
        /\ UNCHANGED <<controls, requests, requestsSeen, packets, receiverFailed, decoderFailed>>
        /\ wire' = Tail(wire) \/ wire' = wire
    BY <1>9, GapStep DEF SyncInv
  <2>2. wire' \in Seq(ToSet(wire'))
    BY <1>2, <2>1, TailElements
  <2>3. packets' \in Seq(ToSet(packets'))
    BY <1>2, <2>1
  <2> QED
    BY <1>2, <2>1, <2>2, <2>3
<1>10. CASE ReceiveFrame
  <2>1. /\ wire # <<>> /\ wire' = Tail(wire) /\ losses' = losses
        /\ UNCHANGED <<encodedFrames, gopOverride, encoderFailed, writerFailed, steered>>
        /\ UNCHANGED <<controls, requests, requestsSeen, decoderFailed>>
        /\ receiverFailed' \in {TRUE, receiverFailed}
        /\ packets' = packets \/ \E f : packets' = Append(packets, f)
    BY <1>10, ReceiveStep DEF SyncInv
  <2>2. wire' \in Seq(ToSet(wire'))
    BY <1>2, <2>1, TailElements
  <2>3. packets' \in Seq(ToSet(packets'))
    BY <1>2, <2>1, OwnElements
  <2> QED
    BY <1>2, <2>1, <2>2, <2>3
<1>11. CASE DecodeFrame
  <2>1. /\ packets # <<>> /\ packets' = Tail(packets) /\ losses' = losses /\ wire' = wire
        /\ UNCHANGED <<encodedFrames, gopOverride, encoderFailed, writerFailed, steered>>
        /\ UNCHANGED <<controls, requests, requestsSeen, receiverFailed, decoderFailed>>
    BY <1>11, DecodeStep DEF SyncInv
  <2>2. packets' \in Seq(ToSet(packets'))
    BY <1>2, <2>1, TailElements
  <2>3. wire' \in Seq(ToSet(wire'))
    BY <1>2, <2>1
  <2> QED
    BY <1>2, <2>1, <2>2, <2>3
<1> QED
  BY <1>5, <1>6, <1>7, <1>8, <1>9, <1>10, <1>11 DEF Next

LEMMA KeepsEncoder ==
  ASSUME SyncInv, [Next]_vars
  PROVE  EncoderInv'
<1>1. /\ opt' = opt /\ opt \in Options /\ encodedFrames \in Nat /\ opt.warp \in BOOLEAN
      /\ encoderFailed \in BOOLEAN
  BY SteadyStream, OptionFacts DEF SyncInv, Typed
<1>2. /\ reference = LastOf(encodedFrames)
      /\ savedFrame = SavedAt(encodedFrames)
      /\ ltrFeatures \subseteq 0 .. encodedFrames - 1
      /\ ~steered => gopOverride = -1 /\ ltrFeatures = CacheAfter(encodedFrames - 1)
      /\ opt.warp \/ opt.transport # "rtp" => ~steered
      /\ encoderFailed => steered
      /\ ~writerFailed
  BY DEF SyncInv, EncoderInv
<1>3. \A n : SavedAt(n)' = SavedAt(n) /\ CacheAfter(n)' = CacheAfter(n)
  BY SteadyStream, Stays DEF SyncInv
<1>4. ASSUME UNCHANGED <<encodedFrames, gopOverride, reference, savedFrame, ltrFeatures,
                         encoderFailed, writerFailed, steered>>
      PROVE  EncoderInv'
  BY <1>1, <1>2, <1>3, <1>4 DEF EncoderInv, LastOf
<1>5. CASE EncodeFrame
  <2>1. /\ gopOverride' = OverrideAfter /\ steered' = SteeredBy
        /\ writerFailed' = writerFailed
        /\ \/ /\ EncoderRejects(Decision)
              /\ encoderFailed' = TRUE
              /\ UNCHANGED <<encodedFrames, reference, savedFrame, ltrFeatures>>
           \/ /\ ~EncoderRejects(Decision)
              /\ encoderFailed' = encoderFailed
              /\ encodedFrames' = encodedFrames + 1
              /\ reference' = Feature(encodedFrames)
              /\ savedFrame' = SavedAfter(opt, encodedFrames, encodedFrames, Decision.reset, savedFrame)
              /\ ltrFeatures' = Decision.ltr \cup (IF Decision.mark THEN {encodedFrames} ELSE {})
    BY <1>5, EncodeStep DEF SyncInv
  <2>2. /\ opt.warp \/ opt.transport # "rtp" => ~SteeredBy
        /\ Decision.ltr \subseteq 0 .. encodedFrames - 1
        /\ Decision.reset <=> ResetsReference(encodedFrames, Gop, Decision.isI)
    BY DecisionFacts DEF SyncInv
  <2>3. ~SteeredBy => ~steered /\ OverrideAfter = gopOverride
    BY DEF SteeredBy
  <2>4. CASE EncoderRejects(Decision)
    <3>1. SteeredBy
      BY <2>4, NotRejected DEF SyncInv
    <3> QED
      BY <1>1, <1>2, <1>3, <2>1, <2>2, <2>4, <3>1 DEF EncoderInv, LastOf
  <2>5. CASE ~EncoderRejects(Decision)
    <3>1. reference' = LastOf(encodedFrames + 1)
      BY <1>1, <2>1, <2>5 DEF LastOf
    <3>2. savedFrame' = SavedAt(encodedFrames + 1)
      <4>1. Decision.reset \in BOOLEAN
        BY DEF Decision, BeginFrame, ResetsReference, ShouldResetReferenceFeature, IsMlvcIFrame
      <4>2. ~opt.warp => savedFrame = NoFrame
        BY <1>2 DEF SavedAt
      <4>3. opt.warp /\ ~Decision.reset => savedFrame = NoFrame
        BY <1>2, <2>2 DEF SavedAt, ResetsReference
      <4> HIDE DEF Decision
      <4> QED
        BY <1>1, <2>1, <2>5, <4>1, <4>2, <4>3, SavedStep
    <3>3. ltrFeatures' \subseteq 0 .. encodedFrames
      BY <1>1, <2>1, <2>2, <2>5
    <3>4. ASSUME ~SteeredBy PROVE gopOverride' = -1 /\ ltrFeatures' = CacheAfter(encodedFrames)
      <4>1. Decision.ltr = CacheBefore(encodedFrames)
            /\ (Decision.mark <=> Marks(encodedFrames))
        BY <3>4, DecisionScheduled DEF SyncInv
      <4>2. CacheAfter(encodedFrames)
              = CacheBefore(encodedFrames) \cup (IF Marks(encodedFrames) THEN {encodedFrames} ELSE {})
        BY <1>1, CacheStep
      <4> QED
        BY <1>2, <2>1, <2>3, <2>5, <3>4, <4>1, <4>2
    <3>5. encodedFrames' = encodedFrames + 1 /\ encodedFrames' - 1 = encodedFrames
      BY <1>1, <2>1, <2>5
    <3>6. encoderFailed' => steered'
      BY <1>2, <2>1, <2>3, <2>5
    <3>7. reference' = LastOf(encodedFrames') /\ LastOf(encodedFrames)' = LastOf(encodedFrames')
      BY <3>1, <3>5 DEF LastOf
    <3> QED
      BY <1>1, <1>2, <1>3, <2>1, <2>2, <2>5, <3>2, <3>3, <3>4, <3>5, <3>6, <3>7 DEF EncoderInv
  <2> QED
    BY <2>4, <2>5
<1>6. CASE LoseFrame \/ SkipGap
  BY <1>4, <1>6, GapStep DEF SyncInv
<1>7. CASE ReceiveFrame
  BY <1>4, <1>7, ReceiveStep DEF SyncInv
<1>8. CASE DecodeFrame
  BY <1>4, <1>8, DecodeStep DEF SyncInv
<1>9. CASE Quiet
  BY <1>4, <1>9 DEF Quiet
<1> QED
  BY <1>5, <1>6, <1>7, <1>8, <1>9, Cases

\* The frames on the wire are among those encoded.
LEMMA NumbersOnWire ==
  ASSUME Typed
  PROVE  /\ encodedFrames \in Nat /\ Len(wire) \in Nat /\ NextOnWire \in Int
         /\ wire' = wire /\ encodedFrames' = encodedFrames => NextOnWire' = NextOnWire
         /\ wire # <<>> /\ wire' = Tail(wire) /\ encodedFrames' = encodedFrames
              => NextOnWire' = NextOnWire + 1 /\ Len(wire') = Len(wire) - 1
         /\ \A u : wire' = Append(wire, u) /\ encodedFrames' = encodedFrames + 1
              => NextOnWire' = NextOnWire /\ Len(wire') = Len(wire) + 1
<1>1. wire \in Seq(ToSet(wire)) /\ encodedFrames \in Nat
  BY OptionFacts DEF Typed
<1>2. Len(wire) \in Nat
  BY <1>1
<1>3. wire # <<>> => Len(Tail(wire)) = Len(wire) - 1
  BY <1>1, TailElements
<1>4. \A u : Len(Append(wire, u)) = Len(wire) + 1
  BY <1>1, AppendElements
<1> QED
  BY <1>1, <1>2, <1>3, <1>4 DEF NextOnWire

LEMMA KeepsWire ==
  ASSUME SyncInv, [Next]_vars
  PROVE  WireInv'
<1>1. wire \in Seq(ToSet(wire)) /\ Typed
  BY DEF SyncInv, Typed
<1>2. /\ encodedFrames \in Nat /\ Len(wire) \in Nat /\ NextOnWire \in Int
      /\ wire' = wire /\ encodedFrames' = encodedFrames => NextOnWire' = NextOnWire
      /\ wire # <<>> /\ wire' = Tail(wire) /\ encodedFrames' = encodedFrames
           => NextOnWire' = NextOnWire + 1 /\ Len(wire') = Len(wire) - 1
      /\ \A u : wire' = Append(wire, u) /\ encodedFrames' = encodedFrames + 1
           => NextOnWire' = NextOnWire /\ Len(wire') = Len(wire) + 1
  BY <1>1, NumbersOnWire
<1>3. \A u, id : WireItem(u, id) => WireItem(u, id)'
  BY SteadyStream, Stays DEF SyncInv
<1>4. \A k \in 1 .. Len(wire) : WireItem(wire[k], NextOnWire + k - 1)
  BY DEF SyncInv, WireInv
<1>5. ASSUME wire' = wire, encodedFrames' = encodedFrames PROVE WireInv'
  <2>1. ASSUME NEW k \in 1 .. Len(wire') PROVE WireItem(wire[k], NextOnWire + k - 1)'
    BY <1>2, <1>3, <1>4, <1>5
  <2> QED
    BY <2>1 DEF WireInv
<1>6. ASSUME wire # <<>>, wire' = Tail(wire), encodedFrames' = encodedFrames PROVE WireInv'
  <2>1. ASSUME NEW k \in 1 .. Len(wire') PROVE WireItem(wire[k], NextOnWire + k - 1)'
    <3>1. k \in 1 .. Len(wire) - 1 /\ k + 1 \in 1 .. Len(wire)
          /\ NextOnWire + (k + 1) - 1 = NextOnWire' + k - 1
      BY <1>2, <1>6, <2>1
    <3>2. wire'[k] = wire[k + 1]
      BY <1>1, <1>6, <3>1, TailElements
    <3>3. WireItem(wire'[k], NextOnWire' + k - 1)
      BY <1>4, <3>1, <3>2
    <3> QED
      BY <1>3, <3>3
  <2> QED
    BY <2>1 DEF WireInv
<1>7. ASSUME NEW u, WireItem(u, encodedFrames), wire' = Append(wire, u),
             encodedFrames' = encodedFrames + 1
      PROVE  WireInv'
  <2>1. ASSUME NEW k \in 1 .. Len(wire') PROVE WireItem(wire[k], NextOnWire + k - 1)'
    <3>1. CASE k = Len(wire) + 1
      <4>1. wire'[k] = u
        BY <1>1, <1>7, <3>1, AppendElements
      <4>2. NextOnWire' + k - 1 = encodedFrames
        BY <1>2, <1>7, <3>1 DEF NextOnWire
      <4>3. WireItem(wire'[k], NextOnWire' + k - 1)
        BY <1>7, <4>1, <4>2
      <4> QED
        BY <1>3, <4>3
    <3>2. CASE k # Len(wire) + 1
      <4>1. k \in 1 .. Len(wire) /\ NextOnWire' = NextOnWire
        BY <1>2, <1>7, <2>1, <3>2
      <4>2. wire'[k] = wire[k]
        BY <1>1, <1>7, <4>1, AppendElements
      <4>3. WireItem(wire'[k], NextOnWire' + k - 1)
        BY <1>4, <4>1, <4>2
      <4> QED
        BY <1>3, <4>3
    <3> QED
      BY <3>1, <3>2
  <2> QED
    BY <2>1 DEF WireInv
<1>8. CASE EncodeFrame
  <2>1. \/ wire' = wire /\ encodedFrames' = encodedFrames
        \/ /\ encodedFrames' = encodedFrames + 1
           /\ \E u : wire' = Append(wire, u) /\ WireItem(u, encodedFrames)
    BY <1>8, EncodeStep DEF SyncInv
  <2> QED
    BY <1>5, <1>7, <2>1
<1>9. CASE LoseFrame \/ SkipGap
  <2>1. wire # <<>> /\ encodedFrames' = encodedFrames /\ (wire' = wire \/ wire' = Tail(wire))
    BY <1>9, GapStep DEF SyncInv
  <2> QED
    BY <1>5, <1>6, <2>1
<1>10. CASE ReceiveFrame
  <2>1. wire # <<>> /\ encodedFrames' = encodedFrames /\ wire' = Tail(wire)
    BY <1>10, ReceiveStep DEF SyncInv
  <2> QED
    BY <1>6, <2>1
<1>11. CASE DecodeFrame
  <2>1. encodedFrames' = encodedFrames /\ wire' = wire
    BY <1>11, DecodeStep DEF SyncInv
  <2> QED
    BY <1>5, <2>1
<1>12. CASE Quiet
  BY <1>5, <1>12 DEF Quiet
<1> QED
  BY <1>8, <1>9, <1>10, <1>11, <1>12, Cases

LEMMA KeepsPlace ==
  ASSUME SyncInv, [Next]_vars
  PROVE  PlaceInv'
<1>1. /\ Typed /\ opt' = opt /\ Unforced' = Unforced /\ packets \in Seq(ToSet(packets))
      /\ wire \in Seq(ToSet(wire)) /\ receiverFailed \in BOOLEAN /\ losses \in Nat
  BY SteadyStream, Stays DEF SyncInv, Typed
<1>2. /\ encodedFrames \in Nat /\ Len(wire) \in Nat /\ NextOnWire \in Int
      /\ wire' = wire /\ encodedFrames' = encodedFrames => NextOnWire' = NextOnWire
      /\ wire # <<>> /\ wire' = Tail(wire) /\ encodedFrames' = encodedFrames
           => NextOnWire' = NextOnWire + 1 /\ Len(wire') = Len(wire) - 1
      /\ \A u : wire' = Append(wire, u) /\ encodedFrames' = encodedFrames + 1
           => NextOnWire' = NextOnWire /\ Len(wire') = Len(wire) + 1
  BY <1>1, NumbersOnWire
<1>3. /\ expectedFrame \in 0 .. NextOnWire
      /\ ~receiverFailed /\ losses = 0 => expectedFrame = NextOnWire
      /\ shortAvailable = IF packets = <<>> THEN activeShort ELSE packets[Len(packets)].id
      /\ \/ receiverFailed
         \/ shortAvailable = expectedFrame - 1
         \/ /\ opt.transport = "rtp"
            /\ NextOnWire > expectedFrame \/ (wire # <<>> /\ Recoverable(wire[1]))
      /\ Unforced => ~receiverFailed
  BY DEF SyncInv, PlaceInv
<1>4. \A u : ltrIds' = ltrIds => (Recoverable(u)' <=> Recoverable(u))
  BY DEF Recoverable
<1>5. CASE Quiet \/ EncodeFrame
  <2>1. /\ UNCHANGED <<packets, losses, expectedFrame, shortAvailable, ltrIds, receiverFailed,
                       activeShort>>
        /\ \/ wire' = wire /\ encodedFrames' = encodedFrames
           \/ encodedFrames' = encodedFrames + 1 /\ \E u : wire' = Append(wire, u)
    <3>1. CASE Quiet
      BY <3>1 DEF Quiet
    <3>2. CASE EncodeFrame
      BY <3>2, EncodeStep DEF SyncInv
    <3> QED
      BY <1>5, <3>1, <3>2
  <2>2. NextOnWire' = NextOnWire
    BY <1>2, <2>1
  <2>3. wire # <<>> => wire' # <<>> /\ wire'[1] = wire[1]
    <3>1. wire # <<>> => 1 \in 1 .. Len(wire)
      BY <1>1, TailElements
    <3> QED
      BY <1>1, <2>1, <3>1, AppendElements
  <2>4. \/ receiverFailed'
        \/ shortAvailable' = expectedFrame' - 1
        \/ /\ opt'.transport = "rtp"
           /\ NextOnWire' > expectedFrame' \/ (wire' # <<>> /\ Recoverable(wire[1])')
    BY <1>1, <1>3, <1>4, <2>1, <2>2, <2>3
  <2> QED
    BY <1>1, <1>3, <2>1, <2>2, <2>4 DEF PlaceInv
<1>6. CASE LoseFrame \/ SkipGap
  <2>1. /\ wire # <<>> /\ opt.transport = "rtp" /\ (losses' # 0 \/ receiverFailed)
        /\ UNCHANGED <<encodedFrames, activeShort, packets, shortAvailable, ltrIds, receiverFailed>>
        /\ \/ wire' = Tail(wire) /\ expectedFrame' = expectedFrame
           \/ /\ wire' = wire /\ expectedFrame' = NextOnWire
              /\ ~receiverFailed /\ Recoverable(wire[1])
    BY <1>6, GapStep DEF SyncInv
  <2>2. CASE wire' = Tail(wire) /\ expectedFrame' = expectedFrame
    <3>1. NextOnWire' = NextOnWire + 1 /\ NextOnWire' > expectedFrame'
          /\ expectedFrame' \in 0 .. NextOnWire'
      BY <1>2, <1>3, <2>1, <2>2
    <3> QED
      BY <1>1, <1>3, <2>1, <3>1 DEF PlaceInv
  <2>3. CASE wire' = wire /\ expectedFrame' = NextOnWire /\ Recoverable(wire[1])
    <3>1. NextOnWire' = NextOnWire /\ expectedFrame' \in 0 .. NextOnWire'
      BY <1>2, <1>3, <2>1, <2>3
    <3>2. Recoverable(wire[1])'
      BY <1>4, <2>1, <2>3
    <3> QED
      BY <1>1, <1>3, <2>1, <2>3, <3>1, <3>2 DEF PlaceInv
  <2> QED
    BY <2>1, <2>2, <2>3
<1>7. CASE ReceiveFrame
  <2> DEFINE f == Received(wire[1])
  <2>1. /\ wire # <<>> /\ wire' = Tail(wire) /\ ~receiverFailed
        /\ WireItem(wire[1], NextOnWire) /\ NextOnWire = expectedFrame
        /\ UNCHANGED <<encodedFrames, activeShort, losses>>
        /\ \/ /\ ~Unforced /\ receiverFailed' = TRUE
              /\ UNCHANGED <<expectedFrame, shortAvailable, ltrIds, packets>>
           \/ /\ receiverFailed' = receiverFailed
              /\ expectedFrame' = f.id + 1 /\ shortAvailable' = f.id
              /\ packets' = Append(packets, f)
    BY <1>7, ReceiveStep DEF SyncInv
  <2>2. f.id = NextOnWire
    BY <1>1, <2>1, ItemFacts DEF Typed
  <2> HIDE DEF f
  <2>3. NextOnWire' = NextOnWire + 1 /\ expectedFrame \in Nat
    BY <1>2, <1>3, <2>1
  <2>4. CASE ~Unforced /\ receiverFailed' = TRUE
             /\ UNCHANGED <<expectedFrame, shortAvailable, ltrIds, packets>>
    <3>1. expectedFrame' \in 0 .. NextOnWire'
      BY <1>2, <1>3, <2>3, <2>4
    <3> QED
      BY <1>1, <1>3, <2>1, <2>4, <3>1 DEF PlaceInv
  <2>5. CASE /\ receiverFailed' = receiverFailed
             /\ expectedFrame' = f.id + 1 /\ shortAvailable' = f.id
             /\ packets' = Append(packets, f)
    <3>1. expectedFrame' = NextOnWire' /\ shortAvailable' = expectedFrame' - 1
          /\ expectedFrame' \in 0 .. NextOnWire'
      BY <2>1, <2>2, <2>3, <2>5
    <3>2. packets' # <<>> /\ packets'[Len(packets')] = f
      BY <1>1, <2>5, AppendElements
    <3> QED
      BY <2>1, <2>5, <3>1, <3>2 DEF PlaceInv
  <2> QED
    BY <2>1, <2>4, <2>5
<1>8. CASE DecodeFrame
  <2>1. /\ packets # <<>> /\ packets' = Tail(packets) /\ activeShort' = packets[1].id
        /\ UNCHANGED <<encodedFrames, expectedFrame, shortAvailable, ltrIds, receiverFailed,
                       wire, losses>>
    BY <1>8, DecodeStep DEF SyncInv
  <2>2. shortAvailable' = IF packets' = <<>> THEN activeShort' ELSE packets'[Len(packets')].id
    <3>1. /\ Len(Tail(packets)) = Len(packets) - 1 /\ Len(packets) \in Nat \ {0}
          /\ \A k \in 1 .. Len(packets) - 1 : Tail(packets)[k] = packets[k + 1]
          /\ Tail(packets) \in Seq(ToSet(Tail(packets)))
      BY <1>1, <2>1, TailElements
    <3>2. shortAvailable' = packets[Len(packets)].id
      BY <1>3, <2>1
    <3>3. CASE packets' = <<>>
      <4>1. Len(packets') = 0
        BY <3>3
      <4>2. Len(packets) = 1
        BY <2>1, <3>1, <4>1
      <4> QED
        BY <2>1, <3>2, <3>3, <4>2
    <3>4. CASE packets' # <<>>
      <4>1. Len(packets') # 0
        BY <2>1, <3>1, <3>4, TailElements
      <4>2. Len(packets') = Len(packets) - 1 /\ Len(packets) - 1 \in 1 .. Len(packets) - 1
            /\ (Len(packets) - 1) + 1 = Len(packets)
        BY <2>1, <3>1, <4>1
      <4>3. packets'[Len(packets')] = packets[Len(packets)]
        BY <2>1, <3>1, <4>2
      <4> QED
        BY <3>2, <3>4, <4>3
    <3> QED
      BY <3>3, <3>4
  <2>3. NextOnWire' = NextOnWire
    BY <1>2, <2>1
  <2>4. wire # <<>> /\ Recoverable(wire[1]) => wire' # <<>> /\ Recoverable(wire[1])'
    BY <1>4, <2>1
  <2> QED
    BY <1>1, <1>3, <2>1, <2>2, <2>3, <2>4 DEF PlaceInv
<1> QED
  BY <1>5, <1>6, <1>7, <1>8, Cases

\* What the decoder will hold after one more frame is read ...
LEMMA HoldReceive ==
  ASSUME Typed, NEW f, packets' = Append(packets, f), dLtr' = dLtr
  PROVE  \A id : WillHold(id)' <=> \/ f.id = id /\ "store" \in f.flags
                                   \/ f.type # "I" /\ WillHold(id)
<1>1. packets \in Seq(ToSet(packets))
  BY DEF Typed
<1>2. /\ NoIFrame(packets', 1) <=> NoIFrame(packets, 1) /\ f.type # "I"
      /\ \A id : StoredIn(packets', id) <=>
                   \/ f.id = id /\ "store" \in f.flags
                   \/ f.type # "I" /\ StoredIn(packets, id)
  BY <1>1, StoredAppended
<1> QED
  BY <1>2 DEF WillHold

\* ... and it does not depend on how far it has come.
LEMMA HoldDecode ==
  ASSUME Typed, PacketsInv, DecoderInv, DecodeFrame
  PROVE  \A id : WillHold(id)' <=> WillHold(id)
<1> DEFINE f == packets[1]
<1>1. packets \in Seq(ToSet(packets))
  BY DEF Typed
<1>2. /\ packets # <<>> /\ packets' = Tail(packets)
      /\ DOMAIN dLtr' = (IF f.type = "I" THEN {} ELSE DOMAIN dLtr)
                          \cup (IF "store" \in f.flags THEN {f.id} ELSE {})
  BY DecodeStep, Zenon
<1>3. /\ NoIFrame(packets, 1) <=> NoIFrame(packets', 1) /\ f.type # "I"
      /\ \A id : StoredIn(packets, id) <=>
                   \/ StoredIn(packets', id)
                   \/ f.id = id /\ "store" \in f.flags /\ NoIFrame(packets', 1)
  BY <1>1, <1>2, StoredTail
<1> HIDE DEF f
<1> TAKE id
<1>4. WillHold(id) <=> \/ StoredIn(packets, id)
                       \/ id \in DOMAIN dLtr /\ NoIFrame(packets, 1)
  BY DEF WillHold
<1>5. WillHold(id)' <=> \/ StoredIn(packets', id)
                        \/ id \in DOMAIN dLtr' /\ NoIFrame(packets', 1)
  BY DEF WillHold
<1>6. id \in DOMAIN dLtr' <=> \/ f.type # "I" /\ id \in DOMAIN dLtr
                              \/ "store" \in f.flags /\ f.id = id
  BY <1>2
<1> QED
  BY <1>3, <1>4, <1>5, <1>6

LEMMA KeepsList ==
  ASSUME SyncInv, [Next]_vars
  PROVE  ListInv'
<1>1. /\ ltrIds \subseteq 0 .. expectedFrame - 1
      /\ Cardinality(ltrIds) <= MaxLtrFrames
      /\ \A id \in ltrIds : WillHold(id)
      /\ \A id : WillHold(id) /\ id \notin ltrIds => Cardinality(ltrIds) = MaxLtrFrames
  BY DEF SyncInv, ListInv
<1>2. expectedFrame \in Nat /\ NextOnWire \in Int
  BY NumbersOnWire DEF SyncInv, PlaceInv
<1>3. ASSUME \A id : WillHold(id)' <=> WillHold(id), ltrIds' = ltrIds,
             expectedFrame' \in Nat, expectedFrame <= expectedFrame'
      PROVE  ListInv'
  <2>1. ltrIds' \subseteq 0 .. expectedFrame' - 1
    <3>1. ASSUME NEW x \in ltrIds PROVE x \in 0 .. expectedFrame' - 1
      <4>1. x \in 0 .. expectedFrame - 1
        BY <1>1
      <4>2. expectedFrame \in Nat /\ expectedFrame' \in Nat /\ expectedFrame <= expectedFrame'
        BY <1>2, <1>3
      <4>3. \A a, b \in Nat : a <= b /\ x \in 0 .. a - 1 => x \in 0 .. b - 1
        OBVIOUS
      <4> QED
        BY <4>1, <4>2, <4>3, Zenon
    <3> QED
      BY <1>3, <3>1
  <2> QED
    BY <1>1, <1>3, <2>1 DEF ListInv
<1>4. ASSUME packets' = packets, dLtr' = dLtr
      PROVE  \A id : WillHold(id)' <=> WillHold(id)
  BY <1>4 DEF WillHold
<1>5. CASE Quiet \/ EncodeFrame
  <2>1. UNCHANGED <<packets, dLtr, ltrIds, expectedFrame>>
    <3>1. CASE Quiet
      BY <3>1 DEF Quiet
    <3>2. CASE EncodeFrame
      BY <3>2, EncodeStep DEF SyncInv
    <3> QED
      BY <1>5, <3>1, <3>2
  <2> QED
    BY <1>2, <1>3, <1>4, <2>1
<1>6. CASE LoseFrame \/ SkipGap
  <2>1. UNCHANGED <<packets, dLtr, ltrIds>> /\ expectedFrame' \in {expectedFrame, NextOnWire}
    BY <1>6, GapStep DEF SyncInv
  <2>2. expectedFrame <= NextOnWire
    BY <1>2 DEF SyncInv, PlaceInv
  <2>3. expectedFrame' \in Nat /\ expectedFrame <= expectedFrame'
    BY <1>2, <2>1, <2>2
  <2> QED
    BY <1>3, <1>4, <2>1, <2>3
<1>7. CASE ReceiveFrame
  <2> DEFINE f == Received(wire[1])
  <2>1. /\ wire # <<>> /\ WireItem(wire[1], NextOnWire) /\ NextOnWire = expectedFrame
        /\ dLtr' = dLtr
        /\ \/ UNCHANGED <<expectedFrame, ltrIds, packets>>
           \/ /\ expectedFrame' = f.id + 1
              /\ ltrIds' = Newest(LtrIdsBefore(f) \cup
                                  (IF "store" \in f.flags THEN {f.id} ELSE {}))
              /\ packets' = Append(packets, f)
    BY <1>7, ReceiveStep DEF SyncInv
  <2>2. f.id = expectedFrame
    BY <2>1, ItemFacts DEF SyncInv, Typed
  <2> HIDE DEF f
  <2>3. CASE UNCHANGED <<expectedFrame, ltrIds, packets>>
    BY <1>2, <1>3, <1>4, <2>1, <2>3
  <2>4. CASE /\ expectedFrame' = f.id + 1
             /\ ltrIds' = Newest(LtrIdsBefore(f) \cup
                                 (IF "store" \in f.flags THEN {f.id} ELSE {}))
             /\ packets' = Append(packets, f)
    <3> DEFINE T == LtrIdsBefore(f)
               U == T \cup {f.id}
    <3>1. \A id : WillHold(id)' <=> \/ f.id = id /\ "store" \in f.flags
                                    \/ f.type # "I" /\ WillHold(id)
      BY <2>1, <2>4, HoldReceive DEF SyncInv
    <3>2. /\ T = IF f.type = "I" THEN {} ELSE ltrIds
          /\ T \in SUBSET (0 .. f.id - 1) /\ f.id \in Nat
          /\ Cardinality(T) <= MaxLtrFrames
      <4>1. Cardinality({}) = 0 /\ MaxLtrFrames \in Nat
        BY FS_EmptySet, ReferenceAssumption
      <4> QED
        BY <1>1, <1>2, <2>2, <4>1 DEF LtrIdsBefore
    <3> HIDE DEF T
    <3>3. /\ Newest(T) = T
          /\ Newest(U) \subseteq U /\ f.id \in Newest(U)
          /\ Cardinality(Newest(U)) <= MaxLtrFrames
          /\ Newest(U) # U => Cardinality(Newest(U)) = MaxLtrFrames
          /\ Cardinality(T) = MaxLtrFrames => Cardinality(Newest(U)) = MaxLtrFrames
      BY <3>2, NewestFacts
    <3>4. /\ "store" \in f.flags => ltrIds' = Newest(U)
          /\ "store" \notin f.flags => ltrIds' = T
      <4>1. T \cup {} = T
        OBVIOUS
      <4> QED
        BY <2>4, <3>3, <4>1 DEF T
    <3> HIDE DEF U
    <3>5. \A id : id \in U <=> id \in T \/ id = f.id
      BY DEF U
    <3>6. ltrIds' \subseteq T \cup {f.id} /\ ("store" \notin f.flags => f.id \notin ltrIds')
      <4>1. f.id \notin T
        BY <3>2
      <4> QED
        BY <3>3, <3>4, <3>5, <4>1
    <3>7. ltrIds' \subseteq 0 .. expectedFrame' - 1
      <4>1. ASSUME NEW x \in ltrIds' PROVE x \in 0 .. f.id
        BY <3>2, <3>6
      <4>2. (f.id + 1) - 1 = f.id
        BY <3>2
      <4> QED
        BY <2>4, <4>1, <4>2
    <3>8. Cardinality(ltrIds') <= MaxLtrFrames
      BY <3>2, <3>3, <3>4
    <3>9. ASSUME NEW id \in ltrIds' PROVE WillHold(id)'
      <4>1. CASE id = f.id
        BY <3>1, <3>6, <3>9, <4>1
      <4>2. CASE id # f.id
        <5>1. id \in T
          BY <3>6, <3>9, <4>2
        <5> QED
          BY <1>1, <3>1, <3>2, <5>1
      <4> QED
        BY <4>1, <4>2
    <3>10. ASSUME NEW id, WillHold(id)', id \notin ltrIds'
           PROVE  Cardinality(ltrIds') = MaxLtrFrames
      <4>1. CASE f.id = id /\ "store" \in f.flags
        BY <3>3, <3>4, <3>10, <4>1
      <4>2. CASE f.type # "I" /\ WillHold(id)
        <5>1. T = ltrIds
          BY <3>2, <4>2
        <5>2. CASE id \notin ltrIds
          BY <1>1, <3>3, <3>4, <4>2, <5>1, <5>2
        <5>3. CASE id \in ltrIds
          BY <3>3, <3>4, <3>5, <3>10, <5>1, <5>3
        <5> QED
          BY <5>2, <5>3
      <4> QED
        BY <3>1, <3>10, <4>1, <4>2
    <3> QED
      BY <3>7, <3>8, <3>9, <3>10 DEF ListInv
  <2> QED
    BY <2>1, <2>3, <2>4
<1>8. CASE DecodeFrame
  <2>1. ltrIds' = ltrIds /\ expectedFrame' = expectedFrame
    BY <1>8, DecodeStep DEF SyncInv
  <2>2. \A id : WillHold(id)' <=> WillHold(id)
    BY <1>8, HoldDecode DEF SyncInv
  <2> QED
    BY <1>2, <1>3, <2>1, <2>2
<1> QED
  BY <1>5, <1>6, <1>7, <1>8, Cases

LEMMA KeepsPackets ==
  ASSUME SyncInv, [Next]_vars
  PROVE  PacketsInv'
<1>1. /\ Typed /\ opt' = opt /\ packets \in Seq(ToSet(packets)) /\ Len(packets) \in Nat
  BY SteadyStream DEF SyncInv, Typed
<1>2. /\ \A e : Described(e) => Described(e)'
      /\ \A e, previous : Follows(e, previous)' <=> Follows(e, previous)
  BY SteadyStream, Stays DEF SyncInv
<1>3. \A k \in 1 .. Len(packets) :
        /\ Described(packets[k])
        /\ Follows(packets[k], Previous(k))
        /\ opt.transport = "rtp" /\ packets[k].type = "LTR" => Reachable(packets, DOMAIN dLtr, k)
  BY DEF SyncInv, PacketsInv
<1> DEFINE Item(k) == /\ Described(packets'[k])
                      /\ Follows(packets'[k], Previous(k)')
                      /\ opt.transport = "rtp" /\ packets'[k].type = "LTR"
                           => Reachable(packets', DOMAIN dLtr', k)
<1>4. SUFFICES \A k \in 1 .. Len(packets') : Item(k)
  BY <1>1, <1>2 DEF PacketsInv
<1>5. CASE UNCHANGED <<packets, dLtr, activeShort>>
  <2>1. \A k : Previous(k)' = Previous(k)
    BY <1>5 DEF Previous
  <2> QED
    BY <1>3, <1>5, <2>1
<1>6. CASE Quiet \/ EncodeFrame \/ LoseFrame \/ SkipGap
  <2>1. CASE Quiet
    BY <1>5, <2>1 DEF Quiet
  <2>2. CASE EncodeFrame
    BY <1>5, <2>2, EncodeStep DEF SyncInv
  <2>3. CASE LoseFrame \/ SkipGap
    BY <1>5, <2>3, GapStep DEF SyncInv
  <2> QED
    BY <1>6, <2>1, <2>2, <2>3
<1>7. CASE ReceiveFrame
  <2> DEFINE f == Received(wire[1])
  <2> PICK n : n = Len(packets) + 1
    OBVIOUS
  <2>1. /\ WireItem(wire[1], NextOnWire)
        /\ UNCHANGED <<dLtr, activeShort>>
        /\ \/ packets' = packets
           \/ /\ packets' = Append(packets, f)
              /\ Follows(f, shortAvailable)
              /\ opt.transport = "rtp" /\ f.type = "LTR" => f.long \in ltrIds
    BY <1>7, ReceiveStep DEF SyncInv
  <2>2. Described(f)
    BY <1>1, <2>1, ItemFacts DEF Typed
  <2> HIDE DEF f
  <2>3. CASE packets' = packets
    BY <1>5, <2>1, <2>3
  <2>4. CASE /\ packets' = Append(packets, f)
             /\ Follows(f, shortAvailable)
             /\ opt.transport = "rtp" /\ f.type = "LTR" => f.long \in ltrIds
    <3>1. Len(packets') = n /\ packets'[n] = f /\ \A k \in 1 .. Len(packets) : packets'[k] = packets[k]
      BY <1>1, <2>4, AppendElements
    <3>2. \A k \in 1 .. Len(packets) : Previous(k)' = Previous(k)
      <4> TAKE k \in 1 .. Len(packets)
      <4>1. k # 1 => k - 1 \in 1 .. Len(packets)
        BY <1>1
      <4> QED
        BY <2>1, <3>1, <4>1 DEF Previous
    <3>3. \A k \in 1 .. Len(packets) :
            Reachable(packets, DOMAIN dLtr, k) => Reachable(packets', DOMAIN dLtr', k)
      <4> TAKE k \in 1 .. Len(packets)
      <4>1. /\ \A j \in 1 .. k - 1 : packets'[j] = packets[j]
            /\ \A j \in 1 .. k - 1 : \A m \in j + 1 .. k : packets'[m] = packets[m]
            /\ \A m \in 1 .. k : packets'[m] = packets[m]
        BY <1>1, <3>1
      <4> QED
        BY <2>1, <3>1, <4>1 DEF Reachable
    <3>4. ASSUME NEW k \in 1 .. Len(packets) PROVE Item(k)
      BY <1>3, <3>1, <3>2, <3>3
    <3>5. Previous(n)' = shortAvailable
      <4>1. CASE packets = <<>>
        <5>1. n = 1 /\ shortAvailable = activeShort
          BY <4>1 DEF SyncInv, PlaceInv
        <5> QED
          BY <2>1, <5>1 DEF Previous
      <4>2. CASE packets # <<>>
        <5>1. Len(packets) \in 1 .. Len(packets) /\ n # 1 /\ n - 1 = Len(packets)
          BY <1>1, <4>2
        <5>2. shortAvailable = packets[Len(packets)].id
          BY <4>2 DEF SyncInv, PlaceInv
        <5> QED
          BY <3>1, <5>1, <5>2 DEF Previous
      <4> QED
        BY <4>1, <4>2
    <3>6. ASSUME opt.transport = "rtp", f.type = "LTR" PROVE Reachable(packets', DOMAIN dLtr', n)
      <4>1. WillHold(f.long)
        BY <2>4, <3>6 DEF SyncInv, ListInv
      <4>2. n - 1 = Len(packets) /\ \A m : m \in 1 .. n <=> m \in 1 .. Len(packets) \/ m = n
        BY <1>1
      <4>3. \A j \in 1 .. Len(packets) : \A m \in j + 1 .. n : m \in j + 1 .. Len(packets) \/ m = n
        BY <1>1
      <4>4. \A j \in 1 .. Len(packets) : \A m \in j + 1 .. Len(packets) : m \in 1 .. Len(packets)
        BY <1>1
      <4>5. CASE StoredIn(packets, f.long)
        <5>1. PICK j \in 1 .. Len(packets) :
                 /\ packets[j].id = f.long /\ "store" \in packets[j].flags /\ NoIFrame(packets, j + 1)
          BY <4>5 DEF StoredIn
        <5>2. \A m \in j + 1 .. n : packets'[m].type # "I"
          BY <3>1, <3>6, <4>3, <4>4, <5>1 DEF NoIFrame
        <5> QED
          BY <3>1, <4>2, <5>1, <5>2 DEF Reachable
      <4>6. CASE f.long \in DOMAIN dLtr /\ NoIFrame(packets, 1)
        <5>1. \A m \in 1 .. n : packets'[m].type # "I"
          BY <3>1, <3>6, <4>2, <4>6 DEF NoIFrame
        <5> QED
          BY <2>1, <3>1, <4>6, <5>1 DEF Reachable
      <4> QED
        BY <4>1, <4>5, <4>6 DEF WillHold
    <3>7. Item(n)
      BY <2>2, <2>4, <3>1, <3>5, <3>6
    <3>8. \A k \in 1 .. n : k \in 1 .. Len(packets) \/ k = n
      BY <1>1
    <3> HIDE DEF Item
    <3> QED
      BY <3>1, <3>4, <3>7, <3>8
  <2> QED
    BY <2>1, <2>3, <2>4
<1>8. CASE DecodeFrame
  <2> DEFINE f == packets[1]
  <2>1. /\ packets # <<>> /\ packets' = Tail(packets) /\ activeShort' = f.id
        /\ DOMAIN dLtr' = (IF f.type = "I" THEN {} ELSE DOMAIN dLtr)
                            \cup (IF "store" \in f.flags THEN {f.id} ELSE {})
    BY <1>8, DecodeStep, Zenon DEF SyncInv
  <2>2. Len(packets') = Len(packets) - 1 /\ \A k \in 1 .. Len(packets) - 1 : packets'[k] = packets[k + 1]
    BY <1>1, <2>1, TailElements
  <2>3. ASSUME NEW k \in 1 .. Len(packets') PROVE Item(k)
    <3>1. k + 1 \in 1 .. Len(packets) /\ k \in 1 .. Len(packets) - 1 /\ k + 1 # 1
          /\ (k + 1) - 1 = k
      BY <1>1, <2>2
    <3>2. packets'[k] = packets[k + 1]
      BY <2>2, <3>1
    <3>3. Previous(k)' = packets[k].id
      <4>1. CASE k = 1
        BY <2>1, <4>1 DEF Previous
      <4>2. CASE k # 1
        <5>1. k - 1 \in 1 .. Len(packets) - 1 /\ (k - 1) + 1 = k
          BY <1>1, <3>1, <4>2
        <5>2. packets'[k - 1] = packets[k]
          BY <2>2, <5>1
        <5> QED
          BY <4>2, <5>2 DEF Previous
      <4> QED
        BY <4>1, <4>2
    <3>4. Previous(k + 1) = packets[k].id
      BY <3>1 DEF Previous
    <3>5. /\ Described(packets[k + 1])
          /\ Follows(packets[k + 1], Previous(k + 1))
          /\ opt.transport = "rtp" /\ packets[k + 1].type = "LTR"
               => Reachable(packets, DOMAIN dLtr, k + 1)
      BY <1>3, <3>1
    <3>6. ASSUME opt.transport = "rtp", packets[k + 1].type = "LTR"
          PROVE  Reachable(packets', DOMAIN dLtr', k)
      <4>1. /\ "store" \in f.flags => f.id \in DOMAIN dLtr'
            /\ f.type # "I" => DOMAIN dLtr \subseteq DOMAIN dLtr'
        BY <2>1
      <4>2. Reachable(packets, DOMAIN dLtr, k + 1) /\ packets[k + 1].type # "I"
        BY <3>5, <3>6
      <4> QED
        BY <1>1, <2>1, <3>1, <4>1, <4>2, ReachableTail
    <3> QED
      BY <3>2, <3>3, <3>4, <3>5, <3>6
  <2> HIDE DEF Item
  <2> QED
    BY <2>3
<1> QED
  BY <1>6, <1>7, <1>8, Cases

LEMMA KeepsDecoder ==
  ASSUME SyncInv, [Next]_vars
  PROVE  DecoderInv'
<1>1. /\ Typed /\ opt' = opt /\ opt \in Options /\ (Untouched' => Untouched)
  BY SteadyStream DEF SyncInv, Typed
<1>2. \A n : SavedAt(n)' = SavedAt(n) /\ CacheAfter(n)' = CacheAfter(n)
  BY <1>1, Stays
<1>3. /\ activeShort \in {NoFrame} \cup Nat
      /\ dSaved = SavedAt(activeShort + 1)
      /\ Untouched => /\ mismatched = {}
                      /\ dReference = LastOf(activeShort + 1)
                      /\ \A k \in DOMAIN dLtr : dLtr[k] = k
      /\ opt.transport # "rtp" => DOMAIN dLtr = CacheAfter(activeShort)
      /\ DOMAIN dLtr \subseteq Nat
      /\ ~decoderFailed
  BY DEF SyncInv, DecoderInv
<1>4. ASSUME UNCHANGED <<dReference, dSaved, dLtr, activeShort, decoderFailed, mismatched>>
      PROVE  DecoderInv'
  BY <1>1, <1>2, <1>3, <1>4 DEF DecoderInv, LastOf
<1>5. CASE Quiet \/ EncodeFrame \/ LoseFrame \/ SkipGap \/ ReceiveFrame
  <2>1. CASE Quiet
    BY <1>4, <2>1 DEF Quiet
  <2>2. CASE EncodeFrame
    BY <1>4, <2>2, EncodeStep DEF SyncInv
  <2>3. CASE LoseFrame \/ SkipGap
    BY <1>4, <2>3, GapStep DEF SyncInv
  <2>4. CASE ReceiveFrame
    BY <1>4, <2>4, ReceiveStep DEF SyncInv
  <2> QED
    BY <1>5, <2>1, <2>2, <2>3, <2>4
<1>6. CASE DecodeFrame
  <2> DEFINE f == packets[1]
  <2>1. /\ packets # <<>> /\ activeShort' = f.id
        /\ decoderFailed' = decoderFailed
        /\ dSaved' = SavedAt(f.id + 1)
        /\ Untouched => /\ mismatched' = mismatched
                        /\ dReference' = Feature(f.id)
                        /\ \A k \in DOMAIN dLtr' : dLtr'[k] = k
        /\ DOMAIN dLtr' = (IF f.type = "I" THEN {} ELSE DOMAIN dLtr)
                            \cup (IF "store" \in f.flags THEN {f.id} ELSE {})
    BY <1>6, DecodeStep, Zenon DEF SyncInv
  <2>2. /\ Described(f) /\ f.id \in Nat
        /\ opt.transport # "rtp" => f.id = activeShort + 1
    BY <2>1, DecoderFinds, Zenon DEF SyncInv
  <2> HIDE DEF f
  <2>3. dReference' = Feature(f.id) => dReference' = LastOf(activeShort + 1)'
    <3>1. activeShort' + 1 # 0 /\ (activeShort' + 1) - 1 = f.id
      BY <2>1, <2>2
    <3> QED
      BY <3>1 DEF LastOf
  <2>4. ASSUME opt.transport # "rtp" PROVE DOMAIN dLtr' = CacheAfter(f.id)
    <3>1. Scheduled(f) /\ activeShort = f.id - 1
      BY <1>3, <2>2, <2>4 DEF Described, NoFrame
    <3>2. /\ f.type = "I" <=> f.id % opt.gop = 0
          /\ "store" \in f.flags <=> Marks(f.id)
      BY <3>1 DEF Scheduled
    <3>3. /\ CacheBefore(f.id) = IF f.id % opt.gop = 0 THEN {} ELSE CacheAfter(f.id - 1)
          /\ CacheAfter(f.id) = CacheBefore(f.id) \cup (IF Marks(f.id) THEN {f.id} ELSE {})
      BY <1>1, <2>2, CacheStep
    <3> QED
      BY <1>3, <2>1, <2>4, <3>1, <3>2, <3>3
  <2>5. DOMAIN dLtr' \subseteq Nat
    BY <1>3, <2>1, <2>2
  <2>6. SavedAt(activeShort + 1)' = SavedAt(f.id + 1) /\ CacheAfter(activeShort)' = CacheAfter(f.id)
    BY <1>2, <2>1
  <2> QED
    BY <1>1, <1>3, <2>1, <2>2, <2>3, <2>4, <2>5, <2>6 DEF DecoderInv
<1> QED
  BY <1>5, <1>6, Cases

LEMMA KeepsNewest ==
  ASSUME SyncInv, [Next]_vars
  PROVE  NewestInv'
<1>1. /\ Typed /\ opt' = opt /\ opt \in Options /\ wire \in Seq(ToSet(wire))
  BY SteadyStream DEF SyncInv, Typed
<1>2. /\ encodedFrames \in Nat /\ Len(wire) \in Nat /\ NextOnWire \in Int
      /\ wire' = wire /\ encodedFrames' = encodedFrames => NextOnWire' = NextOnWire
      /\ wire # <<>> /\ wire' = Tail(wire) /\ encodedFrames' = encodedFrames
           => NextOnWire' = NextOnWire + 1 /\ Len(wire') = Len(wire) - 1
      /\ \A u : wire' = Append(wire, u) /\ encodedFrames' = encodedFrames + 1
           => NextOnWire' = NextOnWire /\ Len(wire') = Len(wire) + 1
  BY <1>1, NumbersOnWire
<1>3. SUFFICES ASSUME opt.transport = "rtp", opt.recovery = NoFrame
               PROVE  /\ ltrFeatures' # {} => InReach(Max(ltrFeatures), Len(wire) + 1)'
                      /\ \A k \in 1 .. Len(wire') :
                           wire'[k].type = "LTR" => InReach(wire[k].long, k)'
  BY <1>1 DEF NewestInv
<1>4. /\ ltrFeatures # {} => InReach(Max(ltrFeatures), Len(wire) + 1)
      /\ \A k \in 1 .. Len(wire) : wire[k].type = "LTR" => InReach(wire[k].long, k)
  BY <1>3 DEF SyncInv, NewestInv
<1> DEFINE Held(id) == expectedFrame = NextOnWire => id \in ltrIds
           Later(id) == expectedFrame' = NextOnWire' => id \in ltrIds'
<1>5. \A id, k : /\ InReach(id, k) <=> OnTheWay(wire, id, k) \/ (NoNewer(wire, k) /\ Held(id))
                 /\ InReach(id, k)' <=> OnTheWay(wire', id, k) \/ (NoNewer(wire', k) /\ Later(id))
  BY DEF InReach
<1>6. ASSUME UNCHANGED <<wire, encodedFrames, ltrFeatures, expectedFrame, ltrIds>>
      PROVE  /\ ltrFeatures' # {} => InReach(Max(ltrFeatures), Len(wire) + 1)'
             /\ \A k \in 1 .. Len(wire') : wire'[k].type = "LTR" => InReach(wire[k].long, k)'
  BY <1>2, <1>4, <1>5, <1>6
\* One frame less on the wire.
<1>7. ASSUME wire # <<>>, wire' = Tail(wire), encodedFrames' = encodedFrames,
             ltrFeatures' = ltrFeatures,
             \A id : "store" \in wire[1].flags /\ wire[1].id = id => Later(id),
             \A id : Plain(wire[1]) /\ Held(id) => Later(id)
      PROVE  /\ ltrFeatures' # {} => InReach(Max(ltrFeatures), Len(wire) + 1)'
             /\ \A k \in 1 .. Len(wire') : wire'[k].type = "LTR" => InReach(wire[k].long, k)'
  <2>1. Len(wire') = Len(wire) - 1 /\ \A k \in 1 .. Len(wire) - 1 : wire'[k] = wire[k + 1]
    BY <1>1, <1>7, TailElements
  <2>2. ASSUME NEW k \in 1 .. Len(wire), NEW id, InReach(id, k + 1) PROVE InReach(id, k)'
    <3>1. /\ NoNewer(wire, k + 1) <=> NoNewer(wire', k) /\ Plain(wire[1])
          /\ OnTheWay(wire, id, k + 1) =>
               \/ OnTheWay(wire', id, k)
               \/ wire[1].id = id /\ "store" \in wire[1].flags /\ NoNewer(wire', k)
      BY <1>1, <1>7, ReachTail
    <3> HIDE DEF Held, Later
    <3> QED
      BY <1>5, <1>7, <2>2, <3>1
  <2>3. ASSUME NEW k \in 1 .. Len(wire'), wire'[k].type = "LTR" PROVE InReach(wire[k].long, k)'
    <3>1. k \in 1 .. Len(wire) /\ k + 1 \in 1 .. Len(wire) /\ wire'[k] = wire[k + 1]
      BY <1>2, <2>1
    <3>2. InReach(wire[k + 1].long, k + 1)
      BY <1>4, <2>3, <3>1
    <3> QED
      BY <1>5, <2>2, <3>1, <3>2
  <2>4. ASSUME ltrFeatures' # {} PROVE InReach(Max(ltrFeatures), Len(wire) + 1)'
    <3>1. Len(wire) \in 1 .. Len(wire) /\ Len(wire') + 1 = Len(wire)
      <4>1. Len(wire) \in Nat \ {0}
        BY <1>1, <1>7, TailElements
      <4> QED
        BY <2>1, <4>1
    <3>2. InReach(Max(ltrFeatures), Len(wire) + 1)
      BY <1>4, <1>7, <2>4
    <3>3. PICK id : id = Max(ltrFeatures) /\ id = Max(ltrFeatures')
      BY <1>7
    <3>4. PICK n : n = Len(wire)
      OBVIOUS
    <3>5. InReach(id, n)'
      BY <2>2, <3>1, <3>2, <3>3, <3>4
    <3> QED
      BY <1>5, <3>1, <3>3, <3>4, <3>5
  <2> QED
    BY <2>3, <2>4
<1>8. CASE Quiet
  BY <1>6, <1>8 DEF Quiet
<1>9. CASE DecodeFrame
  BY <1>6, <1>9, DecodeStep DEF SyncInv
<1>10. CASE LoseFrame \/ SkipGap
  <2>1. /\ wire # <<>>
        /\ UNCHANGED <<encodedFrames, ltrFeatures, ltrIds>>
        /\ \/ wire' = Tail(wire) /\ expectedFrame' = expectedFrame
           \/ /\ wire' = wire /\ expectedFrame' = NextOnWire
              /\ ~receiverFailed /\ Recoverable(wire[1])
    BY <1>10, GapStep DEF SyncInv
  <2>2. CASE wire' = Tail(wire) /\ expectedFrame' = expectedFrame
    <3>1. expectedFrame' # NextOnWire'
      <4>1. NextOnWire' = NextOnWire + 1
        BY <1>2, <2>1, <2>2
      <4>2. expectedFrame \in 0 .. NextOnWire
        BY DEF SyncInv, PlaceInv
      <4> QED
        BY <1>2, <2>2, <4>1, <4>2
    <3> QED
      BY <1>7, <2>1, <2>2, <3>1
  \* The receiver resumes at wire[1].
  <2>3. CASE wire' = wire /\ expectedFrame' = NextOnWire /\ Recoverable(wire[1])
    <3>1. WireItem(wire[1], NextOnWire) /\ 1 \in 1 .. Len(wire)
      BY <2>1, HeadOfWire DEF SyncInv
    <3>2. /\ Described(Received(wire[1])) /\ Received(wire[1]).type = wire[1].type
          /\ Received(wire[1]).flags = wire[1].flags
      BY <1>1, <3>1, ItemFacts
    <3>3. ~Plain(wire[1])
      <4>1. wire[1].type = "LTR" => "store" \in wire[1].flags
        BY <1>3, <3>2 DEF Described
      <4> QED
        BY <2>3, <4>1 DEF Plain, Recoverable
    <3>4. ASSUME NEW k \in 2 .. Len(wire) + 1, NEW id, InReach(id, k) PROVE InReach(id, k)'
      <4>1. 1 \in 1 .. k - 1
        BY <3>1, <3>4
      <4>2. ~NoNewer(wire, k)
        BY <3>3, <4>1 DEF NoNewer
      <4> HIDE DEF Held, Later
      <4> QED
        BY <1>5, <2>3, <3>4, <4>2
    <3>5. ASSUME NEW k \in 1 .. Len(wire'), wire'[k].type = "LTR" PROVE InReach(wire[k].long, k)'
      <4>1. InReach(wire[k].long, k) /\ k \in 1 .. Len(wire)
        BY <1>4, <2>3, <3>5
      <4>2. CASE k = 1
        <5>1. wire[1].long \in ltrIds'
          BY <2>1, <2>3, <3>5, <4>2 DEF Recoverable
        <5>2. NoNewer(wire', 1)
          BY DEF NoNewer
        <5>3. Later(wire'[1].long)
          BY <2>3, <5>1
        <5> HIDE DEF Held, Later
        <5> QED
          BY <1>5, <4>2, <5>2, <5>3
      <4>3. CASE k # 1
        <5>1. k \in 2 .. Len(wire) + 1
          BY <1>2, <4>1, <4>3
        <5>2. PICK id : id = wire[k].long
          OBVIOUS
        <5>3. InReach(id, k)'
          BY <3>4, <4>1, <5>1, <5>2
        <5> QED
          BY <1>5, <2>3, <5>2, <5>3
      <4> QED
        BY <4>2, <4>3
    <3>6. ASSUME ltrFeatures' # {} PROVE InReach(Max(ltrFeatures), Len(wire) + 1)'
      <4>1. InReach(Max(ltrFeatures), Len(wire) + 1) /\ Len(wire) + 1 \in 2 .. Len(wire) + 1
        BY <1>2, <1>4, <2>1, <3>1, <3>6
      <4>2. PICK id, n : id = Max(ltrFeatures) /\ n = Len(wire) + 1
        OBVIOUS
      <4>3. InReach(id, n)'
        BY <3>4, <4>1, <4>2
      <4>4. id = Max(ltrFeatures') /\ n = Len(wire') + 1
        BY <2>1, <2>3, <4>2
      <4> QED
        BY <1>5, <4>3, <4>4
    <3> QED
      BY <3>5, <3>6
  <2> QED
    BY <2>1, <2>2, <2>3
<1>11. CASE ReceiveFrame
  <2> DEFINE f == Received(wire[1])
  <2>1. /\ wire # <<>> /\ wire' = Tail(wire)
        /\ WireItem(wire[1], NextOnWire) /\ NextOnWire = expectedFrame
        /\ UNCHANGED <<encodedFrames, ltrFeatures>>
        /\ \/ ~Unforced
           \/ ltrIds' = Newest(LtrIdsBefore(f) \cup (IF "store" \in f.flags THEN {f.id} ELSE {}))
    BY <1>11, ReceiveStep DEF SyncInv
  <2>2. /\ f.id = NextOnWire /\ wire[1].id = NextOnWire
        /\ f.type = wire[1].type /\ f.flags = wire[1].flags
    BY <1>1, <2>1, ItemFacts
  <2> HIDE DEF f
  <2>3. ltrIds' = Newest(LtrIdsBefore(f) \cup (IF "store" \in f.flags THEN {f.id} ELSE {}))
    BY <1>3, <2>1 DEF Unforced
  <2> DEFINE T == LtrIdsBefore(f)
  <2>4. T \in SUBSET (0 .. f.id - 1) /\ f.id \in Nat /\ Cardinality(T) <= MaxLtrFrames
    <3>1. Cardinality({}) = 0 /\ MaxLtrFrames \in Nat
      BY FS_EmptySet, ReferenceAssumption
    <3>2. ltrIds \subseteq 0 .. expectedFrame - 1 /\ Cardinality(ltrIds) <= MaxLtrFrames
          /\ expectedFrame \in 0 .. NextOnWire
      BY DEF SyncInv, ListInv, PlaceInv
    <3>3. expectedFrame \in Nat
      BY <1>2, <3>2
    <3> QED
      BY <2>1, <2>2, <3>1, <3>2, <3>3 DEF LtrIdsBefore
  <2>5. "store" \in f.flags => f.id \in ltrIds'
    <3> HIDE DEF T
    <3>1. f.id \in Newest(T \cup {f.id})
      BY <2>4, NewestFacts
    <3> QED
      BY <2>3, <3>1 DEF T
  <2>6. Plain(f) => ltrIds' = ltrIds
    <3>1. T = LtrIdsBefore(f) /\ T \cup {} = T
      OBVIOUS
    <3> HIDE DEF T
    <3>2. Newest(T) = T
      BY <2>4, NewestFacts
    <3>3. Plain(f) => T = ltrIds
      BY <3>1 DEF Plain, LtrIdsBefore
    <3>4. "store" \notin f.flags => ltrIds' = T
      BY <2>3, <3>1, <3>2
    <3> QED
      BY <3>3, <3>4 DEF Plain
  <2>7. Plain(f) <=> Plain(wire[1])
    BY <2>2 DEF Plain
  <2> QED
    BY <1>7, <2>1, <2>2, <2>5, <2>6, <2>7
<1>12. CASE EncodeFrame
  <2> DEFINE i == encodedFrames
  <2>1. /\ UNCHANGED <<expectedFrame, ltrIds>>
        /\ \/ UNCHANGED <<encodedFrames, ltrFeatures, wire>>
           \/ /\ encodedFrames' = i + 1
              /\ ltrFeatures' = Decision.ltr \cup (IF Decision.mark THEN {i} ELSE {})
              /\ \E u : /\ wire' = Append(wire, u) /\ WireItem(u, i)
                        /\ u.type = Decision.type
                        /\ "store" \in u.flags <=> Decision.mark
                        /\ u.type = "LTR" => u.long = LtrReference(Decision)
    BY <1>12, EncodeStep DEF SyncInv
  <2>2. CASE UNCHANGED <<encodedFrames, ltrFeatures, wire>>
    BY <1>6, <2>1, <2>2
  <2>3. CASE /\ encodedFrames' = i + 1
             /\ ltrFeatures' = Decision.ltr \cup (IF Decision.mark THEN {i} ELSE {})
             /\ \E u : /\ wire' = Append(wire, u) /\ WireItem(u, i)
                       /\ u.type = Decision.type
                       /\ "store" \in u.flags <=> Decision.mark
                       /\ u.type = "LTR" => u.long = LtrReference(Decision)
    <3>1. PICK u : /\ wire' = Append(wire, u) /\ WireItem(u, i)
                   /\ u.type = Decision.type
                   /\ "store" \in u.flags <=> Decision.mark
                   /\ u.type = "LTR" => u.long = LtrReference(Decision)
      BY <2>3
    <3>2. PICK n : n = Len(wire)
      OBVIOUS
    <3>3. /\ n \in Nat /\ Len(wire') = n + 1 /\ NextOnWire' = NextOnWire
          /\ wire'[n + 1] = u /\ \A k \in 1 .. n : wire'[k] = wire[k]
      BY <1>1, <1>2, <2>3, <3>1, <3>2, AppendElements
    <3>4. /\ Decision.forced <=> i = opt.recovery
          /\ Decision.ltr = IF Decision.isI THEN {} ELSE ltrFeatures
          /\ Decision.ltr \subseteq 0 .. i - 1
          /\ Decision.type = IF Decision.isI THEN "I"
                             ELSE IF Decision.ltr # {} /\ (Decision.forced \/ Decision.mark)
                             THEN "LTR" ELSE "P"
          /\ i \in Nat
      BY DecisionFacts DEF SyncInv
    <3>5. ~Decision.forced
      BY <1>3, <3>4 DEF NoFrame
    <3>6. \A id : Later(id) <=> Held(id)
      BY <2>1, <3>3
    <3> HIDE DEF Held, Later
    <3>7. /\ \A k \in 1 .. n + 1 :
               /\ NoNewer(wire', k) <=> NoNewer(wire, k)
               /\ \A id : OnTheWay(wire', id, k) <=> OnTheWay(wire, id, k)
          /\ Plain(u) => /\ NoNewer(wire, n + 1) => NoNewer(wire', n + 2)
                         /\ \A id : OnTheWay(wire, id, n + 1) => OnTheWay(wire', id, n + 2)
          /\ "store" \in u.flags => OnTheWay(wire', u.id, n + 2)
      BY <1>1, <3>1, <3>2, ReachAppended
    <3>8. \A k \in 1 .. n + 1 : \A id : InReach(id, k) => InReach(id, k)'
      BY <1>5, <3>6, <3>7
    <3>9. ASSUME NEW k \in 1 .. n + 1, wire'[k].type = "LTR" PROVE InReach(wire[k].long, k)'
      <4>1. CASE k = n + 1
        <5>1. /\ Decision.type = "LTR" /\ ~Decision.isI /\ Decision.ltr = ltrFeatures
              /\ ltrFeatures # {} /\ u.long = Max(ltrFeatures)
          BY <3>1, <3>3, <3>4, <3>5, <3>9, <4>1 DEF LtrReference
        <5>2. InReach(u.long, k)
          BY <1>4, <3>2, <4>1, <5>1
        <5> QED
          BY <1>5, <3>3, <3>8, <4>1, <5>2
      <4>2. CASE k # n + 1
        <5>1. k \in 1 .. n
          BY <3>3, <4>2
        <5>2. PICK id : id = wire[k].long
          OBVIOUS
        <5>3. InReach(id, k)'
          BY <1>4, <3>2, <3>3, <3>8, <3>9, <5>1, <5>2
        <5> QED
          BY <1>5, <3>3, <5>1, <5>2, <5>3
      <4> QED
        BY <4>1, <4>2
    <3>10. ASSUME ltrFeatures' # {} PROVE InReach(Max(ltrFeatures), Len(wire) + 1)'
      <4>0. Len(wire') + 1 = n + 2
        BY <3>3
      <4>1. CASE Decision.mark
        <5>1. Max(ltrFeatures') = i
          <6>1. ltrFeatures' = Decision.ltr \cup {i}
            BY <2>3, <4>1
          <6>2. ltrFeatures' \in SUBSET (0 .. i) /\ i \in ltrFeatures' /\ \A k \in ltrFeatures' : k <= i
            BY <3>4, <6>1
          <6> QED
            BY <3>4, <6>2, LargestIs
        <5>2. u.id = i /\ OnTheWay(wire', u.id, n + 2)
          BY <3>1, <3>7, <4>1 DEF WireItem
        <5> QED
          BY <1>5, <4>0, <5>1, <5>2
      <4>2. CASE ~Decision.mark
        <5>1. /\ ltrFeatures' = ltrFeatures /\ ltrFeatures # {} /\ ~Decision.isI
          BY <2>3, <3>4, <3>10, <4>2
        <5>2. Plain(u)
          BY <3>1, <3>4, <4>2, <5>1 DEF Plain
        <5>3. InReach(Max(ltrFeatures), n + 1)
          BY <1>4, <3>2, <5>1
        <5>4. OnTheWay(wire', Max(ltrFeatures'), n + 2) \/ (NoNewer(wire', n + 2) /\ Later(Max(ltrFeatures')))
          BY <1>5, <3>6, <3>7, <5>1, <5>2, <5>3
        <5> QED
          BY <1>5, <4>0, <5>4
      <4> QED
        BY <4>1, <4>2
    <3> QED
      BY <3>3, <3>9, <3>10
  <2> QED
    BY <2>1, <2>2, <2>3
<1> QED
  BY <1>8, <1>9, <1>10, <1>11, <1>12, Cases

LEMMA KeepsCache ==
  ASSUME SyncInv, [Next]_vars
  PROVE  CacheInv'
<1>1. Typed /\ wire \in Seq(ToSet(wire)) /\ receiverFailed \in BOOLEAN /\ losses \in Nat
  BY DEF SyncInv, Typed
<1>2. losses = 0 /\ ~receiverFailed => \A id : id \in ltrFeatures <=> WillHoldAll(id)
  BY DEF SyncInv, CacheInv
<1>3. \A id : /\ WillHoldAll(id) <=> StoredIn(wire, id) \/ (NoIFrame(wire, 1) /\ WillHold(id))
              /\ WillHoldAll(id)' <=> StoredIn(wire', id) \/ (NoIFrame(wire', 1) /\ WillHold(id)')
  BY DEF WillHoldAll
<1>4. packets' = packets /\ dLtr' = dLtr => \A id : WillHold(id)' <=> WillHold(id)
  BY DEF WillHold
<1>5. ASSUME UNCHANGED <<wire, ltrFeatures, losses, receiverFailed>>,
             \A id : WillHold(id)' <=> WillHold(id)
      PROVE  CacheInv'
  BY <1>2, <1>3, <1>5 DEF CacheInv
<1>6. CASE Quiet
  BY <1>4, <1>5, <1>6 DEF Quiet
<1>7. CASE DecodeFrame
  <2>1. UNCHANGED <<wire, ltrFeatures, losses, receiverFailed>>
    BY <1>7, DecodeStep DEF SyncInv
  <2>2. \A id : WillHold(id)' <=> WillHold(id)
    BY <1>7, HoldDecode DEF SyncInv
  <2> QED
    BY <1>5, <2>1, <2>2
<1>8. CASE LoseFrame \/ SkipGap
  <2>1. losses' # 0 \/ receiverFailed'
    BY <1>8, GapStep DEF SyncInv
  <2> QED
    BY <2>1 DEF CacheInv
<1>9. CASE ReceiveFrame
  <2> DEFINE f == Received(wire[1])
  <2>1. /\ wire # <<>> /\ wire' = Tail(wire) /\ ~receiverFailed
        /\ WireItem(wire[1], NextOnWire)
        /\ UNCHANGED <<ltrFeatures, losses, dLtr>>
        /\ receiverFailed' = TRUE \/ (receiverFailed' = receiverFailed /\ packets' = Append(packets, f))
    BY <1>9, ReceiveStep DEF SyncInv
  <2>2. f.id = wire[1].id /\ f.type = wire[1].type /\ f.flags = wire[1].flags
    BY <1>1, <2>1, ItemFacts DEF Typed
  <2> HIDE DEF f
  <2>3. CASE receiverFailed' = TRUE
    BY <2>3 DEF CacheInv
  <2>4. CASE receiverFailed' = receiverFailed /\ packets' = Append(packets, f)
    <3>1. \A id : WillHold(id)' <=> \/ f.id = id /\ "store" \in f.flags
                                    \/ f.type # "I" /\ WillHold(id)
      BY <1>1, <2>1, <2>4, HoldReceive
    <3>2. /\ NoIFrame(wire, 1) <=> NoIFrame(wire', 1) /\ wire[1].type # "I"
          /\ \A id : StoredIn(wire, id) <=>
                       \/ StoredIn(wire', id)
                       \/ wire[1].id = id /\ "store" \in wire[1].flags /\ NoIFrame(wire', 1)
      BY <1>1, <2>1, StoredTail
    <3>3. \A id : WillHoldAll(id)' <=> WillHoldAll(id)
      BY <1>3, <2>2, <3>1, <3>2
    <3> QED
      BY <1>2, <2>1, <2>4, <3>3 DEF CacheInv
  <2> QED
    BY <2>1, <2>3, <2>4
<1>10. CASE EncodeFrame
  <2>1. /\ UNCHANGED <<losses, receiverFailed, packets, dLtr>>
        /\ \/ UNCHANGED <<ltrFeatures, wire>>
           \/ /\ ltrFeatures' = Decision.ltr \cup (IF Decision.mark THEN {encodedFrames} ELSE {})
              /\ \E u : /\ wire' = Append(wire, u) /\ WireItem(u, encodedFrames)
                        /\ u.type = Decision.type
                        /\ "store" \in u.flags <=> Decision.mark
    BY <1>10, EncodeStep DEF SyncInv
  <2>2. CASE UNCHANGED <<ltrFeatures, wire>>
    BY <1>4, <1>5, <2>1, <2>2
  <2>3. CASE /\ ltrFeatures' = Decision.ltr \cup (IF Decision.mark THEN {encodedFrames} ELSE {})
             /\ \E u : /\ wire' = Append(wire, u) /\ WireItem(u, encodedFrames)
                       /\ u.type = Decision.type
                       /\ "store" \in u.flags <=> Decision.mark
    <3>1. PICK u : /\ wire' = Append(wire, u) /\ WireItem(u, encodedFrames)
                   /\ u.type = Decision.type
                   /\ "store" \in u.flags <=> Decision.mark
      BY <2>3
    <3>2. /\ NoIFrame(wire', 1) <=> NoIFrame(wire, 1) /\ u.type # "I"
          /\ \A id : StoredIn(wire', id) <=>
                       \/ u.id = id /\ "store" \in u.flags
                       \/ u.type # "I" /\ StoredIn(wire, id)
      BY <1>1, <3>1, StoredAppended
    <3>3. u.id = encodedFrames
      BY <3>1 DEF WireItem
    <3>4. /\ Decision.ltr = IF Decision.isI THEN {} ELSE ltrFeatures
          /\ u.type = "I" <=> Decision.isI
      BY <3>1, DecisionFacts DEF SyncInv
    <3>5. \A id : WillHoldAll(id)' <=> \/ id = encodedFrames /\ Decision.mark
                                       \/ ~Decision.isI /\ WillHoldAll(id)
      BY <1>3, <1>4, <2>1, <3>1, <3>2, <3>3, <3>4
    <3>6. \A id : id \in ltrFeatures' <=> \/ id = encodedFrames /\ Decision.mark
                                          \/ ~Decision.isI /\ id \in ltrFeatures
      BY <2>3, <3>4
    <3> QED
      BY <1>2, <2>1, <3>5, <3>6 DEF CacheInv
  <2> QED
    BY <2>1, <2>2, <2>3
<1> QED
  BY <1>6, <1>7, <1>8, <1>9, <1>10, Cases

-----------------------------------------------------------------------------
LEMMA StartsInSync == Init => SyncInv
<1> SUFFICES ASSUME Init PROVE SyncInv
  OBVIOUS
<1>1. /\ opt \in Options
      /\ header = (IF Explicit THEN HeaderOf(ReadScu) ELSE OptionsHeader)
      /\ writerFailed = (\/ BitstreamHeaderRefused(OptionsHeader)
                         \/ Explicit /\ ScuRefused(SentScu))
      /\ receiverFailed = (\/ Explicit /\ ParseScuRefused(ScuUnit(SentScu))
                           \/ Explicit /\ HeaderRefused(ReadScu)
                           \/ BitstreamHeaderRefused(header))
      /\ encodedFrames = 0 /\ gopOverride = -1 /\ encoderFailed = FALSE
      /\ reference = Zero /\ savedFrame = NoFrame /\ ltrFeatures = {}
      /\ controls = <<>> /\ requests = 0
      /\ wire = <<>> /\ packets = <<>>
      /\ expectedFrame = 0 /\ shortAvailable = NoFrame /\ ltrIds = {}
      /\ dReference = Zero /\ dSaved = NoFrame /\ dLtr = [k \in {} |-> k]
      /\ activeShort = NoFrame /\ decoderFailed = DecoderRefuses(header)
      /\ steered = FALSE /\ mismatched = {}
      /\ commandsSeen = 0 /\ requestsSeen = 0 /\ losses = 0
  BY DEF Init
<1>2. /\ ~BitstreamHeaderRefused(OptionsHeader) /\ ~DecoderRefuses(OptionsHeader)
      /\ ~ScuRefused(SentScu) /\ ~ParseScuRefused(ScuUnit(SentScu))
      /\ ~HeaderRefused(ReadScu) /\ HeaderOf(ReadScu) = OptionsHeader
  BY <1>1, HeaderAccepted
<1>3. header = OptionsHeader
  BY <1>1, <1>2
<1>4. writerFailed = FALSE /\ receiverFailed = FALSE /\ decoderFailed = FALSE
  BY <1>1, <1>2, <1>3
<1>5. /\ opt.gop \in Nat \ {0} /\ Bounds[opt.warp].frames \in Nat
      /\ Len(wire) = 0 /\ Len(packets) = 0 /\ NextOnWire = 0
      /\ DOMAIN dLtr = {} /\ CacheAfter(-1) = {} /\ SavedAt(0) = NoFrame
      /\ Cardinality({}) = 0 /\ MaxLtrFrames \in Nat \ {0}
  <2>1. opt.gop \in Nat \ {0} /\ Bounds[opt.warp].frames \in Nat
    BY <1>1, OptionFacts
  <2>2. Len(wire) = 0 /\ Len(packets) = 0 /\ NextOnWire = 0 /\ DOMAIN dLtr = {} /\ SavedAt(0) = NoFrame
    <3>1. Len(<<>>) = 0 /\ DOMAIN [k \in {} |-> k] = {}
      OBVIOUS
    <3>2. Len(wire) = 0 /\ Len(packets) = 0 /\ DOMAIN dLtr = {}
      BY <1>1, <3>1
    <3>3. SavedAt(0) = NoFrame
      BY DEF SavedAt
    <3>4. encodedFrames = 0
      BY <1>1
    <3>5. NextOnWire = 0
      BY <3>2, <3>4 DEF NextOnWire
    <3> QED
      BY <3>2, <3>3, <3>5
  <2>3. CacheAfter(-1) = {}
    BY <1>1, CacheStep
  <2>4. Cardinality({}) = 0 /\ MaxLtrFrames \in Nat \ {0}
    BY FS_EmptySet, ReferenceAssumption
  <2> QED
    BY <2>1, <2>2, <2>3, <2>4
<1>6. Typed
  <2>1. <<>> \in Seq(ToSet(<<>>)) /\ <<>> \in Seq(Commands[opt.warp])
    OBVIOUS
  <2>2. wire \in Seq(ToSet(wire)) /\ packets \in Seq(ToSet(packets))
        /\ controls \in Seq(Commands[opt.warp])
    BY <1>1, <2>1
  <2>3. encodedFrames \in 0 .. Bounds[opt.warp].frames /\ gopOverride \in Int
        /\ requests \in Nat /\ requestsSeen \in Nat /\ losses \in Nat /\ requests <= requestsSeen
    BY <1>1, <1>5
  <2>4. {encoderFailed, writerFailed, receiverFailed, decoderFailed, steered} \subseteq BOOLEAN
    BY <1>1, <1>4
  <2> QED
    BY <1>1, <1>3, <2>2, <2>3, <2>4 DEF Typed
<1>7. EncoderInv
  BY <1>1, <1>4, <1>5 DEF EncoderInv, LastOf
<1>8. WireInv /\ PacketsInv
  BY <1>1, <1>5 DEF WireInv, PacketsInv
<1>9. PlaceInv
  BY <1>1, <1>4, <1>5 DEF PlaceInv, NoFrame
<1>10. \A id : ~WillHold(id) /\ ~WillHoldAll(id)
  BY <1>1, <1>5 DEF WillHold, WillHoldAll, StoredIn
<1>11. ListInv
  BY <1>1, <1>5, <1>10 DEF ListInv
<1>12. DecoderInv
  BY <1>1, <1>4, <1>5 DEF DecoderInv, LastOf, NoFrame
<1>13. NewestInv
  BY <1>1, <1>5 DEF NewestInv
<1>14. CacheInv
  BY <1>1, <1>10 DEF CacheInv
<1> QED
  BY <1>6, <1>7, <1>8, <1>9, <1>11, <1>12, <1>13, <1>14 DEF SyncInv

LEMMA StaysInSync == SyncInv /\ [Next]_vars => SyncInv'
<1> SUFFICES ASSUME SyncInv, [Next]_vars PROVE SyncInv'
  OBVIOUS
<1>1. Typed' /\ EncoderInv' /\ WireInv' /\ PlaceInv' /\ ListInv'
  BY KeepsTyped, KeepsEncoder, KeepsWire, KeepsPlace, KeepsList
<1>2. PacketsInv' /\ DecoderInv' /\ NewestInv' /\ CacheInv'
  BY KeepsPackets, KeepsDecoder, KeepsNewest, KeepsCache
<1> QED
  BY <1>1, <1>2 DEF SyncInv

LEMMA InSync == Spec => []SyncInv
BY StartsInSync, StaysInSync, PTL DEF Spec

\* A stream whose references may be trusted is one whose copies agree.
LEMMA CopiesFollow == SyncInv => (Untouched => CopiesAgree)
<1> SUFFICES ASSUME SyncInv, Untouched PROVE CopiesAgree
  OBVIOUS
<1>1. /\ PlaceInv /\ ListInv /\ DecoderInv /\ EncoderInv /\ CacheInv
      /\ encodedFrames \in Nat /\ receiverFailed \in BOOLEAN
  BY NumbersOnWire DEF SyncInv, Typed
<1>2. packets = <<>> => \A id : WillHold(id) <=> id \in DOMAIN dLtr
  BY DEF WillHold, StoredIn, NoIFrame
<1>3. ASSUME losses = 0, wire = <<>>, packets = <<>>, ~receiverFailed
      PROVE  /\ dReference = reference
             /\ dSaved = savedFrame
             /\ DOMAIN dLtr = ltrFeatures
  <2>1. NextOnWire = encodedFrames
    BY <1>1, <1>3 DEF NextOnWire
  <2>2. expectedFrame = encodedFrames /\ shortAvailable = activeShort
    BY <1>1, <1>3, <2>1 DEF PlaceInv
  <2>3. shortAvailable = expectedFrame - 1
    BY <1>1, <1>3, <2>1, <2>2 DEF PlaceInv
  <2>4. activeShort + 1 = encodedFrames
    BY <1>1, <2>2, <2>3
  <2>5. \A id : WillHoldAll(id) <=> id \in DOMAIN dLtr
    BY <1>2, <1>3 DEF WillHoldAll, StoredIn, NoIFrame
  <2>6. \A id : id \in ltrFeatures <=> id \in DOMAIN dLtr
    BY <1>1, <1>3, <2>5 DEF CacheInv
  <2> QED
    BY <1>1, <2>4, <2>6 DEF DecoderInv, EncoderInv
<1>4. ASSUME packets = <<>>
      PROVE  /\ shortAvailable = activeShort
             /\ ltrIds \subseteq DOMAIN dLtr
             /\ \A k \in DOMAIN dLtr \ ltrIds : Cardinality(ltrIds) = MaxLtrFrames
  BY <1>1, <1>2, <1>4 DEF PlaceInv, ListInv
<1> QED
  BY <1>3, <1>4 DEF CopiesAgree

\* An encoder whose options were accepted fails on a forced recovery frame only
\* if the peer moved the GOP or requested random access, for every schedule,
\* command and loss (ValidateForcedLtrConfiguration, mlvc_entropy.cc, against
\* BeginFrame and PrepareLtrRecovery, encode_state.cc).
THEOREM ForcedRecoverySoundAlways == Spec => []ForcedRecoverySound
<1>1. SyncInv => ForcedRecoverySound
  BY DEF SyncInv, EncoderInv, ForcedRecoverySound
<1> QED
  BY <1>1, InSync, PTL

\* What the encoder makes is never refused: not by the writer of the header or of
\* a frame, nor by the decoder, nor, unless a recovery frame is forced over RTP, by
\* the receiver (SerializeEfu, ParseEfu, the Checks of RtpMlvcReceiver and of
\* run_decoded_frame), whatever is lost and commanded.
THEOREM NeverRejectsAlways ==
  Spec => [](~writerFailed /\ ~decoderFailed /\ (Unforced => NeverRejects))
<1>1. SyncInv => ~writerFailed /\ ~decoderFailed /\ (Unforced => NeverRejects)
  BY DEF SyncInv, EncoderInv, PlaceInv, DecoderInv, NeverRejects
<1> QED
  BY <1>1, InSync, PTL

\* The decoder predicts every frame from what the encoder predicted it from, in
\* every stream nobody requested random access of, with losses and GOP commands
\* (encode_frame.cc Process, decode.cc run_decoded_frame).
THEOREM RefsAgreeAlways == Spec => [](Untouched => RefsAgree)
<1>1. SyncInv => (Untouched => RefsAgree)
  BY DEF SyncInv, DecoderInv, RefsAgree
<1> QED
  BY <1>1, InSync, PTL

\* In such a stream the receiver's list of long-term frames, the decoder's cache
\* and the encoder's are the same whenever nothing is under way.
THEOREM CopiesAgreeAlways == Spec => [](Untouched => CopiesAgree)
<1> QED
  BY CopiesFollow, InSync, PTL
=============================================================================
