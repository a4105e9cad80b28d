---------------------------- MODULE ReferenceSync ----------------------------
(***************************************************************************)
(* The encoder and the decoder of one stream each keep the tensors the     *)
(* next frame is predicted from: the previous frame's feature, the cached  *)
(* long-term features (LTR) and, under translation warp, the reconstructed *)
(* frame the next reset starts from.  Nothing but the frames' metadata and *)
(* the stream header keeps the two in step.                                *)
(*                                                                         *)
(* A tensor is named by the frame that produced it: the decoder's copy of  *)
(* frame i is i when it decoded i from the reference the encoder used, and *)
(* Wrong otherwise.  What the entropy coder wrote into a frame's payload is *)
(* named by the reference and the translation it was predicted with, and   *)
(* only the decoder, to know whether its own agree, reads it.              *)
(*                                                                         *)
(* Modelled transports: an MLVC-ES file; RTP, which may lose frames and    *)
(* whose receiver resumes at a frame it can decode; and the legacy UDP     *)
(* messages, which carry no metadata and end the decoder on a gap.  Units  *)
(* arrive in order here.                                                   *)
(***************************************************************************)
EXTENDS MediaUnits, FiniteSetsExt

CONSTANTS
  Options,       \* the configurations a stream may be started with
  Commands,      \* the MLVC control messages the peer may send: Commands[warp]
  WarpGop, WarpReset, \* the schedule translation warp insists on (96, 32)
  MaxLtrFrames,  \* kMaxLtrFrames of the RTP receiver (64)
  Translations,  \* the translations <<kx, ky>> motion estimation may find
  MaxInTransit,  \* bound: frames on the wire, and frames read but not decoded
  Bounds         \* bounds: frames, commands, requests and losses: Bounds[warp]

NoFrame == -1    \* the -1 and the empty optional of the code
Wrong == -2      \* a tensor the encoder never had
Now == -3        \* apply_after_frame_id = 0xffffffff
NoGop == -4      \* a command without TLV 3

Zero == [kind |-> "zero", of |-> NoFrame]
Feature(i) == [kind |-> "feature", of |-> i]
\* MLVCReferenceFromFrame; of NoFrame is the gray frame of an I-frame.
Adapted(i) == [kind |-> "adapted", of |-> i]

(***************************************************************************)
(* The schedule: pure functions both sides compute.                        *)
(***************************************************************************)
IsMlvcIFrame(i, gop) == i % gop = 0

ShouldResetReferenceFeature(i, gop, reset) ==
  IsMlvcIFrame(i, gop) \/ ((i % gop) + 1) % reset = 0

ShouldSaveLtrFeatures(cycle, start, period) ==
  /\ period > 0
  /\ cycle = start \/ (cycle > start /\ cycle % period = 0)

\* MUTANT of ForcedLtrValid: the pair may span two GOPs.
ForcedLtrAnyGop(o) ==
  /\ o.recovery >= -1 /\ o.reference >= -1
  /\ (o.recovery >= 0) <=> (o.reference >= 0)
  /\ o.recovery >= 0 =>
       /\ o.reference < o.recovery
       /\ o.recovery % o.gop # 0
       /\ ShouldSaveLtrFeatures(o.reference % o.gop, o.ltrStart, o.ltrPeriod)

\* ValidateForcedLtrConfiguration.
ForcedLtrValid(o) ==
  /\ o.recovery >= -1 /\ o.reference >= -1
  /\ (o.recovery >= 0) <=> (o.reference >= 0)
  /\ o.recovery >= 0 =>
       /\ o.reference < o.recovery
       /\ o.reference \div o.gop = o.recovery \div o.gop
       /\ o.recovery % o.gop # 0
       /\ ShouldSaveLtrFeatures(o.reference % o.gop, o.ltrStart, o.ltrPeriod)

\* What the encoder's configuration accepts.
ValidOptions(o) ==
  /\ o.gop > 0 /\ o.reset > 0 /\ o.ltrStart >= 0 /\ o.ltrPeriod >= 0
  /\ ForcedLtrValid(o)
  /\ o.warp => /\ o.gop = WarpGop /\ o.reset = WarpReset
               /\ o.ltrPeriod = 0 /\ o.recovery = NoFrame
               /\ o.transport # "udp"

\* The options are ints, and so are the numbers of the frames.
Ints == -(IdSpace \div 2) .. (IdSpace \div 2) - 1
OptionTypes ==
  [transport : {"file", "rtp", "udp"}, warp : BOOLEAN, gop : Ints, reset : Ints,
   ltrStart : Ints, ltrPeriod : Ints, recovery : Ints, reference : Ints]
CommandTypes ==
  [after : Nat \cup {Now}, gop : Int, randomAccess : BOOLEAN, atomic : BOOLEAN]

ASSUME ReferenceAssumption ==
  /\ \A o \in Options : o \in OptionTypes /\ ValidOptions(o)
  /\ \A w \in BOOLEAN : /\ \A c \in Commands[w] : c \in CommandTypes
                        /\ Bounds[w] \in [frames : 0 .. IdSpace \div 2, commands : Nat,
                                          requests : Nat, losses : Nat]
  /\ WarpReset \in Nat \ {0} /\ WarpGop \in Nat \ {0}
  /\ WarpGop % WarpReset = 0
  /\ MaxLtrFrames \in Nat \ {0}
  /\ Translations \subseteq (-128 .. 127) \X (-128 .. 127)

VARIABLES
  opt,            \* EncodeStreamOptions
  header,         \* the decoder's copy, from the stream's header
  \* The encoder's consumer thread.
  encodedFrames,  \* encoded_frames
  gopOverride,    \* EncodeState::gop_override_
  reference,      \* EncodeState::reference_, its feature
  savedFrame,     \* reference_, its reconstructed frame (warp)
  ltrFeatures,    \* the keys of ltr_features_; has_ltr_feature_ iff not {}
  encoderFailed,  \* a Check threw: the stream ends
  writerFailed,   \* so does one of the writer or of its media units
  \* What the RTP sender has collected from RTCP.
  controls,       \* pending_controls, then control_queue
  requests,       \* random_access_requests
  \* In transit, and read but not decoded.
  wire, packets,
  \* RtpMlvcReceiver.
  expectedFrame,  \* expected_frame_index_
  shortAvailable, \* available_short_reference_id_
  ltrIds,         \* ltr_frame_ids_
  receiverFailed, \* or MlvcBitstreamReader failed
  \* The decoder.
  dReference, dSaved,
  dLtr,           \* ltr_features: frame index -> the tensor stored
  activeShort,    \* active_short_reference_frame
  decoderFailed,
  \* History, read by the properties and the bounds only.
  steered,        \* a GOP command or a random-access request took effect
  mismatched,     \* frames decoded from another reference than encoded
  commandsSeen, requestsSeen, losses

encoderVars == <<encodedFrames, gopOverride, reference, savedFrame,
                 ltrFeatures, encoderFailed, writerFailed, steered>>
receiverVars == <<expectedFrame, shortAvailable, ltrIds, receiverFailed>>
decoderVars == <<dReference, dSaved, dLtr, activeShort, decoderFailed,
                 mismatched>>
peerVars == <<controls, requests, commandsSeen, requestsSeen>>
streamVars == <<opt, header>>
vars == <<streamVars, encoderVars, receiverVars, decoderVars, peerVars,
          wire, packets, losses>>

(***************************************************************************)
(* The stream's header: an SCU in a file and over RTP, a struct over UDP.  *)
(***************************************************************************)
Explicit == opt.transport # "udp"

OptionsHeader ==
  [warp |-> opt.warp, gop |-> opt.gop, reset |-> opt.reset, ltrStart |-> opt.ltrStart,
   ltrPeriod |-> opt.ltrPeriod, recovery |-> opt.recovery, reference |-> opt.reference]
SentScu == MakeScu(OptionsHeader)
ReadScu == ParsedScu(ScuUnit(SentScu))

\* ValidateMlvcBitstreamHeader, at both ends.
BitstreamHeaderRefused(h) ==
  \/ h.gop < 0 \/ h.reset < 0 \/ h.ltrStart < 0 \/ h.ltrPeriod < 0
  \/ h.warp /\ (h.ltrPeriod # 0 \/ h.recovery # -1 \/ h.reference # -1)
  \/ ~ForcedLtrValid(h)

\* RunDecodeStream accepts translation warp with one schedule only.
DecoderRefuses(h) ==
  h.warp /\ (h.gop # WarpGop \/ h.reset # WarpReset \/ h.ltrPeriod # 0)

Init ==
  /\ opt \in Options
  /\ header = (IF Explicit THEN HeaderOf(ReadScu) ELSE OptionsHeader)
  /\ writerFailed = (\/ BitstreamHeaderRefused(OptionsHeader)
                     \/ Explicit /\ ScuRefused(SentScu))
  /\ receiverFailed = (\/ Explicit /\ ParseScuRefused(ScuUnit(SentScu))
                       \/ Explicit /\ HeaderRefused(ReadScu)
                       \/ BitstreamHeaderRefused(header))
  /\ encodedFrames = 0 /\ gopOverride = -1 /\ encoderFailed = FALSE
  /\ reference = Zero /\ savedFrame = NoFrame /\ ltrFeatures = {}
  /\ controls = <<>> /\ requests = 0
  /\ wire = <<>> /\ packets = <<>>
  /\ expectedFrame = 0 /\ shortAvailable = NoFrame /\ ltrIds = {}
  /\ dReference = Zero /\ dSaved = NoFrame /\ dLtr = [k \in {} |-> k]
  /\ activeShort = NoFrame /\ decoderFailed = DecoderRefuses(header)
  /\ steered = FALSE /\ mismatched = {}
  /\ commandsSeen = 0 /\ requestsSeen = 0 /\ losses = 0

(***************************************************************************)
(* RTCP input, which the RTP sender's thread collects at any time.         *)
(***************************************************************************)
ReceiveControl(c) ==
  /\ opt.transport = "rtp" /\ commandsSeen < Bounds[opt.warp].commands
  /\ controls' = Append(controls, c)
  /\ commandsSeen' = commandsSeen + 1
  /\ UNCHANGED <<streamVars, encoderVars, receiverVars, decoderVars, wire, packets,
                 requests, requestsSeen, losses>>

RequestRandomAccess ==
  /\ opt.transport = "rtp" /\ requestsSeen < Bounds[opt.warp].requests
  /\ requests' = requests + 1
  /\ requestsSeen' = requestsSeen + 1
  /\ UNCHANGED <<streamVars, encoderVars, receiverVars, decoderVars, wire, packets,
                 controls, commandsSeen, losses>>

(***************************************************************************)
(* consume_frame of the encoder: apply the commands that are due, take one *)
(* random-access request, encode one frame and hand it to the output.      *)
(***************************************************************************)
Due(c) == c.after = Now \/ encodedFrames >= c.after

\* The commands that are not due yet stay, in their order.
NotDue ==
  LET kept == {k \in DOMAIN controls : ~Due(controls[k])}
      order == CHOOSE f \in [1 .. Cardinality(kept) -> kept] :
                 \A a, b \in DOMAIN f : a < b => f[a] < f[b]
  IN [n \in 1 .. Cardinality(kept) |-> controls[order[n]]]

ChangesGop(c) == c.gop # NoGop \/ c.randomAccess
Accepted(c) == c.atomic /\ ~(opt.warp /\ ChangesGop(c))

\* ApplyControl: TLV 3, of which the last that is due stands.  TLV 4 sets
\* force_random_access_, which SetForceRandomAccess overwrites before
\* BeginFrame reads it.
OverrideAfter ==
  LET gops == {k \in DOMAIN controls : /\ Due(controls[k]) /\ Accepted(controls[k])
                                       /\ controls[k].gop # NoGop}
  IN IF gops = {} THEN gopOverride ELSE controls[Max(gops)].gop

EffectiveGop(override) == IF override > 0 THEN override ELSE opt.gop

RandomAccessForced == requests > 0 /\ ~opt.warp

\* The reference is dropped before frame i is encoded.
ResetsReference(i, gop, isI) ==
  IF opt.warp THEN isI \/ i % opt.reset = 0
  ELSE ShouldResetReferenceFeature(i, gop, opt.reset)

BeginFrame(i, gop, forcedRA) ==
  LET isI == forcedRA \/ IsMlvcIFrame(i, gop)
      mark == ShouldSaveLtrFeatures(i % gop, opt.ltrStart, opt.ltrPeriod)
      forced == i = opt.recovery
      ltr == IF isI THEN {} ELSE ltrFeatures
  IN [isI |-> isI, mark |-> mark, forced |-> forced, ltr |-> ltr,
      reset |-> ResetsReference(i, gop, isI),
      type |-> IF isI THEN "I"
               ELSE IF ltr # {} /\ (forced \/ mark) THEN "LTR" ELSE "P"]

\* PrepareLtrRecovery: the forced frame, or the newest one cached.
LtrReference(d) == IF d.forced THEN opt.reference ELSE Max(d.ltr)

\* The Checks of BeginFrame, PrepareLtrRecovery, PrepareWarpResetReference.
EncoderRejects(d) ==
  \/ d.forced /\ (d.isI \/ d.ltr = {})
  \/ d.type = "LTR" /\ LtrReference(d) \notin d.ltr
  \/ opt.warp /\ d.reset /\ ~d.isI /\ savedFrame = NoFrame

EncoderReference(d) ==
  IF d.type = "LTR" THEN Feature(LtrReference(d))
  ELSE IF ~d.reset THEN reference
  ELSE IF opt.warp THEN Adapted(IF d.isI THEN NoFrame ELSE savedFrame)
  ELSE Zero

\* The warp frame kept after frame i, whose tensors are called "own": the
\* one before a reset that is no I-frame, until that reset has used it.
SavedAfter(h, i, own, reset, saved) ==
  IF h.warp /\ (i + 1) % h.reset = 0 /\ (i + 1) % h.gop # 0 THEN own
  ELSE IF h.warp /\ reset THEN NoFrame ELSE saved

ShortReference(i, d) ==
  IF d.isI \/ d.type = "LTR" \/ (d.reset /\ ~opt.warp) THEN NoReference ELSE i - 1

\* An I-frame is not translated, whatever the estimator found.
TranslationsOf(d) == IF opt.warp /\ ~d.isI THEN Translations ELSE {<<0, 0>>}

\* What a frame was, or is, predicted from.
Prediction(from, kx, ky) == [from |-> from, kx |-> kx, ky |-> ky]

\* Process's metadata and payload, and the EFU SendFrame or WriteFrame makes of
\* them.  A UDP message carries only id, type and payload of it.
EncodedFrame(i, d, t) ==
  [config |-> ConfigId, id |-> i, type |-> d.type,
   flags |-> (IF d.isI THEN {"ra", "reset"} ELSE {})
               \cup (IF d.reset /\ (~opt.warp \/ d.isI) THEN {"reset"} ELSE {})
               \cup (IF d.mark THEN {"store"} ELSE {})
               \cup (IF opt.warp THEN {"warp"} ELSE {}),
   short |-> ShortReference(i, d),
   long |-> IF d.type = "LTR" THEN LtrReference(d) ELSE NoReference,
   kx |-> t[1], ky |-> t[2],
   payload |-> << Prediction(EncoderReference(d), t[1], t[2]) >>]

EncodeFrame ==
  /\ ~encoderFailed /\ ~writerFailed /\ encodedFrames < Bounds[opt.warp].frames /\ Len(wire) < MaxInTransit
  /\ LET i == encodedFrames
         override == OverrideAfter
         d == BeginFrame(i, EffectiveGop(override), RandomAccessForced)
     IN /\ controls' = NotDue
        /\ requests' = IF requests > 0 THEN requests - 1 ELSE 0
        /\ gopOverride' = override
        /\ steered' = (steered \/ RandomAccessForced \/ override # gopOverride)
        /\ IF EncoderRejects(d)
           THEN /\ encoderFailed' = TRUE
                /\ UNCHANGED <<encodedFrames, reference, savedFrame, ltrFeatures,
                               writerFailed, wire>>
           ELSE /\ encodedFrames' = i + 1
                /\ reference' = Feature(i)
                /\ savedFrame' = SavedAfter(opt, i, i, d.reset, savedFrame)
                /\ ltrFeatures' = d.ltr \cup (IF d.mark THEN {i} ELSE {})
                /\ \E t \in TranslationsOf(d) :
                     LET e == EncodedFrame(i, d, t)
                         refused == Explicit /\ EfuRefused(e)
                     IN /\ writerFailed' = refused
                        /\ wire' = IF refused THEN wire
                                   ELSE Append(wire, IF Explicit THEN EfuUnit(e) ELSE e)
                /\ UNCHANGED encoderFailed
  /\ UNCHANGED <<streamVars, receiverVars, decoderVars, packets, commandsSeen,
                 requestsSeen, losses>>

(***************************************************************************)
(* The network, and the reader in front of the decoder.                    *)
(***************************************************************************)
LoseFrame ==
  /\ opt.transport = "rtp" /\ wire # <<>> /\ losses < Bounds[opt.warp].losses
  /\ wire' = Tail(wire)
  /\ losses' = losses + 1
  /\ UNCHANGED <<streamVars, encoderVars, receiverVars, decoderVars, peerVars, packets>>

\* MUTANT of Recoverable: an LTR frame is trusted without its reference.
RecoverableAnyLtr(f) == f.type \in {"I", "LTR"}

\* IsRandomAccessEfu, or an LTR frame whose reference was received.
Recoverable(f) == f.type = "I" \/ (f.type = "LTR" /\ f.long \in ltrIds)

\* After the reorder wait has passed with expectedFrame missing: resume at a
\* frame that can be decoded, discard any other.  This is also how a receiver
\* starts at the first random-access frame it gets.
SkipGap ==
  /\ opt.transport = "rtp" /\ ~receiverFailed
  /\ wire # <<>> /\ Head(wire).id # expectedFrame
  /\ IF Recoverable(Head(wire))
     THEN /\ expectedFrame' = Head(wire).id
          /\ UNCHANGED wire
     ELSE /\ wire' = Tail(wire)
          /\ UNCHANGED expectedFrame
  /\ UNCHANGED <<streamVars, encoderVars, decoderVars, peerVars, packets,
                 shortAvailable, ltrIds, receiverFailed, losses>>

\* MUTANT of LtrIdsBefore: a random-access frame leaves the list alone.
LtrIdsKept(f) == ltrIds
LtrIdsBefore(f) == IF f.type = "I" THEN {} ELSE ltrIds

ReceiverRejects(f) ==
  LET short == IF "reset" \in f.flags THEN NoFrame ELSE shortAvailable
  IN \/ f.type = "P" /\ "reset" \notin f.flags /\ (f.short = NoReference \/ f.short # short)
     \/ f.type = "LTR" /\ f.long \notin LtrIdsBefore(f)

\* RememberDecodedFrame: the newest MaxLtrFrames of them.
Newest(ids) ==
  {k \in ids : Cardinality({j \in ids : j > k}) < MaxLtrFrames}

ReceiveFrame ==
  /\ ~receiverFailed /\ wire # <<>> /\ Len(packets) < MaxInTransit
  /\ Head(wire).id = expectedFrame
  /\ LET u == Head(wire)
         f == IF Explicit THEN ParsedEfu(u) ELSE u
     IN IF \/ Explicit /\ (ParseEfuRefused(u) \/ WarpRefused(f, header.warp))
           \/ opt.transport = "rtp" /\ ReceiverRejects(f)
        THEN /\ receiverFailed' = TRUE
             /\ UNCHANGED <<expectedFrame, shortAvailable, ltrIds, packets>>
        ELSE /\ expectedFrame' = f.id + 1
             /\ shortAvailable' = f.id
             /\ ltrIds' = Newest(LtrIdsBefore(f) \cup
                                 (IF "store" \in f.flags THEN {f.id} ELSE {}))
             /\ packets' = Append(packets, f)
             /\ UNCHANGED receiverFailed
  /\ wire' = Tail(wire)
  /\ UNCHANGED <<streamVars, encoderVars, decoderVars, peerVars, losses>>

(***************************************************************************)
(* run_decoded_frame.  Without metadata the decoder computes the schedule  *)
(* from the header, which holds the configured GOP.                        *)
(***************************************************************************)
\* MUTANT of WireReset: the header's schedule, whatever the frame says.
WireResetByHeader(f) ==
  ShouldResetReferenceFeature(f.id, header.gop, header.reset)

WireReset(f) ==
  IF Explicit THEN "reset" \in f.flags
  ELSE ShouldResetReferenceFeature(f.id, header.gop, header.reset)

DecoderResets(f) ==
  IF header.warp THEN f.type = "I" \/ f.id % header.reset = 0 ELSE WireReset(f)

DecoderLtr(f) == IF f.type = "I" THEN [k \in {} |-> k] ELSE dLtr

DecoderLtrReference(f) ==
  IF Explicit THEN f.long
  ELSE IF f.id = header.recovery THEN header.reference ELSE Max(DOMAIN dLtr)

DecoderRejects(f) ==
  LET short == IF DecoderResets(f) /\ WireReset(f) THEN NoFrame ELSE activeShort
  IN \/ /\ Explicit /\ f.type = "P" /\ ~WireReset(f)
        /\ short = NoFrame \/ f.short # short
     \/ f.type = "LTR" /\ dLtr = [k \in {} |-> k]
     \/ f.type = "LTR" /\ DecoderLtrReference(f) \notin DOMAIN dLtr
     \/ header.warp /\ DecoderResets(f) /\ f.type # "I" /\ dSaved = NoFrame

DecoderReference(f) ==
  IF f.type = "LTR" THEN Feature(dLtr[DecoderLtrReference(f)])
  ELSE IF ~DecoderResets(f) THEN dReference
  ELSE IF header.warp THEN Adapted(IF f.type = "I" THEN NoFrame ELSE dSaved)
  ELSE Zero

DecoderStores(f) ==
  IF Explicit THEN "store" \in f.flags
  ELSE ShouldSaveLtrFeatures(f.id % header.gop, header.ltrStart, header.ltrPeriod)

DecodeFrame ==
  /\ ~decoderFailed /\ packets # <<>>
  /\ LET f == Head(packets)
         own == IF Prediction(DecoderReference(f), f.kx, f.ky) = f.payload[1] THEN f.id ELSE Wrong
         ltr == DecoderLtr(f)
         kept == DOMAIN ltr \cup (IF DecoderStores(f) THEN {f.id} ELSE {})
     IN IF DecoderRejects(f)
        THEN /\ decoderFailed' = TRUE
             /\ UNCHANGED <<dReference, dSaved, dLtr, activeShort, mismatched>>
        ELSE /\ dReference' = Feature(own)
             /\ dSaved' = SavedAfter(header, f.id, own, DecoderResets(f), dSaved)
             /\ dLtr' = [k \in kept |-> IF k = f.id THEN own ELSE ltr[k]]
             /\ activeShort' = f.id
             /\ mismatched' = mismatched \cup
                              (IF own = Wrong THEN {f.id} ELSE {})
             /\ UNCHANGED decoderFailed
  /\ packets' = Tail(packets)
  /\ UNCHANGED <<streamVars, encoderVars, receiverVars, peerVars, wire, losses>>

Next ==
  \/ \E c \in Commands[opt.warp] : ReceiveControl(c)
  \/ RequestRandomAccess
  \/ EncodeFrame
  \/ LoseFrame
  \/ SkipGap
  \/ ReceiveFrame
  \/ DecodeFrame

Spec == Init /\ [][Next]_vars

(***************************************************************************)
(* Properties.                                                             *)
(***************************************************************************)
Frames == 0 .. Bounds[opt.warp].frames - 1
Tensors == Frames \cup {NoFrame, Wrong}
Ids == Frames \cup {NoReference}
Predictions ==
  [from : [kind : {"zero", "feature", "adapted"}, of : Frames \cup {NoFrame}],
   kx : -128 .. 127, ky : -128 .. 127]
Carried(f) ==
  /\ f.id \in Frames /\ {f.short, f.long} \subseteq Ids
  /\ f.type \in {"I", "P", "LTR"}
  /\ f.flags \subseteq {"ra", "reset", "store", "warp", "crc"}
  /\ Last(f.payload) \in Predictions

\* Types: every frame number a tracker holds is a frame of the stream, the
\* encoder never holds a tensor it did not compute, and the receiver's list
\* of long-term frames keeps to kMaxLtrFrames.
TypeOK ==
  /\ opt \in Options /\ header = OptionsHeader
  /\ encodedFrames \in 0 .. Bounds[opt.warp].frames
  /\ gopOverride \in Int
  /\ reference \in [kind : {"zero", "feature"}, of : Frames \cup {NoFrame}]
  /\ savedFrame \in Frames \cup {NoFrame}
  /\ ltrFeatures \subseteq 0 .. encodedFrames - 1
  /\ controls \in Seq(Commands[opt.warp]) /\ requests \in Nat
  /\ \A f \in ToSet(wire) \cup ToSet(packets) : Carried(f)
  /\ expectedFrame \in 0 .. encodedFrames
  /\ shortAvailable \in Frames \cup {NoFrame}
  /\ ltrIds \subseteq Frames /\ Cardinality(ltrIds) <= MaxLtrFrames
  /\ dReference \in [kind : {"zero", "feature"}, of : Tensors]
  /\ dSaved \in Tensors
  /\ DOMAIN dLtr \subseteq Frames /\ \A k \in DOMAIN dLtr : dLtr[k] \in Tensors
  /\ activeShort \in Frames \cup {NoFrame}
  /\ {encoderFailed, writerFailed, receiverFailed, decoderFailed, steered}
       \subseteq BOOLEAN
  /\ mismatched \subseteq Frames

\* The decoder predicts every frame it decodes from the tensors the encoder
\* predicted it from, whatever was lost and whichever GOP was commanded
\* (decode.cc run_decoded_frame against encode_frame.cc Process).
RefsAgree == mismatched = {}

\* No command, and no loss pattern, makes the writer refuse the unit of a frame
\* or of the header, or the RTP receiver or the decoder reject one: the checks of
\* SerializeEfu and ParseEfu and each of the reference Checks are unreachable for
\* what the encoder of this repository makes.  A stream with a forced recovery
\* frame is promised the latter only as long as nothing is lost.
NeverRejects ==
  /\ ~writerFailed
  /\ (losses = 0 \/ opt.recovery = NoFrame) => ~receiverFailed /\ ~decoderFailed

\* The three copies of the references never drift apart.  A stream without loss
\* leaves encoder and decoder holding the same reference, warp frame and LTR cache
\* as soon as nothing is in transit; and the RTP receiver, which decides what may
\* be decoded after a loss by a separate piece of code, agrees with the decoder,
\* which has the tensors, whenever nothing is read ahead.
CopiesAgree ==
  /\ (losses = 0 /\ wire = <<>> /\ packets = <<>> /\ ~encoderFailed /\ ~writerFailed
        /\ ~receiverFailed /\ ~decoderFailed)
     => /\ dReference = reference
        /\ dSaved = savedFrame
        /\ DOMAIN dLtr = ltrFeatures
  /\ (opt.transport = "rtp" /\ packets = <<>> /\ ~receiverFailed /\ ~decoderFailed)
     => /\ shortAvailable = activeShort
        /\ ltrIds \subseteq DOMAIN dLtr
        /\ \A k \in DOMAIN dLtr \ ltrIds : Cardinality(ltrIds) = MaxLtrFrames

\* The configuration check is enough: a forced LTR recovery it lets through
\* fails in BeginFrame or PrepareLtrRecovery only if the peer moved the GOP
\* or requested random access.
ForcedRecoverySound == encoderFailed => steered

\* A command that requests random access and was answered "applied" makes
\* the next frame a random-access frame (encode_state.cc ApplyControl, TLV 4).
RandomAccessHonoured ==
  [][\A k \in DOMAIN controls :
       (encodedFrames' # encodedFrames /\ Due(controls[k])
          /\ Accepted(controls[k]) /\ controls[k].randomAccess)
       => wire'[Len(wire')].type = "I"]_vars

\* Without loss the RTP receiver finds the reference of every LTR frame: its
\* "references an unavailable LTR frame" Check does not fire.
LosslessAccepted == losses = 0 => ~receiverFailed

\* A receiver that lost frames goes on receiving.
LossSurvived == losses > 0 => ~receiverFailed
==============================================================================
