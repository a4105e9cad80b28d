------------------------------ MODULE MediaUnits ------------------------------
(***************************************************************************)
(* The units of an MLVC stream (mlvc_media_unit.cc) and what the writer    *)
(* and the readers of mlvc_bitstream.cc and udp_frame_transport.cc make of *)
(* them: a stream configuration unit (SCU) carries the header, an encoded  *)
(* frame unit (EFU) one frame and the names of its references.  A refused  *)
(* unit is an exception in the code; sizes, offsets and the fields of the  *)
(* picture's shape are left out.                                           *)
(***************************************************************************)
EXTENDS Integers, Sequences, FiniteSets, SequencesExt

CONSTANT IdSpace  \* frame and configuration ids are counted modulo this (2^32)
ASSUME IdSpaceAssumption == IdSpace \in Nat \ {0} /\ IdSpace % 2 = 0

NoReference == IdSpace - 1   \* kMlvcNoReference
ConfigId == 1                \* the configuration a stream starts with
NoHash == 0                  \* a hash of zero bytes
BundleHash == 1              \* codec_bundle_sha256 of the models in use

\* CompareMlvcSerial32 = kNewer.
Newer(candidate, current) ==
  LET distance == (candidate - current) % IdSpace
  IN distance # 0 /\ distance < IdSpace \div 2

(***************************************************************************)
(* TLVs.  A value is a sequence of words, of bytes for the capability.     *)
(***************************************************************************)
Tlv(type, value) == [type |-> type, value |-> value]
Count(tlvs, type) == Cardinality({k \in DOMAIN tlvs : tlvs[k].type = type})
Has(tlvs, type) == \E k \in DOMAIN tlvs : tlvs[k].type = type
FindTlv(tlvs, type) == tlvs[SelectInSeq(tlvs, LAMBDA t : t.type = type)].value

\* PutTlv, and the checks of one TLV in ParseTlvs: 32, 16 and 1 bytes.
TlvRefused(t) ==
  \/ t.type = "warp" /\ t.value # <<1>>
  \/ t.type = "bundle" /\ Len(t.value) # 1
  \/ t.type = "policy" /\ Len(t.value) # 4

\* Only these may not come twice.
TlvsRefused(tlvs) ==
  \/ \E k \in DOMAIN tlvs : TlvRefused(tlvs[k])
  \/ \E type \in {"bundle", "policy", "warp"} : Count(tlvs, type) > 1

(***************************************************************************)
(* The header [warp, gop, reset, ltrStart, ltrPeriod, recovery, reference] *)
(* as an SCU, and back.                                                    *)
(***************************************************************************)
\* PutBe32 of an int, where -1 is all ones.
Word(v) == v % IdSpace

MakeScu(h) ==
  [config |-> ConfigId, warp |-> h.warp, bundle |-> BundleHash, hash |-> NoHash,
   tlvs |-> << Tlv("policy", << Word(h.gop), Word(h.reset), Word(h.ltrStart),
                                Word(h.ltrPeriod) >>),
               Tlv("vendor", << Word(h.recovery), Word(h.reference) >>) >>]

\* The TLVs SerializeScu writes: it adds the capability and the bundle.
ScuTlvs(s) ==
  s.tlvs
    \o (IF s.warp /\ ~Has(s.tlvs, "warp") THEN << Tlv("warp", <<1>>) >> ELSE <<>>)
    \o (IF Has(s.tlvs, "bundle") THEN <<>> ELSE << Tlv("bundle", <<s.bundle>>) >>)

ScuRefused(s) ==
  \/ s.config = 0
  \/ ~s.warp /\ Has(s.tlvs, "warp")
  \/ s.bundle = NoHash \/ FindTlv(ScuTlvs(s), "bundle") # <<s.bundle>>
  \/ s.hash \notin {NoHash, s.bundle}
  \/ TlvsRefused(ScuTlvs(s))

\* SerializeScu: the hash of the configuration is the head of the bundle's.
ScuUnit(s) == [config |-> s.config, hash |-> s.bundle, tlvs |-> ScuTlvs(s)]

ParseScuRefused(u) ==
  \/ TlvsRefused(u.tlvs)
  \/ Count(u.tlvs, "bundle") # 1
  \/ FindTlv(u.tlvs, "bundle") = <<NoHash>>
  \/ <<u.hash>> # FindTlv(u.tlvs, "bundle")

\* ParseScu.
ParsedScu(u) ==
  [config |-> u.config, warp |-> Has(u.tlvs, "warp"),
   bundle |-> FindTlv(u.tlvs, "bundle")[1], hash |-> u.hash, tlvs |-> u.tlvs]

\* ReadBe32ApplicationValue; only a frame of the forced pair may be unset.
ValueRefused(word, mayBeUnset) ==
  word >= IdSpace \div 2 /\ ~(mayBeUnset /\ word = IdSpace - 1)
Value(word) == IF word = IdSpace - 1 THEN -1 ELSE word

\* The reader's constructor and ReceiveHeader, on the TLVs MakeScu writes.
HeaderRefused(s) ==
  \/ \E k \in 1..4 : ValueRefused(FindTlv(s.tlvs, "policy")[k], FALSE)
  \/ \E k \in 1..2 : ValueRefused(FindTlv(s.tlvs, "vendor")[k], TRUE)

HeaderOf(s) ==
  LET policy == FindTlv(s.tlvs, "policy")
      forced == FindTlv(s.tlvs, "vendor")
  IN [warp |-> s.warp, gop |-> Value(policy[1]), reset |-> Value(policy[2]),
      ltrStart |-> Value(policy[3]), ltrPeriod |-> Value(policy[4]),
      recovery |-> Value(forced[1]), reference |-> Value(forced[2])]

(***************************************************************************)
(* An EFU [config, id, type, flags, short, long, kx, ky, payload] and the  *)
(* bytes of it.                                                            *)
(***************************************************************************)
ReferenceIdsRefused(e) ==
  \/ /\ e.type = "I"
     /\ \/ ~({"ra", "reset"} \subseteq e.flags)
        \/ e.short # NoReference \/ e.long # NoReference
  \/ e.type # "I" /\ "ra" \in e.flags
  \/ e.type = "P" /\ e.long # NoReference
  \/ e.type # "I" /\ "reset" \in e.flags /\ e.short # NoReference
  \/ e.type = "P" /\ "reset" \notin e.flags /\ e.short = NoReference
  \/ e.type = "LTR" /\ (e.long = NoReference \/ e.short # NoReference)
  \/ \E r \in {e.short, e.long} \ {NoReference} : ~Newer(e.id, r)

\* ValidateEfuTranslationWarp.
WarpRefused(e, warp) ==
  \/ ("warp" \in e.flags) # warp
  \/ (~warp \/ e.type = "I") /\ (e.kx # 0 \/ e.ky # 0)
  \/ warp /\ e.type = "LTR"
  \/ warp /\ e.type = "P" /\ "reset" \in e.flags

\* SerializeEfu's checks.
EfuRefused(e) ==
  \/ e.config = 0 \/ e.id = NoReference \/ "discardable" \in e.flags
  \/ ReferenceIdsRefused(e)
  \/ WarpRefused(e, "warp" \in e.flags)

\* A translation is written as two bytes in front of the payload.
HasGeometry(e) == "warp" \in e.flags /\ e.type = "P"
WirePayload(e) ==
  (IF HasGeometry(e) THEN << e.kx % 256, e.ky % 256 >> ELSE <<>>) \o e.payload

\* SerializeEfu.  A CRC stands for the bytes it was computed over.
EfuUnit(e) ==
  [config |-> e.config, id |-> e.id, type |-> e.type, flags |-> e.flags \cup {"crc"},
   short |-> e.short, long |-> e.long, payload |-> WirePayload(e), crc |-> WirePayload(e)]

SignedByte(b) == IF b < 128 THEN b ELSE b - 256

\* ParseEfu, once its checks have passed.
ParsedEfu(u) ==
  LET geometry == HasGeometry(u)
  IN [config |-> u.config, id |-> u.id, type |-> u.type, flags |-> u.flags,
      short |-> u.short, long |-> u.long,
      kx |-> IF geometry THEN SignedByte(u.payload[1]) ELSE 0,
      ky |-> IF geometry THEN SignedByte(u.payload[2]) ELSE 0,
      payload |-> IF geometry THEN SubSeq(u.payload, 3, Len(u.payload)) ELSE u.payload]

ParseEfuRefused(u) ==
  \/ "crc" \notin u.flags
  \/ u.crc # u.payload
  \/ HasGeometry(u) /\ Len(u.payload) < 2
  \/ EfuRefused(ParsedEfu(u))
===============================================================================
