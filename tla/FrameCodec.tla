------------------------------ MODULE FrameCodec ------------------------------
(***************************************************************************)
(* The frame functions of mlvc/src/codec/frame: EncodeIAsync and           *)
(* EncodePAsync with their entropy worker, DecodeI and DecodeP, and the    *)
(* reference each end keeps from one frame to the next.                    *)
(*                                                                         *)
(* The models are external (FrameModels).  The caller is external too: it  *)
(* keeps the results as references, hands payloads over in order and may   *)
(* materialize the reference at both ends before a P frame.                *)
(***************************************************************************)
EXTENDS FrameModels, Nv12

CONSTANTS Kinds,      \* the frames in order: "I" or "P"
          Pictures,   \* and what they show
          Qps,        \* of P frames
          Options,    \* how the two ends are built and run
          WireBound,  \* payloads on their way
          Conversions \* pictures that are converted: [input, layout]

VARIABLES opts,       \* chosen once
          enc,        \* the encoder's main thread: pc, workspace, references
          job,        \* its entropy worker
          wire,       \* payloads on their way, with the frame's kind and qp
          dec,        \* the decoder
          encoded,    \* history: the latent and the reference of every frame,
          decoded     \* as either end had them
vars == <<opts, enc, job, wire, dec, encoded, decoded>>

\* Scoped...MirrorSkip: the encoder has one switch for both of its skips.
EncodeFlags == [skipEntropy |-> opts.skip, skipEncode |-> opts.skip, skipDecode |-> FALSE,
                forceVideo |-> FALSE, priorAvailable |-> opts.decPrior]
DecodeFlags == [EncodeFlags EXCEPT !.skipEntropy = FALSE, !.skipEncode = FALSE,
                                   !.skipDecode = opts.decSkip]

\* QScaleCache: a tensor of its own, at an address of its own, for every table and
\* qp; a handle when the tables were uploaded.
QStep(table, qp) ==
  LET tensor == QScale(table, qp)
      handle == EnsureAcl(AttachCpuBuffer(EmptyHandle, tensor, TRUE))
  IN  TensorOrHandle(IF opts.static THEN handle ELSE EmptyHandle, HostRef(<<table, qp>>, tensor))

(***************************************************************************)
(* References (reference.cc).                                              *)
(***************************************************************************)
NoReference == [frame |-> NoData, feature |-> NoData,
                frameHandle |-> EmptyHandle, featureHandle |-> EmptyHandle]
ResetFeature(refs) == [refs EXCEPT !.feature = NoData, !.featureHandle = EmptyHandle]
ResetFrame(refs) == [refs EXCEPT !.frame = NoData, !.frameHandle = EmptyHandle]

FeatureAdaptor(ref) ==
  [stage |-> "p_reference_feature_adaptor", inputs |-> [reference_feature_in |-> ref]]
FrameAdaptor(ref) ==
  [stage |-> "p_reference_frame_adaptor", inputs |-> [reference_frame |-> ref]]

\* The order ReferenceFeature looks in; a handle serves only the device mode.
AdaptorFor(refs, acl) ==
  IF acl /\ ~IsNull(refs.featureHandle) THEN FeatureAdaptor(HandleRef(refs.featureHandle))
  ELSE IF refs.feature # NoData THEN FeatureAdaptor(HostRef(<<"feature">>, refs.feature))
  ELSE IF acl /\ ~IsNull(refs.frameHandle) THEN FrameAdaptor(HandleRef(refs.frameHandle))
  ELSE FrameAdaptor(HostRef(<<"frame">>, refs.frame))

\* MaterializeReferenceFrame drops the feature; without a frame it first makes one.
FrameMissing(refs) == refs.frame = NoData /\ IsNull(refs.frameHandle)
FeatureSource(refs) ==
  TensorOrHandle(refs.featureHandle, HostRef(<<"feature">>, refs.feature))
Materialized(refs, clone, host) ==
  [ResetFeature(refs) EXCEPT !.frame = IF IsNull(clone) THEN host ELSE NoData,
                             !.frameHandle = clone]
Picture == <<"p_reconstruction", "x_hat">>

\* What the next frame will be predicted from: the stage that adapts it, and the value.
Reference(refs, acl) ==
  LET adaptor == AdaptorFor(refs, acl)
      ref == adaptor.inputs[CHOOSE name \in DOMAIN adaptor.inputs : TRUE]
  IN  <<adaptor.stage, ViewOf([acl |-> FALSE], <<>>, ref)>>

(***************************************************************************)
(* The stages a frame function runs, by what it calls them.  An end has    *)
(* its workspace, its references, the message it works on and, in given,   *)
(* what it hands to a stage itself.                                        *)
(***************************************************************************)
HyperStage(kind) == IF opts.fused THEN HyperFused[kind] ELSE HyperEncoder[kind]
PriorStage(kind) == IF opts.fused THEN HyperFused[kind] ELSE HyperPrior[kind]

\* RunIHyperPrior and RunPHyperPrior; the fused stage when it is enabled.
HyperPlan(kind) ==
  IF opts.fused THEN <<HyperFused[kind]>> ELSE <<HyperEncoder[kind], HyperPrior[kind]>>
\* ReferenceFeature, then p_reference_context.
ReferencePlan(kind) == IF kind = "I" THEN <<>> ELSE <<"reference feature", "p_reference_context">>
\* The caller starts over from a picture before a P frame.
MaterializePlan(refs, message) ==
  IF message.reset /\ FrameMissing(refs) THEN <<"materialize">> ELSE <<>>

InputsOf(end, stage) ==
  LET kind == end.message.kind
      adapted == <<AdaptorFor(end.refs, end.ws.acl).stage, "reference_feature">>
      feature == IF HandleOf(end.ws, adapted).aclValid THEN HandleRef(HandleOf(end.ws, adapted))
                 ELSE HostRef(<<"scratch">>, end.ws.tensors[adapted])
      latent == [y_latent |-> OutputRef(Analysis[kind], "y_latent")]
      params == [fused_prior_params |-> OutputRef(PriorStage(kind), "fused_prior_params")]
  IN  CASE stage = "p_reference_context" ->
             [reference_feature |-> feature, feature_q_step |-> QStep("p_feature", end.message.qp)]
        [] stage = Analysis[kind] ->
             [current_frame |-> end.given,
              encoder_q_step |-> QStep(EncoderTable[kind], end.message.qp)]
               @@ ContextOf(kind, "reference_context")
        [] stage = HyperEncoder[kind] -> latent
        [] stage = HyperFused[kind] -> latent @@ ContextOf(kind, "temporal_prior_context")
        [] stage = HyperPrior[kind] ->
             [quantized_z |-> end.quantized] @@ ContextOf(kind, "temporal_prior_context")
        [] stage = Spatial[kind] -> latent @@ params
        [] stage = Synthesis[kind] ->
             [reconstructed_y_latent |-> end.given,
              decoder_q_step |-> QStep(DecoderTable[kind], end.message.qp)]
               @@ ContextOf(kind, "reference_context")
        [] stage = "p_reconstruction" ->
             [decoded_feature |-> end.given,
              reconstruction_q_step |-> QStep("p_reconstruction", end.message.qp)]
        [] OTHER -> end.given

CallOf(end, step) ==
  CASE step = "materialize" ->
         [stage |-> "p_reconstruction",
          inputs |-> [decoded_feature |-> FeatureSource(end.refs),
                      reconstruction_q_step |-> QStep("p_reconstruction", end.lastQp)]]
    [] step = "reference feature" -> AdaptorFor(end.refs, end.ws.acl)
    [] OTHER -> [stage |-> step, inputs |-> InputsOf(end, step)]

After(end, step, ws) ==
  IF step = "materialize"
  THEN [end EXCEPT !.ws = ws, !.refs = Materialized(@, CloneAclHandle(HandleOf(ws, Picture)),
                                                    ws.tensors[Picture])]
  ELSE [end EXCEPT !.ws = ws]
RunCall(end, step, call, flags) == After(end, step, RunStage(end.ws, call.stage, call.inputs, flags))
Run(end, plan, flags) ==
  FoldLeft(LAMBDA e, step : RunCall(e, step, CallOf(e, step), flags), end, plan)

\* A frame begins: the message it is about, and the references it will use.
Begun(end, message, given) ==
  [end EXCEPT !.message = message, !.lastQp = end.message.qp, !.given = given,
              !.refs = IF message.reset /\ ~FrameMissing(@) THEN ResetFeature(@) ELSE @]

\* What the caller keeps of a frame: the picture of an I frame, the feature of a P frame.
SynthesisResult(kind) == <<Synthesis[kind], SynthesisOutput[kind]>>
ReferenceAfter(refs, kind, tensor, handle) ==
  IF kind = "I" THEN ResetFeature([refs EXCEPT !.frame = tensor, !.frameHandle = handle])
  ELSE ResetFrame([refs EXCEPT !.feature = tensor, !.featureHandle = handle])

(***************************************************************************)
(* The encoder.                                                            *)
(***************************************************************************)
\* BuildEncodeYIndexesToPinned, a part at a time, with the table of every half.
IndexTable(scales) == [s \in Range(scales) |-> ClippedScale(s)]
PrebuiltPart(symbols, scales) ==
  DeviceBuildIndex(symbols, scales, Cardinality(DOMAIN symbols), Thres, IndexTable(scales),
                   Unwritten(DOMAIN symbols))

\* CopyEntropyInputsToPinnedFromDevice when the stage called the hyper encoder ran on
\* the device; else CopyEntropyInputsToPinned, from the host mirrors.
PinnedInputs(ws, kind) ==
  LET fromDevice == CanCopyFromDevice(ws, <<HyperEncoder[kind], "z_symbols">>)
      Read(stage, tensor) == IF fromDevice THEN ws.out[<<stage, tensor>>].acl
                             ELSE ws.tensors[<<stage, tensor>>]
      residual == Read(Spatial[kind], "y_residual")
      scales == Read(Spatial[kind], "scale")
      prebuilt == fromDevice /\ opts.prebuilt
  IN  [z |-> Read(IF fromDevice THEN HyperEncoder[kind] ELSE HyperStage(kind), "z_symbols"),
       prebuilt |-> prebuilt,
       parts |-> [p \in 0..(Parts(kind) - 1) |->
                    IF prebuilt THEN PrebuiltPart(residual[p], scales[p])
                    ELSE [symbols |-> residual[p], scales |-> scales[p]]]]

\* Up to the spatial prior.
EncodePlan(end, kind) ==
  MaterializePlan(end.refs, end.message) \o ReferencePlan(kind) \o <<Analysis[kind]>>
    \o HyperPlan(kind) \o <<Spatial[kind]>>
Analyzed(end, kind) == Run(end, EncodePlan(end, kind), EncodeFlags)

\* EncodeIAsync and EncodePAsync up to SubmitVoid.
EncodeBegin ==
  /\ enc.pc = "idle" /\ enc.next <= Len(Kinds)
  /\ \E qp \in Qps, reset \in BOOLEAN :
       LET kind == Kinds[enc.next]
           message == [kind |-> kind, reset |-> reset, qp |-> IF kind = "I" THEN KBaseQp ELSE qp]
           picture == HostRef(<<"current">>, Pictures[enc.next])
           ready == [enc EXCEPT !.pc = "submitted",
                                !.quantized = OutputRef(HyperEncoder[kind], "quantized_z")]
       IN  /\ kind = "I" => ~reset /\ qp = CHOOSE q \in Qps : TRUE
           /\ reset => enc.next > 1
           /\ enc' = Analyzed(Begun(ready, message, picture), kind)
           /\ job' = [job EXCEPT !.pc = "z", !.inputs = PinnedInputs(enc'.ws, kind),
                                 !.payload = NoData]
           /\ job'.inputs.prebuilt =>
                \A p \in 0..(Parts(kind) - 1) :
                  AcceptsIndexes(enc'.ws.out[<<Spatial[kind], "y_residual">>].acl[p],
                                 enc'.ws.out[<<Spatial[kind], "scale">>].acl[p])
  /\ UNCHANGED <<opts, wire, dec, encoded, decoded>>

\* While the worker codes: the reconstruction, which the caller keeps as reference.
EncodedReference(end, kind, output) ==
  [end EXCEPT !.pc = "waiting",
              !.refs = ReferenceAfter(@, kind, end.ws.tensors[output],
                                      CloneAclHandle(HandleOf(end.ws, output)))]
EncodeReconstruct ==
  LET kind == enc.message.kind
      latent == OutputRef(Spatial[kind], "reconstructed_y_latent")
  IN  /\ enc.pc = "submitted"
      /\ enc' = EncodedReference(Run([enc EXCEPT !.given = latent], <<Synthesis[kind]>>, EncodeFlags),
                                 kind, SynthesisResult(kind))
      /\ encoded' = Append(encoded, [latent |-> ViewOf(enc'.ws, <<>>, latent),
                                     reference |-> Reference(enc'.refs, enc'.ws.acl)])
      /\ UNCHANGED <<opts, job, wire, dec, decoded>>

\* future.get, and the caller sends the payload.
EncodeEnd ==
  /\ enc.pc = "waiting" /\ job.pc = "done" /\ Len(wire) < WireBound
  /\ enc' = [enc EXCEPT !.pc = "idle", !.next = @ + 1]
  /\ job' = [job EXCEPT !.pc = "idle"]
  /\ wire' = Append(wire, [kind |-> enc.message.kind, qp |-> enc.message.qp,
                           reset |-> enc.message.reset, payload |-> job.payload])
  /\ UNCHANGED <<opts, dec, encoded, decoded>>

(***************************************************************************)
(* BuildIEntropyPayloadFromPinnedInto and BuildPEntropyPayloadFromPinned-  *)
(* Into on the worker.                                                     *)
(***************************************************************************)
WorkerZ ==
  LET z == TensorToInt8Symbols(job.inputs.z)
  IN  /\ job.pc = "z"
      /\ job' = [job EXCEPT !.pc = "y", !.part = 0,
                            !.entropy = EncodeZ(EncoderReset(@), AsSequence(z), enc.message.qp, 1)]
      /\ UNCHANGED <<opts, enc, wire, dec, encoded, decoded>>

\* CompactPrebuiltYIndexes.
CompactPrebuiltYIndexes(pairs) ==
  LET kept == SelectSeq(AsSequence(pairs), LAMBDA pair : pair.keep)
  IN  [k \in 1..Len(kept) |-> kept[k].combined]

WorkerY ==
  LET part == job.inputs.parts[job.part]
  IN  /\ job.pc = "y" /\ job.part < Parts(enc.message.kind)
      /\ job' = [job EXCEPT !.part = @ + 1,
                            !.entropy = IF job.inputs.prebuilt
                                        THEN EncodeYIndexes(@, CompactPrebuiltYIndexes(part))
                                        ELSE EncodeY(@, AsSequence(TensorToInt8Symbols(part.symbols)),
                                                     AsSequence(part.scales), Thres)]
      /\ UNCHANGED <<opts, enc, wire, dec, encoded, decoded>>

WorkerFlush ==
  /\ job.pc = "y" /\ job.part = Parts(enc.message.kind)
  /\ job' = [job EXCEPT !.pc = "done", !.payload = EncoderFlush(job.entropy)]
  /\ UNCHANGED <<opts, enc, wire, dec, encoded, decoded>>

(***************************************************************************)
(* The decoder.                                                            *)
(***************************************************************************)
UseAcl == opts.decAcl /\ opts.decPrior

\* QuantizedZToAcl.
QuantizedZHandle(handle, symbols) ==
  LET fresh == IF IsNull(handle) THEN NewHandle ELSE handle
  IN  IF ~UseAcl THEN handle
      ELSE MarkAclModified([fresh EXCEPT !.acl =
             DeviceInt8ToFp16(symbols, ZChannels, Unwritten(DOMAIN symbols))])

QuantizedZRef(handle, symbols) ==
  IF handle.aclValid THEN HandleRef(handle)
  ELSE HostRef(<<"quantized_z">>, FloatToFp16TensorFromInt8(symbols))
ZKept(end, kind, handle, symbols) ==
  [end EXCEPT !.quantized = QuantizedZRef(handle, symbols), !.scratch[kind].quantizedZ = handle]
ZDecoded(end, kind, z) ==
  ZKept([end EXCEPT !.entropy = z.decoder], kind,
        QuantizedZHandle(end.scratch[kind].quantizedZ, AsTensor(z.symbols)), AsTensor(z.symbols))

\* DecodeI and DecodeP up to the hyper prior.
PriorPlan(end, kind) ==
  MaterializePlan(end.refs, end.message) \o ReferencePlan(kind) \o <<HyperPrior[kind]>>
WithPrior(end, kind) == Run(end, PriorPlan(end, kind), DecodeFlags)
DecodeBegin ==
  LET message == Head(wire)
      kind == message.kind
      begun == Begun([dec EXCEPT !.pc = "part", !.part = 0, !.scratch[kind].reconstructed = Zeros(kind)],
                     message, NoData)
      stream == SetStream(opts.two, ZChannels, message.payload)
  IN  /\ dec.pc = "idle" /\ wire # <<>>
      /\ UseAcl => AcceptsTotal(ZChannels)
      /\ wire' = Tail(wire)
      /\ dec' = WithPrior(ZDecoded(begun, kind, DecodeZ(stream, ZChannels, message.qp, 1)), kind)
      /\ UNCHANGED <<opts, enc, job, encoded, decoded>>

\* The stage that gives a part's scales and means.
PartStage(kind, part) == IF part = 0 THEN InitStage[kind] ELSE StepStage[kind][part]
PartInputs(ws, kind, part, scratch) ==
  LET prior == TensorOrHandle(HandleOf(ws, <<HyperPrior[kind], "fused_prior_params">>),
                              OutputRef(HyperPrior[kind], "fused_prior_params"))
      reduced == TensorOrHandle(HandleOf(ws, <<InitStage[kind], "reduced_prior_params">>),
                                OutputRef(InitStage[kind], "reduced_prior_params"))
      soFar == IF UseAcl THEN HandleRef(scratch.onDevice)
               ELSE HostRef(<<"reconstructed">>, FloatToFp16Tensor(scratch.reconstructed))
  IN  IF part = 0 THEN [fused_prior_params |-> prior]
      ELSE IF kind = "I" THEN [reconstructed_y_so_far |-> soFar, reduced_prior_params |-> reduced]
      ELSE [reconstructed_y_part_0 |-> soFar, fused_prior_params |-> prior]

\* Mutant: the buffer is not cleared for part 0.
RestoredOnDeviceUncleared(handle, reconstructed, symbols, means, kind, part) ==
  LET fresh == IF IsNull(handle) THEN NewHandle ELSE handle
      memory == IF fresh.aclValid THEN fresh.acl ELSE FloatToFp16Tensor(reconstructed)
  IN  MarkAclModified([fresh EXCEPT !.acl =
        DeviceRestoreY(symbols, means, Parts(kind), part, ShapeOf(kind), memory)])

\* RestoreYToAcl: the device's own reconstruction starts at zero with part 0.
RestoredOnDevice(handle, reconstructed, symbols, means, kind, part) ==
  LET fresh == IF IsNull(handle) THEN NewHandle ELSE handle
      memory == IF part = 0 THEN Zeros(kind)
                ELSE IF fresh.aclValid THEN fresh.acl
                ELSE FloatToFp16Tensor(reconstructed)
  IN  MarkAclModified([fresh EXCEPT !.acl =
        DeviceRestoreY(symbols, means, Parts(kind), part, ShapeOf(kind), memory)])

\* A part's scales, from the handle or its host mirror.
PartScales(output, tensor, parts, part, shape) ==
  IF UseAcl THEN DeviceSinglePart(output.acl, parts, part, shape,
                                  Unwritten(IndexesOf(PartShape(shape, parts))))
  ELSE SinglePart(tensor, parts, part, shape)

\* The symbols of a part, on the host and, beside it, on the device.
OnDevice(end, kind, symbols, means) ==
  IF ~UseAcl THEN end
  ELSE [end EXCEPT !.scratch[kind].onDevice =
          RestoredOnDevice(@, end.scratch[kind].reconstructed, symbols, means, kind, end.part)]
OnHost(end, kind, symbols, means) ==
  [end EXCEPT !.scratch[kind].reconstructed =
     RestoreY(symbols, means, Parts(kind), end.part, ShapeOf(kind), @)]
Restored(end, kind, symbols, output) ==
  OnDevice(OnHost(end, kind, symbols, end.ws.tensors[output]), kind, symbols,
           end.ws.out[output].acl)
YDecoded(end, kind, y, output) ==
  [Restored(end, kind, AsTensor(y.symbols), output) EXCEPT !.part = @ + 1, !.entropy = y.decoder]
PartDecoded(end, kind, stage) ==
  YDecoded(end, kind,
           DecodeY(end.entropy,
                   AsSequence(PartScales(end.ws.out[<<stage, "scale_params">>],
                                         end.ws.tensors[<<stage, "scale_params">>],
                                         Parts(kind), end.part, ShapeOf(kind))),
                   Thres),
           <<stage, "mean_params">>)

\* A part of DecompressImagePrior or DecompressVideoPrior.
DecodePart ==
  LET kind == dec.message.kind
      stage == PartStage(kind, dec.part)
      inputs == PartInputs(dec.ws, kind, dec.part, dec.scratch[kind])
  IN  /\ dec.pc = "part" /\ dec.part < Parts(kind)
      /\ UseAcl => AcceptsParts(Parts(kind), dec.part, ShapeOf(kind))
      /\ dec' = PartDecoded(Run([dec EXCEPT !.given = inputs], <<stage>>, DecodeFlags), kind, stage)
      /\ UseAcl => \A tensor \in {"scale_params", "mean_params"} :
                     dec'.ws.out[<<stage, tensor>>].aclValid
      /\ UNCHANGED <<opts, enc, job, wire, encoded, decoded>>

\* The quantization steps are applied on the host and, beside it, on the device.
QuantStep(kind) == <<InitStage[kind], "decoder_y_quant_step">>
QuantChannels(steps, shape) == Cardinality(DOMAIN steps) \div (shape.height * shape.width)
Dequantized(scratch, host, device, shape) ==
  LET fresh == IF IsNull(scratch.output) THEN NewHandle ELSE scratch.output
  IN  [scratch EXCEPT
         !.reconstructed = ApplyChannelQuantStep(host, shape, @),
         !.output = IF ~UseAcl THEN @
                    ELSE MarkAclModified([fresh EXCEPT !.acl =
                           DeviceApplyQuant(device, QuantChannels(host, shape),
                                            scratch.onDevice.acl, shape,
                                            Unwritten(IndexesOf(shape)))])]
LatentOf(scratch) ==
  TensorOrHandle(IF UseAcl THEN scratch.output ELSE EmptyHandle,
                 HostRef(<<"output">>, FloatToFp16Tensor(scratch.reconstructed)))

\* The picture of a P frame; the decoder keeps no handle of an I frame's picture.
DecodedReference(end, kind, output) ==
  [end EXCEPT !.refs = ReferenceAfter(@, kind, end.ws.tensors[output],
                         IF kind = "I" THEN EmptyHandle ELSE CloneAclHandle(HandleOf(end.ws, output)))]
Pictured(end, kind) ==
  IF kind = "I" THEN end
  ELSE Run([end EXCEPT !.given = FeatureSource(end.refs)], <<"p_reconstruction">>, DecodeFlags)

\* The rest: quantization steps, synthesis and, for P, the picture; the caller keeps
\* the frame or the feature.
DecodeEnd ==
  LET kind == dec.message.kind
      quant == QuantStep(kind)
      scratch == Dequantized(dec.scratch[kind], dec.ws.tensors[quant], dec.ws.out[quant].acl,
                             ShapeOf(kind))
      ready == [dec EXCEPT !.pc = "idle", !.scratch[kind] = scratch, !.given = LatentOf(scratch)]
  IN  /\ dec.pc = "part" /\ dec.part = Parts(kind)
      /\ UseAcl => AcceptsQuant(QuantChannels(dec.ws.tensors[quant], ShapeOf(kind)), ShapeOf(kind))
      /\ dec' = Pictured(DecodedReference(Run(ready, <<Synthesis[kind]>>, DecodeFlags),
                                          kind, SynthesisResult(kind)), kind)
      /\ decoded' = Append(decoded,
                           [latent |-> ViewOf([acl |-> FALSE], <<>>, LatentOf(dec'.scratch[kind])),
                            reference |-> Reference(dec'.refs, dec'.ws.acl)])
      /\ UNCHANGED <<opts, enc, job, wire, encoded>>

(***************************************************************************)
(* The specification.                                                      *)
(***************************************************************************)
NewScratch == [quantizedZ |-> EmptyHandle, onDevice |-> EmptyHandle, output |-> EmptyHandle,
               reconstructed |-> NoData]

\* Before the first frame the qp is the one of I frames.
NewEnd(acl) ==
  [pc |-> "idle", message |-> [qp |-> KBaseQp], lastQp |-> KBaseQp, ws |-> NewWorkspace(acl),
   refs |-> NoReference, given |-> NoData, quantized |-> NoData]

Init ==
  /\ opts \in Options
  /\ enc = NewEnd(opts.encAcl) @@ [next |-> 1]
  /\ job = [pc |-> "idle", part |-> 0, inputs |-> NoData, payload |-> NoData,
            entropy |-> NewEncoder(opts.two, ZChannels)]
  /\ wire = <<>>
  /\ dec = NewEnd(opts.decAcl)
             @@ [part |-> 0, entropy |-> NoData, scratch |-> [kind \in Kind |-> NewScratch]]
  /\ encoded = <<>> /\ decoded = <<>>

EncoderNext == EncodeBegin \/ EncodeReconstruct \/ EncodeEnd
WorkerNext == WorkerZ \/ WorkerY \/ WorkerFlush
DecoderNext == DecodeBegin \/ DecodePart \/ DecodeEnd
\* Nothing is left to do; elsewhere a step is always possible.
Finished == Len(decoded) = Len(Kinds) /\ UNCHANGED vars
Next == EncoderNext \/ WorkerNext \/ DecoderNext \/ Finished

Spec == Init /\ [][Next]_vars

(***************************************************************************)
(* Properties.                                                             *)
(***************************************************************************)
\* Both ends have the same latent for every frame, and predict the next one from the
\* same reference in the same way, whichever of CPU, device kernels, prebuilt
\* indexes, fused stages and skipped mirrors each of them works with.
FramesAgree == \A k \in 1..Len(decoded) : decoded[k] = encoded[k]

\* The two copies of a tensor never diverge while both count as valid, and at most
\* one of them is the newer: no read of a handle picks a stale copy.
Coherent(h) ==
  /\ NoConflict(h)
  /\ h.cpuValid /\ h.aclValid => h.cpu = h.acl
  /\ (h.cpuDirty => h.cpuValid) /\ (h.aclDirty => h.aclValid)
HandlesCoherent ==
  /\ \A o \in StageOutputs : Coherent(enc.ws.out[o]) /\ Coherent(dec.ws.out[o])
  /\ Coherent(enc.refs.frameHandle) /\ Coherent(enc.refs.featureHandle)
  /\ Coherent(dec.refs.frameHandle) /\ Coherent(dec.refs.featureHandle)
  /\ \A kind \in {"I", "P"} :
       /\ Coherent(dec.scratch[kind].quantizedZ)
       /\ Coherent(dec.scratch[kind].onDevice) /\ Coherent(dec.scratch[kind].output)

\* A picture is the same in NV12 however it is converted: a byte at a time or in strips,
\* by the cores of the device into a buffer that held another picture, or straight into
\* the packed layout instead of removing the padding afterwards.
SamePicture(input, layout) ==
  LET host == ScalarNv12(input, layout)
      used == [o \in DOMAIN host |-> {-1}]
  IN  /\ HostAccepts(input, layout)
      /\ VectorNv12(input, layout) = host
      /\ CopyVisibleNv12(host, layout) = ScalarNv12(input, PackedLayout(layout))
      /\ DeviceAccepts(input, layout) => DeviceNv12(input, layout, used) = host
PicturesFollowHost == \A c \in Conversions : SamePicture(c.input, c.layout)

\* Part by part, the reconstruction the device accumulates for the next stage is the
\* one the host accumulates beside it, whatever an earlier frame left in the buffer;
\* and so are the pictures it converts for the publisher.
DeviceFollowsHost ==
  /\ dec.pc = "part" /\ dec.part > 0 /\ UseAcl =>
       dec.scratch[dec.message.kind].onDevice.acl = dec.scratch[dec.message.kind].reconstructed
  /\ PicturesFollowHost
===============================================================================
