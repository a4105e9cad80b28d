----------------------------- MODULE StageTensors -----------------------------
(***************************************************************************)
(* Tensors that live on the host, on the device or on both:                *)
(* common/src/core/tensor_handle.cc, and the workspace of the model stages *)
(* built on it: mlvc/src/codec/stage/stage_workspace.cc, stage_runner.cc   *)
(* and stage_output_policy.cc.                                             *)
(*                                                                         *)
(* A tensor is its value; NoData is a buffer nothing was written to.  The  *)
(* pinned buffer of a handle is left out: nothing allocates one.           *)
(***************************************************************************)
EXTENDS Integers, Sequences, FiniteSets, TLC

CONSTANTS StageInputs, StageOutputs   \* the manifest: <<stage, tensor>> pairs

NoData == <<>>
NoSource == <<>>

(***************************************************************************)
(* TensorHandle.                                                           *)
(***************************************************************************)
EmptyHandle == [cpu |-> NoData, acl |-> NoData, hasCpu |-> FALSE, hasAcl |-> FALSE,
                cpuValid |-> FALSE, aclValid |-> FALSE, cpuDirty |-> FALSE, aclDirty |-> FALSE]

\* AttachCpuBuffer and UseOwnedCpuBuffer: the buffer and what it holds.
AttachCpuBuffer(h, data, valid) ==
  [h EXCEPT !.cpu = data, !.hasCpu = TRUE, !.cpuValid = valid,
            !.cpuDirty = valid /\ ~h.aclValid]
UseOwnedCpuBuffer(h, valid) == AttachCpuBuffer(h, NoData, valid)
AllocateAclBuffer(h, valid) ==
  [h EXCEPT !.acl = NoData, !.hasAcl = TRUE, !.aclValid = valid,
            !.aclDirty = valid /\ ~h.cpuValid]

\* Reset, then both buffers, neither valid: how every handle of the codec is made.
NewHandle == AllocateAclBuffer(UseOwnedCpuBuffer(EmptyHandle, FALSE), FALSE)

MarkCpuModified(h) ==
  [h EXCEPT !.cpuValid = TRUE, !.aclValid = FALSE, !.cpuDirty = TRUE, !.aclDirty = FALSE]
\* Mutant: the host copy stays valid.
MarkAclModifiedOnly(h) == [h EXCEPT !.aclValid = TRUE, !.aclDirty = TRUE, !.cpuDirty = FALSE]
MarkAclModified(h) ==
  [h EXCEPT !.aclValid = TRUE, !.cpuValid = FALSE, !.aclDirty = TRUE, !.cpuDirty = FALSE]
MarkCpuValid(h) == [h EXCEPT !.cpuValid = TRUE, !.cpuDirty = FALSE, !.aclDirty = FALSE]
MarkAclValid(h) == [h EXCEPT !.aclValid = TRUE, !.cpuDirty = FALSE, !.aclDirty = FALSE]

\* CheckNoConflictingDirtyState, which EnsureAcl and MaterializeToCpu throw on.
NoConflict(h) == ~(h.cpuDirty /\ h.aclDirty)

EnsureAcl(h) ==
  LET a == IF h.hasAcl THEN h ELSE AllocateAclBuffer(h, FALSE)
  IN  IF a.aclValid /\ ~a.aclDirty THEN a
      ELSE [a EXCEPT !.acl = a.cpu, !.aclValid = TRUE, !.cpuDirty = FALSE, !.aclDirty = FALSE]

MaterializeToCpu(h) ==
  LET c == IF h.hasCpu THEN h ELSE UseOwnedCpuBuffer(h, FALSE)
  IN  IF c.cpuValid /\ ~c.cpuDirty THEN c
      ELSE [c EXCEPT !.cpu = c.acl, !.cpuValid = TRUE, !.cpuDirty = FALSE, !.aclDirty = FALSE]

\* CloneAclHandle: the copy has what the source has; EmptyHandle when it has nothing.
CloneAclHandle(h) ==
  LET host == IF h.hasCpu /\ h.cpuValid
              THEN MarkCpuValid([NewHandle EXCEPT !.cpu = h.cpu]) ELSE NewHandle
  IN  IF h.hasAcl /\ h.aclValid THEN MarkAclValid([host EXCEPT !.acl = h.acl])
      ELSE IF h.hasCpu /\ h.cpuValid
      THEN MarkCpuValid([UseOwnedCpuBuffer(EmptyHandle, FALSE) EXCEPT !.cpu = h.cpu])
      ELSE EmptyHandle

(***************************************************************************)
(* The policy: which outputs are not copied back to the host.              *)
(***************************************************************************)
Hypers == {"i_hyper_encoder", "p_hyper_encoder", "i_hyper_fused", "p_hyper_fused"}
Spatials == {"i_spatial_prior", "p_spatial_prior"}
Inits == {"i_spatial_prior_decode_init", "p_spatial_prior_decode_init"}
Steps == {"i_spatial_prior_decode_step_1", "i_spatial_prior_decode_step_2",
          "i_spatial_prior_decode_step_3", "p_spatial_prior_decode_step"}
Priors == {"i_hyper_decoder_prior", "p_hyper_temporal_prior", "i_hyper_fused", "p_hyper_fused"}
Adaptors == {"p_reference_feature_adaptor", "p_reference_frame_adaptor"}

\* The parts of y_residual and of scale, always treated alike, are one tensor each.
EntropyOnly == (Hypers \X {"z_symbols"}) \cup (Spatials \X {"y_residual", "scale"})
EntropyDecoded == (Inits \cup Steps) \X {"decoder_y_quant_step", "scale_params", "mean_params"}
Shown == {"i_decoder", "p_reconstruction"} \X {"x_hat"}

\* IsAsyncEncodeAclOnlyStageOutput and IsAsyncDecodeAclOnlyStageOutput.
BothAclOnly ==
  (Adaptors \X {"reference_feature"}) \cup (Priors \X {"fused_prior_params"})
    \cup ({"p_reference_context"} \X {"reference_context", "temporal_prior_context"})
EncodeAclOnly ==
  BothAclOnly \cup ({"i_encoder", "p_analysis_encoder"} \X {"y_latent"})
    \cup (Hypers \X {"quantized_z"}) \cup (Spatials \X {"reconstructed_y_latent"})
    \cup {<<"p_synthesis_decoder", "decoded_feature">>, <<"p_reconstruction", "x_hat">>}
DecodeAclOnly ==
  BothAclOnly \cup {<<"i_spatial_prior_decode_init", "reduced_prior_params">>}
    \cup {<<"MLVCDecoder", "x_hat">>, <<"MLVCDecoder", "feature">>}

MaterializationReason(output) ==
  IF output \in EntropyOnly THEN "entropy_encode"
  ELSE IF output \in EntropyDecoded THEN "entropy_decode"
  ELSE IF output \in Shown THEN "video_write"
  ELSE IF output \in EncodeAclOnly \cup DecodeAclOnly THEN "acl_only_downstream"
  ELSE "fallback_cpu_stage"

\* StageOutputCpuMirrorSkipReason, under the flags of the run.
SkipsMirror(output, flags) ==
  LET reason == MaterializationReason(output)
  IN  \/ flags.skipEntropy /\ reason = "entropy_encode"
      \/ flags.skipEncode /\ reason = "acl_only_downstream"
      \/ /\ flags.skipDecode /\ reason = "acl_only_downstream"
         /\ ~(flags.forceVideo /\ output = <<"MLVCDecoder", "x_hat">>)
      \/ /\ flags.skipDecode /\ flags.priorAvailable
         /\ reason = "entropy_decode" /\ output[2] = "scale_params"

(***************************************************************************)
(* The workspace.  In the device mode every output has a handle, and its   *)
(* TensorData is the host mirror; every input has a handle to upload into. *)
(***************************************************************************)
NewWorkspace(acl) ==
  [acl |-> acl,
   in |-> [i \in StageInputs |-> IF acl THEN NewHandle ELSE EmptyHandle],
   source |-> [i \in StageInputs |-> NoSource],
   out |-> [o \in StageOutputs |-> IF acl THEN NewHandle ELSE EmptyHandle],
   tensors |-> [o \in StageOutputs |-> NoData]]

\* RunOutput::Handle: null without the device mode.
HandleOf(ws, output) == IF ws.acl THEN ws.out[output] ELSE EmptyHandle
IsNull(h) == h = EmptyHandle

IsQScaleInput(name) ==
  name \in {"encoder_q_step", "decoder_q_step", "feature_q_step", "reconstruction_q_step"}

\* What a stage is given: an output of the workspace, a handle, or a host tensor
\* known by its address.
OutputRef(stage, tensor) == [kind |-> "output", output |-> <<stage, tensor>>]
HandleRef(h) == [kind |-> "handle", handle |-> h]
HostRef(address, value) == [kind |-> "host", address |-> address, value |-> value]
TensorOrHandle(h, ref) == IF IsNull(h) THEN ref ELSE HandleRef(h)

\* InputViewForCpuMirror: the device buffer stands in for the mirror.
ReusesDevice(ws, ref) == ref.kind = "output" /\ ws.acl /\ ws.out[ref.output].aclValid
HostValue(ws, ref) == IF ref.kind = "output" THEN ws.tensors[ref.output] ELSE ref.value
AddressOf(ref) == IF ref.kind = "output" THEN ref.output ELSE ref.address

\* UploadInputToDevice: a q scale that is there already, by its address, is not
\* uploaded again.
CacheHit(ws, input, ref) ==
  /\ IsQScaleInput(input[2])
  /\ ws.source[input] = AddressOf(ref)
  /\ ws.in[input].aclValid
Uploaded(ws, input, ref) ==
  EnsureAcl(MarkCpuModified(AttachCpuBuffer(ws.in[input], HostValue(ws, ref), TRUE)))
UploadInputToDevice(ws, input, ref) ==
  IF CacheHit(ws, input, ref) THEN ws
  ELSE [ws EXCEPT !.in[input] = Uploaded(ws, input, ref),
                  !.source[input] = IF IsQScaleInput(input[2]) THEN AddressOf(ref) ELSE NoSource]

NeedsUpload(ws, ref) == ws.acl /\ ref.kind # "handle" /\ ~ReusesDevice(ws, ref)

\* The view the stage reads an input through.
ViewOf(ws, input, ref) ==
  IF ref.kind = "handle"
  THEN IF ref.handle.aclValid /\ ref.handle.hasAcl THEN ref.handle.acl ELSE ref.handle.cpu
  ELSE IF ReusesDevice(ws, ref) THEN ws.out[ref.output].acl
  ELSE IF ws.acl THEN ws.in[input].acl
  ELSE HostValue(ws, ref)

\* RunNamed and MirrorOutputsToCpu.
Written(ws, output, value, flags) ==
  LET device == MarkAclModified([ws.out[output] EXCEPT !.acl = value])
      mirrored == MaterializeToCpu(device)
  IN  IF ~ws.acl THEN [handle |-> ws.out[output], tensor |-> value]
      ELSE IF SkipsMirror(output, flags) THEN [handle |-> device, tensor |-> ws.tensors[output]]
      ELSE [handle |-> mirrored, tensor |-> mirrored.cpu]

\* CanCopyStageTensorFromDevice; a stage the manifest lacks has no entry.
CanCopyFromDevice(ws, output) ==
  ws.acl /\ output \in StageOutputs /\ ws.out[output].hasAcl /\ ws.out[output].aclValid
===============================================================================
