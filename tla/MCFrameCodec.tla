----------------------------- MODULE MCFrameCodec -----------------------------
(***************************************************************************)
(* An I frame and P frames over latents of 2x2 places, a chunk of one      *)
(* channel per part, small distributions with an escape, and every way the *)
(* two ends can be built that the model tells apart.                       *)
(***************************************************************************)
EXTENDS FrameCodec

Row(a, b, c, offset) == [cdf |-> <<0, a, b, c, 65536>>, offset |-> offset]
MCZGroup == [i \in 0..127 |-> Row(9000 + 64 * i, 30000 + 128 * i, 60000, -1 - (i % 3))]
MCGaussianGroup == [i \in 0..3 |-> Row(20000 - 5000 * i, 52000 - 4000 * i, 65000 - 9000 * i, -1)]

MCStageInputs ==
  {<<"i_encoder", "current_frame">>, <<"i_encoder", "encoder_q_step">>,
   <<"p_analysis_encoder", "current_frame">>, <<"p_analysis_encoder", "reference_context">>,
   <<"p_analysis_encoder", "encoder_q_step">>,
   <<"i_hyper_encoder", "y_latent">>, <<"p_hyper_encoder", "y_latent">>,
   <<"i_hyper_fused", "y_latent">>, <<"p_hyper_fused", "y_latent">>,
   <<"p_hyper_fused", "temporal_prior_context">>,
   <<"i_hyper_decoder_prior", "quantized_z">>, <<"p_hyper_temporal_prior", "quantized_z">>,
   <<"p_hyper_temporal_prior", "temporal_prior_context">>,
   <<"i_spatial_prior_decode_step_1", "reconstructed_y_so_far">>,
   <<"i_spatial_prior_decode_step_2", "reconstructed_y_so_far">>,
   <<"i_spatial_prior_decode_step_3", "reconstructed_y_so_far">>,
   <<"i_spatial_prior_decode_step_1", "reduced_prior_params">>,
   <<"i_spatial_prior_decode_step_2", "reduced_prior_params">>,
   <<"i_spatial_prior_decode_step_3", "reduced_prior_params">>,
   <<"p_spatial_prior_decode_step", "reconstructed_y_part_0">>,
   <<"p_spatial_prior_decode_step", "fused_prior_params">>,
   <<"p_reference_feature_adaptor", "reference_feature_in">>,
   <<"p_reference_frame_adaptor", "reference_frame">>,
   <<"p_reference_context", "reference_feature">>, <<"p_reference_context", "feature_q_step">>,
   <<"p_synthesis_decoder", "reference_context">>, <<"p_reconstruction", "decoded_feature">>,
   <<"p_reconstruction", "reconstruction_q_step">>}
    \cup {<<stage, "decoder_q_step">> : stage \in {"i_decoder", "p_synthesis_decoder"}}
    \cup {<<stage, "reconstructed_y_latent">> : stage \in {"i_decoder", "p_synthesis_decoder"}}
    \cup (Spatials \X {"y_latent", "fused_prior_params"}) \cup (Inits \X {"fused_prior_params"})

MCStageOutputs ==
  ({"i_encoder", "p_analysis_encoder"} \X {"y_latent"})
    \cup (Hypers \X {"z_symbols", "quantized_z"}) \cup (Priors \X {"fused_prior_params"})
    \cup (Spatials \X {"y_residual", "scale", "reconstructed_y_latent"})
    \cup (EntropyDecoded \ (Steps \X {"decoder_y_quant_step"}))
    \cup {<<"i_spatial_prior_decode_init", "reduced_prior_params">>}
    \cup ({"p_reference_context"} \X {"reference_context", "temporal_prior_context"})
    \cup (Adaptors \X {"reference_feature"})
    \cup {<<"p_synthesis_decoder", "decoded_feature">>} \cup Shown

\* Strips with and without a rest; and for the device a row per core, cores without a
\* row, where the share of the last one wraps around, and one row too few.
Layout(width, height, widthStride, heightStride) ==
  [width |-> width, height |-> height, widthStride |-> widthStride, heightStride |-> heightStride]
MCConversions ==
  {[input |-> [height |-> 6, width |-> 12], layout |-> Layout(10, 4, 14, 6)],
   [input |-> [height |-> 2, width |-> 6], layout |-> Layout(6, 2, 6, 4)],
   [input |-> [height |-> 2, width |-> 16], layout |-> Layout(16, 2, 32, 2)],
   [input |-> [height |-> 20, width |-> 24], layout |-> Layout(16, 20, 32, 22)],
   [input |-> [height |-> 4, width |-> 16], layout |-> Layout(16, 4, 32, 62)]}

MCKinds == <<"I", "P", "P">>
MCPictures == <<<<11>>, <<52>>, <<34>>>>
MCQps == {17, 30}

\* Every way to build an encoder against every way to build a decoder, and the single
\* range coder and the uploaded tables with some of them.
Encoders ==
  {[encAcl |-> acl, prebuilt |-> prebuilt, skip |-> skip, fused |-> fused] :
     <<acl, prebuilt, skip, fused>> \in
       {<<FALSE, FALSE, FALSE, FALSE>>, <<FALSE, FALSE, FALSE, TRUE>>,
        <<TRUE, FALSE, FALSE, FALSE>>, <<TRUE, TRUE, TRUE, FALSE>>, <<TRUE, TRUE, FALSE, TRUE>>}}
Decoders ==
  {[decAcl |-> acl, decPrior |-> prior, decSkip |-> skip] :
     <<acl, prior, skip>> \in {<<FALSE, FALSE, FALSE>>, <<TRUE, FALSE, FALSE>>,
                               <<TRUE, TRUE, FALSE>>, <<TRUE, TRUE, TRUE>>}}
MCOptions ==
  {e @@ d @@ [two |-> two, static |-> static] :
     e \in Encoders, d \in Decoders, two \in BOOLEAN, static \in BOOLEAN}
Plain(o) == o.two /\ ~o.static
MixedOptions ==
  {o \in MCOptions : Plain(o) \/ (o.static /\ o.skip /\ o.decSkip) \/ (~o.encAcl /\ ~o.decAcl)}
===============================================================================
