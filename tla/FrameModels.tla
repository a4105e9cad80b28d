------------------------------ MODULE FrameModels ------------------------------
(***************************************************************************)
(* The models behind the stages, as the frame functions use them: their    *)
(* names, their tensors and what is taken for granted of them, that the    *)
(* spatial prior of the encoder codes a latent with the same scales and    *)
(* means as the decoder's stages give it, part after part.                 *)
(*                                                                         *)
(* A tensor nothing looks into is a digest of what it was computed from.   *)
(***************************************************************************)
EXTENDS EntropyCodec, DevicePrior, StageTensors, TLC

CONSTANTS ZChannels,   \* the symbols of Z, one place per channel
          Thres        \* python_fast_force_zero_thres

KBaseQp == 17
Kind == {"I", "P"}

\* The stages of the two kinds of frame.
Analysis == [I |-> "i_encoder", P |-> "p_analysis_encoder"]
HyperEncoder == [I |-> "i_hyper_encoder", P |-> "p_hyper_encoder"]
HyperPrior == [I |-> "i_hyper_decoder_prior", P |-> "p_hyper_temporal_prior"]
HyperFused == [I |-> "i_hyper_fused", P |-> "p_hyper_fused"]
Spatial == [I |-> "i_spatial_prior", P |-> "p_spatial_prior"]
InitStage == [I |-> "i_spatial_prior_decode_init", P |-> "p_spatial_prior_decode_init"]
StepStage == [I |-> <<"i_spatial_prior_decode_step_1", "i_spatial_prior_decode_step_2",
                      "i_spatial_prior_decode_step_3">>,
              P |-> <<"p_spatial_prior_decode_step">>]
Synthesis == [I |-> "i_decoder", P |-> "p_synthesis_decoder"]
SynthesisOutput == [I |-> "x_hat", P |-> "decoded_feature"]
EncoderTable == [I |-> "i_encoder", P |-> "p_encoder"]
DecoderTable == [I |-> "i_decoder", P |-> "p_decoder"]
Tables == <<"i_encoder", "i_decoder", "p_feature", "p_encoder", "p_decoder", "p_reconstruction">>

\* What a P frame adds to the inputs of a stage.
ContextOf(kind, tensor) ==
  IF kind = "I" THEN <<>> ELSE tensor :> OutputRef("p_reference_context", tensor)

\* Latents of 2x2 places, as many channels as parts.
Parts(kind) == IF kind = "I" THEN 4 ELSE 2
ShapeOf(kind) == [channels |-> Parts(kind), height |-> 2, width |-> 2]
Zeros(kind) == [j \in IndexesOf(ShapeOf(kind)) |-> 0]

AsSequence(t) == [i \in 1..Cardinality(DOMAIN t) |-> t[i - 1]]
AsTensor(s) == [i \in 0..(Len(s) - 1) |-> s[i + 1]]

\* Memory that was allocated and not written.
Garbage == 9999
Unwritten(indexes) == [i \in indexes |-> Garbage]

Digest(t) == MapThenSumSet(LAMBDA i : (i + 2) * t[i], DOMAIN t) % 97
Mix(stage, values) ==
  (MapThenSumSet(LAMBDA name : Digest(values[name]), DOMAIN values)
     + (IF stage = "p_reference_frame_adaptor" THEN 31 ELSE 0)) % 97

\* A row of a q scale table.
QScale(table, qp) ==
  <<3 * qp + 7 * (CHOOSE i \in 1..Len(Tables) : Tables[i] = table)>>

\* What a stage makes of the prior d and the reconstruction so far, for a part.
Seed(d, soFar, part) == d + 5 * Digest(soFar) + part
ScaleParams(kind, seed) == [j \in IndexesOf(ShapeOf(kind)) |-> ((seed * (j + 1)) % 5) - 1]
MeanParams(kind, seed) == [j \in IndexesOf(ShapeOf(kind)) |-> ((seed * (j + 3)) % 1201) - 600]
QuantSteps(kind, d) ==
  [j \in 0..(IF kind = "I" THEN 15 ELSE 3) |-> 1 + ((d + j) % 7)]

\* The chunk that is coded at a place with a part.
Turn == <<0, 3, 2, 1>>
ChunkOf(kind, part, y, x) ==
  LET cell == 2 * (y % 2) + (x % 2)
      other == Turn[part + 1]
  IN  IF kind = "P" THEN (part + y + x) % 2
      ELSE 2 * ((cell \div 2 + other \div 2) % 2) + ((cell + other) % 2)
Coded(kind, part, j) ==
  ChunkOf(kind, part, RowOf(ShapeOf(kind), j), ColumnOf(ShapeOf(kind), j))
    = ChannelOf(ShapeOf(kind), j)

\* The residual at the places of a part: nothing where the scale is too small.
Residual(latent, scales, means, j) ==
  IF ClippedScale(scales[j]) <= Thres THEN 0
  ELSE ((latent[j] - means[j]) % 41) - 20

\* The encoder's spatial prior: the symbols and scales of every part, in the order of
\* the places, and the reconstruction.
SpatialPrior(kind, latent, d) ==
  LET places == IndexesOf(ShapeOf(kind))
      part[n \in 0..Parts(kind)] ==
        IF n = 0 THEN [soFar |-> Zeros(kind), symbols |-> <<>>, scales |-> <<>>]
        ELSE LET before == part[n - 1]
                 seed == Seed(d, before.soFar, n - 1)
                 scales == ScaleParams(kind, seed)
                 means == MeanParams(kind, seed)
                 Symbol(j) == Residual(latent, scales, means, j)
                 At(i) == CHOOSE j \in places : Coded(kind, n - 1, j) /\ j % 4 = i
             IN  [soFar |-> [j \in places |-> IF Coded(kind, n - 1, j)
                                              THEN RoundToFp16(Symbol(j) + means[j])
                                              ELSE before.soFar[j]],
                  symbols |-> [i \in 0..3 |-> Symbol(At(i))],
                  scales |-> [i \in 0..3 |-> scales[At(i)]]]
      all == 0..(Parts(kind) - 1)
      quant == QuantSteps(kind, d)
      last == part[Parts(kind)].soFar
  IN  [y_residual |-> [p \in all |-> part[p + 1].symbols],
       scale |-> [p \in all |-> part[p + 1].scales],
       reconstructed_y_latent |->
         [j \in places |-> RoundToFp16(last[j] * quant[j % Cardinality(DOMAIN quant)])]]

ZOf(m) == [i \in 0..(ZChannels - 1) |-> ((m * (i + 1)) % 23) - 11]
HyperValues(stage, values) == LET z == ZOf(Mix(stage, values)) IN [z_symbols |-> z, quantized_z |-> z]
PriorValue(context, z) == [fused_prior_params |-> <<(context + Digest(z)) % 97>>]

KindOf(stage) ==
  IF stage \in {f["I"] : f \in {Analysis, Spatial, InitStage}}
               \cup {StepStage["I"][k] : k \in 1..3} THEN "I" ELSE "P"

PartValues(kind, d, soFar, part) ==
  LET seed == Seed(d, soFar, part)
  IN  [scale_params |-> ScaleParams(kind, seed), mean_params |-> MeanParams(kind, seed),
       decoder_y_quant_step |-> QuantSteps(kind, d), reduced_prior_params |-> <<d>>]

ContextDigest(values) ==
  IF "temporal_prior_context" \in DOMAIN values THEN Digest(values.temporal_prior_context) ELSE 0

\* The outputs of a stage from what it reads.
Model(stage, values) ==
  LET kind == KindOf(stage)
      m == Mix(stage, values)
      hyper == HyperValues(stage, [y_latent |-> values.y_latent])
  IN  CASE stage \in {Analysis["I"], Analysis["P"]} ->
             [y_latent |-> [j \in IndexesOf(ShapeOf(kind)) |-> (m * (j + 3)) % 61]]
        [] stage \in {HyperEncoder["I"], HyperEncoder["P"]} -> hyper
        [] stage \in {HyperPrior["I"], HyperPrior["P"]} ->
             PriorValue(ContextDigest(values), values.quantized_z)
        [] stage \in {HyperFused["I"], HyperFused["P"]} ->
             hyper @@ PriorValue(ContextDigest(values), hyper.quantized_z)
        [] stage \in {Spatial["I"], Spatial["P"]} ->
             SpatialPrior(kind, values.y_latent, values.fused_prior_params[1])
        [] stage \in {InitStage["I"], InitStage["P"]} ->
             PartValues(kind, values.fused_prior_params[1], Zeros(kind), 0)
        [] stage \in {StepStage["I"][k] : k \in 1..3} ->
             PartValues(kind, values.reduced_prior_params[1], values.reconstructed_y_so_far,
                        CHOOSE k \in 1..3 : StepStage["I"][k] = stage)
        [] stage = StepStage["P"][1] ->
             PartValues(kind, values.fused_prior_params[1], values.reconstructed_y_part_0, 1)
        [] stage = "p_reference_context" ->
             [reference_context |-> <<m>>, temporal_prior_context |-> <<m + 1>>]
        [] stage \in Adaptors -> [reference_feature |-> <<m>>]
        [] stage = "p_synthesis_decoder" -> [decoded_feature |-> <<m>>]
        [] OTHER -> [x_hat |-> <<m>>]

\* RunStage: inputs is a function from the stage's input names to refs; the
\* model reads the values of its inputs and gives those of its outputs.
RunStage(ws, stage, inputs, flags) ==
  LET uploads == {name \in DOMAIN inputs : NeedsUpload(ws, inputs[name])}
      Upload(name) == UploadInputToDevice(ws, <<stage, name>>, inputs[name])
      prepared ==
        [ws EXCEPT
           !.in = [i \in {stage} \X uploads |-> Upload(i[2]).in[i]] @@ @,
           !.source = [i \in {stage} \X uploads |-> Upload(i[2]).source[i]] @@ @]
      values == [name \in DOMAIN inputs |-> ViewOf(prepared, <<stage, name>>, inputs[name])]
      results == Model(stage, values)
      mine == {o \in StageOutputs : o[1] = stage}
      After(o) == Written(ws, o, results[o[2]], flags)
  IN  [prepared EXCEPT !.out = [o \in mine |-> After(o).handle] @@ @,
                       !.tensors = [o \in mine |-> After(o).tensor] @@ @]
===============================================================================
