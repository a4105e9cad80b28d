----------------------------- MODULE DevicePrior -----------------------------
(***************************************************************************)
(* The custom operators that keep the latent on the device:                *)
(* op_kernel/mlvc_decode_prior_kernels.h and mlvc_build_index_encode.cpp,  *)
(* called through runtime/decode_prior_acl.cc and encode_index_acl.cc.     *)
(*                                                                         *)
(* Memory that a kernel does not write keeps what it held.                 *)
(***************************************************************************)
EXTENDS PriorLayout, DeviceTiling

CONSTANT BlockDim    \* kBlockDim of the two runtimes
KTileElements == 1024

\* The shape checks of the four tiling functions: a refusal fails the call.
AcceptsParts(parts, mask_index, shape) ==
  /\ parts \in {2, 4} /\ mask_index \in 0..(parts - 1)
  /\ shape.channels > 0 /\ shape.channels % parts = 0
  /\ shape.height > 0 /\ shape.width > 0
AcceptsQuant(quantChannels, shape) ==
  /\ shape.channels > 0 /\ shape.height > 0 /\ shape.width > 0
  /\ quantChannels \in {1, shape.channels}

\* A count has to fit a word (MlvcInt8ToFp16TilingFunc), and there are as many scales as
\* symbols (MlvcBuildIndexEncodeTilingFunc).
AcceptsTotal(total) == 0 < total /\ total < WordSize
AcceptsIndexes(symbols, scales) ==
  DOMAIN symbols = DOMAIN scales /\ AcceptsTotal(Cardinality(DOMAIN symbols))

\* Execute: every element that some core handles gets its value.
Execute(memory, target, value) ==
  LET t == TilingOf(Cardinality(DOMAIN value), SelectBlockDim(BlockDim, 1),
                    SelectTileElements(KTileElements))
      handled == Handled(t)
      Writers(j) == {i \in handled : target[i] = j}
  IN  [j \in DOMAIN memory |->
         IF Writers(j) = {} THEN memory[j] ELSE value[CHOOSE i \in Writers(j) : TRUE]]
InPlace(indexes) == [i \in indexes |-> i]

\* The kernel's MicroMask4: the parity that each selector takes.
ParityOf == <<0, 1, 2, 3, 3, 2, 1, 0, 2, 3, 0, 1, 1, 0, 3, 2>>
DeviceMask4(maskIndex, chunk, y, x) ==
  ParityOf[4 * (maskIndex % 4) + (chunk % 4) + 1] = 2 * (y % 2) + (x % 2)
DeviceMask2(maskIndex, chunk, y, x) ==
  IF maskIndex % 2 = chunk % 2 THEN y % 2 = x % 2 ELSE y % 2 # x % 2

SelectedChunk(parts, maskIndex, y, x) ==
  IF parts = 4
  THEN LET taken == {chunk \in 0..3 : DeviceMask4(maskIndex, chunk, y, x)}
       IN  IF taken = {} THEN 0 ELSE CHOOSE chunk \in taken : \A other \in taken : chunk <= other
  ELSE IF DeviceMask2(maskIndex, 0, y, x) THEN 0 ELSE 1

\* Where an element of a part lives in the whole tensor.
FullIndex(part, parts, maskIndex, shape, i) ==
  LET y == RowOf(part, i)
      x == ColumnOf(part, i)
  IN  Offset4(shape, SelectedChunk(parts, maskIndex, y, x) * part.channels + ChannelOf(part, i), y, x)

\* KernelMlvcSinglePart.
DeviceSinglePart(full, parts, maskIndex, shape, memory) ==
  LET part == PartShape(shape, parts)
  IN  Execute(memory, InPlace(IndexesOf(part)),
              [i \in IndexesOf(part) |-> full[FullIndex(part, parts, maskIndex, shape, i)]])

\* KernelMlvcRestoreY.
DeviceRestoreY(symbols, means, parts, maskIndex, shape, memory) ==
  LET part == PartShape(shape, parts)
      target == [i \in IndexesOf(part) |-> FullIndex(part, parts, maskIndex, shape, i)]
  IN  Execute(memory, target,
              [i \in IndexesOf(part) |-> RoundToFp16(symbols[i] + means[target[i]])])

\* KernelMlvcApplyChannelQuantStep.
DeviceApplyQuant(quantStep, quantChannels, values, shape, memory) ==
  LET QuantIndex(i) == Offset4(shape, IF quantChannels = 1 THEN 0 ELSE ChannelOf(shape, i),
                               RowOf(shape, i), ColumnOf(shape, i))
  IN  Execute(memory, InPlace(IndexesOf(shape)),
              [i \in IndexesOf(shape) |-> RoundToFp16(values[i] * quantStep[QuantIndex(i)])])

\* KernelMlvcInt8ToFp16.
DeviceInt8ToFp16(symbols, total, memory) ==
  Execute(memory, InPlace(0..(total - 1)), [i \in 0..(total - 1) |-> RoundToFp16(symbols[i])])

\* KernelMlvcBuildIndexEncode: the combined symbol and whether to keep it; table has
\* the index of every half, and a symbol in half precision is rounded.
DeviceBuildIndex(symbols, scales, total, thres, table, memory) ==
  Execute(memory, InPlace(0..(total - 1)),
          [i \in 0..(total - 1) |-> [combined |-> symbols[i] * 256 + table[scales[i]],
                                     keep |-> table[scales[i]] > thres]])
===============================================================================
