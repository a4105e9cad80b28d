----------------------------- MODULE PriorLayout -----------------------------
(***************************************************************************)
(* How the latent of a frame is cut into parts that are coded in turn:     *)
(* mlvc/src/codec/prior/prior_layout.cc.                                   *)
(*                                                                         *)
(* A tensor is a function from 0 .. n-1, NCHW and contiguous, its shape a  *)
(* record.  The channels fall into as many chunks as there are parts; a    *)
(* part takes, at every place, the channels of one chunk, a different      *)
(* chunk at each cell of a 2x2 block, so that the parts meet every channel *)
(* of every place exactly once.                                            *)
(***************************************************************************)
EXTENDS Integers, Sequences, FiniteSetsExt

Elements(shape) == shape.channels * shape.height * shape.width
IndexesOf(shape) == 0..(Elements(shape) - 1)

\* Offset4 and its inverse.
Offset4(shape, c, y, x) == (c * shape.height + y) * shape.width + x
ChannelOf(shape, i) == i \div (shape.height * shape.width)
RowOf(shape, i) == (i \div shape.width) % shape.height
ColumnOf(shape, i) == i % shape.width

\* The cell of the 2x2 block that chunk takes in mask_index: its one non-zero
\* entry of patterns[mask_index][chunk].
CellOfChunk4 == <<<<0, 1, 2, 3>>, <<3, 2, 1, 0>>, <<2, 3, 0, 1>>, <<1, 0, 3, 2>>>>

MicroMask4(mask_index, chunk, y, x) ==
  CellOfChunk4[mask_index + 1][chunk + 1] = 2 * (y % 2) + (x % 2)

MicroMask2(mask_index, chunk, y, x) == (mask_index + chunk + y + x) % 2 = 0

Selects(parts, mask_index, chunk, y, x) ==
  IF parts = 4 THEN MicroMask4(mask_index, chunk, y, x)
  ELSE MicroMask2(mask_index, chunk, y, x)

PartShape(shape, parts) == [shape EXCEPT !.channels = @ \div parts]

\* SinglePart4x and SinglePart2x.
SinglePart(full, parts, mask_index, shape) ==
  LET part == PartShape(shape, parts)
      Full(i, chunk) == full[Offset4(shape, chunk * part.channels + ChannelOf(part, i),
                                     RowOf(part, i), ColumnOf(part, i))]
      Chunks(i) == {chunk \in 0..(parts - 1) :
                      Selects(parts, mask_index, chunk, RowOf(part, i), ColumnOf(part, i))}
  IN  [i \in IndexesOf(part) |-> MapThenSumSet(LAMBDA chunk : Full(i, chunk), Chunks(i))]

\* Half precision holds the integers of eleven bits; the others go to a multiple
\* of the unit, the even one of two that are as near.
HalfUnit(v) == 2 ^ Min({k \in 0..5 : v < 2048 * 2 ^ k /\ -v < 2048 * 2 ^ k})
RoundToFp16(v) ==
  LET u == HalfUnit(v)
      low == v \div u
      twice == 2 * (v - low * u)
  IN  u * (IF twice < u \/ (twice = u /\ low % 2 = 0) THEN low ELSE low + 1)

\* RestoreY4x and RestoreY2x: what the mask leaves out keeps its value.
RestoreY(y_symbols, means, parts, mask_index, shape, output) ==
  LET part == PartShape(shape, parts)
      Symbol(j) == y_symbols[Offset4(part, ChannelOf(shape, j) % part.channels,
                                     RowOf(shape, j), ColumnOf(shape, j))]
      Taken(j) == Selects(parts, mask_index, ChannelOf(shape, j) \div part.channels,
                          RowOf(shape, j), ColumnOf(shape, j))
  IN  [j \in DOMAIN output |-> IF Taken(j) THEN RoundToFp16(Symbol(j) + means[j]) ELSE output[j]]

\* One step for a channel, or one for all of them.
ApplyChannelQuantStep(quant, shape, values) ==
  LET plane == shape.height * shape.width
      Step(j) == IF Cardinality(DOMAIN quant) = plane THEN quant[j % plane] ELSE quant[j]
  IN  [j \in DOMAIN values |-> RoundToFp16(values[j] * Step(j))]

\* FloatToFp16Tensor; reading a half as a float loses nothing.
FloatToFp16Tensor(values) == [i \in DOMAIN values |-> RoundToFp16(values[i])]

\* TensorToInt8Symbols and FloatToFp16TensorFromInt8, which looks the half of every
\* int8 up in kInt8ToFp16.
TensorToInt8Symbols(tensor) == [i \in DOMAIN tensor |-> ((tensor[i] + 128) % 256) - 128]
FloatToFp16TensorFromInt8(symbols) == [i \in DOMAIN symbols |-> RoundToFp16(symbols[i])]
===============================================================================
