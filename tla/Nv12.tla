-------------------------------- MODULE Nv12 --------------------------------
(***************************************************************************)
(* The conversion of a picture in three planes of halves to NV12: on the   *)
(* host, one byte at a time or eight columns at a time, and in a kernel    *)
(* whose cores share the rows; and the removal of the padding of an NV12   *)
(* picture, as the publishers and the motion proxy need it.                *)
(*                                                                         *)
(* A sample of the tensor is its offset, and a byte of NV12 is the set of  *)
(* the samples it averages, empty for a zero.                              *)
(***************************************************************************)
EXTENDS DeviceTiling, FiniteSets

\* An input is the [height, width] of the tensor, a layout an Nv12Layout.
Even(n) == n % 2 = 0
PackedLayout(layout) ==
  [layout EXCEPT !.widthStride = layout.width, !.heightStride = layout.height]

\* ValidateInput.
HostAccepts(input, layout) ==
  /\ layout.width > 0 /\ layout.height > 0 /\ Even(layout.width) /\ Even(layout.height)
  /\ layout.widthStride >= layout.width /\ layout.heightStride >= layout.height
  /\ Even(layout.widthStride) /\ Even(layout.heightStride)
  /\ input.width >= layout.width /\ input.height >= layout.height

Nv12BufferSize(layout) ==
  LET luma == layout.widthStride * layout.heightStride IN luma + luma \div 2

Plane(input) == input.height * input.width
ChromaBase(layout) == layout.widthStride * layout.heightStride

\* The four samples that a byte of U or V averages.
Square(input, plane, y, x) ==
  {plane * Plane(input) + (y + dy) * input.width + x + dx : dy \in 0..1, dx \in 0..1}

\* Where the byte of a row and a column goes, and which samples it takes.
LumaByte(input, layout, y, x) == <<y * layout.widthStride + x, {y * input.width + x}>>
ChromaBytes(input, layout, y, x) ==
  LET offset == ChromaBase(layout) + (y \div 2) * layout.widthStride + x
  IN  {<<offset, Square(input, 1, y, x)>>, <<offset + 1, Square(input, 2, y, x)>>}

\* A vector of bytes that starts as zeros, after these bytes have been written.
Assigned(layout, bytes) ==
  LET written == {b[1] : b \in bytes}
  IN  [o \in 0..(Nv12BufferSize(layout) - 1) |->
         IF o \in written THEN (CHOOSE b \in bytes : b[1] = o)[2] ELSE {}]

EvenUpTo(n) == {2 * k : k \in 0..((n - 1) \div 2)}

\* ConvertFp16Yuv444ToNv12Scalar.
ScalarNv12(input, layout) ==
  Assigned(layout,
    {LumaByte(input, layout, y, x) : y \in 0..(layout.height - 1), x \in 0..(layout.width - 1)}
      \cup UNION {ChromaBytes(input, layout, y, x) :
                    y \in EvenUpTo(layout.height), x \in EvenUpTo(layout.width)})

\* ConvertFp16Yuv444ToNv12 with NEON: strips of eight columns, then what is left; four
\* averages of a strip are computed from two rows at a time.
Strips(layout) == {8 * k : k \in 0..(layout.width \div 8 - 1)}
LeftFrom(layout) == 8 * (layout.width \div 8)
LumaStrip(input, layout, y, x) ==
  {<<y * layout.widthStride + x + lane, {y * input.width + x + lane}>> : lane \in 0..7}
AverageHalf2x2(row0, row1, pair) ==
  {row0 + 2 * pair, row0 + 2 * pair + 1, row1 + 2 * pair, row1 + 2 * pair + 1}
ChromaStrip(input, layout, y, x) ==
  LET offset == ChromaBase(layout) + (y \div 2) * layout.widthStride + x
      Average(plane, pair) ==
        AverageHalf2x2(plane * Plane(input) + y * input.width + x,
                       plane * Plane(input) + (y + 1) * input.width + x, pair)
  IN  {<<offset + 2 * pair + plane - 1, Average(plane, pair)>> : pair \in 0..3, plane \in 1..2}
VectorNv12(input, layout) ==
  LET rows == 0..(layout.height - 1)
      evens == EvenUpTo(layout.height)
      left == LeftFrom(layout)..(layout.width - 1)
  IN  Assigned(layout,
        UNION {LumaStrip(input, layout, y, x) : y \in rows, x \in Strips(layout)}
          \cup {LumaByte(input, layout, y, x) : y \in rows, x \in left}
          \cup UNION {ChromaStrip(input, layout, y, x) : y \in evens, x \in Strips(layout)}
          \cup UNION {ChromaBytes(input, layout, y, x) :
                        y \in evens, x \in {c \in left : Even(c)}})
-----------------------------------------------------------------------------
(* The custom operator.                                                    *)

\* Fp16Yuv444ToNv12Acl and the tiling function refuse what is not aligned.
DeviceAccepts(input, layout) ==
  /\ layout.width > 0 /\ layout.height > 0 /\ Even(layout.width) /\ Even(layout.height)
  /\ layout.widthStride >= layout.width /\ layout.heightStride >= layout.height
  /\ layout.width <= input.width /\ layout.height <= input.height
  /\ layout.width % 16 = 0 /\ layout.widthStride % 32 = 0 /\ Even(layout.heightStride)
  /\ Nv12BufferSize(layout) < WordSize

\* kBlockDim of fp16_yuv444_to_nv12_acl.cc.
Nv12BlockDim == 32

\* MlvcFp16Yuv444ToNv12TilingFunc: the cores share the rows of the output, and the
\* share of the last one wraps around when the others have taken all of them.
RowTiling(layout, attribute) ==
  LET rows == (layout.heightStride * 3) \div 2
      blockDim == Smaller(attribute, rows)
      perCore == CeilDiv(rows, blockDim)
  IN  [total |-> rows, blockDim |-> blockDim, perCore |-> perCore,
       tail |-> Word(rows - perCore * (blockDim - 1))]

\* Init and Process: the rows of the core with this block index.
CoreRows(t, core) ==
  LET offset == CoreOffset(t, core)
      share == IF core = t.blockDim - 1 THEN t.tail ELSE t.perCore
  IN  IF offset >= t.total THEN 0
      ELSE IF Word(offset + share) > t.total THEN t.total - offset ELSE share
RowsOf(t, core) == {Word(CoreOffset(t, core) + row) : row \in 0..(CoreRows(t, core) - 1)}

\* ProcessYRow and ProcessUvRow: a row is filled with zeros and then with what can be seen.
LumaRow(input, layout, row) ==
  [x \in 0..(layout.widthStride - 1) |->
     IF row < layout.height /\ x < layout.width THEN {row * input.width + x} ELSE {}]

\* AveragePlaneRow adds up two rows of a plane, then pairs of the sums.
AveragePlaneRow(input, plane, row, column) ==
  LET Sum(x) == {plane * Plane(input) + row * input.width + x,
                 plane * Plane(input) + (row + 1) * input.width + x}
  IN  Sum(2 * column) \cup Sum(2 * column + 1)
ChromaRow(input, layout, row) ==
  [x \in 0..(layout.widthStride - 1) |->
     IF row < layout.height \div 2 /\ x < layout.width
     THEN AveragePlaneRow(input, 1 + (x % 2), 2 * row, x \div 2) ELSE {}]

\* Process: a row is copied to the output whole, over what the buffer held.
DeviceNv12(input, layout, memory) ==
  LET t == RowTiling(layout, Nv12BlockDim)
      processed == UNION {RowsOf(t, core) : core \in 0..(t.blockDim - 1)}
      rows == [row \in processed |->
                 IF row < layout.heightStride THEN LumaRow(input, layout, row)
                 ELSE ChromaRow(input, layout, row - layout.heightStride)]
  IN  [o \in DOMAIN memory |->
         LET row == o \div layout.widthStride
         IN  IF row \in processed THEN rows[row][o % layout.widthStride] ELSE memory[o]]
-----------------------------------------------------------------------------
(* CopyVisibleNv12, and the same where the decoder and the camera hand a   *)
(* picture to a publisher: the visible part of the rows.                   *)

PackRows(source, width, stride, sourceBase, targetBase, rows) ==
  {<<targetBase + row * width + x, source[sourceBase + row * stride + x]>> :
     row \in 0..(rows - 1), x \in 0..(width - 1)}
CopyVisibleNv12(source, layout) ==
  LET packed == PackedLayout(layout)
  IN  Assigned(packed,
        PackRows(source, layout.width, layout.widthStride, 0, 0, layout.height)
          \cup PackRows(source, layout.width, layout.widthStride,
                        ChromaBase(layout), ChromaBase(packed), layout.height \div 2))
===============================================================================
