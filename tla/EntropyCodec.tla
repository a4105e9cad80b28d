----------------------------- MODULE EntropyCodec -----------------------------
(***************************************************************************)
(* EntropyEncoder and EntropyDecoder of mlvc/src/entropy/entropy_codec.cc: *)
(* the Z symbols of a frame and the parts of its Y symbols, on one range   *)
(* coder or split over two whose streams meet tail to tail.                *)
(*                                                                         *)
(* A scale is held as its step of the logarithmic table, 0 for kScaleMin.  *)
(***************************************************************************)
EXTENDS RansCoder

CONSTANTS ZGroup, GaussianGroup,   \* the sidecar's CDF rows, by index from 0
          ScaleLevels,             \* kScaleLevel
          MaxParts                 \* max_y_parts of Reserve

ClippedScale(scale) == Max({0, Min({scale, ScaleLevels - 1})})

\* The kept places of a part, in order: force_zero_thres is itself a scale.
Kept(scales, thres) ==
  SelectSeq([i \in 1..Len(scales) |-> i], LAMBDA i : ClippedScale(scales[i]) > thres)

\* BuildIndexesEncoderInto.
BuildIndexesEncoder(symbols, scales, thres) ==
  LET kept == Kept(scales, thres)
  IN  [k \in 1..Len(kept) |-> Combine(symbols[kept[k]], ClippedScale(scales[kept[k]]))]

(***************************************************************************)
(* The encoder.  A task borrows what it will code until the cores are      *)
(* flushed: the Z symbols of its caller, or a slot of y_index_scratch_.    *)
(***************************************************************************)
NewEncoder(two, z_channel) ==
  [two |-> two, z_channel |-> z_channel, z |-> <<>>, tasks |-> <<<<>>, <<>>>>,
   slots |-> [k \in 1..MaxParts |-> <<>>], next |-> 0]

EncoderReset(e) == [e EXCEPT !.tasks = <<<<>>, <<>>>>, !.next = 0]

\* One task for a single core, or the halves of it for two.
Split(e, length) == IF e.two THEN length \div 2 ELSE length
TasksFor(e, length, task, second) ==
  LET split == Split(e, length)
      first == [task EXCEPT !.begin = 0, !.count = split]
      rest == [second EXCEPT !.begin = split, !.count = length - split]
  IN  <<Append(e.tasks[1], first), IF e.two THEN Append(e.tasks[2], rest) ELSE e.tasks[2]>>

\* EncodeZView: the second half starts at the row of its first channel.
EncodeZ(e, symbols, qp, per_channel_size) ==
  LET length == Len(symbols)
      task == [slot |-> 0, begin |-> 0, count |-> 0, per |-> per_channel_size,
               offset |-> qp * e.z_channel]
      second == [task EXCEPT !.offset = @ + (length \div 2) \div per_channel_size]
  IN  [e EXCEPT !.z = symbols, !.tasks = TasksFor(e, length, task, second)]

\* EncodeYIndexesView; EncodeY builds the indexes straight into the slot.
EncodeYIndexes(e, indexes) ==
  LET slot == e.next + 1
      task == [slot |-> slot, begin |-> 0, count |-> 0, per |-> 1, offset |-> 0]
  IN  [e EXCEPT !.slots[slot] = indexes, !.next = slot,
                !.tasks = TasksFor(e, Len(indexes), task, task)]

EncodeY(e, symbols, scales, thres) ==
  EncodeYIndexes(e, BuildIndexesEncoder(symbols, scales, thres))

EntriesOf(e, task) ==
  LET borrowed == IF task.slot = 0 THEN e.z ELSE e.slots[task.slot]
      symbols == SubSeq(borrowed, task.begin + 1, task.begin + task.count)
  IN  IF task.slot = 0 THEN ZEntries(symbols, ZGroup, task.offset, task.per)
      ELSE YEntries(symbols, GaussianGroup)

StreamOf(e, core) ==
  FlushTasks([k \in 1..Len(e.tasks[core]) |-> EntriesOf(e, e.tasks[core][k])])

\* Mutant: the last bytes are always taken to be shared.
SharedTailAlways(first, second) == Min({1, Len(first), Len(second)})

\* FirstPartInto: the second stream follows reversed; zeros at both ends, at most
\* eight, or else one equal byte, are written once.
SharedTail(first, second) ==
  LET Both(k) == first[Len(first) - k] = 0 /\ second[Len(second) - k] = 0
      limit == Min({8, Len(first), Len(second)})
      zeros == Max({n \in 0..limit : \A k \in 0..(n - 1) : Both(k)})
      equal == first # <<>> /\ second # <<>> /\ Last(first) = Last(second)
  IN  IF zeros = 0 /\ equal THEN 1 ELSE zeros

FirstPart(first, second) ==
  first \o Reverse(SubSeq(second, 1, Len(second) - SharedTail(first, second)))

\* FlushInto.
EncoderFlush(e) ==
  IF e.two THEN FirstPart(StreamOf(e, 1), StreamOf(e, 2)) ELSE StreamOf(e, 1)

(***************************************************************************)
(* The decoder: a result is the decoder after it and the symbols.          *)
(***************************************************************************)
SetStream(two, z_channel, stream) ==
  [two |-> two, z_channel |-> z_channel,
   cores |-> <<RansDecInit(stream), RansDecInit(IF two THEN Reverse(stream) ELSE <<>>)>>]

\* The first rows come from the first core, the others from the second.
BothCores(d, one, two) ==
  [decoder |-> [d EXCEPT !.cores = <<one.coder, two.coder>>], symbols |-> one.values \o two.values]
DecodeSplit(d, rows, split) ==
  BothCores(d, DecodeRows(d.cores[1], SubSeq(rows, 1, split)),
            DecodeRows(d.cores[2], SubSeq(rows, split + 1, Len(rows))))

\* DecodeZInto: the second half starts at the row of its first channel.
DecodeZ(d, total_size, qp, per_channel_size) ==
  LET split == Split(d, total_size)
      offset == qp * d.z_channel
      Row(i) == IF i <= split THEN ZRow(i - 1, offset, per_channel_size)
                ELSE ZRow(i - split - 1, offset + split \div per_channel_size, per_channel_size)
  IN  DecodeSplit(d, [i \in 1..total_size |-> ZGroup[Row(i)]], split)

\* DecodeYInto: what was not coded is zero.
Spread(decoded, kept, total) ==
  [decoder |-> decoded.decoder,
   symbols |-> [i \in 1..total |-> IF \E k \in DOMAIN kept : kept[k] = i
                                  THEN decoded.symbols[CHOOSE k \in DOMAIN kept : kept[k] = i]
                                  ELSE 0]]
DecodeY(d, scales, thres) ==
  LET kept == Kept(scales, thres)
      rows == [k \in 1..Len(kept) |-> GaussianGroup[ClippedScale(scales[kept[k]])]]
  IN  Spread(DecodeSplit(d, rows, Split(d, Len(kept))), kept, Len(scales))
===============================================================================
