------------------------------ MODULE RansCoder ------------------------------
(***************************************************************************)
(* Symbols on the range coder: common/src/entropy/rans_core.cc.            *)
(*                                                                         *)
(* A row of a CDF group is [cdf, offset]; cdf is the sequence of cumulative *)
(* counts from 0 to Scale.  Its last symbol is an escape: values outside   *)
(* the row follow it as two-bit bins.                                      *)
(***************************************************************************)
EXTENDS RansByte, SequencesExt, FiniteSetsExt

\* kMaxBypassValue: a full bin says that more follow.
MaxBypassValue == 3

\* The symbols' intervals, narrowed to uint16 as RansSymbol holds them.
SymbolsOfCdf(cdf) ==
  [v \in 1..(Len(cdf) - 1) |-> [start |-> cdf[v] % 65536,
                                range |-> (cdf[v + 1] - cdf[v]) % 65536]]

EscapeOf(row) == Len(row.cdf) - 2

\* The bins a raw value takes: its digits to the base 4, 12 at the very most for
\* the difference of two small numbers.
BypassCount(raw) == Min({n \in 0..12 : raw \div (4 ^ n) = 0})

BypassBins(raw) ==
  LET n == BypassCount(raw)
  IN  [i \in 1..(n \div MaxBypassValue) |-> MaxBypassValue]
        \o <<n % MaxBypassValue>>
        \o [i \in 1..n |-> (raw \div (4 ^ (i - 1))) % Bins]

\* The escape's bins go in first, in reverse, so that they come out after it.
EncodeOneSymbol(c, symbol, row) ==
  LET max == EscapeOf(row)
      value == symbol - row.offset
      escapes == value < 0 \/ value >= max
      raw == IF value < 0 THEN -2 * value - 1 ELSE 2 * (value - max)
      bins == IF escapes THEN BypassBins(raw) ELSE <<>>
      interval == SymbolsOfCdf(row.cdf)[IF escapes THEN max + 1 ELSE value + 1]
  IN  RansEncPut(FoldLeft(PutBits, c, Reverse(bins)), interval.start, interval.range)

\* static_cast<int8_t>.
Int8(x) == ((x + 128) % 256) - 128

\* What the loops below carry along.
AnyCoder == [state : Nat, bytes : Seq(Byte)]

\* The bins that carry the count, up to the first that is not full.
BypassLength(c) ==
  LET count[d \in AnyCoder, n \in Nat] ==
        LET g == GetBits(d)
        IN  IF g.value = MaxBypassValue THEN count[g.coder, n + MaxBypassValue]
            ELSE [coder |-> g.coder, count |-> n + g.value]
  IN  count[c, 0]

\* The digits that follow, the lowest first.
BypassValue(c, n) ==
  LET digits[d \in AnyCoder, k \in 0..n] ==
        LET g == GetBits(d)
            rest == digits[g.coder, k + 1]
        IN  IF k = n THEN [coder |-> d, raw |-> 0]
            ELSE [coder |-> rest.coder, raw |-> g.value + Bins * rest.raw]
  IN  digits[c, 0]

\* An escape's digits, and the value they stand for.
Unfolded(raw, max) == IF raw % 2 = 1 THEN -(raw \div 2) - 1 ELSE raw \div 2 + max
Escaped(row, digits) ==
  [coder |-> digits.coder, value |-> Int8(row.offset + Unfolded(digits.raw, EscapeOf(row)))]
EscapeAfter(row, length) == Escaped(row, BypassValue(length.coder, length.count))

ValueAfter(d, row, symbol) ==
  IF symbol - 1 # EscapeOf(row) THEN [coder |-> d, value |-> Int8(symbol - 1 + row.offset)]
  ELSE EscapeAfter(row, BypassLength(d))
Advanced(c, row, symbol) ==
  ValueAfter(RansDecAdvance(c, row.cdf[symbol], row.cdf[symbol + 1] - row.cdf[symbol]),
             row, symbol)
DecodeOneSymbol(c, row) ==
  Advanced(c, row, Max({v \in 1..(Len(row.cdf) - 1) : row.cdf[v] <= RansDecGet(c)}))

(***************************************************************************)
(* The encoder core keeps its tasks and codes them when it is flushed, the *)
(* last symbol of the last task first; the decoder core reads forwards.    *)
(* A task is the sequence of its symbols with the rows they are coded by.  *)
(***************************************************************************)
EncodeBackwards(entries) ==
  LET code[c \in AnyCoder, k \in 0..Len(entries)] ==
        IF k = 0 THEN c
        ELSE code[EncodeOneSymbol(c, entries[k].symbol, entries[k].row), k - 1]
  IN  code[RansEncInit, Len(entries)]

\* RansEncoderCore::Flush: no symbol, no stream.
FlushTasks(tasks) ==
  LET entries == FlattenSeq(tasks)
  IN  IF entries = <<>> THEN <<>> ELSE RansEncFlush(EncodeBackwards(entries))

Decoded(result, one) == [coder |-> one.coder, values |-> Append(result.values, one.value)]
DecodeRows(c, rows) ==
  FoldLeft(LAMBDA result, row : Decoded(result, DecodeOneSymbol(result.coder, row)),
           [coder |-> c, values |-> <<>>], rows)

\* The combined int16 of a Y symbol: the symbol over the index of its row.
Combine(symbol, index) == symbol * 256 + index
SymbolOf(combined) == combined \div 256
IndexOf(combined) == combined % 256

\* YSymbolAt .. EncodeYInternal: the entries of a Y task in group.
YEntries(combined, group) ==
  [i \in 1..Len(combined) |-> [symbol |-> SymbolOf(combined[i]),
                               row |-> group[IndexOf(combined[i])]]]

\* EncodeZInternal: the rows of Z symbols go by channel from start_offset.
ZRow(i, start_offset, per_channel_size) == i \div per_channel_size + start_offset
ZEntries(symbols, group, start_offset, per_channel_size) ==
  [i \in 1..Len(symbols) |->
     [symbol |-> symbols[i], row |-> group[ZRow(i - 1, start_offset, per_channel_size)]]]
===============================================================================
