------------------------------- MODULE RansByte -------------------------------
(***************************************************************************)
(* The byte-wise range coder of common/include/mlvc/entropy/rans_byte.h.   *)
(*                                                                         *)
(* A coder is a 31-bit state and a stack of bytes.  The encoder writes its *)
(* buffer from the end towards the front, so what it wrote last is what    *)
(* the decoder reads first: encoding pushes, decoding pops.                *)
(***************************************************************************)
EXTENDS Integers, Sequences

\* kRansScaleBits and kRansByteL.
Scale == 65536
RansByteL == 8388608
RansLimit == 2147483647

Byte == 0..255
RansState == {s \in Nat : RansByteL <= s /\ s <= RansLimit}
IsCoder(c) == c \in [state : RansState, bytes : Seq(Byte)]

\* The interval of a symbol in the cumulative distribution.
IsInterval(start, freq) ==
  /\ start \in 0..(Scale - 1)
  /\ freq \in 1..Scale
  /\ start + freq <= Scale

RansEncInit == [state |-> RansByteL, bytes |-> <<>>]

\* One turn of the encoder's loop: the low byte leaves the state.
Shed(c) == [state |-> c.state \div 256, bytes |-> <<c.state % 256>> \o c.bytes]

\* state < freq << kRansEncRenormShiftBits, without the product.
RoomFor(c, freq) == c.state \div 32768 < freq

\* The loop turns at most twice: two bytes off a 31-bit state leave less than
\* 2^15, room for every freq but zero.
RansEncRenorm(c, freq) ==
  IF RoomFor(c, freq) THEN c
  ELSE IF RoomFor(Shed(c), freq) THEN Shed(c)
  ELSE Shed(Shed(c))

PushSymbol(s, start, freq) == (s \div freq) * Scale + (s % freq) + start
PopSymbol(s, start, freq) == freq * (s \div Scale) + (s % Scale) - start

RansEncPut(c, start, freq) ==
  LET d == RansEncRenorm(c, freq)
  IN  [d EXCEPT !.state = PushSymbol(d.state, start, freq)]

\* Four bytes, the lowest first.
RansEncFlush(c) ==
  <<c.state % 256, (c.state \div 256) % 256, (c.state \div 65536) % 256,
    c.state \div 16777216>> \o c.bytes

\* Past the end the code reads what follows in memory; the model reads zeros.
ReadByte(bytes) == IF bytes = <<>> THEN 0 ELSE Head(bytes)
DropByte(bytes) == IF bytes = <<>> THEN <<>> ELSE Tail(bytes)

RansDecInit(stream) ==
  LET At(i) == IF i \in DOMAIN stream THEN stream[i] ELSE 0
  IN  [state |-> At(1) + 256 * At(2) + 65536 * At(3) + 16777216 * (At(4) % 128),
       bytes |-> SubSeq(stream, 5, Len(stream))]

RansDecGet(c) == c.state % Scale

\* One turn of the decoder's loop.
Take(c) == [state |-> c.state * 256 + ReadByte(c.bytes), bytes |-> DropByte(c.bytes)]

RansDecRefill(c) ==
  IF c.state >= RansByteL THEN c
  ELSE IF Take(c).state >= RansByteL THEN Take(c)
  ELSE Take(Take(c))

RansDecAdvance(c, start, freq) ==
  RansDecRefill([c EXCEPT !.state = PopSymbol(c.state, start, freq)])

\* Two bits at a time (kBypassPrecision), as a symbol of frequency 2^14.
Bins == 4
BitsFreq == 16384

\* RansEncPutBits and RansDecGetBits.
PutBits(c, value) ==
  LET d == RansEncRenorm(c, BitsFreq)
  IN  [d EXCEPT !.state = d.state * Bins + value]

GetBits(c) ==
  LET s == c.state \div Bins
      d == [c EXCEPT !.state = s]
  IN  [coder |-> IF s < RansByteL THEN Take(d) ELSE d, value |-> c.state % Bins]
===============================================================================
