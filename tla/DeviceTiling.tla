---------------------------- MODULE DeviceTiling ----------------------------
(***************************************************************************)
(* How a custom operator of custom_ops/mlvc_prior_ops shares its elements  *)
(* among the cores and their tiles: the tiling functions of op_host and    *)
(* the Init and Process of every kernel of op_kernel.  All of it is        *)
(* arithmetic on unsigned words.                                           *)
(***************************************************************************)
EXTENDS Integers

CONSTANT WordSize    \* 2^32, smaller for TLC's integers
ASSUME WordSizeAssumption == WordSize \in Nat /\ WordSize > 65536

Word(n) == n % WordSize
Smaller(a, b) == IF a < b THEN a ELSE b

\* SelectBlockDim and SelectTileElements: an attribute out of range is ignored.
BlockDims == {1, 2, 4, 8, 16, 24, 32}
SelectBlockDim(attribute, default) == IF attribute \in BlockDims THEN attribute ELSE default
SelectTileElements(attribute) ==
  IF 64 <= attribute /\ attribute <= 8192 THEN attribute ELSE 1024

CeilDiv(value, divisor) == Word(value + divisor - 1) \div divisor

TailCoreElements(total, elementsPerCore, blockDim) ==
  IF total > Word(elementsPerCore * (blockDim - 1))
  THEN total - Word(elementsPerCore * (blockDim - 1)) ELSE 0

TilingOf(total, blockDim, tileElements) ==
  LET perCore == CeilDiv(total, blockDim)
  IN  [total |-> total, blockDim |-> blockDim, tile |-> tileElements,
       perCore |-> perCore, tail |-> TailCoreElements(total, perCore, blockDim)]

\* Init: what the core with this block index works on.
CoreOffset(t, core) == Word(core * t.perCore)
CoreElements(t, core) ==
  LET offset == CoreOffset(t, core)
      share == IF core = t.blockDim - 1 THEN t.tail ELSE t.perCore
      started == IF offset >= t.total THEN 0 ELSE share
  IN  IF Word(offset + started) > t.total THEN Word(t.total - offset) ELSE started

\* Process: its tiles.
TileCount(t, core) == Word(CoreElements(t, core) + t.tile - 1) \div t.tile
TileElements(t, core, tile) ==
  Smaller(Word(CoreElements(t, core) - Word(tile * t.tile)), t.tile)

\* The places of the computation and the element each of them handles.
Places(t) ==
  {p \in [core : 0..(t.blockDim - 1), tile : Nat, i : Nat] :
     /\ p.tile < TileCount(t, p.core)
     /\ p.i < TileElements(t, p.core, p.tile)}
Linear(t, p) == Word(Word(CoreOffset(t, p.core) + Word(p.tile * t.tile)) + p.i)

\* The elements that are handled, without the enumeration of Nat.
Handled(t) ==
  UNION {UNION {{Linear(t, [core |-> core, tile |-> tile, i |-> i]) :
                   i \in 0..(TileElements(t, core, tile) - 1)} :
                tile \in 0..(TileCount(t, core) - 1)} : core \in 0..(t.blockDim - 1)}
===============================================================================
