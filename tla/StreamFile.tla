------------------------------ MODULE StreamFile ------------------------------
(***************************************************************************)
(* An MLVC-ES file: MlvcBitstreamWriter, what a failing disk or a crash    *)
(* leaves of it, and MlvcBitstreamReader.  A unit is a number: the header  *)
(* (preamble and SCU) or a frame.  The writer buffers, so what it wrote    *)
(* may be missing from the end of the file, and the last unit may be torn. *)
(***************************************************************************)
EXTENDS Integers, SequencesExt

VARIABLE file   \* its units, a torn one behind them, of the writer: bad and closed_

FileInit == file = [units |-> <<>>, torn |-> FALSE, bad |-> FALSE, closed |-> FALSE]

\* The constructor, and WriteFrame.
WriteUnit(m) ==
  /\ ~file.bad /\ ~file.closed
  /\ file' = [file EXCEPT !.units = Append(@, m)]

\* Some of what was written never reaches the disk.
Cut == \E n \in 0..Len(file.units), torn \in BOOLEAN :
         /\ torn => n < Len(file.units)
         /\ file' = [file EXCEPT !.units = SubSeq(@, 1, n), !.torn = torn, !.bad = TRUE]

\* Writing a unit fails, somewhere in it or in what was buffered.
WriteFails ==
  /\ ~file.bad /\ ~file.closed
  /\ \E n \in 0..Len(file.units), torn \in BOOLEAN :
       file' = [file EXCEPT !.units = SubSeq(@, 1, n), !.torn = torn, !.bad = TRUE]

\* Close returns; a second call does nothing.
FileCloses == ~file.bad /\ file' = [file EXCEPT !.closed = TRUE]

\* Close throws and the writer stays open.
FileCloseThrows ==
  /\ ~file.closed
  /\ IF file.bad THEN UNCHANGED file ELSE Cut

\* ~MlvcBitstreamWriter calls Close again: an exception ends the program.
WriterAborts == file.bad /\ ~file.closed

\* ReadFrame after n units: the next one, the end of the file, or an error.
ReadsUnit(n, m) == n < Len(file.units) /\ m = file.units[n + 1]
ReadsEnd(n) == n = Len(file.units) /\ n > 0 /\ ~file.torn
ReadThrows(n) == n = Len(file.units) /\ (file.torn \/ n = 0)
==============================================================================
