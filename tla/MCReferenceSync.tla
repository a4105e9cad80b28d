--------------------------- MODULE MCReferenceSync ---------------------------
(***************************************************************************)
(* ReferenceSync with small schedules.                                     *)
(***************************************************************************)
EXTENDS ReferenceSync

Schedules(transports, gops, resets, starts, periods, forced) ==
  {o \in [transport : transports, warp : {FALSE}, gop : gops, reset : resets,
          ltrStart : starts, ltrPeriod : periods,
          recovery : forced, reference : forced] : ValidOptions(o)}

\* Every valid pair of forced frames, GOPs with and without a tail frame.
AllSchedules ==
  Schedules({"file", "rtp", "udp"}, {3, 4}, {2, 3}, {0, 1}, {0, 1, 2},
            {-1, 1, 2, 3, 5})
RtpSchedules == Schedules({"rtp"}, {4}, {3}, {1}, {2}, {-1})
LongGop == Schedules({"rtp"}, {6}, {3}, {1}, {1}, {1, 5})
ForcedOld == Schedules({"rtp"}, {6}, {3}, {1}, {2}, {1, 3})

WarpStreams ==
  {[transport |-> t, warp |-> TRUE, gop |-> WarpGop, reset |-> WarpReset,
    ltrStart |-> 1, ltrPeriod |-> 0, recovery |-> -1, reference |-> -1]
     : t \in {"file", "rtp"}}

Command(after, gop, ra, atomic) ==
  [after |-> after, gop |-> gop, randomAccess |-> ra, atomic |-> atomic]

\* A shorter GOP at once and at a frame, back to the configured one, and a
\* command without the ATOMIC flag.
GopCommands ==
  {Command(Now, 2, FALSE, TRUE), Command(3, 3, FALSE, TRUE),
   Command(4, 0, FALSE, TRUE), Command(Now, 2, FALSE, FALSE)}
AccessCommands == {Command(Now, NoGop, TRUE, TRUE), Command(3, NoGop, TRUE, TRUE)}

\* The schedule run: plain streams get GOP commands, and warp streams, whose GOP
\* is longer, also requests for random access, which they must refuse.
ScheduleStreams == AllSchedules \cup WarpStreams
ScheduleCommands ==
  [warp \in BOOLEAN |-> GopCommands \cup (IF warp THEN AccessCommands ELSE {})]
Bound(f, c, r, l) == [frames |-> f, commands |-> c, requests |-> r, losses |-> l]
ScheduleBounds ==
  [warp \in BOOLEAN |-> IF warp THEN Bound(10, 1, 2, 3) ELSE Bound(7, 2, 0, 1)]

\* Both ends of a signed byte, and the common case.
Shifts == {<<-128, 127>>, <<0, 0>>}

NoCommand == [warp \in BOOLEAN |-> {}]
AccessCommand == [warp \in BOOLEAN |-> AccessCommands]
NoFault == [warp \in BOOLEAN |-> Bound(6, 0, 0, 0)]
OneRequest == [warp \in BOOLEAN |-> Bound(6, 0, 1, 0)]
OneCommand == [warp \in BOOLEAN |-> Bound(6, 1, 0, 0)]
OneLoss == [warp \in BOOLEAN |-> Bound(6, 0, 0, 1)]
==============================================================================
