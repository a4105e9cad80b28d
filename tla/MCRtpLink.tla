------------------------------ MODULE MCRtpLink ------------------------------
(***************************************************************************)
(* RtpLink with short scenarios, each of which lets a few things go wrong. *)
(***************************************************************************)
EXTENDS RtpLink

Unit(kind, config, id, ra, frags) ==
  [kind |-> kind, config |-> config, id |-> id, ra |-> ra, intact |-> TRUE, frags |-> frags]
Scu(config) == Unit("SCU", config, config, FALSE, <<1>>)
Key(config, id, frags) == Unit("EFU", config, id, TRUE, frags)
Inter(config, id, frags) == Unit("EFU", config, id, FALSE, frags)
Damaged(u) == [u EXCEPT !.intact = FALSE]
Do(op, u, time) == [op |-> op, unit |-> u, time |-> time]

\* A frame of two packets between a configuration and an inter frame.
Stream == <<Do("config", Scu(1), 0), Do("unit", Key(1, 0, <<2, 1>>), 0),
            Do("unit", Inter(1, 1, <<1>>), 1)>>
\* A frame that is damaged, and the configuration sent again.
Refresh == <<Do("config", Scu(1), 0), Do("unit", Damaged(Key(1, 0, <<1>>)), 0),
             Do("resend", NoUnit, 1), Do("unit", Key(1, 1, <<1>>), 1)>>
\* A switch whose SCU is too large for the queue: the old configuration goes on.
TooLarge == <<Do("config", Scu(1), 0), Do("unit", Key(1, 0, <<1>>), 0),
              Do("config", [Scu(2) EXCEPT !.frags = <<9>>], 1),
              Do("unit", Inter(1, 1, <<1>>), 1), Do("flush", NoUnit, 0)>>
\* A switch whose frame is refused, twice, since it is not random access.
Switch == <<Do("config", Scu(1), 0), Do("unit", Key(1, 0, <<1>>), 0),
            Do("config", Scu(3), 2), Do("unit", Inter(3, 2, <<1>>), 2),
            Do("config", Scu(3), 2), Do("unit", Inter(3, 2, <<1>>), 2),
            Do("unit", Key(3, 2, <<1>>), 2)>>

Faults(script, keyed, losses, copies, failures, rounds, commands, timeouts, stops) ==
  [script |-> script, keyed |-> keyed, losses |-> losses, copies |-> copies, failures |-> failures,
   rounds |-> rounds, commands |-> commands, timeouts |-> timeouts, stops |-> stops]

\* Two commands, the second also in a packet that is not about this sender, and one
\* from another receiver.
LinkCommands ==
  {[from |-> 1, report |-> TRUE, transaction |-> 1], [from |-> 1, report |-> TRUE, transaction |-> 2],
   [from |-> 1, report |-> FALSE, transaction |-> 2], [from |-> 2, report |-> TRUE, transaction |-> 1]}

\* Lost, doubled, refused, late: one or two of them at a time.
LinkScenarios == {
  Faults(Stream, 0, 0, 1, 0, 0, 0, 0, 0),
  Faults(Stream, 0, 0, 0, 1, 0, 0, 0, 1),
  Faults(SubSeq(Stream, 1, 2), 0, 1, 0, 1, 1, 0, 0, 1),
  Faults(TooLarge, 0, 0, 0, 1, 0, 0, 0, 0),
  Faults(SubSeq(Stream, 1, 2), 0, 1, 0, 0, 2, 0, 1, 0),
  Faults(Refresh, 0, 0, 1, 0, 0, 0, 0, 0),
  Faults(SubSeq(Stream, 1, 2), 0, 1, 1, 0, 0, 0, 1, 0),
  Faults(Switch, 0, 0, 0, 0, 0, 0, 0, 0),
  Faults(SubSeq(Stream, 1, 1), 0, 0, 1, 0, 0, 2, 0, 0),
  Faults(<<>>, 1, 0, 1, 0, 0, 3, 0, 0)}
=============================================================================
