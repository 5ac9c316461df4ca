---------------------------- MODULE MCReaderFifo ----------------------------
(* ReaderFifo with FIFOs that fill up and wrap within a run. *)
EXTENDS ReaderFifo

CONSTANTS c1, c2, c3, ch0, ch1, none

MCChannels == {ch0, ch1}
\* c1 and c3 read channel ch0, c2 channel ch1.
MCChannelOf == [c \in Clients |-> IF c = c2 THEN ch1 ELSE ch0]

Scenario(overlaps, who, called, n, k) ==
    [overlap |-> overlaps, readers |-> who, ops |-> called,
     packets |-> n, regs |-> k]

(* Two readers at once, while nothing is unregistered or reset; and three  *)
(* readers for two slots, every operation, one call at a time.             *)
MCScenarios ==
    { Scenario(TRUE, {c1, c2}, {}, 4, 1),
      Scenario(FALSE, {c1, c2, c3}, {"unregister", "open", "close"}, 3, 1) }

(* A slot is given up and claimed again during a fan-out or a read.        *)
MCReuse == { Scenario(TRUE, {c1, c2}, {"unregister"}, 3, 2) }
=============================================================================
