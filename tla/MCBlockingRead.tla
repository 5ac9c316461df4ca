--------------------------- MODULE MCBlockingRead ---------------------------
(* Instances of BlockingRead.  Two readers of one channel and a second      *)
(* channel nobody reads make the drainer fan out to others and skip frames; *)
(* a FIFO of one packet overflows.                                          *)
EXTENDS BlockingRead

CONSTANTS t1, t2, none

MCChannels == {0, 1}
MCSameChannel == [t \in Threads |-> 0]
=============================================================================
