------------------------------ MODULE MCCanWire ------------------------------
EXTENDS CanWire

MCRoutes == Codecs \X Codecs
MCFrame(id, bits, flags, data) ==
    [id |-> id, bits |-> bits, flags |-> flags, ch |-> 1, data |-> data]
\* A classic and a remote frame, an extended FD frame with its flags, one of a
\* length CAN FD has not, and one whose data reads as a line of its own.  Where
\* the reader does not take characters, also one of which PCAN's message has 28
\* bytes and the DLC says 32.
MCShort ==
    {MCFrame(1939, {}, {}, <<171>>),
     MCFrame(77, {"rtr"}, {}, <<>>),
     MCFrame(2^28 + 12, {"eff"}, {"fdf", "brs", "esi"}, <<200>>),
     MCFrame(5, {}, {"fdf"}, [i \in 1 .. 9 |-> i]),
     MCFrame(13, {}, {"fdf"}, <<208, 18, 52, 86, 112>>)}
MCFrames == [r \in MCRoutes |->
    MCShort \cup IF r[2] = "slcan" THEN {} ELSE {MCFrame(6, {}, {"fdf"}, [i \in 1 .. 25 |-> i])}]
MCGsClock == [hz |-> 48000000, tseg1 |-> 1 .. 16, tseg2 |-> 1 .. 8,
              brp |-> 1 .. 1024, maxTq |-> 48000000]
=============================================================================
