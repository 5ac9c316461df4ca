---------------------------- MODULE MCSharedRing ----------------------------
(* SharedRing with a capacity no multiple of the entry size, so that       *)
(* entries straddle the end of the ring, and counters that wrap during the *)
(* run.                                                                    *)
EXTENDS SharedRing

MCCap == 16
MCEntrySize == 5
MCModulus == 32
MCMaxFrames == 9
MCMaxDrops == 2
=============================================================================
