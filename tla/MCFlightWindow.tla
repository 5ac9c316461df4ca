--------------------------- MODULE MCFlightWindow ---------------------------
(* A test with a bitmap the frames go round, and bursts that end between.  *)
EXTENDS BidirTest
=============================================================================
