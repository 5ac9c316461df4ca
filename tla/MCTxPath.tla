------------------------------ MODULE MCTxPath ------------------------------
(* Instances of TxPath: the configurations of each run. *)
EXTENDS TxPath

CONSTANT none

Config(c, own, kinds, channels, fit, n) ==
    [codec |-> c, txQueue |-> own, faults |-> kinds,
     writers |-> channels, batch |-> fit, frames |-> n]

(* Each codec with and without faults, PCAN also with the second queue.    *)
(* SLCAN's batch holds the ring: the overflow has a run of its own.        *)
MCConfigs ==
    { Config("pcan", FALSE, {"asyncio", "write"}, {0, 1}, 1, 2),
      Config("pcan", FALSE, {}, {0, 1}, 1, 2),
      Config("pcan", TRUE, {"asyncio", "write"}, {0}, 1, 3),
      Config("slcan", FALSE, {"asyncio", "write"}, {0}, 3, 5),
      Config("slcan", FALSE, {}, {0}, 3, 5),
      Config("gs_usb", FALSE, FaultKinds, {0}, 1, 5),
      Config("gs_usb", FALSE, {}, {0}, 1, 5) }

(* Three frames wait, two fit in the batch. *)
MCOverflow == { Config("slcan", FALSE, {}, {0}, 2, 4) }

(* An adapter without EP 0x03 whose second channel alone is written. *)
MCFallback == { Config("pcan_single", FALSE, {}, {1}, 1, 2) }
=============================================================================
