----------------------------- MODULE MCAppSession -----------------------------
(* The adapters the driver knows: a PCAN matched on its interface, a       *)
(* gs_usb with one interface, SLCAN adapters with a CDC pair of interfaces *)
(* (which the stack lets the driver open, or not).  The one with two       *)
(* entries in the app stays plugged in.                                    *)
EXTENDS AppSession

CONSTANTS a1, a2, u1, u2, none

MCChannelOf == [a \in {a1, a2} |-> IF a = a1 THEN 0 ELSE 1]
Adapter(protocol, onInterface, interfaces, opens, entries, faults) ==
    [protocol |-> protocol, onInterface |-> onInterface, interfaces |-> interfaces,
     opens |-> opens, entries |-> entries, faults |-> faults, unplugs |-> entries # {0, 1}]
MCProfiles == {Adapter("pcan", TRUE, 1, TRUE, {0, 1}, 0), Adapter("pcan", TRUE, 1, TRUE, {1}, 1),
               Adapter("pcan", FALSE, 2, FALSE, {0}, 1),
               Adapter("gsusb", FALSE, 1, TRUE, {0}, 2),
               Adapter("slcan", FALSE, 2, TRUE, {0}, 1), Adapter("slcan", FALSE, 2, FALSE, {0}, 1)}
QueuedProfiles == {Adapter("slcan", FALSE, 2, TRUE, {0}, 0)}
SharedProfiles == {Adapter("pcan", TRUE, 1, TRUE, {0, 1}, 0)}
=============================================================================
