----------------------------- MODULE FrameFifo -----------------------------
(***************************************************************************)
(* What one shared-memory frame ring promises to its two sides: a bounded  *)
(* FIFO.  Frames are numbered in the order in which the producer's writes  *)
(* are accepted; the consumer is handed frames in that order, each once;   *)
(* and a frame is refused only when the room not yet handed back by the    *)
(* consumer does not hold one more.                                        *)
(*                                                                         *)
(* Room comes back later than frames leave: the consumer takes a whole     *)
(* batch and returns its room in one step, hence "held".                   *)
(***************************************************************************)
EXTENDS Naturals, Sequences

CONSTANTS Depth,   \* how many frames the ring holds
          NoFrame  \* "last" before anything was taken

VARIABLES queue,   \* accepted frames not yet taken by the consumer
          next,    \* number of the next frame accepted
          held,    \* frames taken whose room is not yet returned
          last,    \* the frame taken most recently
          refused  \* frames refused because the ring was full

vars == <<queue, next, held, last, refused>>

Init ==
    /\ queue = <<>>
    /\ next = 0
    /\ held = 0
    /\ last = NoFrame
    /\ refused = 0

HasRoom == Len(queue) + held < Depth

Accept ==
    /\ HasRoom
    /\ queue' = Append(queue, next)
    /\ next' = next + 1
    /\ UNCHANGED <<held, last, refused>>

Refuse ==
    /\ ~HasRoom
    /\ refused' = refused + 1
    /\ UNCHANGED <<queue, next, held, last>>

Take ==
    /\ queue # <<>>
    /\ last' = Head(queue)
    /\ queue' = Tail(queue)
    /\ held' = held + 1
    /\ UNCHANGED <<next, refused>>

Return ==
    /\ held' = 0
    /\ UNCHANGED <<queue, next, last, refused>>

Next == Accept \/ Refuse \/ Take \/ Return

Spec == Init /\ [][Next]_vars
=============================================================================
