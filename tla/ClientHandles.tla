---------------------------- MODULE ClientHandles ----------------------------
(***************************************************************************)
(* CANClient handles on shared CANClientImpl objects (can_client.cc): a    *)
(* handle gets a reader slot with its first read and is counted as a       *)
(* writer with its first write; copying, assigning and destroying handles  *)
(* must keep both right.  Each operator takes what the call finds, a       *)
(* record of conn and handle, to what it leaves.                           *)
(***************************************************************************)
EXTENDS Integers, FiniteSets, FiniteSetsExt

CONSTANTS Impls, Handles, Channels, None,
          MaxReaders       \* kMaxReaders

ASSUME HandlesAssumption ==
    /\ MaxReaders \in Nat \ {0} /\ Impls \subseteq Nat /\ 0 \in Channels
    /\ None \notin Impls \cup Channels /\ IsFiniteSet(Handles)

VARIABLES conn,    \* of each CANClientImpl: readers and txWriterCount
          handle,  \* _impl, _channel, _readerId (0: none) and _isTxRegistered of each CANClient
          reassigned   \* impls a handle counted as a writer has left, or come to, by assignment

Slots == 1 .. MaxReaders
NoConn == [slot |-> [s \in Slots |-> None], writers |-> [c \in Channels |-> 0]]
NoHandle == [impl |-> None, channel |-> 0, reader |-> 0, tx |-> FALSE]
World == [conn |-> conn, handle |-> handle]

\* The last handle on an impl takes it along.
Collected(w) ==
    [w EXCEPT !.conn = [i \in Impls |-> IF \E h \in Handles : w.handle[h].impl = i THEN @[i] ELSE NoConn]]

FreeSlots(c) == {s \in Slots : c.slot[s] = None}
RegisterReader(w, h) ==
    LET i == w.handle[h].impl
        s == Min(FreeSlots(w.conn[i]))
    IN  IF FreeSlots(w.conn[i]) = {} THEN w
        ELSE [w EXCEPT !.conn[i].slot[s] = w.handle[h].channel, !.handle[h].reader = s]
\* unregisterReader for the handles of S; those without a slot have reader 0.
UnregisterReaders(w, S) ==
    [w EXCEPT !.conn = [i \in Impls |->
        [slot |-> [s \in Slots |-> IF \E h \in S : w.handle[h].impl = i /\ w.handle[h].reader = s
                                   THEN None ELSE w.conn[i].slot[s]],
         writers |-> w.conn[i].writers]]]

EnsureReader(w, h) ==
    IF w.handle[h].reader = 0 /\ w.handle[h].impl # None THEN RegisterReader(w, h) ELSE w

\* A new handle on impl i, as the copy constructor makes it; and its channel.
Copy(w, h, i, c) == [w EXCEPT !.handle[h] = [impl |-> i, channel |-> c, reader |-> 0, tx |-> FALSE]]

\* operator=: _isTxRegistered stays as it was
Assign(w, h, g) ==
    LET u == UnregisterReaders(w, {h})
        of == w.handle[g]
    IN  Collected([u EXCEPT !.handle[h] = [impl |-> of.impl, channel |-> of.channel, reader |-> 0,
                                           tx |-> @.tx]])
\* The connections where that leaves the count wrong.
AssignTaints(h, g) ==
    IF handle[h].tx /\ <<handle[h].impl, handle[h].channel>> # <<handle[g].impl, handle[g].channel>>
    THEN {handle[h].impl, handle[g].impl} \ {None} ELSE {}

\* A frame that fits into the ring: write and writeClassic
Write(w, h) ==
    LET i == w.handle[h].impl
        c == w.handle[h].channel
    IN  IF w.handle[h].tx THEN w
        ELSE [w EXCEPT !.handle[h].tx = TRUE, !.conn[i].writers[c] = @ + 1]

\* Mutant: the destructor leaves the writer counted.
DestroyReaders(w, S) ==
    Collected([UnregisterReaders(w, S) EXCEPT !.handle = [h \in Handles |-> IF h \in S THEN NoHandle ELSE @[h]]])
\* The handles of S are destroyed, in whatever order.
Destroy(w, S) ==
    LET u == UnregisterReaders(w, S)
        writers(i, c) == {h \in S : w.handle[h].tx /\ w.handle[h].impl = i /\ w.handle[h].channel = c}
    IN  Collected([conn |-> [i \in Impls |->
                               [slot |-> u.conn[i].slot,
                                writers |-> [c \in Channels |-> u.conn[i].writers[c]
                                                                 - Cardinality(writers(i, c))]]],
                   handle |-> [h \in Handles |-> IF h \in S THEN NoHandle ELSE w.handle[h]]])

\* Every reader slot in use belongs to exactly one handle, which has the slot's
\* channel; no slot is lost to a handle that was copied over or destroyed.
SlotsOwned ==
    \A i \in Impls : \A s \in Slots :
        LET owners == {h \in Handles : handle[h].impl = i /\ handle[h].reader = s}
        IN  IF conn[i].slot[s] = None THEN owners = {}
            ELSE \E h \in owners : owners = {h} /\ handle[h].channel = conn[i].slot[s]

\* txWriterCount is the number of handles that write on the channel, on every
\* connection no counted handle was assigned to, or away from, by another client.
WritersCounted ==
    \A i \in Impls \ reassigned : \A c \in Channels :
        conn[i].writers[c] = Cardinality({h \in Handles : handle[h] = [impl |-> i, channel |-> c,
                                             reader |-> handle[h].reader, tx |-> TRUE]})

\* Slots and writer counts say what the handles do.
HandlesCounted == SlotsOwned /\ WritersCounted
=============================================================================
