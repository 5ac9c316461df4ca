----------------------------- MODULE SharedRing -----------------------------
(***************************************************************************)
(* The RX ring of the shared mapping: the driver's writeRxFrame and the    *)
(* client's drainRxFrames, byte by byte.                                   *)
(*                                                                         *)
(* head and tail are free-running uint32_t counters (Modulus = 2^32 in the *)
(* code); a byte lives at counter % capacity.  The producer copies an      *)
(* entry, then publishes head (release); the consumer loads head once      *)
(* (acquire), copies entries out, and publishes tail once for the whole    *)
(* batch.  With acquire/release on both counters, an interleaving of the   *)
(* byte accesses in program order is what either side can observe.         *)
(*                                                                         *)
(* Data abstraction: byte o of the k-th accepted entry is <<k, o>>, so     *)
(* what the consumer copied tells which bytes it really saw.  Offsets 0    *)
(* and 1 are the uint16_t size prefix.                                     *)
(***************************************************************************)
EXTENDS Integers

CONSTANTS Cap,        \* rxCapacity, in bytes
          EntrySize,  \* 2 + 8 + sizeof(canfd_frame): every entry written
          Modulus,    \* 2^32, the range of the counters
          MaxFrames,  \* bound of the model: frames accepted
          MaxDrops    \* bound of the model: frames dropped

\* A counter that wraps must wrap in step with the index (Cap divides
\* Modulus), and a full ring must not look empty (Cap < Modulus).
ASSUME RingAssumption ==
    /\ Cap \in Nat \ {0}
    /\ Modulus \in Nat
    /\ Cap < Modulus
    /\ Modulus % Cap = 0
    /\ EntrySize \in Nat
    /\ EntrySize >= 2
    /\ MaxFrames \in Nat
    /\ MaxDrops \in Nat

VARIABLES
    head, tail,      \* RingCtrl rx
    cells,           \* data[0 .. rxCapacity-1]
    rxProduceCount,  \* frames accepted
    rxDropped,       \* frames dropped, ring full
    pPc, pOff,       \* writeRxFrame: where it is, bytes copied so far
    cPc,             \* drainRxFrames: where it is
    cHead, cTail,    \*   its local head and tail
    cOff, frame,     \*   bytes copied so far, and the copy
    delivered,       \* history: frames fanned out
    released,        \* history: frames whose room went back with tail
    last             \* history: what the latest frame fanned out really was

pVars == <<head, rxProduceCount, rxDropped, pPc, pOff>>
cVars == <<tail, cPc, cHead, cTail, cOff, frame, delivered, released, last>>
vars == <<cells, pVars, cVars>>

NoByte  == <<-1, 0>>
NoFrame == -1
Torn    == -2

Bytes == (0 .. MaxFrames) \X (0 .. EntrySize - 1)
Offsets == 0 .. EntrySize - 1

(* uint32_t arithmetic *)
\* AddNoWrap and SubSigned are mutants: the width of the counters is forgotten.
AddNoWrap(x, n) == x + n
Add(x, n) == (x + n) % Modulus

SubSigned(x, y) == x - y
Sub(x, y) == (x - y) % Modulus

(* The cell a counter value addresses. *)
Index(counter) == counter % Cap

Init ==
    /\ head = 0 /\ tail = 0
    /\ cells = [i \in 0 .. Cap - 1 |-> NoByte]
    /\ rxProduceCount = 0 /\ rxDropped = 0
    /\ pPc = "idle" /\ pOff = 0
    /\ cPc = "idle" /\ cHead = 0 /\ cTail = 0
    /\ cOff = 0 /\ frame = [o \in Offsets |-> NoByte]
    /\ delivered = 0 /\ released = 0 /\ last = NoFrame

-----------------------------------------------------------------------------
(* writeRxFrame *)

RxFree == Sub(Cap, Sub(head, tail))

\* Mutant of Fits: a margin is kept.
FitsSpare == EntrySize + 2 < RxFree
Fits == EntrySize <= RxFree

WriteDrop ==
    /\ pPc = "idle"
    /\ ~Fits
    /\ rxDropped < MaxDrops
    /\ rxDropped' = rxDropped + 1
    /\ UNCHANGED <<cells, head, rxProduceCount, pPc, pOff, cVars>>

WriteBegin ==
    /\ pPc = "idle"
    /\ Fits
    /\ rxProduceCount < MaxFrames
    /\ pPc' = "copy"
    /\ pOff' = 0
    /\ UNCHANGED <<cells, head, rxProduceCount, rxDropped, cVars>>

WriteByte ==
    /\ pPc = "copy"
    /\ pOff < EntrySize
    /\ cells' = [cells EXCEPT ![Index(Add(head, pOff))] = <<rxProduceCount, pOff>>]
    /\ pOff' = pOff + 1
    /\ UNCHANGED <<head, rxProduceCount, rxDropped, pPc, cVars>>

WritePublish ==
    /\ pPc = "copy"
    /\ pOff = EntrySize
    /\ head' = Add(head, EntrySize)
    /\ rxProduceCount' = rxProduceCount + 1
    /\ pPc' = "idle"
    /\ UNCHANGED <<cells, rxDropped, pOff, cVars>>

-----------------------------------------------------------------------------
(* drainRxFrames: the caller holds drain_lock, so there is one consumer. *)

(* Mutant of DrainBegin: the tail is published before the copies. *)
DrainBeginEarly ==
    /\ cPc = "idle"
    /\ head # tail
    /\ cHead' = head
    /\ cTail' = tail
    /\ tail' = head
    /\ cPc' = "entry"
    /\ UNCHANGED <<cells, pVars, cOff, frame, delivered, released, last>>

DrainBegin ==
    /\ cPc = "idle"
    /\ head # tail
    /\ cHead' = head
    /\ cTail' = tail
    /\ cPc' = "entry"
    /\ UNCHANGED <<cells, pVars, tail, cOff, frame, delivered, released, last>>

(* The two prefix bytes read at a counter value. *)
Prefix(counter) ==
    <<cells[Index(counter)], cells[Index(Add(counter, 1))]>>

(* The prefix decodes to a frame size in use, and the entry is complete. *)
EntryComplete ==
    /\ Sub(cHead, cTail) >= EntrySize
    /\ Prefix(cTail)[1][2] = 0
    /\ Prefix(cTail)[2][2] = 1

DecodeEntry ==
    /\ cPc = "entry"
    /\ IF cTail # cHead /\ EntryComplete
       THEN /\ cPc' = "copy"
            /\ cOff' = 2
            /\ frame' = [frame EXCEPT ![0] = Prefix(cTail)[1],
                                      ![1] = Prefix(cTail)[2]]
       ELSE /\ cPc' = "publish"
            /\ UNCHANGED <<cOff, frame>>
    /\ UNCHANGED <<cells, pVars, tail, cHead, cTail, delivered, released, last>>

CopyByte ==
    /\ cPc = "copy"
    /\ cOff < EntrySize
    /\ frame' = [frame EXCEPT ![cOff] = cells[Index(Add(cTail, cOff))]]
    /\ cOff' = cOff + 1
    /\ UNCHANGED <<cells, pVars, tail, cPc, cHead, cTail, delivered, released, last>>

(* Which frame the copied bytes make up. *)
Identity(bytes) ==
    IF \A o \in Offsets : bytes[o] = <<bytes[0][1], o>>
    THEN bytes[0][1] ELSE Torn

(* Mutants of Deliver: the entry is not passed over; one byte too few is. *)
DeliverNoAdvance ==
    /\ cPc = "copy"
    /\ cOff = EntrySize
    /\ delivered' = delivered + 1
    /\ last' = Identity(frame)
    /\ cPc' = "entry"
    /\ UNCHANGED <<cells, pVars, tail, cHead, cTail, cOff, frame, released>>

DeliverShort ==
    /\ cPc = "copy"
    /\ cOff = EntrySize
    /\ delivered' = delivered + 1
    /\ last' = Identity(frame)
    /\ cTail' = Add(cTail, EntrySize - 1)
    /\ cPc' = "entry"
    /\ UNCHANGED <<cells, pVars, tail, cHead, cOff, frame, released>>

Deliver ==
    /\ cPc = "copy"
    /\ cOff = EntrySize
    /\ delivered' = delivered + 1
    /\ last' = Identity(frame)
    /\ cTail' = Add(cTail, EntrySize)
    /\ cPc' = "entry"
    /\ UNCHANGED <<cells, pVars, tail, cHead, cOff, frame, released>>

DrainPublish ==
    /\ cPc = "publish"
    /\ tail' = cTail
    /\ released' = delivered
    /\ cPc' = "idle"
    /\ UNCHANGED <<cells, pVars, cHead, cTail, cOff, frame, delivered, last>>

-----------------------------------------------------------------------------
Producer == WriteDrop \/ WriteBegin \/ WriteByte \/ WritePublish
Consumer == DrainBegin \/ DecodeEntry \/ CopyByte \/ Deliver \/ DrainPublish

Next == Producer \/ Consumer

Spec == Init /\ [][Next]_vars

-----------------------------------------------------------------------------
(* The values each variable takes in every reachable state.                *)
TypeOK ==
    /\ head \in 0 .. Modulus - 1
    /\ tail \in 0 .. Modulus - 1
    /\ cells \in [0 .. Cap - 1 -> Bytes \union {NoByte}]
    /\ rxProduceCount \in 0 .. MaxFrames
    /\ rxDropped \in 0 .. MaxDrops
    /\ pPc \in {"idle", "copy"}
    /\ pOff \in 0 .. EntrySize
    /\ cPc \in {"idle", "entry", "copy", "publish"}
    /\ cHead \in 0 .. Modulus - 1
    /\ cTail \in 0 .. Modulus - 1
    /\ cOff \in 0 .. EntrySize
    /\ frame \in [Offsets -> Bytes \union {NoByte}]
    /\ delivered \in 0 .. MaxFrames
    /\ released \in 0 .. MaxFrames
    /\ last \in 0 .. MaxFrames \union {NoFrame, Torn}

(* The bytes the consumer has copied are those of the oldest frame not yet *)
(* delivered, whatever the producer writes meanwhile and however often the *)
(* counters have wrapped: no frame is torn, lost, repeated or reordered.   *)
FrameIntact ==
    cPc = "copy" => \A o \in 0 .. cOff - 1 : frame[o] = <<delivered, o>>

(* The uint32_t difference of the counters is the number of bytes not yet  *)
(* handed back, across wrap-around, and never exceeds the capacity: the    *)
(* unsigned "free" of the producer cannot underflow into a huge number.    *)
UsedIsExact ==
    /\ Sub(head, tail) = EntrySize * (rxProduceCount - released)
    /\ EntrySize * (rxProduceCount - released) <= Cap

(* The drain loop ends because it reached the head it loaded, never at an  *)
(* incomplete or invalid entry, so no published frame is left stuck behind *)
(* a break.                                                                *)
BatchReachesHead == cPc = "publish" => cTail = cHead

(* A frame is dropped only when one more really does not fit.              *)
DropOnlyWhenFull ==
    [][rxDropped' # rxDropped
          => EntrySize * (rxProduceCount - released + 1) > Cap]_vars

(* The ring is a bounded FIFO of frames.                                   *)
Fifo == INSTANCE FrameFifo WITH
    Depth   <- Cap \div EntrySize,
    queue   <- [i \in 1 .. (rxProduceCount - delivered) |-> delivered + i - 1],
    next    <- rxProduceCount,
    held    <- delivered - released,
    refused <- rxDropped

(* Seen through that mapping every behaviour of the ring is one of the     *)
(* bounded FIFO.                                                           *)
FifoSpec == Fifo!Spec
=============================================================================
