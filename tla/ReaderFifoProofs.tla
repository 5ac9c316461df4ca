--------------------------- MODULE ReaderFifoProofs ---------------------------
(***************************************************************************)
(* Proofs about the reader slots, for any clients, channels, number of     *)
(* slots, size of the FIFOs and scenarios in which calls do not overlap    *)
(* or nothing is unregistered and reset (Orderly).                         *)
(*                                                                         *)
(* The argument.  Slots have one owner each, by readers_lock (OwnInv), and *)
(* fan-out stores only into a slot its owner has put its channel in        *)
(* (FanInv).  What a FIFO holds is a sequence, Queue: fan-out appends to   *)
(* it and the reader takes its head, however its cells wrap.  Where a      *)
(* registration stores head = 0 during a fan-out, the index the fan-out    *)
(* loaded is the one that counts (Front).  Of the queue, QueueInv says     *)
(* that it holds, in order, what is to be read.                            *)
(***************************************************************************)
EXTENDS ReaderFifo, WellFoundedInduction, TLAPS
-----------------------------------------------------------------------------
(* Indices of a buffer of m cells; the least of a set of numbers.          *)

(* Some cells on from a cell, *)
LEMMA WrapSum ==
    ASSUME NEW m \in Nat \ {0}, NEW t \in 0 .. m - 1, NEW k \in 0 .. m
    PROVE  (t + k) % m = IF t + k < m THEN t + k ELSE t + k - m
  OBVIOUS

(* and the cells from one to another. *)
LEMMA WrapDifference ==
    ASSUME NEW m \in Nat \ {0}, NEW h \in 0 .. m - 1, NEW t \in 0 .. m - 1
    PROVE  (h - t) % m = IF t <= h THEN h - t ELSE h - t + m
  OBVIOUS

(* A set of naturals has a least element. *)
LEMMA LeastNatural ==
    ASSUME NEW S, S \subseteq Nat, S # {}
    PROVE  \E m \in S : \A k \in S : m <= k
<1>1. PICK m \in S : \A k \in S : ~ (<<k, m>> \in OpToRel(<, Nat))
  BY WFMin, NatLessThanWellFounded, Zenon
<1>2. \A k \in S : ~ (k < m)
  BY <1>1 DEF OpToRel
<1> QED
  BY <1>2

Serial == ~scenario.overlap
Orderly == Serial \/ scenario.ops = {}

-----------------------------------------------------------------------------
(* The types, by what steps change together.                               *)
SlotTypes ==
    /\ active \in [Slots -> BOOLEAN]
    /\ channel \in [Slots -> Channels \union {None}]
    /\ head \in [Slots -> Cells] /\ tail \in [Slots -> Cells]
    /\ fifo \in [Slots -> [Cells -> Numbers]]

FanTypes ==
    /\ fPc \in {"idle", "scan", "store", "publish"}
    /\ fSlot \in Slots /\ fHead \in Cells
    /\ sentOn \in Seq(Channels) /\ Len(sentOn) <= scenario.packets
    /\ fPc # "idle" => Len(sentOn) > 0

CtlTypes ==
    /\ scenario \in Scenarios
    /\ ctlPc \in {"idle", "head", "tail"} /\ ctlSlot \in Slots
    /\ ctlOp \in Channels \union {None, "close"}
    /\ resets \in 0 .. MaxResets

ClientTypes ==
    /\ readers_lock \in Clients \union {None}
    /\ readerId \in [Clients -> Slots \union {None}]
    /\ rPc \in [Clients -> {"idle", "channel", "head", "tail", "unchannel",
                            "copy", "advance"}]
    /\ rTail \in [Clients -> Cells] /\ out \in [Clients -> Numbers]
    /\ regs \in [Clients -> 0 .. MaxRegs]

HistTypes ==
    /\ received \in [Clients -> SUBSET Numbers]
    /\ dropped \in [Clients -> SUBSET Numbers]
    /\ since \in [Clients -> Nat] /\ complete \in [Clients -> Nat]
    /\ bound \in [Clients -> Nat]
    /\ \A c \in Clients : /\ since[c] <= InProgress /\ bound[c] <= InProgress
                          /\ complete[c] <= Len(sentOn) + 1

Types == SlotTypes /\ FanTypes /\ CtlTypes /\ ClientTypes /\ HistTypes

-----------------------------------------------------------------------------
(* Who owns a slot. *)

Registered(c) == readerId[c] # None

Registering(c) == rPc[c] \in {"channel", "head", "tail", "unchannel"}

OwnsSlot(c) ==
    /\ rPc[c] # "idle" => Registered(c)
    /\ Registering(c) <=> readers_lock = c
    /\ Registered(c) =>
         /\ active[readerId[c]] <=> rPc[c] # "unchannel"
         /\ channel[readerId[c]] = IF rPc[c] = "channel" THEN None ELSE ChannelOf[c]
         /\ since[c] > 0

SlotsApart ==
    \A c, d \in Clients : Registered(c) /\ readerId[c] = readerId[d] => c = d

FreeInv ==
    \A i \in Slots : ~active[i] =>
        \/ channel[i] = None
        \/ \E c \in Clients : rPc[c] = "unchannel" /\ readerId[c] = i

OwnInv == (\A c \in Clients : OwnsSlot(c)) /\ SlotsApart /\ FreeInv

(* Who may step: one call at a time, or no call that takes a slot or its   *)
(* packets away.                                                           *)
TurnInv ==
    /\ Serial =>
         /\ fPc # "idle" => ctlPc = "idle"
         /\ \A c \in Clients : rPc[c] # "idle" => fPc = "idle" /\ ctlPc = "idle"
         /\ \A c, d \in Clients : rPc[c] # "idle" /\ rPc[d] # "idle" => c = d
    /\ scenario.ops = {} => ctlPc = "idle" /\ \A c \in Clients : rPc[c] # "unchannel"

(* Fan-out stores for the slot's owner. *)
Storing(i) == fPc \in {"store", "publish"} /\ fSlot = i

FanInv ==
    fPc \in {"store", "publish"} =>
        active[fSlot] /\ channel[fSlot] = sentOn[Len(sentOn)]

-----------------------------------------------------------------------------
(* What a FIFO holds. *)

(* The cells from t on up to h, in order. *)
Held(cells, h, t) ==
    [k \in 1 .. (h - t) % kFifoSize |-> cells[(t + (k - 1)) % kFifoSize]]

Front(i) == IF Storing(i) THEN fHead ELSE head[i]
Queue(i) == Held(fifo[i], Front(i), tail[i])

(* Packets below this number have passed slot i. *)
Passed(i) == IF fPc # "idle" /\ fSlot <= i THEN Len(sentOn) ELSE Len(sentOn) + 1

(* All in q are packets from a number on, of channel ch; *)
Fresh(q, from, p, ch, on) ==
    \A k \in DOMAIN q : q[k] \in from .. p - 1 /\ on[q[k]] = ch

(* they are in order, and newer than those got; *)
InOrder(q, got, p) ==
    /\ \A j, k \in DOMAIN q : j < k => q[j] < q[k]
    /\ \A n \in got : n < p /\ \A k \in DOMAIN q : n < q[k]

(* and with those got or lost they are all there are from must on. *)
Counted(q, must, p, ch, on, done) ==
    must > 0 => \A n \in must .. p - 1 :
        on[n] = ch => n \in done \/ \E k \in DOMAIN q : n = q[k]

(* The queue of slot i is what its owner c is still to read of the packets *)
(* that have passed the slot.                                              *)
Awaits(c, i) ==
    /\ Fresh(Queue(i), since[c], Passed(i), ChannelOf[c], sentOn)
    /\ InOrder(Queue(i), received[c], Passed(i))
    /\ Counted(Queue(i), complete[c], Passed(i), ChannelOf[c], sentOn,
               received[c] \union dropped[c])

(* A client whose slot's indices are not being set; where calls overlap,   *)
(* they are set to the values they have.                                   *)
Ready(c) ==
    /\ Registered(c)
    /\ Serial => /\ rPc[c] \notin {"channel", "head", "tail", "unchannel"}
                 /\ ~ (ctlPc = "tail" /\ ctlSlot = readerId[c])

(* The head a registration has set back during a fan-out. *)
HeadInv(c, i) ==
    \/ head[i] = Front(i)
    \/ head[i] = 0 /\ tail[i] = 0 /\ complete[c] \notin 1 .. Len(sentOn)

QueueInv ==
    \A c \in Clients, i \in Slots :
        Ready(c) /\ readerId[c] = i => Awaits(c, i) /\ HeadInv(c, i)

StoredInv ==
    fPc = "publish" =>
        fifo[fSlot][fHead] = Len(sentOn) /\ Next1(fHead) # tail[fSlot]

(* A reader's FIFO while it reads. *)
ReadInv ==
    \A c \in Clients, i \in Slots :
        rPc[c] \in {"copy", "advance"} /\ readerId[c] = i =>
            /\ rTail[c] = tail[i] /\ head[i] # tail[i]
            /\ bound[c] <= since[c]
            /\ rPc[c] = "advance" => out[c] = fifo[i][rTail[c]]

(* Indices and histories that are being set. *)
ResetInv ==
    /\ \A c \in Clients, i \in Slots : readerId[c] = i =>
         /\ rPc[c] \in {"channel", "head", "tail"} =>
              /\ received[c] = {} /\ complete[c] = 0
              /\ ~Serial => tail[i] = 0
         /\ Serial /\ rPc[c] = "tail" => head[i] = 0
         /\ ctlPc = "tail" /\ i = ctlSlot => received[c] = {}
    /\ ctlPc = "tail" => head[ctlSlot] = 0
    /\ ~Serial => \A i \in Slots : ~active[i] \/ channel[i] = None =>
                                     head[i] = 0 /\ tail[i] = 0

OrderlyInv == FanInv /\ StoredInv /\ QueueInv /\ ReadInv /\ ResetInv

IInv == Types /\ OwnInv /\ TurnInv /\ (Orderly => OrderlyInv)
-----------------------------------------------------------------------------
(* The constants, in the form the proofs use them.                         *)
LEMMA Constants ==
    /\ kFifoSize \in Nat \ {0, 1} /\ kMaxReaders \in Nat \ {0}
    /\ MaxPackets \in Nat /\ MaxRegs \in Nat /\ MaxResets \in Nat
    /\ ChannelOf \in [Clients -> Channels]
    /\ None \notin Clients /\ None \notin Channels /\ None \notin Slots
  BY ReaderAssumption DEF Slots

(* The parts of a scenario. *)
LEMMA ScenarioTyped ==
    ASSUME scenario \in Scenarios
    PROVE  /\ scenario.overlap \in BOOLEAN
           /\ scenario.packets \in 0 .. MaxPackets
           /\ scenario.regs \in 0 .. MaxRegs
  BY ReaderAssumption

-----------------------------------------------------------------------------
(* Cells. *)

(* The next cell is one on, or the first; *)
LEMMA NextCell ==
    ASSUME NEW h \in Cells
    PROVE  /\ Next1(h) = IF h + 1 < kFifoSize THEN h + 1 ELSE 0
           /\ Next1(h) \in Cells
<1>1. /\ kFifoSize \in Nat \ {0} /\ h \in 0 .. kFifoSize - 1
      /\ 1 \in 0 .. kFifoSize
  BY Constants DEF Cells
<1>2. (h + 1) % kFifoSize = IF h + 1 < kFifoSize THEN h + 1 ELSE h + 1 - kFifoSize
  BY <1>1, WrapSum
<1>3. ~ (h + 1 < kFifoSize) => h + 1 - kFifoSize = 0
  BY <1>1
<1>4. (IF h + 1 < kFifoSize THEN h + 1 ELSE 0) \in Cells
  BY <1>1 DEF Cells
<1> QED
  BY <1>2, <1>3, <1>4 DEF Next1

(* different cells have different ones next. *)
LEMMA NextApart ==
    ASSUME NEW h \in Cells, NEW t \in Cells, h # t
    PROVE  Next1(h) # Next1(t)
<1>1. /\ Next1(h) = IF h + 1 < kFifoSize THEN h + 1 ELSE 0
      /\ Next1(t) = IF t + 1 < kFifoSize THEN t + 1 ELSE 0
  BY NextCell
<1> QED
  BY <1>1, Constants DEF Cells

(* The queue in the cells from t up to h. *)
LEMMA HeldCells ==
    ASSUME NEW cells, NEW h \in Cells, NEW t \in Cells
    PROVE  LET n == IF t <= h THEN h - t ELSE h - t + kFifoSize
           IN  /\ n \in 0 .. kFifoSize - 1
               /\ DOMAIN Held(cells, h, t) = 1 .. n
               /\ \A k \in 1 .. n :
                    Held(cells, h, t)[k] =
                      cells[IF t + (k - 1) < kFifoSize THEN t + (k - 1)
                            ELSE t + (k - 1) - kFifoSize]
<1> DEFINE n == IF t <= h THEN h - t ELSE h - t + kFifoSize
<1>1. (h - t) % kFifoSize = n
  BY Constants, WrapDifference DEF Cells
<1>2. n \in 0 .. kFifoSize - 1
  BY Constants DEF Cells
<1>3. ASSUME NEW k \in 1 .. n
      PROVE  (t + (k - 1)) % kFifoSize =
               IF t + (k - 1) < kFifoSize THEN t + (k - 1)
               ELSE t + (k - 1) - kFifoSize
  <2>1. k - 1 \in 0 .. kFifoSize /\ t \in 0 .. kFifoSize - 1
    BY <1>2, Constants DEF Cells
  <2> QED
    BY <2>1, Constants, WrapSum
<1>4. Held(cells, h, t) = [k \in 1 .. n |-> cells[(t + (k - 1)) % kFifoSize]]
  BY <1>1 DEF Held
<1> HIDE DEF n
<1>5. DOMAIN Held(cells, h, t) = 1 .. n
  BY <1>4
<1>6. ASSUME NEW k \in 1 .. n
      PROVE  Held(cells, h, t)[k] =
               cells[IF t + (k - 1) < kFifoSize THEN t + (k - 1)
                     ELSE t + (k - 1) - kFifoSize]
  <2>1. Held(cells, h, t)[k] = cells[(t + (k - 1)) % kFifoSize]
    BY <1>4
  <2> QED
    BY <2>1, <1>3
<1> QED
  BY <1>2, <1>5, <1>6 DEF n

(* An empty queue, *)
LEMMA HeldNothing ==
    ASSUME NEW cells, NEW h \in Cells
    PROVE  DOMAIN Held(cells, h, h) = {}
<1>1. h <= h /\ h - h = 0
  BY Constants DEF Cells
<1>2. DOMAIN Held(cells, h, h) = 1 .. 0
  BY <1>1, HeldCells
<1> QED
  BY <1>2

(* one whose next cell is stored into, *)
LEMMA HeldStore ==
    ASSUME NEW cells \in [Cells -> Numbers], NEW h \in Cells, NEW t \in Cells,
           Next1(h) # t, NEW x
    PROVE  Held([cells EXCEPT ![h] = x], h, t) = Held(cells, h, t)
<1> DEFINE stored == [cells EXCEPT ![h] = x]
           n == IF t <= h THEN h - t ELSE h - t + kFifoSize
           At(k) == IF t + (k - 1) < kFifoSize THEN t + (k - 1)
                    ELSE t + (k - 1) - kFifoSize
<1>1. ASSUME NEW k \in 1 .. (h - t) % kFifoSize
      PROVE  stored[(t + (k - 1)) % kFifoSize] = cells[(t + (k - 1)) % kFifoSize]
  <2>1. (h - t) % kFifoSize = n /\ n \in 0 .. kFifoSize - 1
    BY Constants, WrapDifference DEF Cells
  <2>2. k - 1 \in 0 .. kFifoSize /\ t \in 0 .. kFifoSize - 1
    BY <2>1, Constants DEF Cells
  <2>3. (t + (k - 1)) % kFifoSize = At(k)
    BY <2>2, Constants, WrapSum
  <2>4. At(k) \in Cells /\ At(k) # h
    BY <2>1, Constants DEF Cells
  <2> QED
    BY <2>3, <2>4
<1> QED
  BY <1>1 DEF Held

(* one that takes in its next cell, *)
LEMMA HeldNext ==
    ASSUME NEW cells \in [Cells -> Numbers], NEW h \in Cells, NEW t \in Cells,
           Next1(h) # t
    PROVE  \E n \in Nat :
             /\ DOMAIN Held(cells, h, t) = 1 .. n
             /\ DOMAIN Held(cells, Next1(h), t) = 1 .. n + 1
             /\ \A k \in 1 .. n : Held(cells, Next1(h), t)[k] = Held(cells, h, t)[k]
             /\ Held(cells, Next1(h), t)[n + 1] = cells[h]
<1> DEFINE n == IF t <= h THEN h - t ELSE h - t + kFifoSize
           g == Next1(h)
           m == IF t <= g THEN g - t ELSE g - t + kFifoSize
           At(k) == IF t + (k - 1) < kFifoSize THEN t + (k - 1)
                    ELSE t + (k - 1) - kFifoSize
<1>1. g \in Cells /\ g = (IF h + 1 < kFifoSize THEN h + 1 ELSE 0)
  BY NextCell
<1>2. n \in Nat /\ m = n + 1 /\ At(n + 1) = h
  BY <1>1, Constants DEF Cells
<1>3. /\ DOMAIN Held(cells, h, t) = 1 .. n
      /\ \A k \in 1 .. n : Held(cells, h, t)[k] = cells[At(k)]
  BY HeldCells
<1>4. /\ DOMAIN Held(cells, g, t) = 1 .. m
      /\ \A k \in 1 .. m : Held(cells, g, t)[k] = cells[At(k)]
  <2>1. g \in Cells
    BY <1>1
  <2> HIDE DEF g
  <2> QED
    BY <2>1, HeldCells
<1> HIDE DEF n, m, g, At
<1>5. n + 1 \in 1 .. m /\ \A k \in 1 .. n : k \in 1 .. m
  BY <1>2
<1>6. DOMAIN Held(cells, g, t) = 1 .. n + 1
  BY <1>2, <1>4
<1>7. \A k \in 1 .. n : Held(cells, g, t)[k] = Held(cells, h, t)[k]
  BY <1>3, <1>4, <1>5
<1>8. Held(cells, g, t)[n + 1] = cells[h]
  BY <1>2, <1>4, <1>5
<1> QED
  BY <1>2, <1>3, <1>6, <1>7, <1>8 DEF g

(* and one that gives up its first. *)
LEMMA HeldRest ==
    ASSUME NEW cells \in [Cells -> Numbers], NEW h \in Cells, NEW t \in Cells,
           h # t
    PROVE  \E n \in Nat :
             /\ DOMAIN Held(cells, h, t) = 1 .. n + 1
             /\ DOMAIN Held(cells, h, Next1(t)) = 1 .. n
             /\ Held(cells, h, t)[1] = cells[t]
             /\ \A k \in 1 .. n : Held(cells, h, Next1(t))[k] = Held(cells, h, t)[k + 1]
<1> DEFINE u == Next1(t)
           m == IF t <= h THEN h - t ELSE h - t + kFifoSize
           n == IF u <= h THEN h - u ELSE h - u + kFifoSize
           At(k) == IF t + (k - 1) < kFifoSize THEN t + (k - 1)
                    ELSE t + (k - 1) - kFifoSize
           From(k) == IF u + (k - 1) < kFifoSize THEN u + (k - 1)
                      ELSE u + (k - 1) - kFifoSize
<1>1. u \in Cells /\ u = (IF t + 1 < kFifoSize THEN t + 1 ELSE 0)
  BY NextCell
<1>2. n \in Nat /\ m = n + 1 /\ At(1) = t
  BY <1>1, Constants DEF Cells
<1>3. \A k \in 1 .. n : From(k) = At(k + 1)
  BY <1>1, <1>2, Constants DEF Cells
<1>4. /\ DOMAIN Held(cells, h, t) = 1 .. m
      /\ \A k \in 1 .. m : Held(cells, h, t)[k] = cells[At(k)]
  BY HeldCells
<1>5. /\ DOMAIN Held(cells, h, u) = 1 .. n
      /\ \A k \in 1 .. n : Held(cells, h, u)[k] = cells[From(k)]
  BY <1>1, HeldCells
<1> HIDE DEF n, m, u, At, From
<1>6. 1 \in 1 .. m /\ \A k \in 1 .. n : k + 1 \in 1 .. m
  BY <1>2
<1>7. \A k \in 1 .. n : Held(cells, h, u)[k] = Held(cells, h, t)[k + 1]
  BY <1>3, <1>4, <1>5, <1>6
<1>8. Held(cells, h, t)[1] = cells[t]
  BY <1>2, <1>4, <1>6
<1> QED
  BY <1>2, <1>4, <1>5, <1>7, <1>8 DEF u
-----------------------------------------------------------------------------
(* What a reader awaits, when its queue or the packets passed change.      *)

(* Packets later than those passed do not matter. *)
LEMMA AwaitedSame ==
    ASSUME NEW q, NEW from \in Nat, from > 0, NEW must \in Nat, NEW p \in Nat,
           NEW ch, NEW on, NEW later, NEW got, NEW lost, NEW lostNow,
           lost \subseteq lostNow, \A n \in 1 .. p - 1 : later[n] = on[n],
           Fresh(q, from, p, ch, on), InOrder(q, got, p),
           Counted(q, must, p, ch, on, got \union lost)
    PROVE  /\ Fresh(q, from, p, ch, later) /\ InOrder(q, got, p)
           /\ Counted(q, must, p, ch, later, got \union lostNow)
<1>1. Fresh(q, from, p, ch, later)
  <2>1. ASSUME NEW k \in DOMAIN q
        PROVE  q[k] \in from .. p - 1 /\ later[q[k]] = ch
    <3>1. q[k] \in from .. p - 1 /\ on[q[k]] = ch
      BY DEF Fresh
    <3>2. q[k] \in 1 .. p - 1
      BY <3>1
    <3> QED
      BY <3>1, <3>2
  <2> QED
    BY <2>1 DEF Fresh
<1>2. Counted(q, must, p, ch, later, got \union lostNow)
  <2>1. ASSUME must > 0, NEW n \in must .. p - 1, later[n] = ch
        PROVE  n \in got \union lostNow \/ \E k \in DOMAIN q : n = q[k]
    <3>1. n \in 1 .. p - 1
      BY <2>1
    <3>2. on[n] = ch
      BY <2>1, <3>1
    <3> QED
      BY <2>1, <3>2 DEF Counted
  <2> QED
    BY <2>1 DEF Counted
<1> QED
  BY <1>1, <1>2

(* A packet that passes without being queued is of another channel or is   *)
(* counted as lost.                                                        *)
LEMMA AwaitedPassed ==
    ASSUME NEW q, NEW from \in Nat, NEW must \in Nat, NEW p \in Nat,
           NEW ch, NEW on, NEW got, got \subseteq Nat, NEW lost, NEW lostNow,
           lost \subseteq lostNow, on[p] = ch => p \in lostNow,
           Fresh(q, from, p, ch, on), InOrder(q, got, p),
           Counted(q, must, p, ch, on, got \union lost)
    PROVE  /\ Fresh(q, from, p + 1, ch, on) /\ InOrder(q, got, p + 1)
           /\ Counted(q, must, p + 1, ch, on, got \union lostNow)
<1>1. Fresh(q, from, p + 1, ch, on)
  BY DEF Fresh
<1>2. InOrder(q, got, p + 1)
  BY DEF InOrder
<1>3. Counted(q, must, p + 1, ch, on, got \union lostNow)
  <2>1. ASSUME must > 0, NEW n \in must .. (p + 1) - 1, on[n] = ch
        PROVE  n \in got \union lostNow \/ \E k \in DOMAIN q : n = q[k]
    <3>1. CASE n = p
      BY <2>1, <3>1
    <3>2. CASE n # p
      <4>1. n \in must .. p - 1
        BY <3>2
      <4> QED
        BY <2>1, <4>1 DEF Counted
    <3> QED
      BY <3>1, <3>2
  <2> QED
    BY <2>1 DEF Counted
<1> QED
  BY <1>1, <1>2, <1>3

(* One that is queued comes last. *)
LEMMA AwaitedQueued ==
    ASSUME NEW q, NEW r, NEW m \in Nat, DOMAIN q = 1 .. m, DOMAIN r = 1 .. m + 1,
           NEW from \in Nat, NEW must \in Nat, NEW p \in Nat, from <= p,
           NEW ch, NEW on, NEW got, got \subseteq Nat, NEW done,
           \A k \in 1 .. m : r[k] = q[k], r[m + 1] = p, on[p] = ch,
           Fresh(q, from, p, ch, on), InOrder(q, got, p),
           Counted(q, must, p, ch, on, done)
    PROVE  /\ Fresh(r, from, p + 1, ch, on) /\ InOrder(r, got, p + 1)
           /\ Counted(r, must, p + 1, ch, on, done)
<1>1. \A k \in 1 .. m + 1 : k \in 1 .. m \/ k = m + 1
  OBVIOUS
<1>2. \A k \in 1 .. m : k \in 1 .. m + 1 /\ k < m + 1
  OBVIOUS
<1>3. \A k \in 1 .. m : r[k] \in from .. p - 1 /\ on[r[k]] = ch
  BY DEF Fresh
<1>4. m + 1 \in 1 .. m + 1
  OBVIOUS
<1>5. Fresh(r, from, p + 1, ch, on)
  <2>1. ASSUME NEW k \in 1 .. m + 1
        PROVE  r[k] \in from .. (p + 1) - 1 /\ on[r[k]] = ch
    <3>1. CASE k = m + 1
      BY <3>1
    <3>2. CASE k \in 1 .. m
      <4>1. r[k] \in from .. p - 1 /\ on[r[k]] = ch
        BY <1>3, <3>2
      <4> QED
        BY <4>1
    <3> QED
      BY <1>1, <3>1, <3>2
  <2> QED
    BY <2>1 DEF Fresh
<1>6. InOrder(r, got, p + 1)
  <2>1. ASSUME NEW j \in 1 .. m + 1, NEW k \in 1 .. m + 1, j < k
        PROVE  r[j] < r[k]
    <3>0. j \in 1 .. m
      BY <2>1
    <3>1. CASE k = m + 1
      <4>1. r[j] \in from .. p - 1
        BY <1>3, <3>0
      <4> QED
        BY <3>1, <4>1
    <3>2. CASE k \in 1 .. m
      BY <2>1, <3>0, <3>2 DEF InOrder
    <3> QED
      BY <1>1, <3>1, <3>2
  <2>2. ASSUME NEW n \in got
        PROVE  n < p + 1 /\ \A k \in 1 .. m + 1 : n < r[k]
    <3>1. n \in Nat /\ n < p /\ \A k \in 1 .. m : n < r[k]
      BY DEF InOrder
    <3> QED
      BY <1>1, <3>1
  <2> QED
    BY <2>1, <2>2 DEF InOrder
<1>7. Counted(r, must, p + 1, ch, on, done)
  <2>1. ASSUME must > 0, NEW n \in must .. (p + 1) - 1, on[n] = ch
        PROVE  n \in done \/ \E k \in 1 .. m + 1 : n = r[k]
    <3>1. CASE n = p
      BY <1>4, <3>1
    <3>2. CASE n # p
      <4>1. n \in must .. p - 1
        BY <3>2
      <4>2. n \in done \/ \E k \in 1 .. m : n = q[k]
        BY <2>1, <4>1 DEF Counted
      <4> QED
        BY <1>2, <4>2
    <3> QED
      BY <3>1, <3>2
  <2> QED
    BY <2>1 DEF Counted
<1> QED
  BY <1>5, <1>6, <1>7

(* The first of the queue is the next to be read. *)
LEMMA AwaitedTaken ==
    ASSUME NEW q, NEW r, NEW m \in Nat, DOMAIN q = 1 .. m + 1, DOMAIN r = 1 .. m,
           NEW from \in Nat, NEW must \in Nat, NEW p \in Nat,
           NEW ch, NEW on, NEW got, NEW lost,
           \A k \in 1 .. m : r[k] = q[k + 1],
           Fresh(q, from, p, ch, on), InOrder(q, got, p),
           Counted(q, must, p, ch, on, got \union lost)
    PROVE  /\ Fresh(r, from, p, ch, on) /\ InOrder(r, got \union {q[1]}, p)
           /\ Counted(r, must, p, ch, on, (got \union {q[1]}) \union lost)
<1>1. 1 \in 1 .. m + 1 /\ \A k \in 1 .. m : k + 1 \in 1 .. m + 1 /\ 1 < k + 1
  OBVIOUS
<1>2. Fresh(r, from, p, ch, on)
  BY <1>1 DEF Fresh
<1>3. InOrder(r, got \union {q[1]}, p)
  <2>1. ASSUME NEW j \in 1 .. m, NEW k \in 1 .. m, j < k
        PROVE  r[j] < r[k]
    <3>1. j + 1 < k + 1
      BY <2>1
    <3> QED
      BY <1>1, <3>1 DEF InOrder
  <2>2. ASSUME NEW n \in got \union {q[1]}
        PROVE  n < p /\ \A k \in 1 .. m : n < r[k]
    <3>1. CASE n \in got
      BY <1>1, <3>1 DEF InOrder
    <3>2. CASE n = q[1]
      <4>1. n < p
        <5>1. n \in from .. p - 1
          BY <1>1, <3>2 DEF Fresh
        <5> QED
          BY <5>1
      <4>2. \A k \in 1 .. m : n < r[k]
        BY <1>1, <3>2 DEF InOrder
      <4> QED
        BY <4>1, <4>2
    <3> QED
      BY <3>1, <3>2
  <2> QED
    BY <2>1, <2>2 DEF InOrder
<1>4. Counted(r, must, p, ch, on, (got \union {q[1]}) \union lost)
  <2>1. ASSUME must > 0, NEW n \in must .. p - 1, on[n] = ch
        PROVE  n \in (got \union {q[1]}) \union lost \/ \E k \in 1 .. m : n = r[k]
    <3>1. n \in got \union lost \/ \E k \in 1 .. m + 1 : n = q[k]
      BY <2>1 DEF Counted
    <3>2. ASSUME NEW k \in 1 .. m + 1, n = q[k]
          PROVE  n = q[1] \/ \E j \in 1 .. m : n = r[j]
      <4>1. CASE k = 1
        BY <3>2, <4>1
      <4>2. CASE k # 1
        <5>1. k - 1 \in 1 .. m /\ (k - 1) + 1 = k
          BY <4>2
        <5>2. r[k - 1] = q[k]
          BY <5>1
        <5> QED
          BY <3>2, <5>1, <5>2
      <4> QED
        BY <4>1, <4>2
    <3> QED
      BY <3>1, <3>2
  <2> QED
    BY <2>1 DEF Counted
<1> QED
  BY <1>2, <1>3, <1>4

(* An empty queue is right for a reader that has nothing to be counted.    *)
LEMMA AwaitedNothing ==
    ASSUME NEW q, DOMAIN q = {}, NEW from, NEW must \in Nat, NEW p \in Nat,
           must > 0 => p <= must,
           NEW ch, NEW on, NEW got, NEW done, \A n \in got : n < p
    PROVE  /\ Fresh(q, from, p, ch, on) /\ InOrder(q, got, p)
           /\ Counted(q, must, p, ch, on, done)
<1>1. must > 0 => \A n \in must .. p - 1 : FALSE
  OBVIOUS
<1>2. Counted(q, must, p, ch, on, done)
  BY <1>1 DEF Counted
<1> QED
  BY <1>2 DEF Fresh, InOrder
-----------------------------------------------------------------------------
(* Types. *)

(* The slot of a client in a call is a slot. *)
LEMMA SlotOfCall ==
    ASSUME Types, OwnInv, NEW c \in Clients, rPc[c] # "idle"
    PROVE  readerId[c] \in Slots
  BY DEF Types, ClientTypes, OwnInv, OwnsSlot, Registered

(* There is a first cell and a first slot. *)
LEMMA ZeroTyped == 0 \in Cells /\ 0 \in Slots
  BY Constants DEF Cells, Slots

(* The slot a registration finds is free, and the first. *)
LEMMA FreeFound ==
    ASSUME Free # {}
    PROVE  LET i == CHOOSE j \in Free : \A k \in Free : j <= k
           IN  i \in Free /\ i \in Slots /\ ~active[i]
<1>1. Free \subseteq Nat
  BY Constants DEF Free, Slots
<1>2. \E j \in Free : \A k \in Free : j <= k
  BY <1>1, LeastNatural
<1> DEFINE i == CHOOSE j \in Free : \A k \in Free : j <= k
<1>3. i \in Free
  BY <1>2
<1> HIDE DEF i
<1> QED
  BY <1>3 DEF Free, i

(* On to the next slot. *)
LEMMA NextSlotTyped ==
    ASSUME NEW i \in Slots
    PROVE  (IF i = kMaxReaders - 1 THEN 0 ELSE i + 1) \in Slots
  BY Constants DEF Slots

(* The packet being fanned out has a number. *)
LEMMA PacketNumber ==
    ASSUME Types
    PROVE  /\ Len(sentOn) \in Nat /\ Len(sentOn) \in Numbers
           /\ InProgress \in Nat
           /\ fPc # "idle" => Len(sentOn) > 0
<1>1. Len(sentOn) \in Nat
  BY DEF Types, FanTypes
<1>2. scenario.packets \in 0 .. MaxPackets
  BY ScenarioTyped DEF Types, CtlTypes
<1>3. Len(sentOn) <= scenario.packets
  BY DEF Types, FanTypes
<1> QED
  BY <1>1, <1>2, <1>3, Constants DEF Types, FanTypes, Numbers, InProgress

(* Every step keeps the slots typed, *)
LEMMA SlotTypesKept ==
    ASSUME Types, OwnInv, [Next]_vars
    PROVE  SlotTypes'
<1> USE DEF SlotTypes
<1>0. SlotTypes /\ FanTypes /\ ClientTypes
  BY DEF Types
<1>1. ASSUME UNCHANGED slotVars PROVE SlotTypes'
  BY <1>0, <1>1 DEF slotVars
<1>2. CASE FanBegin \/ FanScan \/ ResetBegin \/ UNCHANGED vars
  BY <1>1, <1>2, Zenon DEF FanBegin, FanScan, ResetBegin, vars
<1>3. CASE FanStore
  <2>1. UNCHANGED <<active, channel, head, tail>>
    BY <1>3 DEF FanStore
  <2>2. fifo' \in [Slots -> [Cells -> Numbers]]
    <3>1. CASE fifo' = fifo
      BY <1>0, <3>1
    <3>2. CASE fifo' = [fifo EXCEPT ![fSlot][fHead] = Len(sentOn)]
      <4>1. fSlot \in Slots /\ fHead \in Cells /\ Len(sentOn) \in Numbers
        BY <1>0, PacketNumber DEF FanTypes
      <4>2. [fifo[fSlot] EXCEPT ![fHead] = Len(sentOn)] \in [Cells -> Numbers]
        BY <1>0, <4>1
      <4>3. fifo' = [fifo EXCEPT ![fSlot] = [fifo[fSlot] EXCEPT ![fHead] = Len(sentOn)]]
        BY <3>2
      <4> HIDE DEF SlotTypes
      <4>4. fifo \in [Slots -> [Cells -> Numbers]]
        BY <1>0 DEF SlotTypes
      <4> DEFINE cells == [fifo[fSlot] EXCEPT ![fHead] = Len(sentOn)]
      <4> HIDE DEF cells
      <4>5. cells \in [Cells -> Numbers] /\ fifo' = [fifo EXCEPT ![fSlot] = cells]
        BY <4>2, <4>3 DEF cells
      <4> QED
        BY <4>4, <4>5
    <3> QED
      BY <1>3, <3>1, <3>2 DEF FanStore
  <2> QED
    BY <1>0, <2>1, <2>2
<1>4. CASE FanPublish
  <2>1. Next1(fHead) \in Cells
    BY <1>0, NextCell DEF FanTypes
  <2> QED
    BY <1>0, <1>4, <2>1 DEF FanPublish
<1>5. CASE ResetHead \/ ResetTail
  <2>1. UNCHANGED <<active, channel, fifo>>
    BY <1>5 DEF ResetHead, ResetTail
  <2>2. head' = head \/ head' = [head EXCEPT ![ctlSlot] = 0]
    BY <1>5 DEF ResetHead, ResetTail
  <2>3. tail' = tail \/ tail' = [tail EXCEPT ![ctlSlot] = 0]
    BY <1>5 DEF ResetHead, ResetTail
  <2> QED
    <3>1. head' \in [Slots -> Cells] /\ tail' \in [Slots -> Cells]
      BY <1>0, <2>2, <2>3, ZeroTyped
    <3> QED
      BY <1>0, <2>1, <3>1
<1>6. ASSUME NEW c \in Clients, Client(c) PROVE SlotTypes'
  <2>1. CASE Register(c)
    <3>1. active' = active \/ \E i \in Slots : active' = [active EXCEPT ![i] = TRUE]
      BY <2>1, FreeFound, Zenon DEF Register
    <3>2. active' \in [Slots -> BOOLEAN]
      BY <1>0, <3>1
    <3>3. UNCHANGED <<channel, head, tail, fifo>>
      BY <2>1 DEF Register
    <3> QED
      BY <1>0, <3>2, <3>3
  <2>2. CASE RegisterChannel(c)
    <3>1. ChannelOf[c] \in Channels
      BY Constants
    <3>2. channel' = [channel EXCEPT ![readerId[c]] = ChannelOf[c]]
          /\ UNCHANGED <<active, head, tail, fifo>>
      BY <2>2 DEF RegisterChannel
    <3> QED
      BY <1>0, <3>1, <3>2
  <2>3. CASE RegisterHead(c)
    BY <1>0, <2>3, ZeroTyped DEF RegisterHead
  <2>4. CASE RegisterTail(c)
    BY <1>0, <2>4, ZeroTyped DEF RegisterTail
  <2>5. CASE Unregister(c)
    <3>1. active' = [active EXCEPT ![readerId[c]] = FALSE]
          /\ UNCHANGED <<channel, head, tail, fifo>>
      BY <2>5 DEF Unregister
    <3> QED
      BY <1>0, <3>1
  <2>6. CASE UnregisterChannel(c)
    <3>1. channel' = [channel EXCEPT ![readerId[c]] = None]
          /\ UNCHANGED <<active, head, tail, fifo>>
      BY <2>6 DEF UnregisterChannel
    <3> QED
      BY <1>0, <3>1
  <2>7. CASE ReadBegin(c) \/ ReadCopy(c)
    BY <1>1, <2>7, Zenon DEF ReadBegin, ReadCopy
  <2>8. CASE ReadAdvance(c)
    <3>1. Next1(rTail[c]) \in Cells
      BY <1>0, NextCell DEF ClientTypes
    <3>2. tail' = [tail EXCEPT ![readerId[c]] = Next1(rTail[c])]
          /\ UNCHANGED <<active, channel, head, fifo>>
      BY <2>8 DEF ReadAdvance
    <3> QED
      BY <1>0, <3>1, <3>2
  <2> QED
    BY <1>6, <2>1, <2>2, <2>3, <2>4, <2>5, <2>6, <2>7, <2>8, Zenon DEF Client
<1> QED
  BY <1>2, <1>3, <1>4, <1>5, <1>6, Zenon DEF Next, Fan, Control

(* the fan-out, *)
LEMMA FanTypesKept ==
    ASSUME Types, OwnInv, [Next]_vars
    PROVE  FanTypes'
<1> USE DEF FanTypes
<1>0. FanTypes /\ fSlot \in Slots /\ fHead \in Cells /\ scenario' = scenario
  <2>1. scenario' = scenario
    BY Zenon DEF Next, Fan, Control, Client, vars, FanBegin, FanScan, FanStore,
             FanPublish, ResetBegin, ResetHead, ResetTail, Register,
             RegisterChannel, RegisterHead, RegisterTail, Unregister,
             UnregisterChannel, ReadBegin, ReadCopy, ReadAdvance
  <2> QED
    BY <2>1 DEF Types
<1>1. ASSUME UNCHANGED fanVars PROVE FanTypes'
  BY <1>0, <1>1 DEF fanVars
<1>2. ASSUME NextSlot, fHead' \in Cells, sentOn' = sentOn, fPc # "idle"
      PROVE  FanTypes'
  <2>1. fSlot' \in Slots
    BY <1>0, <1>2, NextSlotTyped DEF NextSlot
  <2>2. fPc' \in {"idle", "scan", "store", "publish"}
    BY <1>2 DEF NextSlot
  <2> QED
    BY <1>0, <1>2, <2>1, <2>2
<1>3. CASE FanBegin
  <2>1. PICK ch \in Channels : sentOn' = Append(sentOn, ch)
    BY <1>3 DEF FanBegin
  <2>2. sentOn' \in Seq(Channels) /\ Len(sentOn') = Len(sentOn) + 1 /\ Len(sentOn) \in Nat
    BY <1>0, <2>1
  <2>3. scenario.packets \in Nat
    BY ScenarioTyped DEF Types, CtlTypes
  <2>4. Len(sentOn) < scenario.packets /\ fPc' = "scan" /\ fSlot' = 0 /\ fHead' = fHead
    BY <1>3 DEF FanBegin
  <2> QED
    BY <1>0, <2>2, <2>3, <2>4, ZeroTyped
<1>4. CASE FanScan
  <2>1. head[fSlot] \in Cells
    BY <1>0 DEF Types, SlotTypes
  <2>2. CASE Matches(fSlot)
    BY <1>0, <1>4, <2>1, <2>2 DEF FanScan
  <2>3. CASE ~Matches(fSlot)
    BY <1>0, <1>2, <1>4, <2>3 DEF FanScan
  <2> QED
    BY <2>2, <2>3
<1>5. CASE FanStore
  <2>1. CASE Next1(fHead) # tail[fSlot]
    BY <1>0, <1>5, <2>1 DEF FanStore
  <2>2. CASE Next1(fHead) = tail[fSlot]
    BY <1>0, <1>2, <1>5, <2>2 DEF FanStore
  <2> QED
    BY <2>1, <2>2
<1>6. CASE FanPublish
  BY <1>0, <1>2, <1>6 DEF FanPublish
<1>7. CASE Control \/ \E c \in Clients : Client(c)
  <2>1. UNCHANGED fanVars
    BY <1>7, Zenon DEF Control, Client, ResetBegin, ResetHead, ResetTail, Register,
             RegisterChannel, RegisterHead, RegisterTail, Unregister,
             UnregisterChannel, ReadBegin, ReadCopy, ReadAdvance
  <2> QED
    BY <1>1, <2>1
<1>8. CASE UNCHANGED vars
  BY <1>1, <1>8 DEF vars
<1> QED
  BY <1>3, <1>4, <1>5, <1>6, <1>7, <1>8, Zenon DEF Next, Fan

(* The scenario stays. *)
LEMMA ScenarioKept ==
    ASSUME [Next]_vars
    PROVE  scenario' = scenario
  BY Zenon DEF Next, Fan, Control, Client, vars, FanBegin, FanScan, FanStore,
             FanPublish, ResetBegin, ResetHead, ResetTail, Register,
             RegisterChannel, RegisterHead, RegisterTail, Unregister,
             UnregisterChannel, ReadBegin, ReadCopy, ReadAdvance

(* the reset loop, *)
LEMMA CtlTypesKept ==
    ASSUME Types, OwnInv, [Next]_vars
    PROVE  CtlTypes'
<1> USE DEF CtlTypes
<1>0. CtlTypes /\ ctlSlot \in Slots /\ scenario' = scenario
  BY ScenarioKept DEF Types
<1>1. ASSUME UNCHANGED ctlVars PROVE CtlTypes'
  BY <1>0, <1>1 DEF ctlVars
<1>2. ASSUME ResetNext, UNCHANGED <<ctlOp, resets>> PROVE CtlTypes'
  <2>1. ctlSlot' \in Slots /\ ctlPc' \in {"idle", "head", "tail"}
    BY <1>0, <1>2, NextSlotTyped DEF ResetNext
  <2> QED
    BY <1>0, <1>2, <2>1
<1>3. CASE ResetBegin
  <2>1. PICK op \in (IF "open" \in scenario.ops THEN Channels ELSE {})
                    \union (scenario.ops \intersect {"close"}) : ctlOp' = op
    BY <1>3 DEF ResetBegin
  <2>2. ctlOp' \in Channels \union {None, "close"}
    BY <2>1
  <2>3. resets' \in 0 .. MaxResets
    BY <1>0, <1>3, Constants DEF ResetBegin
  <2>4. ctlPc' = "head" /\ ctlSlot' \in Slots
    BY <1>3, ZeroTyped DEF ResetBegin
  <2> QED
    BY <1>0, <2>2, <2>3, <2>4
<1>4. CASE ResetHead
  <2>1. CASE Affected(ctlSlot, ctlOp)
    <3>1. ctlPc' = "tail" /\ UNCHANGED <<ctlSlot, ctlOp, resets>>
      BY <1>4, <2>1 DEF ResetHead
    <3> QED
      BY <1>0, <3>1
  <2>2. CASE ~Affected(ctlSlot, ctlOp)
    BY <1>2, <1>4, <2>2 DEF ResetHead
  <2> QED
    BY <2>1, <2>2
<1>5. CASE ResetTail
  BY <1>2, <1>5 DEF ResetTail
<1>6. CASE Fan \/ \E c \in Clients : Client(c)
  <2>1. UNCHANGED ctlVars
    BY <1>6, Zenon DEF Fan, Client, FanBegin, FanScan, FanStore, FanPublish, Register,
             RegisterChannel, RegisterHead, RegisterTail, Unregister,
             UnregisterChannel, ReadBegin, ReadCopy, ReadAdvance
  <2> QED
    BY <1>1, <2>1
<1>7. CASE UNCHANGED vars
  BY <1>1, <1>7 DEF vars
<1> QED
  BY <1>3, <1>4, <1>5, <1>6, <1>7, Zenon DEF Next, Control

(* the clients, *)
LEMMA ClientTypesKept ==
    ASSUME Types, OwnInv, [Next]_vars
    PROVE  ClientTypes'
<1> USE DEF ClientTypes
<1>0. ClientTypes
  BY DEF Types
<1>1. ASSUME UNCHANGED cliVars PROVE ClientTypes'
  BY <1>0, <1>1 DEF cliVars
<1>2. CASE Fan \/ Control
  <2>1. UNCHANGED cliVars
    BY <1>2, Zenon DEF Fan, Control, FanBegin, FanScan, FanStore, FanPublish,
             ResetBegin, ResetHead, ResetTail
  <2> QED
    BY <1>1, <2>1
<1>3. ASSUME NEW c \in Clients, Client(c) PROVE ClientTypes'
  <2>1. CASE Register(c)
    <3>1. regs' = [regs EXCEPT ![c] = @ + 1] /\ regs[c] < scenario.regs
      BY <2>1 DEF Register
    <3>2. scenario.regs \in 0 .. MaxRegs
      BY ScenarioTyped DEF Types, CtlTypes
    <3>3. regs[c] + 1 \in 0 .. MaxRegs
      BY <1>0, <3>1, <3>2, Constants
    <3>4. regs' \in [Clients -> 0 .. MaxRegs]
      BY <1>0, <3>1, <3>3
    <3>5. UNCHANGED <<rTail, out>>
      BY <2>1 DEF Register
    <3>6. CASE Free = {}
      <4>1. UNCHANGED <<readers_lock, readerId, rPc>>
        BY <2>1, <3>6 DEF Register
      <4> QED
        BY <1>0, <3>4, <3>5, <4>1
    <3>7. CASE Free # {}
      <4>1. \E i \in Slots : readerId' = [readerId EXCEPT ![c] = i]
        BY <2>1, <3>7, FreeFound DEF Register
      <4>2. readers_lock' = c /\ rPc' = [rPc EXCEPT ![c] = "channel"]
        BY <2>1, <3>7 DEF Register, Step
      <4>3. readerId' \in [Clients -> Slots \union {None}]
        BY <1>0, <4>1
      <4> QED
        BY <1>0, <3>4, <3>5, <4>2, <4>3
    <3> QED
      BY <3>6, <3>7
  <2>2. CASE RegisterChannel(c) \/ RegisterHead(c)
    <3>1. UNCHANGED <<readers_lock, readerId, rTail, out, regs>>
      BY <2>2 DEF RegisterChannel, RegisterHead
    <3>2. rPc' = [rPc EXCEPT ![c] = "head"] \/ rPc' = [rPc EXCEPT ![c] = "tail"]
      BY <2>2 DEF RegisterChannel, RegisterHead, Step
    <3> QED
      BY <1>0, <3>1, <3>2
  <2>3. CASE RegisterTail(c)
    BY <1>0, <2>3 DEF RegisterTail, Step
  <2>4. CASE Unregister(c)
    BY <1>0, <2>4 DEF Unregister, Step
  <2>5. CASE UnregisterChannel(c)
    BY <1>0, <2>5 DEF UnregisterChannel, Step
  <2>6. CASE ReadBegin(c)
    <3>1. readerId[c] \in Slots
      BY <1>0, <2>6 DEF ReadBegin
    <3>2. tail[readerId[c]] \in Cells
      BY <3>1 DEF Types, SlotTypes
    <3>3. UNCHANGED <<readers_lock, readerId, out, regs>>
          /\ rTail' = [rTail EXCEPT ![c] = tail[readerId[c]]]
          /\ rPc' = [rPc EXCEPT ![c] = "copy"]
      BY <2>6 DEF ReadBegin, Step
    <3> QED
      BY <1>0, <3>2, <3>3
  <2>7. CASE ReadCopy(c)
    <3>1. readerId[c] \in Slots
      BY <2>7, SlotOfCall DEF ReadCopy
    <3>2. fifo[readerId[c]] \in [Cells -> Numbers]
      BY <3>1 DEF Types, SlotTypes
    <3>3. fifo[readerId[c]][rTail[c]] \in Numbers
      BY <1>0, <3>2
    <3>4. UNCHANGED <<readers_lock, readerId, rTail, regs>>
          /\ out' = [out EXCEPT ![c] = fifo[readerId[c]][rTail[c]]]
          /\ rPc' = [rPc EXCEPT ![c] = "advance"]
      BY <2>7 DEF ReadCopy, Step
    <3> QED
      BY <1>0, <3>3, <3>4
  <2>8. CASE ReadAdvance(c)
    BY <1>0, <2>8 DEF ReadAdvance, Step
  <2> QED
    BY <1>3, <2>1, <2>2, <2>3, <2>4, <2>5, <2>6, <2>7, <2>8, Zenon DEF Client
<1>4. CASE UNCHANGED vars
  BY <1>1, <1>4 DEF vars
<1> QED
  BY <1>2, <1>3, <1>4, Zenon DEF Next

(* The number of packets never falls. *)
LEMMA ProgressGrows ==
    ASSUME Types, [Next]_vars
    PROVE  /\ Len(sentOn) \in Nat /\ Len(sentOn') \in Nat
           /\ InProgress \in Nat /\ InProgress' \in Nat
           /\ Len(sentOn) <= Len(sentOn')
           /\ InProgress <= InProgress'
<1>0. Len(sentOn) \in Nat /\ sentOn \in Seq(Channels)
  BY DEF Types, FanTypes
<1>1. CASE FanBegin
  <2>1. PICK ch \in Channels : sentOn' = Append(sentOn, ch)
    BY <1>1 DEF FanBegin
  <2>2. Len(sentOn') = Len(sentOn) + 1
    BY <1>0, <2>1
  <2> QED
    BY <1>0, <1>1, <2>2 DEF FanBegin, InProgress
<1>2. CASE ~FanBegin
  <2>1. sentOn' = sentOn /\ (fPc' = fPc \/ fPc # "idle")
    BY <1>2, Zenon DEF Next, Fan, Control, Client, vars, fanVars, FanScan, FanStore,
             FanPublish, ResetBegin, ResetHead, ResetTail, Register,
             RegisterChannel, RegisterHead, RegisterTail, Unregister,
             UnregisterChannel, ReadBegin, ReadCopy, ReadAdvance
  <2> QED
    BY <1>0, <2>1 DEF InProgress
<1> QED
  BY <1>1, <1>2

(* the histories, *)
LEMMA HistTypesKept ==
    ASSUME Types, OwnInv, [Next]_vars
    PROVE  HistTypes'
<1> DEFINE Sets == received \in [Clients -> SUBSET Numbers]
                   /\ dropped \in [Clients -> SUBSET Numbers]
           Starts == /\ since \in [Clients -> Nat] /\ complete \in [Clients -> Nat]
                     /\ bound \in [Clients -> Nat]
           Bounds == \A c \in Clients :
                       /\ since[c] <= InProgress /\ bound[c] <= InProgress
                       /\ complete[c] <= Len(sentOn) + 1
<1>0. Sets /\ Starts /\ Bounds
  BY DEF Types, HistTypes
<1>1. /\ Len(sentOn) \in Nat /\ Len(sentOn') \in Nat
      /\ InProgress \in Nat /\ InProgress' \in Nat
      /\ Len(sentOn) <= Len(sentOn')
      /\ InProgress <= InProgress'
  BY ProgressGrows
<1>2. Len(sentOn) \in Numbers
  BY PacketNumber
<1>3. ASSUME UNCHANGED histVars PROVE HistTypes'
  <2>1. Sets' /\ Starts'
    BY <1>0, <1>3 DEF histVars
  <2>2. UNCHANGED <<since, bound, complete>>
    BY <1>3 DEF histVars
  <2>3. ASSUME NEW c \in Clients
        PROVE  since'[c] <= InProgress' /\ bound'[c] <= InProgress'
               /\ complete'[c] <= Len(sentOn') + 1
    <3>1. since[c] \in Nat /\ bound[c] \in Nat /\ complete[c] \in Nat
      BY <1>0
    <3>2. since[c] <= InProgress /\ bound[c] <= InProgress /\ complete[c] <= Len(sentOn) + 1
      BY <1>0
    <3> QED
      BY <1>1, <2>2, <3>1, <3>2
  <2> QED
    BY <2>1, <2>3 DEF HistTypes
<1>4. ASSUME Sets', Starts', InProgress' = InProgress, sentOn' = sentOn,
             \A c \in Clients : since'[c] \in {since[c], InProgress},
             \A c \in Clients : bound'[c] \in {bound[c], since[c], 0},
             \A c \in Clients : complete'[c] \in {complete[c], 0, Len(sentOn) + 1}
      PROVE  HistTypes'
  <2>1. ASSUME NEW c \in Clients
        PROVE  since'[c] <= InProgress' /\ bound'[c] <= InProgress'
               /\ complete'[c] <= Len(sentOn') + 1
    <3>1. since[c] \in Nat /\ bound[c] \in Nat /\ complete[c] \in Nat
      BY <1>0
    <3>2. since[c] <= InProgress /\ bound[c] <= InProgress /\ complete[c] <= Len(sentOn) + 1
      BY <1>0
    <3> HIDE DEF Sets, Starts, Bounds
    <3>3. since'[c] <= InProgress'
      BY <1>1, <1>4, <3>1, <3>2
    <3>4. bound'[c] <= InProgress'
      BY <1>1, <1>4, <3>1, <3>2
    <3>5. complete'[c] <= Len(sentOn') + 1
      BY <1>1, <1>4, <3>1, <3>2
    <3> QED
      BY <3>3, <3>4, <3>5
  <2> QED
    BY <1>4, <2>1 DEF HistTypes
<1>5. CASE FanBegin \/ FanScan \/ FanPublish \/ ResetBegin \/ UNCHANGED vars
  <2>1. UNCHANGED histVars
    BY <1>5, Zenon DEF FanBegin, FanScan, FanPublish, ResetBegin, vars
  <2> QED
    BY <1>3, <2>1
<1>6. CASE FanStore
  <2>1. UNCHANGED <<received, since, bound, complete, sentOn>>
    BY <1>6 DEF FanStore
  <2>2. \/ dropped' = dropped
        \/ dropped' = [c \in Clients |-> IF c \in ReadersOf(fSlot)
                         THEN dropped[c] \union {Len(sentOn)} ELSE dropped[c]]
    BY <1>6 DEF FanStore
  <2>3. dropped' \in [Clients -> SUBSET Numbers]
    <3> HIDE DEF Starts, Bounds
    <3> QED
      BY <1>0, <1>2, <2>2
  <2>4. Sets' /\ Starts'
    BY <1>0, <2>1, <2>3
  <2>5. ASSUME NEW c \in Clients
        PROVE  since'[c] <= InProgress' /\ bound'[c] <= InProgress'
               /\ complete'[c] <= Len(sentOn') + 1
    <3>1. since[c] \in Nat /\ bound[c] \in Nat /\ complete[c] \in Nat
      BY <1>0
    <3>2. since[c] <= InProgress /\ bound[c] <= InProgress /\ complete[c] <= Len(sentOn) + 1
      BY <1>0
    <3> QED
      BY <1>1, <2>1, <3>1, <3>2
  <2> QED
    BY <2>4, <2>5 DEF HistTypes
<1>7. CASE ResetHead
  <2>1. UNCHANGED <<fPc, sentOn, dropped, bound, complete>>
    BY <1>7 DEF ResetHead, fanVars
  <2>2. CASE UNCHANGED <<since, received>>
    <3>1. UNCHANGED histVars
      BY <2>1, <2>2 DEF histVars
    <3> QED
      BY <1>3, <3>1
  <2>3. CASE Affected(ctlSlot, ctlOp)
    <3>1. /\ since' = [c \in Clients |-> IF c \in ReadersOf(ctlSlot)
                                           THEN InProgress ELSE since[c]]
          /\ received' = [c \in Clients |-> IF c \in ReadersOf(ctlSlot)
                                              THEN {} ELSE received[c]]
      BY <1>7, <2>3 DEF ResetHead
    <3>2. received' \in [Clients -> SUBSET Numbers]
      BY <1>0, <3>1
    <3>3. since' \in [Clients -> Nat]
      BY <1>0, <1>1, <3>1
    <3>4. Sets' /\ Starts'
      BY <1>0, <2>1, <3>2, <3>3
    <3>5. InProgress' = InProgress
      BY <2>1 DEF InProgress
    <3> HIDE DEF Sets, Starts, Bounds
    <3> QED
      BY <1>4, <2>1, <3>1, <3>4, <3>5
  <2> QED
    BY <1>7, <2>2, <2>3 DEF ResetHead
<1>8. CASE ResetTail
  <2>1. UNCHANGED <<fPc, sentOn, dropped, bound, since, received>>
    BY <1>8 DEF ResetTail, fanVars
  <2>2. complete' = [c \in Clients |-> IF c \in ReadersOf(ctlSlot)
                                      THEN Len(sentOn) + 1 ELSE complete[c]]
    BY <1>8 DEF ResetTail
  <2>3. complete' \in [Clients -> Nat]
    BY <1>0, <1>1, <2>2
  <2>4. Sets' /\ Starts'
    BY <1>0, <2>1, <2>3
  <2>5. InProgress' = InProgress
    BY <2>1 DEF InProgress
  <2> HIDE DEF Sets, Starts, Bounds
  <2> QED
    BY <1>4, <2>1, <2>2, <2>4, <2>5
<1>9. ASSUME NEW c \in Clients, Client(c) PROVE HistTypes'
  <2>1. CASE Register(c)
    <3>1. CASE Free = {}
      <4>1. UNCHANGED histVars
        BY <2>1, <3>1 DEF Register, histVars
      <4> QED
        BY <1>3, <4>1
    <3>2. CASE Free # {}
      <4>1. /\ received' = [received EXCEPT ![c] = {}]
            /\ dropped' = [dropped EXCEPT ![c] = {}]
            /\ since' = [since EXCEPT ![c] = InProgress]
            /\ complete' = [complete EXCEPT ![c] = 0]
            /\ UNCHANGED <<bound, fPc, sentOn>>
        BY <2>1, <3>2 DEF Register, fanVars
      <4>2. Sets'
        BY <1>0, <4>1
      <4>3. Starts'
        BY <1>0, <1>1, <4>1
      <4>4. InProgress' = InProgress
        BY <4>1 DEF InProgress
      <4>5. \A d \in Clients : since'[d] \in {since[d], InProgress}
        BY <1>0, <4>1
      <4>6. \A d \in Clients : complete'[d] \in {complete[d], 0, Len(sentOn) + 1}
        BY <1>0, <4>1
      <4> HIDE DEF Sets, Starts, Bounds
      <4> QED
        BY <1>4, <4>1, <4>2, <4>3, <4>4, <4>5, <4>6
    <3> QED
      BY <3>1, <3>2
  <2>2. CASE RegisterChannel(c) \/ RegisterHead(c) \/ Unregister(c) \/ ReadCopy(c)
    <3>1. UNCHANGED histVars
      BY <2>2, Zenon DEF RegisterChannel, RegisterHead, Unregister, ReadCopy
    <3> QED
      BY <1>3, <3>1
  <2>3. CASE RegisterTail(c)
    <3>1. complete' = [complete EXCEPT ![c] = Len(sentOn) + 1]
          /\ UNCHANGED <<received, dropped, since, bound, fPc, sentOn>>
      BY <2>3 DEF RegisterTail, fanVars
    <3>2. Sets'
      BY <1>0, <3>1
    <3>3. Starts'
      BY <1>0, <1>1, <3>1
    <3>4. InProgress' = InProgress
      BY <3>1 DEF InProgress
    <3>5. \A d \in Clients : complete'[d] \in {complete[d], 0, Len(sentOn) + 1}
      BY <1>0, <3>1
    <3> HIDE DEF Sets, Starts, Bounds
    <3> QED
      BY <1>4, <3>1, <3>2, <3>3, <3>4, <3>5
  <2>4. CASE ReadBegin(c)
    <3>1. bound' = [bound EXCEPT ![c] = IF ctlPc = "idle" THEN since[c] ELSE 0]
          /\ UNCHANGED <<received, dropped, since, complete, fPc, sentOn>>
      BY <2>4 DEF ReadBegin, fanVars
    <3>2. Sets'
      BY <1>0, <3>1
    <3>3. Starts'
      BY <1>0, <3>1
    <3>4. InProgress' = InProgress
      BY <3>1 DEF InProgress
    <3>5. \A d \in Clients : bound'[d] \in {bound[d], since[d], 0}
      BY <1>0, <3>1
    <3> HIDE DEF Sets, Starts, Bounds
    <3> QED
      BY <1>4, <3>1, <3>2, <3>3, <3>4, <3>5
  <2>5. CASE UnregisterChannel(c) \/ ReadAdvance(c)
    <3>1. UNCHANGED <<dropped, since, bound, complete, fPc, sentOn>>
      BY <2>5 DEF UnregisterChannel, ReadAdvance, fanVars
    <3>2. out[c] \in Numbers
      BY DEF Types, ClientTypes
    <3>3. received' = [received EXCEPT ![c] = {}]
          \/ received' = [received EXCEPT ![c] = @ \union {out[c]}]
      BY <2>5 DEF UnregisterChannel, ReadAdvance
    <3>4. received' \in [Clients -> SUBSET Numbers]
      BY <1>0, <3>2, <3>3
    <3>5. Sets' /\ Starts'
      BY <1>0, <3>1, <3>4
    <3>6. InProgress' = InProgress
      BY <3>1 DEF InProgress
    <3> HIDE DEF Sets, Starts, Bounds
    <3> QED
      BY <1>4, <3>1, <3>5, <3>6
  <2> QED
    BY <1>9, <2>1, <2>2, <2>3, <2>4, <2>5, Zenon DEF Client
<1> QED
  BY <1>5, <1>6, <1>7, <1>8, <1>9, Zenon DEF Next, Fan, Control

(* and so everything. *)
LEMMA TypesKept ==
    ASSUME Types, OwnInv, [Next]_vars
    PROVE  Types'
  BY SlotTypesKept, FanTypesKept, CtlTypesKept, ClientTypesKept, HistTypesKept
     DEF Types
-----------------------------------------------------------------------------
(* Slots have one owner each. *)

(* Every step leaves each slot with one owner. *)
LEMMA OwnInvKept ==
    ASSUME Types, OwnInv, [Next]_vars
    PROVE  OwnInv'
<1>0. /\ active \in [Slots -> BOOLEAN]
      /\ channel \in [Slots -> Channels \union {None}]
      /\ readers_lock \in Clients \union {None}
      /\ readerId \in [Clients -> Slots \union {None}]
      /\ rPc \in [Clients -> {"idle", "channel", "head", "tail", "unchannel",
                            "copy", "advance"}]
      /\ since \in [Clients -> Nat]
  BY DEF Types, SlotTypes, ClientTypes, HistTypes
<1>1. (\A c \in Clients : OwnsSlot(c)) /\ SlotsApart /\ FreeInv
  BY DEF OwnInv
<1>2. None \notin Slots /\ None \notin Clients
      /\ \A c \in Clients : ChannelOf[c] # None
  BY Constants
<1>3. InProgress \in Nat /\ InProgress > 0
  BY PacketNumber DEF InProgress
<1>4. ASSUME UNCHANGED <<active, channel, readers_lock, readerId, rPc>>,
             \A c \in Clients : since'[c] \in {since[c], InProgress}
      PROVE  OwnInv'
  <2>1. ASSUME NEW c \in Clients PROVE OwnsSlot(c)'
    BY <1>1, <1>3, <1>4 DEF OwnsSlot, Registered, Registering
  <2>2. SlotsApart' /\ FreeInv'
    BY <1>1, <1>4 DEF SlotsApart, FreeInv, Registered
  <2> QED
    BY <2>1, <2>2 DEF OwnInv
<1>5. CASE FanBegin \/ FanScan \/ FanStore \/ FanPublish \/ ResetBegin
           \/ ResetTail \/ UNCHANGED vars
  <2>1. UNCHANGED <<active, channel, readers_lock, readerId, rPc, since>>
    BY <1>5, Zenon DEF FanBegin, FanScan, FanStore, FanPublish, ResetBegin, ResetTail,
             vars, slotVars, cliVars, histVars
  <2> QED
    BY <1>4, <2>1, Zenon
<1>6. CASE ResetHead
  <2>1. UNCHANGED <<active, channel, readers_lock, readerId, rPc>>
    BY <1>6, Zenon DEF ResetHead, cliVars
  <2>2. \/ since' = since
        \/ since' = [c \in Clients |-> IF c \in ReadersOf(ctlSlot)
                                       THEN InProgress ELSE since[c]]
    BY <1>6 DEF ResetHead
  <2>3. \A c \in Clients : since'[c] \in {since[c], InProgress}
    BY <2>2
  <2> QED
    BY <1>4, <2>1, <2>3, Zenon
<1>7. ASSUME NEW c \in Clients, Client(c) PROVE OwnInv'
  <2>1. CASE Register(c)
    <3>1. CASE Free = {}
      <4>1. UNCHANGED <<active, channel, readers_lock, readerId, rPc, since>>
        BY <2>1, <3>1 DEF Register
      <4> QED
        BY <1>4, <4>1, Zenon
    <3>2. CASE Free # {}
      <4> DEFINE i == CHOOSE j \in Free : \A k \in Free : j <= k
      <4>1. /\ readers_lock = None /\ readers_lock' = c /\ channel' = channel
            /\ readerId' = [readerId EXCEPT ![c] = i]
            /\ active' = [active EXCEPT ![i] = TRUE]
            /\ rPc' = [rPc EXCEPT ![c] = "channel"] /\ rPc[c] = "idle"
            /\ since' = [since EXCEPT ![c] = InProgress]
        BY <2>1, <3>2 DEF Register, Step
      <4>2. i \in Slots /\ ~active[i]
        BY <3>2, FreeFound
      <4> HIDE DEF i
      <4>3. \A d \in Clients : ~Registering(d) /\ rPc[d] # "unchannel"
        BY <1>1, <1>2, <4>1 DEF OwnsSlot, Registering
      <4>4. \A j \in Slots : ~active[j] => channel[j] = None
        BY <1>1, <4>3 DEF FreeInv
      <4>5. \A d \in Clients : Registered(d) => active[readerId[d]] /\ readerId[d] # i
        BY <1>1, <4>2, <4>3 DEF OwnsSlot
      <4>6. ASSUME NEW d \in Clients PROVE OwnsSlot(d)'
        <5>1. CASE d = c
          BY <1>0, <1>2, <1>3, <4>1, <4>2, <4>4, <5>1 DEF OwnsSlot, Registered, Registering
        <5>2. CASE d # c
          <6>1. rPc'[d] = rPc[d] /\ readerId'[d] = readerId[d] /\ since'[d] = since[d]
            BY <1>0, <4>1, <5>2
          <6>2. ~Registering(d)' /\ readers_lock' # d
            BY <4>1, <4>3, <5>2, <6>1 DEF Registering
          <6>3. Registered(d) => active'[readerId[d]] = active[readerId[d]]
            BY <1>0, <4>1, <4>5 DEF Registered
          <6> QED
            BY <1>1, <4>1, <6>1, <6>2, <6>3 DEF OwnsSlot, Registered
        <5> QED
          BY <5>1, <5>2
      <4>7. SlotsApart'
        BY <1>0, <1>1, <1>2, <4>1, <4>2, <4>5 DEF SlotsApart, Registered
      <4>8. FreeInv'
        BY <1>0, <4>1, <4>4 DEF FreeInv
      <4> QED
        BY <4>6, <4>7, <4>8 DEF OwnInv
    <3> QED
      BY <3>1, <3>2
  <2>2. CASE RegisterChannel(c)
    <3> DEFINE i == readerId[c]
    <3>1. /\ channel' = [channel EXCEPT ![i] = ChannelOf[c]]
          /\ rPc[c] = "channel" /\ rPc' = [rPc EXCEPT ![c] = "head"]
          /\ UNCHANGED <<active, readers_lock, readerId, since>>
      BY <2>2 DEF RegisterChannel, Step, histVars
    <3>2. i \in Slots /\ Registered(c) /\ active[i] /\ readers_lock = c
      BY <1>0, <1>1, <3>1 DEF OwnsSlot, Registered, Registering
    <3> HIDE DEF i
    <3>3. \A d \in Clients : d # c => readerId[d] # i
      BY <1>0, <1>1, <3>2 DEF SlotsApart, Registered, i
    <3>4. ASSUME NEW d \in Clients PROVE OwnsSlot(d)'
      <4>1. CASE d = c
        BY <1>0, <1>1, <1>2, <3>1, <3>2, <4>1 DEF OwnsSlot, Registered, Registering, i
      <4>2. CASE d # c
        <5>1. rPc'[d] = rPc[d] /\ (Registered(d) => channel'[readerId[d]] = channel[readerId[d]])
          BY <1>0, <3>1, <3>3, <4>2 DEF Registered
        <5> QED
          BY <1>1, <3>1, <5>1 DEF OwnsSlot, Registered, Registering
      <4> QED
        BY <4>1, <4>2
    <3>5. SlotsApart'
      BY <1>1, <3>1 DEF SlotsApart, Registered
    <3>6. FreeInv'
      <4>1. ASSUME NEW j \in Slots, ~active'[j]
            PROVE  channel'[j] = None \/ \E d \in Clients : rPc'[d] = "unchannel" /\ readerId'[d] = j
        <5>1. j # i /\ channel'[j] = channel[j]
          BY <1>0, <3>1, <3>2, <4>1
        <5>2. \A d \in Clients : rPc[d] = "unchannel" => rPc'[d] = "unchannel"
          BY <1>0, <3>1
        <5> QED
          BY <1>1, <3>1, <4>1, <5>1, <5>2 DEF FreeInv
      <4> QED
        BY <4>1 DEF FreeInv
    <3> QED
      BY <3>4, <3>5, <3>6 DEF OwnInv
  <2>3. CASE RegisterHead(c) \/ RegisterTail(c) \/ ReadBegin(c) \/ ReadCopy(c)
             \/ ReadAdvance(c)
    <3>1. UNCHANGED <<active, channel, readerId, since>>
      BY <2>3, Zenon DEF RegisterHead, RegisterTail, ReadBegin, ReadCopy, ReadAdvance,
               slotVars, histVars
    <3>2. \E l \in {"idle", "tail", "copy", "advance"} : rPc' = [rPc EXCEPT ![c] = l]
      BY <2>3 DEF RegisterHead, RegisterTail, ReadBegin, ReadCopy, ReadAdvance, Step
    <3>3. rPc[c] \notin {"channel", "unchannel"} /\ Registered(c)
      BY <1>1, <2>3 DEF RegisterHead, RegisterTail, ReadBegin, ReadCopy, ReadAdvance,
         OwnsSlot, Registered
    <3>4. Registering(c)' <=> readers_lock' = c
      <4>1. CASE RegisterHead(c)
        <5>1. rPc[c] = "head" /\ rPc' = [rPc EXCEPT ![c] = "tail"] /\ readers_lock' = readers_lock
          BY <4>1 DEF RegisterHead, Step
        <5> QED
          BY <1>0, <1>1, <5>1 DEF OwnsSlot, Registering
      <4>2. CASE RegisterTail(c)
        <5>1. rPc' = [rPc EXCEPT ![c] = "idle"] /\ readers_lock' = None
          BY <4>2 DEF RegisterTail, Step
        <5> QED
          BY <1>0, <1>2, <5>1 DEF Registering
      <4>3. CASE ReadBegin(c) \/ ReadCopy(c) \/ ReadAdvance(c)
        <5>1. rPc[c] \in {"idle", "copy", "advance"} /\ readers_lock' = readers_lock
          BY <4>3 DEF ReadBegin, ReadCopy, ReadAdvance
        <5>2. \E l \in {"idle", "copy", "advance"} : rPc' = [rPc EXCEPT ![c] = l]
          BY <4>3 DEF ReadBegin, ReadCopy, ReadAdvance, Step
        <5> QED
          BY <1>0, <1>1, <5>1, <5>2 DEF OwnsSlot, Registering
      <4> QED
        BY <2>3, <4>1, <4>2, <4>3
    <3>5. ASSUME NEW d \in Clients, d # c
          PROVE  rPc'[d] = rPc[d] /\ (Registering(d) <=> readers_lock' = d)
      <4>1. rPc'[d] = rPc[d]
        BY <1>0, <3>2, <3>5
      <4>2. readers_lock' = readers_lock \/ RegisterTail(c)
        BY <2>3 DEF RegisterHead, ReadBegin, ReadCopy, ReadAdvance
      <4>3. CASE RegisterTail(c)
        <5>1. rPc[c] = "tail" /\ readers_lock' = None
          BY <4>3 DEF RegisterTail
        <5>2. readers_lock = c
          BY <1>1, <5>1 DEF OwnsSlot, Registering
        <5> QED
          BY <1>1, <1>2, <3>5, <4>1, <5>1, <5>2 DEF OwnsSlot
      <4> QED
        BY <1>1, <4>1, <4>2, <4>3 DEF OwnsSlot
    <3>6. ASSUME NEW d \in Clients PROVE OwnsSlot(d)'
      <4>1. CASE d = c
        <5>1. rPc'[c] \notin {"channel", "unchannel"}
          BY <1>0, <3>2
        <5> QED
          BY <1>1, <3>1, <3>3, <3>4, <4>1, <5>1 DEF OwnsSlot, Registered
      <4>2. CASE d # c
        BY <1>1, <3>1, <3>5, <4>2 DEF OwnsSlot, Registered, Registering
      <4> QED
        BY <4>1, <4>2
    <3>7. SlotsApart'
      BY <1>1, <3>1 DEF SlotsApart, Registered
    <3>8. FreeInv'
      BY <1>1, <3>1, <3>3, <3>5 DEF FreeInv
    <3> QED
      BY <3>6, <3>7, <3>8 DEF OwnInv
  <2>4. CASE Unregister(c)
    <3> DEFINE i == readerId[c]
    <3>1. /\ active' = [active EXCEPT ![i] = FALSE] /\ i # None
          /\ rPc[c] = "idle" /\ rPc' = [rPc EXCEPT ![c] = "unchannel"]
          /\ readers_lock = None /\ readers_lock' = c
          /\ UNCHANGED <<channel, readerId, since>>
      BY <2>4 DEF Unregister, Step, histVars
    <3>2. i \in Slots /\ Registered(c)
      BY <1>0, <3>1 DEF Registered
    <3> HIDE DEF i
    <3>3. \A d \in Clients : d # c => readerId[d] # i
      BY <1>0, <1>1, <3>2 DEF SlotsApart, Registered, i
    <3>4. \A d \in Clients : ~Registering(d)
      BY <1>1, <1>2, <3>1 DEF OwnsSlot
    <3>5. ASSUME NEW d \in Clients PROVE OwnsSlot(d)'
      <4>1. CASE d = c
        BY <1>0, <1>1, <3>1, <3>2, <4>1 DEF OwnsSlot, Registered, Registering, i
      <4>2. CASE d # c
        <5>1. rPc'[d] = rPc[d] /\ (Registered(d) => active'[readerId[d]] = active[readerId[d]])
          BY <1>0, <3>1, <3>3, <4>2 DEF Registered
        <5>2. readers_lock' # d /\ ~Registering(d)'
          BY <3>1, <3>4, <4>2, <5>1 DEF Registering
        <5> QED
          BY <1>1, <3>1, <5>1, <5>2 DEF OwnsSlot, Registered
      <4> QED
        BY <4>1, <4>2
    <3>6. SlotsApart'
      BY <1>1, <3>1 DEF SlotsApart, Registered
    <3>7. FreeInv'
      <4>1. ASSUME NEW j \in Slots, ~active'[j]
            PROVE  channel'[j] = None \/ \E d \in Clients : rPc'[d] = "unchannel" /\ readerId'[d] = j
        <5>1. CASE j = i
          <6>1. rPc'[c] = "unchannel" /\ readerId'[c] = j
            BY <1>0, <3>1, <5>1 DEF i
          <6> QED
            BY <6>1
        <5>2. CASE j # i
          <6>1. ~active[j]
            BY <1>0, <3>1, <4>1, <5>2
          <6>2. \A d \in Clients : rPc[d] # "unchannel"
            BY <3>4 DEF Registering
          <6> QED
            BY <1>1, <3>1, <6>1, <6>2 DEF FreeInv
        <5> QED
          BY <5>1, <5>2
      <4> QED
        BY <4>1 DEF FreeInv
    <3> QED
      BY <3>5, <3>6, <3>7 DEF OwnInv
  <2>5. CASE UnregisterChannel(c)
    <3> DEFINE i == readerId[c]
    <3>1. /\ channel' = [channel EXCEPT ![i] = None]
          /\ readerId' = [readerId EXCEPT ![c] = None]
          /\ rPc[c] = "unchannel" /\ rPc' = [rPc EXCEPT ![c] = "idle"]
          /\ readers_lock' = None
          /\ UNCHANGED <<active, since>>
      BY <2>5 DEF UnregisterChannel, Step
    <3>2. i \in Slots /\ Registered(c) /\ readers_lock = c
      BY <1>0, <1>1, <3>1 DEF OwnsSlot, Registered, Registering
    <3> HIDE DEF i
    <3>3. \A d \in Clients : d # c => readerId[d] # i
      BY <1>0, <1>1, <3>2 DEF SlotsApart, Registered, i
    <3>4. \A d \in Clients : d # c => ~Registering(d)
      BY <1>1, <3>2 DEF OwnsSlot
    <3>5. ASSUME NEW d \in Clients PROVE OwnsSlot(d)'
      <4>1. CASE d = c
        BY <1>0, <1>2, <3>1, <4>1 DEF OwnsSlot, Registered, Registering
      <4>2. CASE d # c
        <5>1. rPc'[d] = rPc[d] /\ readerId'[d] = readerId[d]
              /\ (Registered(d) => channel'[readerId[d]] = channel[readerId[d]])
          BY <1>0, <3>1, <3>3, <4>2 DEF Registered
        <5>2. readers_lock' # d /\ ~Registering(d)'
          BY <1>2, <3>1, <3>4, <4>2, <5>1 DEF Registering
        <5> QED
          BY <1>1, <3>1, <5>1, <5>2 DEF OwnsSlot, Registered
      <4> QED
        BY <4>1, <4>2
    <3>6. SlotsApart'
      BY <1>0, <1>1, <3>1 DEF SlotsApart, Registered
    <3>7. FreeInv'
      <4>1. ASSUME NEW j \in Slots, ~active'[j]
            PROVE  channel'[j] = None
        <5>1. CASE j = i
          BY <1>0, <3>1, <5>1
        <5>2. CASE j # i
          <6>1. channel'[j] = channel[j] /\ ~active[j]
            BY <1>0, <3>1, <4>1, <5>2
          <6>2. \A d \in Clients : rPc[d] = "unchannel" => readerId[d] # j
            BY <3>4, <5>2 DEF Registering, i
          <6> QED
            BY <1>1, <6>1, <6>2 DEF FreeInv
        <5> QED
          BY <5>1, <5>2
      <4> QED
        BY <4>1 DEF FreeInv
    <3> QED
      BY <3>5, <3>6, <3>7 DEF OwnInv
  <2> QED
    BY <1>7, <2>1, <2>2, <2>3, <2>4, <2>5, Zenon DEF Client
<1> QED
  BY <1>5, <1>6, <1>7, Zenon DEF Next, Fan, Control
-----------------------------------------------------------------------------
(* Calls take turns, where they do. *)

(* Every step leaves calls in their turns. *)
LEMMA TurnInvKept ==
    ASSUME Types, OwnInv, TurnInv, [Next]_vars
    PROVE  TurnInv'
<1>0. scenario' = scenario /\ rPc \in [Clients -> {"idle", "channel", "head", "tail",
                                         "unchannel", "copy", "advance"}]
  BY ScenarioKept DEF Types, ClientTypes
<1>1. Serial' = Serial
  BY <1>0 DEF Serial
<1>2. Serial /\ MayBegin => fPc = "idle" /\ ctlPc = "idle"
                            /\ \A c \in Clients : rPc[c] = "idle"
  BY DEF Serial, MayBegin
<1>3. CASE Fan
  <2>1. UNCHANGED <<ctlPc, rPc>>
    BY <1>3, Zenon DEF Fan, FanBegin, FanScan, FanStore, FanPublish, ctlVars, cliVars
  <2>2. fPc # "idle" \/ MayBegin
    BY <1>3 DEF Fan, FanBegin, FanScan, FanStore, FanPublish
  <2> QED
    BY <1>0, <1>1, <1>2, <2>1, <2>2 DEF TurnInv
<1>4. CASE Control
  <2>1. UNCHANGED <<fPc, rPc>>
    BY <1>4, Zenon DEF Control, ResetBegin, ResetHead, ResetTail, fanVars, cliVars
  <2>2. ctlPc # "idle" \/ MayBegin
    BY <1>4 DEF Control, ResetBegin, ResetHead, ResetTail
  <2>3. scenario.ops = {} => ctlPc' = "idle"
    <3>1. CASE ResetBegin
      <4>1. scenario.ops # {}
        BY <3>1 DEF ResetBegin
      <4> QED
        BY <4>1
    <3>2. CASE ResetHead \/ ResetTail
      <4>1. ctlPc # "idle"
        BY <3>2 DEF ResetHead, ResetTail
      <4> QED
        BY <4>1 DEF TurnInv
    <3> QED
      BY <1>4, <3>1, <3>2 DEF Control
  <2> QED
    BY <1>0, <1>1, <1>2, <2>1, <2>2, <2>3 DEF TurnInv
<1>5. ASSUME NEW c \in Clients, Client(c) PROVE TurnInv'
  <2>1. UNCHANGED <<fPc, ctlPc>>
    BY <1>5, Zenon DEF Client, fanVars, ctlVars, Register, RegisterChannel,
             RegisterHead, RegisterTail, Unregister, UnregisterChannel, ReadBegin,
             ReadCopy, ReadAdvance
  <2>2. rPc[c] # "idle" \/ MayBegin
    BY <1>5 DEF Client, Register, RegisterChannel, RegisterHead, RegisterTail,
             Unregister, UnregisterChannel, ReadBegin, ReadCopy, ReadAdvance
  <2>3. \/ rPc' = rPc
        \/ \E l \in {"idle", "channel", "head", "tail", "copy", "advance"} :
             rPc' = [rPc EXCEPT ![c] = l]
        \/ scenario.ops # {} /\ rPc' = [rPc EXCEPT ![c] = "unchannel"]
    <3>1. CASE Unregister(c)
      BY <3>1 DEF Unregister, Step
    <3>2. CASE Register(c)
      <4>1. rPc' = rPc \/ rPc' = [rPc EXCEPT ![c] = "channel"]
        BY <3>2 DEF Register, Step
      <4> QED
        BY <4>1
    <3>3. CASE RegisterChannel(c) \/ RegisterHead(c) \/ RegisterTail(c)
               \/ UnregisterChannel(c) \/ ReadBegin(c) \/ ReadCopy(c) \/ ReadAdvance(c)
      BY <3>3, Zenon DEF Step, RegisterChannel, RegisterHead, RegisterTail,
         UnregisterChannel, ReadBegin, ReadCopy, ReadAdvance
    <3> QED
      BY <1>5, <3>1, <3>2, <3>3, Zenon DEF Client
  <2>4. \A d \in Clients : d # c => rPc'[d] = rPc[d]
    BY <1>0, <2>3
  <2>5. Serial => fPc = "idle" /\ ctlPc = "idle" /\ \A d \in Clients : d # c => rPc[d] = "idle"
    BY <1>2, <2>2 DEF TurnInv
  <2>6. scenario.ops = {} => rPc'[c] # "unchannel"
    BY <1>0, <2>3 DEF TurnInv
  <2>7. scenario.ops = {} => ctlPc' = "idle" /\ \A d \in Clients : rPc'[d] # "unchannel"
    BY <2>1, <2>4, <2>6 DEF TurnInv
  <2>8. Serial =>
         /\ fPc' = "idle" /\ ctlPc' = "idle"
         /\ \A d, e \in Clients : rPc'[d] # "idle" /\ rPc'[e] # "idle" => d = e
    BY <2>1, <2>4, <2>5
  <2> QED
    BY <1>0, <1>1, <2>7, <2>8 DEF TurnInv
<1>6. CASE UNCHANGED vars
  <2>1. UNCHANGED <<fPc, ctlPc, rPc>>
    BY <1>6 DEF vars, fanVars, ctlVars, cliVars
  <2> QED
    BY <1>0, <1>1, <2>1 DEF TurnInv
<1> QED
  BY <1>3, <1>4, <1>5, <1>6, Zenon DEF Next
-----------------------------------------------------------------------------
(* Who can be in a call when a step is taken. *)
LEMMA Turns ==
    ASSUME Types, TurnInv, Orderly
    PROVE  /\ Fan /\ Serial => ctlPc = "idle" /\ \A c \in Clients : rPc[c] = "idle"
           /\ Control => Serial /\ fPc = "idle" /\ \A c \in Clients : rPc[c] = "idle"
           /\ \A c \in Clients : Client(c) /\ Serial =>
                /\ fPc = "idle" /\ ctlPc = "idle"
                /\ \A d \in Clients : d # c => rPc[d] = "idle"
           /\ ~Serial => /\ ctlPc = "idle"
                         /\ \A c \in Clients : ~Unregister(c) /\ ~UnregisterChannel(c)
<1>1. Serial /\ MayBegin => fPc = "idle" /\ ctlPc = "idle"
                            /\ \A c \in Clients : rPc[c] = "idle"
  BY DEF Serial, MayBegin
<1>2. ~Serial => scenario.ops = {} /\ ctlPc = "idle"
                 /\ \A c \in Clients : rPc[c] # "unchannel"
  BY DEF Orderly, TurnInv
<1>3. Fan => fPc # "idle" \/ MayBegin
  BY DEF Fan, FanBegin, FanScan, FanStore, FanPublish
<1>4. Control => (ctlPc # "idle" \/ (MayBegin /\ scenario.ops # {}))
  <2>1. ResetBegin => MayBegin /\ scenario.ops # {}
    BY DEF ResetBegin
  <2> QED
    BY <2>1 DEF Control, ResetHead, ResetTail
<1>5. ASSUME NEW c \in Clients, Client(c) PROVE rPc[c] # "idle" \/ MayBegin
  BY <1>5 DEF Client, Register, RegisterChannel, RegisterHead, RegisterTail,
             Unregister, UnregisterChannel, ReadBegin, ReadCopy, ReadAdvance
<1>6. ASSUME NEW c \in Clients, ~Serial PROVE ~Unregister(c) /\ ~UnregisterChannel(c)
  BY <1>2, <1>6 DEF Unregister, UnregisterChannel
<1> QED
  BY <1>1, <1>2, <1>3, <1>4, <1>5, <1>6 DEF TurnInv

(* Whether calls may overlap does not change. *)
LEMMA OrderlyKept ==
    ASSUME [Next]_vars
    PROVE  Serial' = Serial /\ Orderly' = Orderly
  BY ScenarioKept DEF Serial, Orderly

(* Fan-out stores packets of the slot's channel only. *)
LEMMA FanInvKept ==
    ASSUME Types, OwnInv, TurnInv, Orderly, FanInv, [Next]_vars
    PROVE  FanInv'
<1>0. /\ active \in [Slots -> BOOLEAN]
      /\ channel \in [Slots -> Channels \union {None}]
      /\ sentOn \in Seq(Channels) /\ fSlot \in Slots
      /\ readerId \in [Clients -> Slots \union {None}]
  BY DEF Types, SlotTypes, FanTypes, ClientTypes
<1>1. CASE Fan
  <2>1. CASE FanBegin
    BY <2>1 DEF FanBegin, FanInv
  <2>2. CASE FanScan
    <3>1. CASE Matches(fSlot)
      <4>1. UNCHANGED <<active, channel, sentOn, fSlot>>
        BY <2>2, <3>1 DEF FanScan, slotVars
      <4> QED
        BY <3>1, <4>1 DEF FanInv, Matches
    <3>2. CASE ~Matches(fSlot)
      BY <2>2, <3>2 DEF FanScan, NextSlot, FanInv
    <3> QED
      BY <3>1, <3>2
  <2>3. CASE FanStore
    <3>1. CASE Next1(fHead) # tail[fSlot]
      BY <2>3, <3>1 DEF FanStore, FanInv
    <3>2. CASE Next1(fHead) = tail[fSlot]
      BY <2>3, <3>2 DEF FanStore, NextSlot, FanInv
    <3> QED
      BY <3>1, <3>2
  <2>4. CASE FanPublish
    BY <2>4 DEF FanPublish, NextSlot, FanInv
  <2> QED
    BY <1>1, <2>1, <2>2, <2>3, <2>4 DEF Fan
<1>2. CASE Control \/ UNCHANGED vars
  <2>1. UNCHANGED <<active, channel, sentOn, fSlot, fPc>>
    BY <1>2, Zenon DEF Control, ResetBegin, ResetHead, ResetTail, vars, slotVars, fanVars
  <2> QED
    BY <2>1 DEF FanInv
<1>3. ASSUME NEW c \in Clients, Client(c) PROVE FanInv'
  <2>1. UNCHANGED <<fPc, fSlot, sentOn>>
    BY <1>3, Zenon DEF Client, fanVars, Register, RegisterChannel,
             RegisterHead, RegisterTail, Unregister, UnregisterChannel, ReadBegin,
             ReadCopy, ReadAdvance
  <2>2. CASE fPc \notin {"store", "publish"}
    BY <2>1, <2>2 DEF FanInv
  <2>3. CASE fPc \in {"store", "publish"}
    <3>1. ~Serial /\ ~Unregister(c) /\ ~UnregisterChannel(c)
      BY <1>3, <2>3, Turns
    <3>2. active[fSlot] /\ channel[fSlot] = sentOn[Len(sentOn)]
      BY <2>3 DEF FanInv
    <3>3. channel[fSlot] # None
      <4>1. Len(sentOn) \in 1 .. Len(sentOn)
        BY <2>3, PacketNumber
      <4> QED
        BY <1>0, <3>2, <4>1, Constants
    <3>4. CASE Register(c)
      <4>1. channel' = channel
        BY <3>4 DEF Register
      <4>2. active' = active \/ \E i \in Slots : active' = [active EXCEPT ![i] = TRUE]
        BY <3>4, FreeFound, Zenon DEF Register
      <4>3. active'[fSlot]
        BY <1>0, <3>2, <4>2
      <4> QED
        BY <2>1, <3>2, <4>1, <4>3 DEF FanInv
    <3>5. CASE RegisterChannel(c)
      <4>1. channel[readerId[c]] = None
        BY <3>5 DEF OwnInv, OwnsSlot, RegisterChannel
      <4>2. channel'[fSlot] = channel[fSlot] /\ active' = active
        BY <1>0, <3>3, <3>5, <4>1 DEF RegisterChannel
      <4> QED
        BY <2>1, <3>2, <4>2 DEF FanInv
    <3>6. CASE RegisterHead(c) \/ RegisterTail(c) \/ ReadBegin(c) \/ ReadCopy(c)
               \/ ReadAdvance(c)
      <4>1. UNCHANGED <<active, channel>>
        BY <3>6, Zenon DEF RegisterHead, RegisterTail, ReadBegin, ReadCopy, ReadAdvance,
                slotVars
      <4> QED
        BY <2>1, <3>2, <4>1 DEF FanInv
    <3> QED
      BY <1>3, <3>1, <3>4, <3>5, <3>6, Zenon DEF Client
  <2> QED
    BY <2>2, <2>3
<1> QED
  BY <1>1, <1>2, <1>3, Zenon DEF Next

(* A reader that is reading reads at the front of a queue.                 *)
LEMMA ReaderFront ==
    ASSUME Types, OwnInv, TurnInv, QueueInv, ReadInv,
           NEW c \in Clients, NEW i \in Slots,
           rPc[c] \in {"copy", "advance"}, readerId[c] = i
    PROVE  /\ Ready(c) /\ rTail[c] = tail[i] /\ head[i] # tail[i]
           /\ Front(i) # tail[i] /\ head[i] = Front(i)
<1>1. rTail[c] = tail[i] /\ head[i] # tail[i]
  BY DEF ReadInv
<1>2. Ready(c)
  BY Constants DEF Ready, Registered, TurnInv
<1>3. HeadInv(c, i)
  BY <1>2 DEF QueueInv
<1>4. head[i] = Front(i)
  BY <1>1, <1>3 DEF HeadInv
<1> QED
  BY <1>1, <1>2, <1>4

(* What a fan-out has written stays until it publishes it. *)
LEMMA StoredInvKept ==
    ASSUME Types, OwnInv, TurnInv, Orderly, OrderlyInv, [Next]_vars
    PROVE  StoredInv'
<1>0. /\ head \in [Slots -> Cells] /\ tail \in [Slots -> Cells]
      /\ fifo \in [Slots -> [Cells -> Numbers]]
      /\ fSlot \in Slots /\ fHead \in Cells
      /\ readerId \in [Clients -> Slots \union {None}]
      /\ rTail \in [Clients -> Cells]
  BY DEF Types, SlotTypes, FanTypes, ClientTypes
<1>1. CASE FanBegin \/ FanScan \/ FanPublish
  BY <1>1 DEF FanBegin, FanScan, FanPublish, NextSlot, StoredInv
<1>2. CASE FanStore
  <2>1. CASE Next1(fHead) # tail[fSlot]
    <3>1. /\ fifo' = [fifo EXCEPT ![fSlot][fHead] = Len(sentOn)]
          /\ UNCHANGED <<tail, fSlot, fHead, sentOn>>
      BY <1>2, <2>1 DEF FanStore
    <3>2. fifo'[fSlot][fHead] = Len(sentOn)
      BY <1>0, <3>1
    <3> QED
      BY <2>1, <3>1, <3>2 DEF StoredInv, Next1
  <2>2. CASE Next1(fHead) = tail[fSlot]
    BY <1>2, <2>2 DEF FanStore, NextSlot, StoredInv
  <2> QED
    BY <2>1, <2>2
<1>3. CASE UNCHANGED vars
  BY <1>3 DEF vars, slotVars, fanVars, StoredInv, Next1, OrderlyInv
<1>4. ASSUME fPc = "publish",
             Control \/ \E c \in Clients : Client(c)
      PROVE  StoredInv'
  <2>1. PICK c \in Clients : Client(c)
    BY <1>4, Turns
  <2>2. ~Serial /\ ~Unregister(c) /\ ~UnregisterChannel(c)
    BY <1>4, <2>1, Turns
  <2>3. UNCHANGED <<fifo, fSlot, fHead, sentOn>>
    BY <2>1, Zenon DEF Client, fanVars, slotVars, Register, RegisterChannel,
             RegisterHead, RegisterTail, Unregister, UnregisterChannel, ReadBegin,
             ReadCopy, ReadAdvance
  <2>4. fifo[fSlot][fHead] = Len(sentOn) /\ Next1(fHead) # tail[fSlot]
    BY <1>4 DEF OrderlyInv, StoredInv
  <2>5. Next1(fHead) # tail'[fSlot]
    <3>1. CASE tail' = tail
      BY <2>4, <3>1
    <3>2. CASE RegisterTail(c)
      <4>1. tail[readerId[c]] = 0 /\ tail' = [tail EXCEPT ![readerId[c]] = 0]
        BY <2>2, <3>2, SlotOfCall DEF RegisterTail, OrderlyInv, ResetInv
      <4>2. tail' = tail
        BY <1>0, <4>1
      <4> QED
        BY <2>4, <4>2
    <3>3. CASE ReadAdvance(c)
      <4>1. rPc[c] = "advance" /\ tail' = [tail EXCEPT ![readerId[c]] = Next1(rTail[c])]
        BY <3>3 DEF ReadAdvance
      <4>2. CASE readerId[c] = fSlot
        <5>1. rTail[c] = tail[fSlot] /\ Front(fSlot) # tail[fSlot]
          BY <1>0, <4>1, <4>2, ReaderFront DEF OrderlyInv
        <5>2. fHead # tail[fSlot]
          BY <1>4, <5>1 DEF Front, Storing
        <5>3. tail'[fSlot] = Next1(tail[fSlot])
          BY <1>0, <4>1, <4>2, <5>1
        <5> QED
          BY <1>0, <5>2, <5>3, NextApart
      <4>3. CASE readerId[c] # fSlot
        BY <1>0, <2>4, <4>1, <4>3
      <4> QED
        BY <4>2, <4>3
    <3>4. tail' = tail \/ RegisterTail(c) \/ ReadAdvance(c)
      BY <2>1, <2>2, Zenon DEF Client, slotVars, Register, RegisterChannel,
             RegisterHead, ReadBegin, ReadCopy
    <3> QED
      BY <3>1, <3>2, <3>3, <3>4
  <2> QED
    BY <2>3, <2>4, <2>5 DEF StoredInv, Next1
<1>5. ASSUME fPc # "publish", Control \/ \E c \in Clients : Client(c)
      PROVE  StoredInv'
  <2>1. fPc' = fPc
    BY <1>5, Zenon DEF Control, ResetBegin, ResetHead, ResetTail, Client, fanVars,
             Register, RegisterChannel,
             RegisterHead, RegisterTail, Unregister, UnregisterChannel, ReadBegin,
             ReadCopy, ReadAdvance
  <2> QED
    BY <1>5, <2>1 DEF StoredInv
<1> QED
  BY <1>1, <1>2, <1>3, <1>4, <1>5, Zenon DEF Next, Fan

(* A step of a client leaves the indices and cells of other slots alone.   *)
LEMMA OwnSlotOnly ==
    ASSUME Types, OwnInv, NEW c \in Clients, Client(c),
           NEW d \in Clients, d # c, NEW i \in Slots, readerId[d] = i
    PROVE  /\ head'[i] = head[i] /\ tail'[i] = tail[i] /\ fifo' = fifo
           /\ readerId'[d] = i /\ rPc'[d] = rPc[d] /\ rTail'[d] = rTail[d]
           /\ out'[d] = out[d] /\ since'[d] = since[d] /\ bound'[d] = bound[d]
           /\ received'[d] = received[d] /\ dropped'[d] = dropped[d]
           /\ complete'[d] = complete[d]
<1>0. /\ head \in [Slots -> Cells] /\ tail \in [Slots -> Cells]
      /\ readerId \in [Clients -> Slots \union {None}]
      /\ rPc \in [Clients -> {"idle", "channel", "head", "tail",
                               "unchannel", "copy", "advance"}]
      /\ rTail \in [Clients -> Cells] /\ out \in [Clients -> Numbers]
  BY DEF Types, SlotTypes, ClientTypes
<1>1. /\ received \in [Clients -> SUBSET Numbers]
      /\ dropped \in [Clients -> SUBSET Numbers]
      /\ since \in [Clients -> Nat] /\ complete \in [Clients -> Nat]
      /\ bound \in [Clients -> Nat]
  BY DEF Types, HistTypes
<1>2. readerId[c] # i
  BY Constants DEF OwnInv, SlotsApart, Registered
<1>3. head'[i] = head[i]
  <2>1. head' = head \/ head' = [head EXCEPT ![readerId[c]] = 0]
    BY Zenon DEF Client, slotVars, Register, RegisterChannel, RegisterHead,
       RegisterTail, Unregister, UnregisterChannel, ReadBegin, ReadCopy, ReadAdvance
  <2> QED
    BY <1>0, <1>2, <2>1
<1>4. tail'[i] = tail[i]
  <2>1. tail' = tail \/ \E x : tail' = [tail EXCEPT ![readerId[c]] = x]
    BY Zenon DEF Client, slotVars, Register, RegisterChannel, RegisterHead,
       RegisterTail, Unregister, UnregisterChannel, ReadBegin, ReadCopy, ReadAdvance
  <2> QED
    BY <1>0, <1>2, <2>1
<1>5. fifo' = fifo
  BY Zenon DEF Client, slotVars, Register, RegisterChannel, RegisterHead,
       RegisterTail, Unregister, UnregisterChannel, ReadBegin, ReadCopy, ReadAdvance
<1>6. readerId'[d] = i
  <2>1. readerId' = readerId \/ \E x : readerId' = [readerId EXCEPT ![c] = x]
    BY Zenon DEF Client, Register, RegisterChannel, RegisterHead,
       RegisterTail, Unregister, UnregisterChannel, ReadBegin, ReadCopy, ReadAdvance
  <2> QED
    BY <1>0, <2>1
<1>7. rPc'[d] = rPc[d]
  <2>1. rPc' = rPc \/ \E x : rPc' = [rPc EXCEPT ![c] = x]
    BY Zenon DEF Client, Step, Register, RegisterChannel, RegisterHead,
       RegisterTail, Unregister, UnregisterChannel, ReadBegin, ReadCopy, ReadAdvance
  <2> QED
    BY <1>0, <2>1
<1>8. rTail'[d] = rTail[d] /\ out'[d] = out[d]
  <2>1. rTail' = rTail \/ \E x : rTail' = [rTail EXCEPT ![c] = x]
    BY Zenon DEF Client, Register, RegisterChannel, RegisterHead,
       RegisterTail, Unregister, UnregisterChannel, ReadBegin, ReadCopy, ReadAdvance
  <2>2. out' = out \/ \E x : out' = [out EXCEPT ![c] = x]
    BY Zenon DEF Client, Register, RegisterChannel, RegisterHead,
       RegisterTail, Unregister, UnregisterChannel, ReadBegin, ReadCopy, ReadAdvance
  <2> QED
    BY <1>0, <2>1, <2>2
<1>9. since'[d] = since[d] /\ bound'[d] = bound[d]
  <2>1. since' = since \/ \E x : since' = [since EXCEPT ![c] = x]
    BY Zenon DEF Client, histVars, Register, RegisterChannel, RegisterHead,
       RegisterTail, Unregister, UnregisterChannel, ReadBegin, ReadCopy, ReadAdvance
  <2>2. bound' = bound \/ \E x : bound' = [bound EXCEPT ![c] = x]
    BY Zenon DEF Client, histVars, Register, RegisterChannel, RegisterHead,
       RegisterTail, Unregister, UnregisterChannel, ReadBegin, ReadCopy, ReadAdvance
  <2> QED
    BY <1>1, <2>1, <2>2
<1>10. received'[d] = received[d]
  <2>1. received' = received \/ (\E x : received' = [received EXCEPT ![c] = x])
    <3>1. CASE ReadAdvance(c)
      <4>1. received' = [received EXCEPT ![c] = received[c] \union {out[c]}]
        BY <3>1 DEF ReadAdvance
      <4> QED
        BY <4>1
    <3>2. CASE ~ReadAdvance(c)
      BY <3>2, Zenon DEF Client, histVars, Register, RegisterChannel, RegisterHead,
         RegisterTail, Unregister, UnregisterChannel, ReadBegin, ReadCopy
    <3> QED
      BY <3>1, <3>2
  <2> QED
    BY <1>1, <2>1
<1>11. dropped'[d] = dropped[d] /\ complete'[d] = complete[d]
  <2>1. dropped' = dropped \/ \E x : dropped' = [dropped EXCEPT ![c] = x]
    BY Zenon DEF Client, histVars, Register, RegisterChannel, RegisterHead,
       RegisterTail, Unregister, UnregisterChannel, ReadBegin, ReadCopy, ReadAdvance
  <2>2. complete' = complete \/ \E x : complete' = [complete EXCEPT ![c] = x]
    BY Zenon DEF Client, histVars, Register, RegisterChannel, RegisterHead,
       RegisterTail, Unregister, UnregisterChannel, ReadBegin, ReadCopy, ReadAdvance
  <2> QED
    BY <1>1, <2>1, <2>2
<1> QED
  BY <1>3, <1>4, <1>5, <1>6, <1>7, <1>8, <1>9, <1>10, <1>11

(* A reader that is reading keeps its place, and its cell keeps its packet. *)
LEMMA ReadInvKept ==
    ASSUME Types, OwnInv, TurnInv, Orderly, OrderlyInv, [Next]_vars
    PROVE  ReadInv'
<1>0. /\ head \in [Slots -> Cells] /\ tail \in [Slots -> Cells]
      /\ fifo \in [Slots -> [Cells -> Numbers]]
      /\ fSlot \in Slots /\ fHead \in Cells
      /\ readerId \in [Clients -> Slots \union {None}]
      /\ rPc \in [Clients -> {"idle", "channel", "head", "tail",
                               "unchannel", "copy", "advance"}]
      /\ rTail \in [Clients -> Cells] /\ out \in [Clients -> Numbers]
  BY DEF Types, SlotTypes, FanTypes, ClientTypes
<1>1. ReadInv /\ QueueInv
  BY DEF OrderlyInv
<1>2. ASSUME UNCHANGED <<slotVars, cliVars, since, bound>> PROVE ReadInv'
  BY <1>1, <1>2 DEF ReadInv, slotVars, cliVars
<1>3. ASSUME \A c \in Clients : rPc'[c] = "idle" PROVE ReadInv'
  BY <1>3 DEF ReadInv
<1>4. ASSUME Fan, NEW c \in Clients, NEW i \in Slots,
             rPc'[c] \in {"copy", "advance"}, readerId'[c] = i
      PROVE  /\ rTail'[c] = tail'[i] /\ head'[i] # tail'[i]
             /\ bound'[c] <= since'[c]
             /\ rPc'[c] = "advance" => out'[c] = fifo'[i][rTail'[c]]
  <2>1. UNCHANGED <<tail, readerId, rPc, rTail, out, since, bound>>
    BY <1>4, Zenon DEF Fan, FanBegin, FanScan, FanStore, FanPublish, slotVars, cliVars,
             histVars
  <2>2. /\ rTail[c] = tail[i] /\ head[i] # tail[i] /\ bound[c] <= since[c]
        /\ rPc[c] = "advance" => out[c] = fifo[i][rTail[c]]
    BY <1>1, <1>4, <2>1 DEF ReadInv
  <2>3. Front(i) # tail[i]
    BY <1>1, <1>4, <2>1, ReaderFront
  <2>4. head'[i] # tail[i]
    <3>1. CASE FanPublish
      <4>1. head' = [head EXCEPT ![fSlot] = Next1(fHead)] /\ fPc = "publish"
        BY <3>1 DEF FanPublish
      <4>2. Next1(fHead) # tail[fSlot]
        BY <4>1 DEF OrderlyInv, StoredInv
      <4> QED
        BY <1>0, <2>2, <4>1, <4>2
    <3>2. CASE FanBegin \/ FanScan \/ FanStore
      <4>1. head' = head
        BY <3>2, Zenon DEF FanBegin, FanScan, FanStore, slotVars
      <4> QED
        BY <2>2, <4>1
    <3> QED
      BY <1>4, <3>1, <3>2 DEF Fan
  <2>5. fifo'[i][rTail[c]] = fifo[i][rTail[c]]
    <3>1. CASE fifo' = fifo
      BY <3>1
    <3>2. CASE FanStore /\ fifo' = [fifo EXCEPT ![fSlot][fHead] = Len(sentOn)]
      <4>1. CASE i = fSlot
        <5>1. fHead # rTail[c]
          BY <2>2, <2>3, <3>2, <4>1 DEF Front, Storing, FanStore
        <5> QED
          BY <1>0, <3>2, <4>1, <5>1
      <4>2. CASE i # fSlot
        BY <1>0, <3>2, <4>2
      <4> QED
        BY <4>1, <4>2
    <3>3. \/ fifo' = fifo
          \/ FanStore /\ fifo' = [fifo EXCEPT ![fSlot][fHead] = Len(sentOn)]
      <4>1. CASE FanStore
        BY <4>1 DEF FanStore
      <4>2. CASE FanBegin \/ FanScan \/ FanPublish
        BY <4>2, Zenon DEF FanBegin, FanScan, FanPublish, slotVars
      <4> QED
        BY <1>4, <4>1, <4>2 DEF Fan
    <3> QED
      BY <3>1, <3>2, <3>3
  <2> QED
    BY <2>1, <2>2, <2>4, <2>5
<1>5. CASE Fan
  BY <1>4, <1>5 DEF ReadInv
<1>6. CASE Control
  <2>1. \A c \in Clients : rPc[c] = "idle"
    BY <1>6, Turns
  <2>2. rPc' = rPc
    BY <1>6, Zenon DEF Control, ResetBegin, ResetHead, ResetTail, cliVars
  <2> QED
    BY <1>3, <2>1, <2>2
<1>7. CASE UNCHANGED vars
  <2>1. UNCHANGED <<slotVars, cliVars, since, bound>>
    BY <1>7 DEF vars, histVars
  <2> QED
    BY <1>2, <2>1
<1>8. ASSUME NEW c \in Clients, Client(c), NEW d \in Clients, NEW i \in Slots,
             rPc'[d] \in {"copy", "advance"}, readerId'[d] = i
      PROVE  /\ rTail'[d] = tail'[i] /\ head'[i] # tail'[i]
             /\ bound'[d] <= since'[d]
             /\ rPc'[d] = "advance" => out'[d] = fifo'[i][rTail'[d]]
  <2>1. CASE d # c
    <3>1. readerId[d] = i
      <4>1. readerId' = readerId \/ \E x : readerId' = [readerId EXCEPT ![c] = x]
        BY <1>8, Zenon DEF Client, Register, RegisterChannel, RegisterHead,
           RegisterTail, Unregister, UnregisterChannel, ReadBegin, ReadCopy, ReadAdvance
      <4> QED
        BY <1>0, <1>8, <2>1, <4>1
    <3>2. /\ head'[i] = head[i] /\ tail'[i] = tail[i] /\ fifo' = fifo
          /\ rPc'[d] = rPc[d] /\ rTail'[d] = rTail[d]
          /\ out'[d] = out[d] /\ since'[d] = since[d] /\ bound'[d] = bound[d]
      BY <1>8, <2>1, <3>1, OwnSlotOnly
    <3> QED
      BY <1>1, <1>8, <3>1, <3>2 DEF ReadInv
  <2>2. CASE d = c
    <3>1. CASE ReadBegin(c)
      <4>1. /\ rTail' = [rTail EXCEPT ![c] = tail[readerId[c]]]
            /\ bound' = [bound EXCEPT ![c] = IF ctlPc = "idle" THEN since[c] ELSE 0]
            /\ rPc' = [rPc EXCEPT ![c] = "copy"]
            /\ tail[readerId[c]] # head[readerId[c]]
            /\ UNCHANGED <<head, tail, readerId, since>>
        BY <3>1 DEF ReadBegin, Step, slotVars
      <4>2. bound \in [Clients -> Nat] /\ since[c] \in Nat
        BY DEF Types, HistTypes
      <4>3. bound'[c] <= since[c]
        BY <4>1, <4>2
      <4>4. rPc'[c] = "copy" /\ rTail'[c] = tail[i] /\ readerId[c] = i
        BY <1>0, <1>8, <2>2, <4>1
      <4> QED
        BY <2>2, <4>1, <4>3, <4>4
    <3>2. CASE ReadCopy(c)
      <4>1. /\ out' = [out EXCEPT ![c] = fifo[readerId[c]][rTail[c]]]
            /\ rPc[c] = "copy"
            /\ UNCHANGED <<head, tail, fifo, readerId, rTail, since, bound>>
        BY <3>2 DEF ReadCopy, slotVars, histVars
      <4>2. out'[c] = fifo[i][rTail[c]] /\ readerId[c] = i
        BY <1>0, <1>8, <2>2, <4>1
      <4>3. rTail[c] = tail[i] /\ head[i] # tail[i] /\ bound[c] <= since[c]
        BY <1>1, <4>1, <4>2 DEF ReadInv
      <4> QED
        BY <2>2, <4>1, <4>2, <4>3
    <3>3. CASE ~ReadBegin(c) /\ ~ReadCopy(c)
      <4>1. \/ rPc' = rPc /\ rPc[c] = "idle"
            \/ \E l \in {"idle", "channel", "head", "tail", "unchannel"} :
                 rPc' = [rPc EXCEPT ![c] = l]
        <5>1. CASE Register(c)
          <6>1. rPc[c] = "idle" /\ (rPc' = rPc \/ rPc' = [rPc EXCEPT ![c] = "channel"])
            BY <5>1 DEF Register, Step
          <6> QED
            BY <6>1
        <5>2. CASE RegisterChannel(c) \/ RegisterHead(c) \/ RegisterTail(c)
                   \/ Unregister(c) \/ UnregisterChannel(c) \/ ReadAdvance(c)
          BY <5>2, Zenon DEF Step, RegisterChannel, RegisterHead, RegisterTail,
             Unregister, UnregisterChannel, ReadAdvance
        <5> QED
          BY <1>8, <3>3, <5>1, <5>2, Zenon DEF Client
      <4>2. rPc'[c] \notin {"copy", "advance"}
        BY <1>0, <4>1
      <4> QED
        BY <1>8, <2>2, <4>2
    <3> QED
      BY <3>1, <3>2, <3>3
  <2> QED
    BY <2>1, <2>2
<1>9. CASE \E c \in Clients : Client(c)
  BY <1>8, <1>9 DEF ReadInv
<1> QED
  BY <1>5, <1>6, <1>7, <1>9, Zenon DEF Next

(* Nothing is lost sight of while indices are set. *)
LEMMA ResetInvKept ==
    ASSUME Types, OwnInv, TurnInv, Orderly, OrderlyInv, [Next]_vars
    PROVE  ResetInv'
<1>0. /\ active \in [Slots -> BOOLEAN]
      /\ channel \in [Slots -> Channels \union {None}]
      /\ head \in [Slots -> Cells] /\ tail \in [Slots -> Cells]
      /\ fSlot \in Slots /\ ctlSlot \in Slots
      /\ readerId \in [Clients -> Slots \union {None}]
      /\ rPc \in [Clients -> {"idle", "channel", "head", "tail",
                               "unchannel", "copy", "advance"}]
      /\ received \in [Clients -> SUBSET Numbers]
      /\ complete \in [Clients -> Nat]
  BY DEF Types, SlotTypes, FanTypes, CtlTypes, ClientTypes, HistTypes
<1>1. ResetInv /\ FanInv /\ Serial' = Serial
  BY OrderlyKept DEF OrderlyInv
<1>2. CASE Fan
  <2>1. /\ UNCHANGED <<active, channel, tail, readerId, rPc, received, complete,
                       ctlPc, ctlSlot>>
    BY <1>2, Zenon DEF Fan, FanBegin, FanScan, FanStore, FanPublish, slotVars, cliVars,
             ctlVars, histVars
  <2>2. ctlPc = "idle" /\ (Serial => \A c \in Clients : rPc[c] = "idle")
    BY <1>2, Turns
  <2>3. ASSUME ~Serial, NEW i \in Slots, ~active[i] \/ channel[i] = None
        PROVE  head'[i] = 0
    <3>1. head[i] = 0
      BY <1>1, <2>3 DEF ResetInv
    <3>2. CASE FanPublish
      <4>1. fPc = "publish" /\ head' = [head EXCEPT ![fSlot] = Next1(fHead)]
        BY <3>2 DEF FanPublish
      <4>2. active[fSlot] /\ channel[fSlot] = sentOn[Len(sentOn)]
        BY <1>1, <4>1 DEF FanInv
      <4>3. sentOn \in Seq(Channels) /\ Len(sentOn) \in 1 .. Len(sentOn)
        BY <4>1, PacketNumber DEF Types, FanTypes
      <4>4. channel[fSlot] # None
        BY <4>2, <4>3, Constants
      <4>5. i # fSlot
        BY <2>3, <4>2, <4>4
      <4> QED
        BY <1>0, <3>1, <4>1, <4>5
    <3>3. CASE FanBegin \/ FanScan \/ FanStore
      <4>1. head' = head
        BY <3>3, Zenon DEF FanBegin, FanScan, FanStore, slotVars
      <4> QED
        BY <3>1, <4>1
    <3> QED
      BY <1>2, <3>2, <3>3 DEF Fan
  <2> QED
    BY <1>1, <2>1, <2>2, <2>3 DEF ResetInv
<1>3. CASE Control
  <2>1. Serial /\ \A c \in Clients : rPc[c] = "idle"
    BY <1>3, Turns
  <2>2. UNCHANGED <<rPc, readerId>>
    BY <1>3, Zenon DEF Control, ResetBegin, ResetHead, ResetTail, cliVars
  <2>3. ASSUME ctlPc' = "tail"
        PROVE  /\ head'[ctlSlot'] = 0
               /\ \A c \in Clients : readerId[c] = ctlSlot' => received'[c] = {}
    <3>1. ResetHead /\ Affected(ctlSlot, ctlOp)
      BY <1>3, <2>3 DEF Control, ResetBegin, ResetHead, ResetTail, ResetNext
    <3>2. /\ head' = [head EXCEPT ![ctlSlot] = 0] /\ ctlSlot' = ctlSlot
          /\ received' = [c \in Clients |-> IF c \in ReadersOf(ctlSlot)
                                            THEN {} ELSE received[c]]
      BY <3>1 DEF ResetHead
    <3> QED
      BY <1>0, <3>2 DEF ReadersOf
  <2> QED
    BY <1>1, <2>1, <2>2, <2>3 DEF ResetInv
<1>4. CASE UNCHANGED vars
  BY <1>1, <1>4 DEF vars, slotVars, cliVars, ctlVars, histVars, ResetInv
<1>5. ASSUME NEW c \in Clients, Client(c) PROVE ResetInv'
  <2>1. ctlPc' = ctlPc /\ ctlPc = "idle"
    <3>1. ctlPc' = ctlPc
      BY <1>5, Zenon DEF Client, ctlVars, Register, RegisterChannel,
               RegisterHead, RegisterTail, Unregister, UnregisterChannel, ReadBegin,
               ReadCopy, ReadAdvance
    <3> QED
      BY <1>5, <3>1, Turns
  <2>2. ASSUME NEW d \in Clients, d # c, NEW i \in Slots, readerId'[d] = i
        PROVE  /\ readerId[d] = i /\ head'[i] = head[i] /\ tail'[i] = tail[i]
               /\ rPc'[d] = rPc[d] /\ received'[d] = received[d]
               /\ complete'[d] = complete[d]
    <3>1. readerId[d] = i
      <4>1. readerId' = readerId \/ \E x : readerId' = [readerId EXCEPT ![c] = x]
        BY <1>5, Zenon DEF Client, Register, RegisterChannel, RegisterHead,
           RegisterTail, Unregister, UnregisterChannel, ReadBegin, ReadCopy, ReadAdvance
      <4> QED
        BY <1>0, <2>2, <4>1
    <3> QED
      BY <1>5, <2>2, <3>1, OwnSlotOnly
  <2>3. ASSUME NEW i \in Slots, readerId'[c] = i, rPc'[c] \in {"channel", "head", "tail"}
        PROVE  /\ received'[c] = {} /\ complete'[c] = 0
               /\ ~Serial => tail'[i] = 0
               /\ rPc'[c] = "tail" => head'[i] = 0
    <3>1. CASE Register(c)
      <4> DEFINE j == CHOOSE n \in Free : \A k \in Free : n <= k
      <4>1. Free # {}
        BY <2>3, <3>1 DEF Register
      <4>2. /\ readerId' = [readerId EXCEPT ![c] = j] /\ tail' = tail
            /\ rPc' = [rPc EXCEPT ![c] = "channel"]
            /\ received' = [received EXCEPT ![c] = {}]
            /\ complete' = [complete EXCEPT ![c] = 0]
        BY <3>1, <4>1 DEF Register, Step
      <4>3. j \in Slots /\ ~active[j]
        BY <4>1, FreeFound
      <4> HIDE DEF j
      <4>4. i = j
        BY <1>0, <2>3, <4>2
      <4>5. ~Serial => tail[i] = 0
        BY <1>1, <4>3, <4>4 DEF ResetInv
      <4> QED
        BY <1>0, <4>2, <4>5
    <3>2. CASE RegisterChannel(c) \/ RegisterHead(c)
      <4>1. /\ rPc[c] \in {"channel", "head"}
            /\ UNCHANGED <<readerId, tail, received, complete>>
        BY <3>2 DEF RegisterChannel, RegisterHead, histVars
      <4>2. RegisterHead(c) => head' = [head EXCEPT ![readerId[c]] = 0]
        BY DEF RegisterHead
      <4>3. RegisterChannel(c) => rPc' = [rPc EXCEPT ![c] = "head"]
        BY DEF RegisterChannel, Step
      <4>4. rPc'[c] = "tail" => head'[i] = 0
        BY <1>0, <2>3, <3>2, <4>1, <4>2, <4>3
      <4> QED
        BY <1>1, <2>3, <4>1, <4>4 DEF ResetInv
    <3>3. CASE RegisterTail(c) \/ Unregister(c) \/ UnregisterChannel(c)
               \/ ReadBegin(c) \/ ReadCopy(c) \/ ReadAdvance(c)
      <4>1. \E l \in {"idle", "unchannel", "copy", "advance"} : rPc' = [rPc EXCEPT ![c] = l]
        BY <3>3 DEF RegisterTail, Unregister, UnregisterChannel, ReadBegin, ReadCopy,
           ReadAdvance, Step
      <4> QED
        BY <1>0, <2>3, <4>1
    <3> QED
      BY <1>5, <3>1, <3>2, <3>3, Zenon DEF Client
  <2>4. ASSUME ~Serial, NEW i \in Slots, ~active'[i] \/ channel'[i] = None
        PROVE  head'[i] = 0 /\ tail'[i] = 0
    <3>1. ~Unregister(c) /\ ~UnregisterChannel(c)
      BY <2>4, Turns
    <3>2. ~active[i] \/ channel[i] = None
      <4>1. CASE Register(c)
        <5>1. active' = active \/ \E j \in Slots : active' = [active EXCEPT ![j] = TRUE]
          BY <4>1, FreeFound, Zenon DEF Register
        <5>2. channel' = channel
          BY <4>1 DEF Register
        <5> QED
          BY <1>0, <2>4, <5>1, <5>2
      <4>2. CASE RegisterChannel(c)
        <5>1. active' = active /\ channel' = [channel EXCEPT ![readerId[c]] = ChannelOf[c]]
          BY <4>2 DEF RegisterChannel
        <5>2. ChannelOf[c] # None
          BY Constants
        <5> QED
          BY <1>0, <2>4, <5>1, <5>2
      <4>3. CASE RegisterHead(c) \/ RegisterTail(c) \/ ReadBegin(c) \/ ReadCopy(c)
                 \/ ReadAdvance(c)
        <5>1. UNCHANGED <<active, channel>>
          BY <4>3, Zenon DEF RegisterHead, RegisterTail, ReadBegin, ReadCopy, ReadAdvance,
                  slotVars
        <5> QED
          BY <2>4, <5>1
      <4> QED
        BY <1>5, <3>1, <4>1, <4>2, <4>3, Zenon DEF Client
    <3>3. head[i] = 0 /\ tail[i] = 0
      BY <1>1, <2>4, <3>2 DEF ResetInv
    <3>4. head' = head \/ head' = [head EXCEPT ![readerId[c]] = 0]
      BY <1>5, Zenon DEF Client, slotVars, Register, RegisterChannel, RegisterHead,
         RegisterTail, Unregister, UnregisterChannel, ReadBegin, ReadCopy, ReadAdvance
    <3>5. \/ tail' = tail \/ tail' = [tail EXCEPT ![readerId[c]] = 0]
          \/ ReadAdvance(c) /\ tail' = [tail EXCEPT ![readerId[c]] = Next1(rTail[c])]
      BY <1>5, Zenon DEF Client, slotVars, Register, RegisterChannel, RegisterHead,
         RegisterTail, Unregister, UnregisterChannel, ReadBegin, ReadCopy, ReadAdvance
    <3>6. ReadAdvance(c) => readerId[c] # i
      <4>1. ReadAdvance(c) => rPc[c] = "advance"
        BY DEF ReadAdvance
      <4>2. rPc[c] = "advance" => /\ active[readerId[c]]
                                  /\ channel[readerId[c]] # None
        BY Constants DEF OwnInv, OwnsSlot
      <4> QED
        BY <3>2, <4>1, <4>2
    <3> QED
      BY <1>0, <3>3, <3>4, <3>5, <3>6
  <2>5. ASSUME NEW d \in Clients, NEW i \in Slots, readerId'[d] = i
        PROVE  /\ rPc'[d] \in {"channel", "head", "tail"} =>
                    /\ received'[d] = {} /\ complete'[d] = 0
                    /\ ~Serial => tail'[i] = 0
               /\ Serial /\ rPc'[d] = "tail" => head'[i] = 0
    <3>1. CASE d = c
      BY <2>3, <2>5, <3>1
    <3>2. CASE d # c
      BY <1>1, <2>2, <2>5, <3>2 DEF ResetInv
    <3> QED
      BY <3>1, <3>2
  <2> QED
    BY <1>1, <2>1, <2>4, <2>5 DEF ResetInv
<1> QED
  BY <1>2, <1>3, <1>4, <1>5, Zenon DEF Next
-----------------------------------------------------------------------------
(* What is to be read is in the queue, in order. *)

(* The numbers the queues are about. *)
LEMMA QueueTyped ==
    ASSUME Types, NEW c \in Clients, NEW i \in Slots
    PROVE  /\ head[i] \in Cells /\ tail[i] \in Cells /\ fHead \in Cells
           /\ fifo[i] \in [Cells -> Numbers] /\ Front(i) \in Cells
           /\ since[c] \in Nat /\ complete[c] \in Nat
           /\ complete[c] <= Len(sentOn) + 1
           /\ received[c] \subseteq Nat
           /\ Len(sentOn) \in Nat /\ Passed(i) \in Nat
           /\ Len(sentOn) <= Passed(i) /\ Passed(i) <= Len(sentOn) + 1
<1>1. /\ head[i] \in Cells /\ tail[i] \in Cells /\ fHead \in Cells
      /\ fifo[i] \in [Cells -> Numbers]
  BY DEF Types, SlotTypes, FanTypes
<1>2. /\ since[c] \in Nat /\ complete[c] \in Nat /\ received[c] \subseteq Numbers
      /\ complete[c] <= Len(sentOn) + 1
  BY DEF Types, HistTypes
<1>3. Numbers \subseteq Nat
  BY Constants DEF Numbers
<1>4. Len(sentOn) \in Nat
  BY PacketNumber
<1>5. Front(i) \in Cells
  BY <1>1 DEF Front
<1>6. Passed(i) = Len(sentOn) \/ Passed(i) = Len(sentOn) + 1
  BY DEF Passed
<1>7. /\ Passed(i) \in Nat
      /\ Len(sentOn) <= Passed(i) /\ Passed(i) <= Len(sentOn) + 1
  BY <1>4, <1>6
<1> QED
  BY <1>1, <1>2, <1>3, <1>4, <1>5, <1>7

(* A step that touches nothing of a reader's. *)
LEMMA Untouched ==
    ASSUME NEW c \in Clients, NEW i \in Slots, Awaits(c, i), HeadInv(c, i),
           fifo'[i] = fifo[i], head'[i] = head[i], tail'[i] = tail[i],
           Front(i)' = Front(i), Passed(i)' = Passed(i), sentOn' = sentOn,
           since'[c] = since[c], received'[c] = received[c],
           dropped'[c] = dropped[c], complete'[c] = complete[c]
    PROVE  Awaits(c, i)' /\ HeadInv(c, i)'
<1>1. Queue(i)' = Queue(i)
  BY DEF Queue
<1> QED
  BY <1>1 DEF Awaits, HeadInv

(* A reader whose FIFO is empty and who is owed nothing yet. *)
LEMMA StartsEmpty ==
    ASSUME Types', NEW c \in Clients, NEW i \in Slots,
           head'[i] = 0, tail'[i] = 0, Front(i)' = 0,
           \A n \in received'[c] : n < Passed(i)',
           complete'[c] > 0 => Passed(i)' <= complete'[c]
    PROVE  Awaits(c, i)' /\ HeadInv(c, i)'
<1>1. DOMAIN Queue(i)' = {}
  BY ZeroTyped, HeldNothing DEF Queue
<1>2. complete'[c] \in Nat /\ Passed(i)' \in Nat
  <2>1. /\ complete' \in [Clients -> Nat] /\ Len(sentOn') \in Nat
    BY DEF Types, HistTypes, FanTypes
  <2> QED
    BY <2>1 DEF Passed
<1>3. /\ Fresh(Queue(i)', since'[c], Passed(i)', ChannelOf[c], sentOn')
      /\ InOrder(Queue(i)', received'[c], Passed(i)')
      /\ Counted(Queue(i)', complete'[c], Passed(i)', ChannelOf[c], sentOn',
                 received'[c] \union dropped'[c])
  <2> DEFINE q == Queue(i)'
             p == Passed(i)'
             done == received'[c] \union dropped'[c]
  <2> HIDE DEF q, p, done
  <2>1. DOMAIN q = {} /\ complete'[c] \in Nat /\ p \in Nat
        /\ (complete'[c] > 0 => p <= complete'[c])
        /\ \A n \in received'[c] : n < p
    BY <1>1, <1>2 DEF q, p
  <2>2. /\ Fresh(q, since'[c], p, ChannelOf[c], sentOn')
        /\ InOrder(q, received'[c], p)
        /\ Counted(q, complete'[c], p, ChannelOf[c], sentOn', done)
    BY <2>1, AwaitedNothing
  <2> QED
    BY <2>2 DEF q, p, done
<1> QED
  BY <1>3 DEF Awaits, HeadInv

(* On to the next slot: the packet has passed one more. *)
LEMMA PassedNext ==
    ASSUME Types, fPc # "idle", NextSlot, sentOn' = sentOn, NEW i \in Slots
    PROVE  /\ Passed(i)' = IF i = fSlot THEN Len(sentOn) + 1 ELSE Passed(i)
           /\ i = fSlot => Passed(i) = Len(sentOn)
           /\ Front(i)' = head'[i]
           /\ i # fSlot => Front(i) = head[i]
<1>1. i \in 0 .. kMaxReaders - 1 /\ fSlot \in 0 .. kMaxReaders - 1
  BY DEF Types, FanTypes, Slots
<1>2. /\ fPc' = IF fSlot = kMaxReaders - 1 THEN "idle" ELSE "scan"
      /\ fSlot' = IF fSlot = kMaxReaders - 1 THEN 0 ELSE fSlot + 1
  BY DEF NextSlot
<1> QED
  BY <1>1, <1>2, Constants DEF Passed, Front, Storing

(* The slot of a reader is active, and has its channel or, while it        *)
(* registers, none yet.                                                    *)
LEMMA ReaderSlot ==
    ASSUME Types, OwnInv, TurnInv, Orderly, ResetInv,
           NEW c \in Clients, NEW i \in Slots, Ready(c), readerId[c] = i
    PROVE  /\ active[i] /\ since[c] > 0
           /\ channel[i] = ChannelOf[c] \/ (channel[i] = None /\ rPc[c] = "channel")
           /\ channel[i] = None => /\ head[i] = 0 /\ tail[i] = 0
                                   /\ received[c] = {} /\ complete[c] = 0
<1>1. rPc[c] # "unchannel"
  BY DEF Ready, TurnInv, Orderly
<1>2. /\ active[i] /\ since[c] > 0
      /\ channel[i] = IF rPc[c] = "channel" THEN None ELSE ChannelOf[c]
  BY <1>1 DEF OwnInv, OwnsSlot, Ready
<1>3. ChannelOf[c] # None
  BY Constants
<1>4. rPc[c] = "channel" => ~Serial
  BY DEF Ready
<1> QED
  BY <1>2, <1>3, <1>4 DEF ResetInv

(* Fan-out appends to the queues of its channel. *)
LEMMA FanQueueKept ==
    ASSUME Types, OwnInv, TurnInv, Orderly, OrderlyInv, [Next]_vars, Fan,
           NEW c \in Clients, NEW i \in Slots, Ready(c), readerId[c] = i
    PROVE  Awaits(c, i)' /\ HeadInv(c, i)'
<1>0. /\ head \in [Slots -> Cells] /\ tail \in [Slots -> Cells]
      /\ fifo \in [Slots -> [Cells -> Numbers]]
      /\ fSlot \in Slots /\ fHead \in Cells /\ sentOn \in Seq(Channels)
      /\ Slots = 0 .. kMaxReaders - 1
  BY DEF Types, SlotTypes, FanTypes, Slots
<1>1. /\ head[i] \in Cells /\ tail[i] \in Cells /\ fHead \in Cells
      /\ fifo[i] \in [Cells -> Numbers] /\ Front(i) \in Cells
      /\ since[c] \in Nat /\ complete[c] \in Nat
      /\ complete[c] <= Len(sentOn) + 1
      /\ received[c] \subseteq Nat
      /\ Len(sentOn) \in Nat /\ Passed(i) \in Nat
      /\ Len(sentOn) <= Passed(i) /\ Passed(i) <= Len(sentOn) + 1
  BY QueueTyped
<1>2. Awaits(c, i) /\ HeadInv(c, i)
  BY DEF OrderlyInv, QueueInv
<1>3. /\ active[i] /\ since[c] > 0
      /\ channel[i] = ChannelOf[c] \/ (channel[i] = None /\ rPc[c] = "channel")
      /\ channel[i] = None => /\ head[i] = 0 /\ tail[i] = 0
                              /\ received[c] = {} /\ complete[c] = 0
  BY ReaderSlot DEF OrderlyInv
<1>4. UNCHANGED <<tail, since, received, complete>>
  BY Zenon DEF Fan, FanBegin, FanScan, FanStore, FanPublish, slotVars, histVars
<1>5. Types'
  BY TypesKept
<1>6. CASE FanBegin
  <2>1. PICK ch \in Channels : sentOn' = Append(sentOn, ch)
    BY <1>6 DEF FanBegin
  <2>2. /\ fPc = "idle" /\ fPc' = "scan" /\ fSlot' = 0
        /\ UNCHANGED <<head, fifo, dropped>>
    BY <1>6 DEF FanBegin, slotVars, histVars
  <2>3. /\ Len(sentOn') = Len(sentOn) + 1
        /\ \A n \in 1 .. Len(sentOn) : sentOn'[n] = sentOn[n]
    BY <1>0, <2>1
  <2>4. Front(i)' = Front(i) /\ Passed(i)' = Passed(i) /\ Passed(i) = Len(sentOn) + 1
    BY <1>0, <2>2, <2>3 DEF Front, Storing, Passed
  <2>5. Queue(i)' = Queue(i)
    BY <1>4, <2>2, <2>4 DEF Queue
  <2>6. /\ Fresh(Queue(i), since[c], Passed(i), ChannelOf[c], sentOn')
        /\ InOrder(Queue(i), received[c], Passed(i))
        /\ Counted(Queue(i), complete[c], Passed(i), ChannelOf[c], sentOn',
                   received[c] \union dropped[c])
    <3> DEFINE q == Queue(i)
               p == Passed(i)
               got == received[c]
               lost == dropped[c]
               from == since[c]
               must == complete[c]
               later == sentOn'
    <3>1. \A n \in 1 .. p - 1 : later[n] = sentOn[n]
      BY <1>1, <2>3, <2>4
    <3>2. /\ Fresh(q, from, p, ChannelOf[c], sentOn)
          /\ InOrder(q, got, p)
          /\ Counted(q, must, p, ChannelOf[c], sentOn, got \union lost)
      BY <1>2 DEF Awaits
    <3>3. p \in Nat /\ from \in Nat /\ from > 0 /\ must \in Nat /\ lost \subseteq lost
      BY <1>1, <1>3
    <3> HIDE DEF q, p, got, lost, from, must, later
    <3>4. /\ Fresh(q, from, p, ChannelOf[c], later)
          /\ InOrder(q, got, p)
          /\ Counted(q, must, p, ChannelOf[c], later, got \union lost)
      BY <3>1, <3>2, <3>3, AwaitedSame
    <3> QED
      BY <3>4 DEF q, p, got, lost, from, must, later
  <2>7. HeadInv(c, i)'
    BY <2>2, <2>4 DEF HeadInv, Front, Storing
  <2> QED
    BY <1>4, <2>2, <2>4, <2>5, <2>6, <2>7 DEF Awaits
<1>7. ASSUME fPc # "idle", NextSlot, UNCHANGED <<sentOn, head, fifo>>,
             i = fSlot => ~Storing(i) \/ Next1(fHead) = tail[i],
             dropped[c] \subseteq dropped'[c],
             i # fSlot => dropped'[c] = dropped[c],
             i = fSlot /\ channel[i] = ChannelOf[c]
                 /\ sentOn[Len(sentOn)] = ChannelOf[c] => Len(sentOn) \in dropped'[c]
      PROVE  Awaits(c, i)' /\ HeadInv(c, i)'
  <2>1. /\ Passed(i)' = IF i = fSlot THEN Len(sentOn) + 1 ELSE Passed(i)
        /\ i = fSlot => Passed(i) = Len(sentOn)
        /\ Front(i)' = head[i]
        /\ i # fSlot => Front(i) = head[i]
    BY <1>7, PassedNext
  <2>2. CASE i # fSlot
    BY <1>2, <1>4, <1>7, <2>1, <2>2, Untouched
  <2>3. CASE i = fSlot /\ head[i] = Front(i) /\ channel[i] = ChannelOf[c]
    <3>1. Queue(i)' = Queue(i)
      BY <1>4, <1>7, <2>1, <2>3 DEF Queue
    <3>2. /\ Fresh(Queue(i), since[c], Passed(i) + 1, ChannelOf[c], sentOn)
          /\ InOrder(Queue(i), received[c], Passed(i) + 1)
          /\ Counted(Queue(i), complete[c], Passed(i) + 1, ChannelOf[c], sentOn,
                     received[c] \union dropped'[c])
      <4> DEFINE q == Queue(i)
                 p == Passed(i)
                 got == received[c]
                 lost == dropped[c]
                 lostNow == dropped'[c]
      <4>1. /\ Fresh(q, since[c], p, ChannelOf[c], sentOn)
            /\ InOrder(q, got, p)
            /\ Counted(q, complete[c], p, ChannelOf[c], sentOn, got \union lost)
        BY <1>2 DEF Awaits
      <4>2. /\ p \in Nat /\ got \subseteq Nat /\ lost \subseteq lostNow
            /\ sentOn[p] = ChannelOf[c] => p \in lostNow
        BY <1>1, <1>7, <2>1, <2>3
      <4> HIDE DEF q, p, got, lost, lostNow
      <4>3. /\ Fresh(q, since[c], p + 1, ChannelOf[c], sentOn)
            /\ InOrder(q, got, p + 1)
            /\ Counted(q, complete[c], p + 1, ChannelOf[c], sentOn, got \union lostNow)
        BY <1>1, <4>1, <4>2, AwaitedPassed
      <4> QED
        BY <4>3 DEF q, p, got, lostNow
    <3>3. Passed(i)' = Passed(i) + 1
      BY <2>1, <2>3
    <3>4. HeadInv(c, i)'
      BY <1>7, <2>1 DEF HeadInv
    <3> QED
      BY <1>4, <1>7, <3>1, <3>2, <3>3, <3>4 DEF Awaits
  <2>4. CASE i = fSlot /\ (head[i] # Front(i) \/ channel[i] # ChannelOf[c])
    <3>1. head[i] = 0 /\ tail[i] = 0 /\ complete[c] \notin 1 .. Len(sentOn)
      BY <1>1, <1>2, <1>3, <2>4 DEF HeadInv
    <3>2. complete'[c] > 0 => Passed(i)' <= complete'[c]
      BY <1>1, <1>4, <2>1, <2>4, <3>1
    <3>3. \A n \in received'[c] : n < Passed(i)'
      <4>1. \A n \in received[c] : n < Passed(i)
        BY <1>2 DEF Awaits, InOrder
      <4> QED
        BY <1>1, <1>4, <2>1, <2>4, <4>1
    <3>4. head'[i] = 0 /\ tail'[i] = 0 /\ Front(i)' = 0
      BY <1>4, <1>7, <2>1, <3>1
    <3> QED
      BY <1>5, <3>2, <3>3, <3>4, StartsEmpty
  <2> QED
    BY <2>2, <2>3, <2>4
<1>8. CASE FanScan
  <2>1. fPc = "scan" /\ UNCHANGED <<sentOn, head, fifo, dropped>>
    BY <1>8 DEF FanScan, slotVars, histVars
  <2>2. CASE Matches(fSlot)
    <3>1. fHead' = head[fSlot] /\ fPc' = "store" /\ fSlot' = fSlot
      BY <1>8, <2>2 DEF FanScan
    <3>2. Front(i)' = Front(i) /\ Passed(i)' = Passed(i)
      BY <2>1, <3>1 DEF Front, Storing, Passed
    <3> QED
      BY <1>2, <1>4, <2>1, <3>2, Untouched
  <2>3. CASE ~Matches(fSlot)
    <3>1. NextSlot
      BY <1>8, <2>3 DEF FanScan
    <3>2. ~Storing(i)
      BY <2>1 DEF Storing
    <3>3. i = fSlot /\ channel[i] = ChannelOf[c] => sentOn[Len(sentOn)] # ChannelOf[c]
      BY <1>3, <2>3 DEF Matches
    <3> QED
      BY <1>7, <2>1, <3>1, <3>2, <3>3
  <2> QED
    BY <2>2, <2>3
<1>9. CASE FanStore
  <2>1. fPc = "store" /\ UNCHANGED <<sentOn, head, fHead>>
    BY <1>9 DEF FanStore
  <2>2. CASE Next1(fHead) # tail[fSlot]
    <3>1. /\ fifo' = [fifo EXCEPT ![fSlot][fHead] = Len(sentOn)]
          /\ fPc' = "publish" /\ UNCHANGED <<fSlot, dropped>>
      BY <1>9, <2>2 DEF FanStore
    <3>2. Front(i)' = Front(i) /\ Passed(i)' = Passed(i)
      BY <2>1, <3>1 DEF Front, Storing, Passed
    <3>3. CASE i = fSlot
      <4>1. fifo'[i] = [fifo[i] EXCEPT ![fHead] = Len(sentOn)] /\ Front(i) = fHead
        BY <1>0, <2>1, <3>1, <3>3 DEF Front, Storing
      <4>2. Queue(i)' = Queue(i)
        <5> DEFINE cells == fifo[i]
                   t == tail[i]
        <5>1. /\ cells \in [Cells -> Numbers] /\ t \in Cells /\ fHead \in Cells
              /\ Next1(fHead) # t
          BY <1>1, <2>2, <3>3
        <5> HIDE DEF cells, t
        <5>2. Held([cells EXCEPT ![fHead] = Len(sentOn)], fHead, t) = Held(cells, fHead, t)
          BY <5>1, HeldStore
        <5> QED
          BY <1>4, <3>2, <4>1, <5>2 DEF Queue, cells, t
      <4> QED
        BY <1>2, <1>4, <2>1, <3>1, <3>2, <4>2 DEF Awaits, HeadInv
    <3>4. CASE i # fSlot
      <4>1. fifo'[i] = fifo[i]
        BY <1>0, <3>1, <3>4
      <4> QED
        BY <1>2, <1>4, <2>1, <3>1, <3>2, <4>1, Untouched
    <3> QED
      BY <3>3, <3>4
  <2>3. CASE Next1(fHead) = tail[fSlot]
    <3>1. /\ dropped' = [d \in Clients |->
                 IF d \in ReadersOf(fSlot)
                 THEN dropped[d] \union {Len(sentOn)} ELSE dropped[d]]
          /\ NextSlot /\ fifo' = fifo
      BY <1>9, <2>3 DEF FanStore
    <3>2. /\ dropped[c] \subseteq dropped'[c]
          /\ i # fSlot => dropped'[c] = dropped[c]
          /\ i = fSlot => Len(sentOn) \in dropped'[c]
      BY <3>1 DEF ReadersOf
    <3> QED
      BY <1>7, <2>1, <2>3, <3>1, <3>2
  <2> QED
    BY <2>2, <2>3
<1>10. CASE FanPublish
  <2>1. /\ fPc = "publish" /\ NextSlot /\ UNCHANGED <<sentOn, fifo, fHead, dropped>>
        /\ head' = [head EXCEPT ![fSlot] = Next1(fHead)]
    BY <1>10 DEF FanPublish, histVars
  <2>2. /\ Passed(i)' = IF i = fSlot THEN Len(sentOn) + 1 ELSE Passed(i)
        /\ i = fSlot => Passed(i) = Len(sentOn)
        /\ Front(i)' = head'[i]
        /\ i # fSlot => Front(i) = head[i]
    BY <2>1, PassedNext
  <2>3. CASE i # fSlot
    <3>1. head'[i] = head[i]
      BY <1>0, <2>1, <2>3
    <3> QED
      BY <1>2, <1>4, <2>1, <2>2, <2>3, <3>1, Untouched
  <2>4. CASE i = fSlot
    <3>1. Front(i) = fHead /\ Front(i)' = Next1(fHead) /\ head'[i] = Next1(fHead)
      BY <1>0, <2>1, <2>2, <2>4 DEF Front, Storing
    <3>2. fifo[i][fHead] = Len(sentOn) /\ Next1(fHead) # tail[i]
      BY <2>1, <2>4 DEF OrderlyInv, StoredInv
    <3>3. sentOn[Len(sentOn)] = ChannelOf[c]
      <4>1. channel[i] = sentOn[Len(sentOn)]
        BY <2>1, <2>4 DEF OrderlyInv, FanInv
      <4>2. Len(sentOn) \in 1 .. Len(sentOn)
        BY <2>1, PacketNumber
      <4>3. sentOn[Len(sentOn)] # None
        BY <1>0, <4>2, Constants
      <4> QED
        BY <1>3, <4>1, <4>3
    <3>4. since[c] <= Len(sentOn)
      BY <2>1 DEF Types, HistTypes, InProgress
    <3> DEFINE q == Held(fifo[i], fHead, tail[i])
               r == Held(fifo[i], Next1(fHead), tail[i])
    <3>5. Queue(i) = q /\ Queue(i)' = r
      BY <1>4, <2>1, <3>1 DEF Queue
    <3>6. PICK m \in Nat :
             /\ DOMAIN q = 1 .. m /\ DOMAIN r = 1 .. m + 1
             /\ \A k \in 1 .. m : r[k] = q[k]
             /\ r[m + 1] = fifo[i][fHead]
      <4> DEFINE cells == fifo[i]
                 t == tail[i]
      <4>1. cells \in [Cells -> Numbers] /\ t \in Cells /\ Next1(fHead) # t
        BY <1>1, <3>2
      <4> HIDE DEF cells, t
      <4>2. \E m \in Nat :
             /\ DOMAIN Held(cells, fHead, t) = 1 .. m
             /\ DOMAIN Held(cells, Next1(fHead), t) = 1 .. m + 1
             /\ \A k \in 1 .. m : Held(cells, Next1(fHead), t)[k] = Held(cells, fHead, t)[k]
             /\ Held(cells, Next1(fHead), t)[m + 1] = cells[fHead]
        <5>1. fHead \in Cells
          BY <1>1
        <5> QED
          BY <4>1, <5>1, HeldNext, Zenon
      <4> QED
        BY <4>2 DEF cells, t
    <3> HIDE DEF q, r
    <3>7. /\ Fresh(q, since[c], Len(sentOn), ChannelOf[c], sentOn)
          /\ InOrder(q, received[c], Len(sentOn))
          /\ Counted(q, complete[c], Len(sentOn), ChannelOf[c], sentOn,
                     received[c] \union dropped[c])
      BY <1>2, <2>2, <2>4, <3>5 DEF Awaits
    <3>8. /\ Fresh(r, since[c], Len(sentOn) + 1, ChannelOf[c], sentOn)
          /\ InOrder(r, received[c], Len(sentOn) + 1)
          /\ Counted(r, complete[c], Len(sentOn) + 1, ChannelOf[c], sentOn,
                     received[c] \union dropped[c])
      <4> DEFINE got == received[c]
                 done == received[c] \union dropped[c]
                 from == since[c]
                 must == complete[c]
                 p == Len(sentOn)
                 ch == ChannelOf[c]
      <4>1. /\ got \subseteq Nat /\ from \in Nat /\ must \in Nat /\ p \in Nat
            /\ from <= p /\ sentOn[p] = ch /\ r[m + 1] = p
        BY <1>1, <3>2, <3>3, <3>4, <3>6
      <4>2. /\ Fresh(q, from, p, ch, sentOn)
            /\ InOrder(q, got, p)
            /\ Counted(q, must, p, ch, sentOn, done)
        BY <3>7
      <4> HIDE DEF got, done, from, must, p, ch
      <4>3. /\ Fresh(r, from, p + 1, ch, sentOn)
            /\ InOrder(r, got, p + 1)
            /\ Counted(r, must, p + 1, ch, sentOn, done)
        <5>1. /\ DOMAIN q = 1 .. m /\ DOMAIN r = 1 .. m + 1
              /\ \A k \in 1 .. m : r[k] = q[k]
          BY <3>6
        <5> QED
          BY <4>1, <4>2, <5>1, AwaitedQueued, Zenon
      <4> QED
        BY <4>3 DEF got, done, from, must, p, ch
    <3>9. HeadInv(c, i)'
      BY <3>1 DEF HeadInv
    <3> QED
      BY <1>4, <2>1, <2>2, <2>4, <3>5, <3>8, <3>9 DEF Awaits
  <2> QED
    BY <2>3, <2>4
<1> QED
  BY <1>6, <1>8, <1>9, <1>10 DEF Fan

(* A reset empties the queue of its slot, at its second store. *)
LEMMA ResetQueueKept ==
    ASSUME Types, OwnInv, TurnInv, Orderly, OrderlyInv, [Next]_vars, Control,
           NEW c \in Clients, NEW i \in Slots, Ready(c)', readerId'[c] = i
    PROVE  Awaits(c, i)' /\ HeadInv(c, i)'
<1>0. /\ head \in [Slots -> Cells] /\ tail \in [Slots -> Cells]
      /\ ctlSlot \in Slots
  BY DEF Types, SlotTypes, CtlTypes
<1>1. Serial /\ fPc = "idle" /\ \A d \in Clients : rPc[d] = "idle"
  BY Turns
<1>2. /\ UNCHANGED <<fifo, fPc, fSlot, fHead, sentOn, readerId, rPc, dropped>>
      /\ Serial' = Serial
  <2>1. UNCHANGED <<fifo, fPc, fSlot, fHead, sentOn, readerId, rPc, dropped>>
    BY Zenon DEF Control, ResetBegin, ResetHead, ResetTail, slotVars, fanVars, cliVars,
       histVars
  <2> QED
    BY <2>1, OrderlyKept
<1>3. /\ Front(i) = head[i] /\ Front(i)' = head'[i] /\ Passed(i)' = Passed(i)
      /\ Passed(i) = Len(sentOn) + 1
  BY <1>1, <1>2 DEF Front, Storing, Passed
<1>4. Registered(c)' /\ Registered(c) /\ readerId[c] = i
  BY <1>2 DEF Ready, Registered
<1>5. ASSUME ~ (ctlPc = "tail" /\ ctlSlot = i)
      PROVE  Awaits(c, i) /\ HeadInv(c, i)
  <2>1. Ready(c)
    BY <1>1, <1>4, <1>5 DEF Ready
  <2> QED
    BY <1>4, <2>1 DEF OrderlyInv, QueueInv
<1>6. CASE ResetBegin
  <2>1. ctlPc = "idle" /\ UNCHANGED <<head, tail, since, received, complete>>
    BY <1>6 DEF ResetBegin, slotVars, histVars
  <2> QED
    BY <1>2, <1>3, <1>5, <2>1, Untouched
<1>7. CASE ResetHead
  <2>1. ctlPc = "head" /\ UNCHANGED <<tail, complete>>
    BY <1>7 DEF ResetHead
  <2>2. head'[i] = head[i] /\ since'[c] = since[c] /\ received'[c] = received[c]
    <3>1. CASE Affected(ctlSlot, ctlOp)
      <4>1. /\ head' = [head EXCEPT ![ctlSlot] = 0]
            /\ since' = [d \in Clients |-> IF d \in ReadersOf(ctlSlot)
                                           THEN InProgress ELSE since[d]]
            /\ received' = [d \in Clients |-> IF d \in ReadersOf(ctlSlot)
                                              THEN {} ELSE received[d]]
            /\ ctlPc' = "tail" /\ ctlSlot' = ctlSlot
        BY <1>7, <3>1 DEF ResetHead
      <4>2. i # ctlSlot
        BY <1>1, <1>2, <1>4, <4>1 DEF Ready
      <4>3. c \notin ReadersOf(ctlSlot)
        BY <1>4, <4>2 DEF ReadersOf
      <4> QED
        BY <1>0, <4>1, <4>2, <4>3
    <3>2. CASE ~Affected(ctlSlot, ctlOp)
      BY <1>7, <3>2 DEF ResetHead
    <3> QED
      BY <3>1, <3>2
  <2> QED
    BY <1>2, <1>3, <1>5, <2>1, <2>2, Untouched
<1>8. CASE ResetTail
  <2>1. /\ ctlPc = "tail" /\ UNCHANGED <<head, since, received>>
        /\ tail' = [tail EXCEPT ![ctlSlot] = 0]
        /\ complete' = [d \in Clients |-> IF d \in ReadersOf(ctlSlot)
                                          THEN Len(sentOn) + 1 ELSE complete[d]]
    BY <1>8 DEF ResetTail
  <2>2. CASE i # ctlSlot
    <3>1. tail'[i] = tail[i] /\ complete'[c] = complete[c]
      BY <1>0, <1>4, <2>1, <2>2 DEF ReadersOf
    <3> QED
      BY <1>2, <1>3, <1>5, <2>1, <2>2, <3>1, Untouched
  <2>3. CASE i = ctlSlot
    <3>1. tail'[i] = 0 /\ complete'[c] = Len(sentOn) + 1
      BY <1>0, <1>4, <2>1, <2>3 DEF ReadersOf
    <3>2. head[i] = 0 /\ received[c] = {}
      BY <1>4, <2>1, <2>3 DEF OrderlyInv, ResetInv
    <3>3. Len(sentOn) \in Nat
      BY PacketNumber
    <3> QED
      BY <1>3, <2>1, <3>1, <3>2, <3>3, TypesKept, StartsEmpty
  <2> QED
    BY <2>2, <2>3
<1> QED
  BY <1>6, <1>7, <1>8 DEF Control

(* A read takes the first packet of its own queue, and the other calls     *)
(* leave the queues of registered readers as they are.                     *)
LEMMA ClientQueueKept ==
    ASSUME Types, OwnInv, TurnInv, Orderly, OrderlyInv, [Next]_vars,
           NEW d \in Clients, Client(d),
           NEW c \in Clients, NEW i \in Slots, Ready(c)', readerId'[c] = i
    PROVE  Awaits(c, i)' /\ HeadInv(c, i)'
<1>0. /\ head \in [Slots -> Cells] /\ tail \in [Slots -> Cells]
      /\ active \in [Slots -> BOOLEAN]
      /\ readerId \in [Clients -> Slots \union {None}]
      /\ rPc \in [Clients -> {"idle", "channel", "head", "tail",
                               "unchannel", "copy", "advance"}]
      /\ received \in [Clients -> SUBSET Numbers]
      /\ complete \in [Clients -> Nat]
  BY DEF Types, SlotTypes, ClientTypes, HistTypes
<1>1. UNCHANGED <<fPc, fSlot, fHead, sentOn, fifo>>
  BY Zenon DEF Client, fanVars, slotVars, Register, RegisterChannel, RegisterHead,
     RegisterTail, Unregister, UnregisterChannel, ReadBegin, ReadCopy, ReadAdvance
<1>2. Passed(i)' = Passed(i) /\ Front(i)' = IF Storing(i) THEN fHead ELSE head'[i]
  BY <1>1 DEF Passed, Front, Storing
<1>3. /\ Serial' = Serial /\ ctlPc' = "idle" /\ ctlPc = "idle"
      /\ Serial => fPc = "idle"
  <2>1. ctlPc' = ctlPc
    BY Zenon DEF Client, ctlVars, Register, RegisterChannel, RegisterHead,
       RegisterTail, Unregister, UnregisterChannel, ReadBegin, ReadCopy, ReadAdvance
  <2> QED
    BY <2>1, Turns, OrderlyKept
<1>4. /\ Registered(c)'
      /\ Serial => rPc'[c] \notin {"channel", "head", "tail", "unchannel"}
  BY <1>3 DEF Ready
<1>5. ASSUME readerId[c] = i,
             Serial => rPc[c] \notin {"channel", "head", "tail", "unchannel"}
      PROVE  Ready(c) /\ Awaits(c, i) /\ HeadInv(c, i)
  <2>1. Ready(c)
    BY <1>3, <1>5, Constants DEF Ready, Registered
  <2> QED
    BY <1>5, <2>1 DEF OrderlyInv, QueueInv
<1>6. CASE d # c
  <2>1. readerId[c] = i
    <3>1. readerId' = readerId \/ \E x : readerId' = [readerId EXCEPT ![d] = x]
      BY Zenon DEF Client, Register, RegisterChannel, RegisterHead,
         RegisterTail, Unregister, UnregisterChannel, ReadBegin, ReadCopy, ReadAdvance
    <3> QED
      BY <1>0, <1>6, <3>1
  <2>2. /\ head'[i] = head[i] /\ tail'[i] = tail[i] /\ rPc'[c] = rPc[c]
        /\ since'[c] = since[c] /\ received'[c] = received[c]
        /\ dropped'[c] = dropped[c] /\ complete'[c] = complete[c]
    BY <1>6, <2>1, OwnSlotOnly
  <2>3. Front(i)' = Front(i)
    BY <1>2, <2>2 DEF Front
  <2> QED
    BY <1>1, <1>2, <1>4, <1>5, <2>1, <2>2, <2>3, Untouched
<1>7. ASSUME d = c, UNCHANGED <<head, tail, readerId, since, received, dropped, complete>>,
             Serial => rPc[c] \notin {"channel", "head", "tail", "unchannel"}
      PROVE  Awaits(c, i)' /\ HeadInv(c, i)'
  <2>1. Front(i)' = Front(i)
    BY <1>2, <1>7 DEF Front
  <2> QED
    BY <1>1, <1>2, <1>5, <1>7, <2>1, Untouched
<1>8. CASE d = c /\ Register(c)
  <2>1. CASE Free = {}
    <3>1. UNCHANGED <<readerId, rPc>> /\ readerId[c] = None
      BY <1>8, <2>1 DEF Register
    <3> QED
      BY <3>1, Constants
  <2>2. CASE Free # {}
    <3> DEFINE j == CHOOSE n \in Free : \A k \in Free : n <= k
    <3>1. /\ readerId' = [readerId EXCEPT ![c] = j] /\ UNCHANGED <<head, tail>>
          /\ rPc' = [rPc EXCEPT ![c] = "channel"]
          /\ received' = [received EXCEPT ![c] = {}]
          /\ complete' = [complete EXCEPT ![c] = 0]
      BY <1>8, <2>2 DEF Register, Step
    <3>2. j \in Slots /\ ~active[j]
      BY <2>2, FreeFound
    <3> HIDE DEF j
    <3>3. i = j /\ rPc'[c] = "channel" /\ received'[c] = {} /\ complete'[c] = 0
      BY <1>0, <3>1
    <3>4. ~Serial /\ head[i] = 0 /\ tail[i] = 0
      BY <1>4, <3>2, <3>3 DEF OrderlyInv, ResetInv
    <3>5. ~Storing(i)
      BY <3>2, <3>3 DEF OrderlyInv, FanInv, Storing
    <3> QED
      BY <1>2, <3>1, <3>3, <3>4, <3>5, TypesKept, StartsEmpty
  <2> QED
    BY <2>1, <2>2
<1>9. CASE d = c /\ RegisterChannel(c)
  <2>1. /\ rPc' = [rPc EXCEPT ![c] = "head"]
        /\ UNCHANGED <<head, tail, readerId, since, received, dropped, complete>>
    BY <1>9 DEF RegisterChannel, Step, histVars
  <2>2. ~Serial
    BY <1>0, <1>4, <2>1
  <2> QED
    BY <1>7, <1>9, <2>1, <2>2
<1>10. CASE d = c /\ RegisterHead(c)
  <2>1. /\ rPc[c] = "head" /\ rPc' = [rPc EXCEPT ![c] = "tail"]
        /\ head' = [head EXCEPT ![readerId[c]] = 0]
        /\ UNCHANGED <<tail, readerId, since, received, dropped, complete>>
    BY <1>10 DEF RegisterHead, Step, histVars
  <2>2. ~Serial
    BY <1>0, <1>4, <2>1
  <2>3. head'[i] = 0
    BY <1>0, <2>1
  <2>4. tail[i] = 0 /\ received[c] = {} /\ complete[c] = 0
    BY <2>1, <2>2 DEF OrderlyInv, ResetInv
  <2>5. CASE Storing(i)
    <3>1. Front(i)' = Front(i)
      BY <1>2, <2>5 DEF Front
    <3>2. Queue(i)' = Queue(i)
      BY <1>1, <2>1, <3>1 DEF Queue
    <3>3. HeadInv(c, i)'
      BY <2>1, <2>3, <2>4 DEF HeadInv
    <3>4. Awaits(c, i)
      BY <1>5, <2>1, <2>2
    <3> QED
      BY <1>1, <1>2, <2>1, <3>2, <3>3, <3>4 DEF Awaits
  <2>6. CASE ~Storing(i)
    BY <1>2, <2>1, <2>3, <2>4, <2>6, TypesKept, StartsEmpty
  <2> QED
    BY <2>5, <2>6
<1>11. CASE d = c /\ RegisterTail(c)
  <2>1. /\ rPc[c] = "tail"
        /\ tail' = [tail EXCEPT ![readerId[c]] = 0]
        /\ complete' = [complete EXCEPT ![c] = Len(sentOn) + 1]
        /\ UNCHANGED <<head, readerId, since, received, dropped>>
    BY <1>11 DEF RegisterTail
  <2>2. tail'[i] = 0 /\ complete'[c] = Len(sentOn) + 1 /\ received[c] = {}
    BY <1>0, <2>1 DEF OrderlyInv, ResetInv
  <2>3. /\ Len(sentOn) \in Nat /\ Passed(i) \in Nat /\ Passed(i) <= Len(sentOn) + 1
    BY QueueTyped
  <2>4. CASE Serial
    <3>1. head[i] = 0
      BY <2>1, <2>4 DEF OrderlyInv, ResetInv
    <3>2. ~Storing(i)
      BY <1>3, <2>4 DEF Storing
    <3> QED
      BY <1>2, <2>1, <2>2, <2>3, <3>1, <3>2, TypesKept, StartsEmpty
  <2>5. CASE ~Serial
    <3>1. tail[i] = 0
      BY <2>1, <2>5 DEF OrderlyInv, ResetInv
    <3>2. Awaits(c, i) /\ HeadInv(c, i)
      BY <1>5, <2>1, <2>5
    <3>3. Front(i)' = Front(i)
      BY <1>2, <2>1 DEF Front
    <3>4. Queue(i)' = Queue(i)
      BY <1>1, <2>2, <3>1, <3>3 DEF Queue
    <3>5. Counted(Queue(i), complete'[c], Passed(i), ChannelOf[c], sentOn,
                  received[c] \union dropped[c])
      BY <2>2, <2>3 DEF Counted
    <3>6. HeadInv(c, i)'
      BY <1>1, <2>1, <2>2, <2>3, <3>1, <3>2, <3>3 DEF HeadInv
    <3> QED
      BY <1>1, <1>2, <2>1, <3>2, <3>4, <3>5, <3>6 DEF Awaits
  <2> QED
    BY <2>4, <2>5
<1>12. CASE d = c /\ Unregister(c)
  <2>1. rPc' = [rPc EXCEPT ![c] = "unchannel"] /\ Serial
    BY <1>12, Turns DEF Unregister, Step
  <2> QED
    BY <1>0, <1>4, <2>1
<1>13. CASE d = c /\ UnregisterChannel(c)
  <2>1. readerId' = [readerId EXCEPT ![c] = None]
    BY <1>13 DEF UnregisterChannel
  <2> QED
    BY <1>0, <2>1, Constants
<1>14. CASE d = c /\ (ReadBegin(c) \/ ReadCopy(c))
  <2>1. /\ rPc[c] \in {"idle", "copy"}
        /\ UNCHANGED <<head, tail, readerId, since, received, dropped, complete>>
    BY <1>14 DEF ReadBegin, ReadCopy, slotVars, histVars
  <2> QED
    BY <1>7, <1>14, <2>1
<1>15. CASE d = c /\ ReadAdvance(c)
  <2>1. /\ rPc[c] = "advance"
        /\ tail' = [tail EXCEPT ![readerId[c]] = Next1(rTail[c])]
        /\ received' = [received EXCEPT ![c] = received[c] \union {out[c]}]
        /\ UNCHANGED <<head, readerId, since, dropped, complete>>
    BY <1>15 DEF ReadAdvance
  <2>2. /\ rTail[c] = tail[i] /\ Front(i) # tail[i] /\ head[i] = Front(i)
    BY <2>1, ReaderFront DEF OrderlyInv
  <2>3. out[c] = fifo[i][tail[i]]
    BY <2>1, <2>2 DEF OrderlyInv, ReadInv
  <2>4. /\ tail'[i] = Next1(tail[i])
        /\ received'[c] = received[c] \union {out[c]}
    BY <1>0, <2>1, <2>2
  <2>5. Front(i)' = Front(i)
    BY <1>2, <2>1 DEF Front
  <2>6. Awaits(c, i)
    BY <1>5, <2>1
  <2> DEFINE q == Queue(i)
             r == Queue(i)'
             p == Passed(i)
             got == received[c]
             lost == dropped[c]
  <2>7. \E n \in Nat :
             /\ DOMAIN q = 1 .. n + 1
             /\ DOMAIN r = 1 .. n
             /\ q[1] = out[c]
             /\ \A k \in 1 .. n : r[k] = q[k + 1]
    <3> DEFINE cells == fifo[i]
               h == Front(i)
               t == tail[i]
    <3>1. cells \in [Cells -> Numbers] /\ h \in Cells /\ t \in Cells /\ h # t
      BY <2>2, QueueTyped
    <3>2. q = Held(cells, h, t) /\ r = Held(cells, h, Next1(t)) /\ out[c] = cells[t]
      BY <1>1, <2>3, <2>4, <2>5 DEF Queue
    <3> HIDE DEF cells, h, t, q, r
    <3>3. \E n \in Nat :
             /\ DOMAIN Held(cells, h, t) = 1 .. n + 1
             /\ DOMAIN Held(cells, h, Next1(t)) = 1 .. n
             /\ Held(cells, h, t)[1] = cells[t]
             /\ \A k \in 1 .. n : Held(cells, h, Next1(t))[k] = Held(cells, h, t)[k + 1]
      BY <3>1, HeldRest
    <3> QED
      BY <3>2, <3>3
  <2>8. /\ Fresh(q, since[c], p, ChannelOf[c], sentOn)
        /\ InOrder(q, got, p)
        /\ Counted(q, complete[c], p, ChannelOf[c], sentOn, got \union lost)
    BY <2>6 DEF Awaits
  <2>9. p \in Nat /\ since[c] \in Nat /\ complete[c] \in Nat
    BY QueueTyped
  <2> HIDE DEF q, r, p, got, lost
  <2>10. PICK n \in Nat :
             /\ DOMAIN q = 1 .. n + 1
             /\ DOMAIN r = 1 .. n
             /\ q[1] = out[c]
             /\ \A k \in 1 .. n : r[k] = q[k + 1]
    BY <2>7
  <2>11. /\ Fresh(r, since[c], p, ChannelOf[c], sentOn)
         /\ InOrder(r, got \union {q[1]}, p)
         /\ Counted(r, complete[c], p, ChannelOf[c], sentOn, (got \union {q[1]}) \union lost)
    BY <2>8, <2>9, <2>10, AwaitedTaken
  <2>12. Awaits(c, i)'
    BY <1>1, <1>2, <2>1, <2>4, <2>10, <2>11 DEF Awaits, r, p, got, lost
  <2>13. HeadInv(c, i)'
    BY <2>1, <2>2, <2>5 DEF HeadInv
  <2> QED
    BY <2>12, <2>13
<1> QED
  BY <1>6, <1>8, <1>9, <1>10, <1>11, <1>12, <1>13, <1>14, <1>15, Zenon DEF Client

(* Every step leaves in each queue what its reader is to read. *)
LEMMA QueueInvKept ==
    ASSUME Types, OwnInv, TurnInv, Orderly, OrderlyInv, [Next]_vars
    PROVE  QueueInv'
<1>1. SUFFICES ASSUME NEW c \in Clients, NEW i \in Slots, Ready(c)', readerId'[c] = i
               PROVE  Awaits(c, i)' /\ HeadInv(c, i)'
  BY DEF QueueInv
<1>2. ASSUME UNCHANGED <<ctlPc, ctlSlot, readerId, rPc>>
      PROVE  Ready(c) /\ readerId[c] = i
  <2>1. /\ ctlPc' = ctlPc /\ ctlSlot' = ctlSlot /\ readerId' = readerId
        /\ rPc' = rPc
    BY <1>2
  <2>2. Registered(c)' <=> Registered(c)
    BY <2>1 DEF Registered
  <2>3. scenario' = scenario
    BY ScenarioKept
  <2> QED
    BY <1>1, <2>1, <2>2, <2>3 DEF Ready, Serial
<1>3. CASE Fan
  <2>1. UNCHANGED <<ctlPc, ctlSlot, readerId, rPc>>
    BY <1>3, Zenon DEF Fan, FanBegin, FanScan, FanStore, FanPublish, ctlVars, cliVars
  <2> QED
    BY <1>2, <1>3, <2>1, FanQueueKept
<1>4. CASE Control
  BY <1>1, <1>4, ResetQueueKept
<1>5. CASE \E d \in Clients : Client(d)
  BY <1>1, <1>5, ClientQueueKept
<1>6. CASE UNCHANGED vars
  <2>1. /\ UNCHANGED <<ctlPc, ctlSlot, readerId, rPc, fPc, fSlot, fHead>>
        /\ UNCHANGED <<head, tail, fifo, sentOn, since, received, dropped, complete>>
    BY <1>6 DEF vars, slotVars, fanVars, ctlVars, cliVars, histVars
  <2>2. Awaits(c, i) /\ HeadInv(c, i)
    BY <1>2, <2>1 DEF OrderlyInv, QueueInv
  <2>3. Front(i)' = Front(i) /\ Passed(i)' = Passed(i)
    BY <2>1 DEF Front, Storing, Passed
  <2> QED
    BY <2>1, <2>2, <2>3, Untouched
<1> QED
  BY <1>3, <1>4, <1>5, <1>6 DEF Next

-----------------------------------------------------------------------------
(* The invariant. *)

(* The invariant holds at the start *)
LEMMA InitInv ==
    ASSUME Init
    PROVE  IInv
<1> USE ZeroTyped, Constants
<1>1. SlotTypes
  BY DEF Init, SlotTypes, Numbers
<1>2. FanTypes /\ CtlTypes
  <2>1. scenario \in Scenarios /\ scenario.packets \in 0 .. MaxPackets
    BY ScenarioTyped DEF Init
  <2>2. sentOn \in Seq(Channels) /\ Len(sentOn) = 0
    BY DEF Init
  <2> QED
    BY <2>1, <2>2 DEF Init, FanTypes, CtlTypes
<1>3. ClientTypes /\ HistTypes
  <2>1. InProgress = 1 /\ Len(sentOn) = 0
    BY DEF Init, InProgress
  <2> QED
    BY <2>1 DEF Init, ClientTypes, HistTypes, Numbers
<1>4. OwnInv
  BY DEF Init, OwnInv, OwnsSlot, SlotsApart, FreeInv, Registered, Registering
<1>5. TurnInv
  BY DEF Init, TurnInv
<1>6. OrderlyInv
  BY DEF Init, OrderlyInv, FanInv, StoredInv, QueueInv, ReadInv, ResetInv, Ready,
     Registered
<1> QED
  BY <1>1, <1>2, <1>3, <1>4, <1>5, <1>6 DEF IInv, Types

(* and is kept by every step. *)
LEMMA NextInv ==
    ASSUME IInv, [Next]_vars
    PROVE  IInv'
<1>1. Types /\ OwnInv /\ TurnInv /\ (Orderly => OrderlyInv) /\ Orderly' = Orderly
  BY OrderlyKept DEF IInv
<1>2. Types' /\ OwnInv' /\ TurnInv'
  BY <1>1, TypesKept, OwnInvKept, TurnInvKept
<1>3. ASSUME Orderly PROVE OrderlyInv'
  BY <1>1, <1>3, FanInvKept, StoredInvKept, QueueInvKept, ReadInvKept, ResetInvKept
     DEF OrderlyInv
<1> QED
  BY <1>1, <1>2, <1>3 DEF IInv

(* The inductive invariant: typed, each slot with one owner, calls in      *)
(* turn, and, where calls do not overlap or nothing is unregistered and    *)
(* reset, each queue what its reader is still to read.                     *)
THEOREM Invariance == Spec => []IInv
<1>1. Init => IInv
  BY InitInv
<1>2. IInv /\ [Next]_vars => IInv'
  BY NextInv
<1> QED
  BY <1>1, <1>2, PTL DEF Spec

(* Every variable keeps to its type, however the calls interleave.         *)
THEOREM TypeCorrect == Spec => []TypeOK
<1>1. IInv => TypeOK
  <2> SUFFICES ASSUME IInv PROVE TypeOK
    OBVIOUS
  <2>1. Types /\ scenario.packets \in 0 .. MaxPackets
    BY ScenarioTyped DEF IInv, Types, CtlTypes
  <2>2. Len(sentOn) \in Nat /\ Len(sentOn) <= MaxPackets
    BY <2>1, PacketNumber, Constants DEF Types, FanTypes
  <2>3. InProgress \in Nat /\ InProgress <= MaxPackets + 1
    BY <2>2, Constants DEF InProgress
  <2>4. /\ since \in [Clients -> 0 .. MaxPackets + 1]
        /\ bound \in [Clients -> 0 .. MaxPackets + 1]
        /\ complete \in [Clients -> 0 .. MaxPackets + 1]
    BY <2>1, <2>2, <2>3, Constants DEF Types, HistTypes
  <2>5. received \in [Clients -> SUBSET Numbers] /\ dropped \in [Clients -> SUBSET Numbers]
    BY <2>1 DEF Types, HistTypes
  <2>6. SlotTypes /\ ClientTypes /\ CtlTypes /\ FanTypes
    BY <2>1 DEF Types
  <2> QED
    BY <2>2, <2>4, <2>5, <2>6 DEF TypeOK, SlotTypes, ClientTypes, CtlTypes, FanTypes
<1> QED
  BY <1>1, Invariance, PTL

(* What a reader hands out is the first of its queue. *)
LEMMA FirstHandedOut ==
    ASSUME IInv, Orderly, NEW c \in Clients, rPc[c] = "advance"
    PROVE  \E i \in Slots :
             /\ Awaits(c, i) /\ 1 \in DOMAIN Queue(i) /\ Queue(i)[1] = out[c]
             /\ since[c] \in Nat /\ bound[c] \in Nat /\ since[c] > 0
             /\ bound[c] <= since[c]
<1>1. Types /\ OwnInv /\ TurnInv /\ OrderlyInv
  BY DEF IInv
<1>2. QueueInv /\ ReadInv
  BY <1>1 DEF OrderlyInv
<1> DEFINE i == readerId[c]
<1>3. i \in Slots
  BY <1>1, SlotOfCall
<1>4. /\ Ready(c) /\ rTail[c] = tail[i] /\ Front(i) # tail[i]
  BY <1>1, <1>2, <1>3, ReaderFront
<1>5. Awaits(c, i)
  BY <1>2, <1>3, <1>4 DEF QueueInv
<1>6. out[c] = fifo[i][tail[i]] /\ bound[c] <= since[c]
  BY <1>2, <1>3, <1>4 DEF ReadInv
<1>7. since[c] \in Nat /\ bound[c] \in Nat /\ since[c] > 0
  BY <1>1, <1>4 DEF Types, HistTypes, OwnInv, OwnsSlot, Ready
<1>8. 1 \in DOMAIN Queue(i) /\ Queue(i)[1] = out[c]
  <2> DEFINE cells == fifo[i]
             h == Front(i)
             t == tail[i]
  <2>1. cells \in [Cells -> Numbers] /\ h \in Cells /\ t \in Cells /\ h # t
    BY <1>1, <1>3, <1>4, QueueTyped
  <2>2. Queue(i) = Held(cells, h, t) /\ out[c] = cells[t]
    BY <1>6 DEF Queue
  <2> HIDE DEF cells, h, t
  <2>3. PICK n \in Nat : /\ DOMAIN Held(cells, h, t) = 1 .. n + 1
                         /\ Held(cells, h, t)[1] = cells[t]
    BY <2>1, HeldRest
  <2>4. 1 \in 1 .. n + 1
    OBVIOUS
  <2> QED
    BY <2>2, <2>3, <2>4
<1> QED
  BY <1>3, <1>5, <1>6, <1>7, <1>8

(* A reader is handed packets of its own channel only, never those of the  *)
(* previous owner of its slot, where calls do not overlap or nothing is    *)
(* unregistered and reset.                                                 *)
THEOREM OwnChannelOnly == Spec => [](Orderly => MatchingChannelOnly)
<1>1. IInv /\ TypeOK => (Orderly => MatchingChannelOnly)
  <2> SUFFICES ASSUME IInv, TypeOK, Orderly, NEW c \in Clients, rPc[c] = "advance"
               PROVE  out[c] > 0 /\ sentOn[out[c]] = ChannelOf[c]
    BY DEF MatchingChannelOnly
  <2>1. PICK i \in Slots :
             /\ Awaits(c, i) /\ 1 \in DOMAIN Queue(i) /\ Queue(i)[1] = out[c]
             /\ since[c] \in Nat /\ since[c] > 0
    BY FirstHandedOut
  <2>2. out[c] \in since[c] .. Passed(i) - 1 /\ sentOn[out[c]] = ChannelOf[c]
    BY <2>1 DEF Awaits, Fresh
  <2> QED
    BY <2>1, <2>2
<1> QED
  BY <1>1, Invariance, TypeCorrect, PTL

(* A reader is handed no packet from before it registered, or from before  *)
(* its FIFO was last reset.                                                *)
THEOREM NothingStale == Spec => [](Orderly => NoStalePacket)
<1>1. IInv => (Orderly => NoStalePacket)
  <2> SUFFICES ASSUME IInv, Orderly, NEW c \in Clients, rPc[c] = "advance"
               PROVE  out[c] >= bound[c]
    BY DEF NoStalePacket
  <2>1. PICK i \in Slots :
             /\ Awaits(c, i) /\ 1 \in DOMAIN Queue(i) /\ Queue(i)[1] = out[c]
             /\ since[c] \in Nat /\ bound[c] \in Nat /\ bound[c] <= since[c]
    BY FirstHandedOut
  <2>2. out[c] \in since[c] .. Passed(i) - 1
    BY <2>1 DEF Awaits, Fresh
  <2> QED
    BY <2>1, <2>2
<1> QED
  BY <1>1, Invariance, PTL

(* A reader is handed its packets in the order they were fanned out, and   *)
(* none twice.                                                             *)
THEOREM HandedInOrder == Spec => [](Orderly => InOrderOnce)
<1>1. IInv => (Orderly => InOrderOnce)
  <2> SUFFICES ASSUME IInv, Orderly, NEW c \in Clients, rPc[c] = "advance",
                      NEW n \in received[c]
               PROVE  n < out[c]
    BY DEF InOrderOnce
  <2>1. PICK i \in Slots :
             Awaits(c, i) /\ 1 \in DOMAIN Queue(i) /\ Queue(i)[1] = out[c]
    BY FirstHandedOut
  <2> QED
    BY <2>1 DEF Awaits, InOrder
<1> QED
  BY <1>1, Invariance, PTL

(* Every packet of its channel fanned out since a reader registered is     *)
(* read, in its FIFO, or counted as having found it full.                  *)
THEOREM AllAccountedFor == Spec => [](Orderly => EveryPacketCounted)
<1>1. IInv => (Orderly => EveryPacketCounted)
  <2> SUFFICES ASSUME IInv, Orderly, NEW c \in Clients,
                      readerId[c] # None, active[readerId[c]],
                      complete[c] > 0, ctlPc = "idle",
                      NEW n \in complete[c] .. InProgress - 1,
                      sentOn[n] = ChannelOf[c]
               PROVE  n \in received[c] \union dropped[c] \union Queued(readerId[c])
    BY DEF EveryPacketCounted
  <2> DEFINE i == readerId[c]
             size == (head[i] - tail[i]) % kFifoSize
  <2>1. Types /\ OwnInv /\ TurnInv /\ OrderlyInv
    BY DEF IInv
  <2>2. i \in Slots
    BY <2>1 DEF Types, ClientTypes
  <2>3. Ready(c)
    <3>1. rPc[c] # "unchannel"
      BY <2>1 DEF OwnInv, OwnsSlot, Registered
    <3>2. rPc[c] \notin {"channel", "head", "tail"}
      BY <2>1, <2>2 DEF OrderlyInv, ResetInv
    <3> QED
      BY <3>1, <3>2 DEF Ready, Registered
  <2>4. Awaits(c, i) /\ HeadInv(c, i)
    BY <2>1, <2>2, <2>3 DEF OrderlyInv, QueueInv
  <2>5. /\ complete[c] \in Nat /\ Len(sentOn) \in Nat /\ Passed(i) \in Nat
        /\ InProgress \in Nat
    BY <2>1, <2>2, QueueTyped, PacketNumber
  <2>6. InProgress <= Passed(i) /\ InProgress <= Len(sentOn) + 1
    BY <2>5 DEF InProgress, Passed
  <2>7. n \in complete[c] .. Passed(i) - 1
    BY <2>5, <2>6
  <2>8. n \in received[c] \union dropped[c] \/ \E k \in DOMAIN Queue(i) : n = Queue(i)[k]
    BY <2>4, <2>7 DEF Awaits, Counted
  <2>9. head[i] = Front(i)
    BY <2>4, <2>5, <2>6 DEF HeadInv
  <2>10. ASSUME NEW k \in DOMAIN Queue(i), n = Queue(i)[k]
         PROVE  n \in Queued(i)
    <3>1. Queue(i) = [m \in 1 .. size |-> fifo[i][(tail[i] + (m - 1)) % kFifoSize]]
      BY <2>9 DEF Queue, Held
    <3>2. size \in Nat
      <4>1. head[i] - tail[i] \in Int
        BY <2>1, <2>2, QueueTyped DEF Cells
      <4> QED
        BY <4>1, Constants
    <3> HIDE DEF size
    <3>3. k \in 1 .. size /\ n = fifo[i][(tail[i] + (k - 1)) % kFifoSize]
      BY <2>10, <3>1
    <3>4. k - 1 \in 0 .. size - 1
      BY <3>2, <3>3
    <3> QED
      BY <3>3, <3>4 DEF Queued, size
  <2> QED
    BY <2>8, <2>10
<1> QED
  BY <1>1, Invariance, PTL
=============================================================================
