-------------------------- MODULE SharedRingProofs --------------------------
(***************************************************************************)
(* Proofs about SharedRing, for every capacity, entry size, counter range  *)
(* and number of frames that satisfy RingAssumption.                       *)
(*                                                                         *)
(* The argument: place every accepted entry at its position in the         *)
(* unbounded byte stream (entry k starts at EntrySize * k).  The counters  *)
(* are those positions modulo Modulus, the cells are those positions       *)
(* modulo Cap, and two different positions less than Cap apart never share *)
(* a cell.  The window from the first unreturned byte to the end of the    *)
(* entry being written is never longer than Cap, so the producer's writes  *)
(* and the consumer's reads never meet.                                    *)
(***************************************************************************)
EXTENDS SharedRing, Sequences, TLAPS
-----------------------------------------------------------------------------
(* Facts about the remainder, as free-running counters use it.             *)

(* Euclidean division. *)
LEMMA DivMod ==
    ASSUME NEW a \in Int, NEW m \in Nat \ {0}
    PROVE  /\ a = m * (a \div m) + (a % m)
           /\ a % m \in 0 .. m - 1
           /\ a \div m \in Int
  OBVIOUS

(* The remainder is unique. *)
LEMMA ModUnique ==
    ASSUME NEW m \in Nat \ {0}, NEW q \in Int, NEW r \in 0 .. m - 1
    PROVE  (m * q + r) % m = r
  OBVIOUS

(* Products grow with their factors, *)
LEMMA MulMono ==
    ASSUME NEW m \in Nat, NEW a \in Int, NEW b \in Int, a <= b
    PROVE  m * a <= m * b
  OBVIOUS

(* and distribute over sums and differences. *)
LEMMA MulDistributes ==
    ASSUME NEW m \in Int, NEW a \in Int, NEW b \in Int
    PROVE  /\ m * (a + b) = m * a + m * b
           /\ m * (a - b) = m * a - m * b
           /\ m * a \in Int
  OBVIOUS

(* Adding a multiple of the modulus changes no remainder. *)
LEMMA ModShift ==
    ASSUME NEW m \in Nat \ {0}, NEW q \in Int, NEW a \in Int
    PROVE  (m * q + a) % m = a % m
<1>1. a = m * (a \div m) + (a % m) /\ a % m \in 0 .. m - 1 /\ a \div m \in Int
  BY DivMod
<1>2. m * q + a = m * (q + (a \div m)) + (a % m)
  <2>1. m * (q + (a \div m)) = m * q + m * (a \div m)
        /\ m * q \in Int /\ m * (a \div m) \in Int
    BY <1>1, MulDistributes
  <2>2. ASSUME NEW x \in Int, NEW y \in Int, NEW r \in Int, a = y + r
        PROVE  x + a = (x + y) + r
    BY <2>2
  <2> QED
    BY <1>1, <2>1, <2>2
<1>3. q + (a \div m) \in Int
  BY <1>1
<1> QED
  BY <1>1, <1>2, <1>3, ModUnique

(* Wrapped positions: reducing before adding, or before subtracting,       *)
(* changes nothing.                                                        *)
LEMMA ModAdd ==
    ASSUME NEW m \in Nat \ {0}, NEW a \in Int, NEW b \in Int
    PROVE  ((a % m) + b) % m = (a + b) % m
<1>1. a = m * (a \div m) + (a % m) /\ a % m \in 0 .. m - 1 /\ a \div m \in Int
  BY DivMod
<1>2. a + b = m * (a \div m) + ((a % m) + b)
  <2>1. ASSUME NEW x \in Int, NEW r \in Int, a = x + r
        PROVE  a + b = x + (r + b)
    BY <2>1
  <2> QED
    BY <1>1, <2>1, MulDistributes
<1>3. (a % m) + b \in Int
  BY <1>1
<1>4. (m * (a \div m) + ((a % m) + b)) % m = ((a % m) + b) % m
  BY <1>1, <1>3, ModShift, Zenon
<1> QED
  BY <1>2, <1>4, Zenon

(* The difference of two remainders wraps to the difference. *)
LEMMA ModSub ==
    ASSUME NEW m \in Nat \ {0}, NEW a \in Int, NEW b \in Int,
           a - b \in 0 .. m - 1
    PROVE  ((a % m) - (b % m)) % m = a - b
<1>1. /\ a = m * (a \div m) + (a % m) /\ a % m \in 0 .. m - 1 /\ a \div m \in Int
      /\ b = m * (b \div m) + (b % m) /\ b % m \in 0 .. m - 1 /\ b \div m \in Int
  BY DivMod
<1> DEFINE d == (b \div m) - (a \div m)
<1>2. d \in Int
  BY <1>1
<1>3. (a % m) - (b % m) = m * d + (a - b)
  <2>1. m * d = m * (b \div m) - m * (a \div m)
        /\ m * (b \div m) \in Int /\ m * (a \div m) \in Int
    BY <1>1, MulDistributes
  <2>2. ASSUME NEW x \in Int, NEW y \in Int, NEW r \in Int, NEW s \in Int,
               NEW z \in Int, a = x + r, b = y + s, z = y - x
        PROVE  r - s = z + (a - b)
    BY <2>2
  <2> HIDE DEF d
  <2> QED
    BY <1>1, <1>2, <2>1, <2>2
<1> HIDE DEF d
<1>4. (m * d + (a - b)) % m = a - b
  BY <1>2, ModUnique, Zenon
<1> QED
  BY <1>3, <1>4, Zenon

(* Two positions less than m apart have different remainders. *)
LEMMA ModInjective ==
    ASSUME NEW m \in Nat \ {0}, NEW a \in Int, NEW b \in Int,
           a < b, b - a < m
    PROVE  a % m # b % m
<1> DEFINE d == (b \div m) - (a \div m)
<1>1. d \in Int /\ (a % m = b % m => b - a = m * d)
  OBVIOUS
<1> HIDE DEF d
<1>2. (d <= 0 => m * d <= 0) /\ (d >= 1 => m * d >= m)
  BY <1>1
<1> QED
  BY <1>1, <1>2

(* Position of entry k in the byte stream, and of its byte o. *)
Start(k) == EntrySize * k

-----------------------------------------------------------------------------
(* The index of a wrapped counter is that of the position it stands for.   *)
LEMMA IndexOfPosition ==
    ASSUME NEW a \in Int, NEW b \in Int
    PROVE  /\ Index(Add(a % Modulus, b)) = (a + b) % Cap
           /\ Index(a % Modulus) = a % Cap
<1> USE RingAssumption
<1>0. Modulus \in Nat \ {0} /\ Cap \in Nat \ {0}
  OBVIOUS
<1>1. Modulus = Cap * (Modulus \div Cap) /\ Modulus \div Cap \in Int
  BY DivMod
<1>2. ASSUME NEW x \in Int PROVE (x % Modulus) % Cap = x % Cap
  <2>1. x = Modulus * (x \div Modulus) + (x % Modulus) /\ x \div Modulus \in Int
        /\ x % Modulus \in Int
    BY <1>0, DivMod
  <2>2. ASSUME NEW w \in Int, NEW y \in Int PROVE (Cap * w) * y = Cap * (w * y) /\ w * y \in Int
    BY <1>0
  <2> DEFINE q == (Modulus \div Cap) * (x \div Modulus)
  <2>3. q \in Int /\ Modulus * (x \div Modulus) = Cap * q
    BY <1>1, <2>1, <2>2
  <2>4. x = Cap * q + (x % Modulus)
    BY <2>1, <2>3
  <2> HIDE DEF q
  <2>5. (Cap * q + (x % Modulus)) % Cap = (x % Modulus) % Cap
    BY <1>0, <2>1, <2>3, ModShift, Zenon
  <2> QED
    BY <2>4, <2>5, Zenon
<1>3. Add(a % Modulus, b) = (a + b) % Modulus
  BY <1>0, ModAdd DEF Add
<1>4. Index(Add(a % Modulus, b)) = ((a + b) % Modulus) % Cap
  BY <1>3, Zenon DEF Index
<1>5. ((a + b) % Modulus) % Cap = (a + b) % Cap
  <2>1. a + b \in Int
    OBVIOUS
  <2> QED
    BY <1>2, <2>1, Zenon
<1>6. Index(a % Modulus) = a % Cap
  BY <1>2, Zenon DEF Index
<1> QED
  BY <1>4, <1>5, <1>6, Zenon
-----------------------------------------------------------------------------
(* The inductive invariant. *)

(* Both counters are stream positions, and the window from the first byte  *)
(* not handed back to the end of the entry being written fits in the ring. *)
CountersInv ==
    /\ released <= delivered
    /\ delivered <= rxProduceCount
    /\ head = Start(rxProduceCount) % Modulus
    /\ tail = Start(released) % Modulus
    /\ Start(rxProduceCount) - Start(released) <= Cap
    /\ pPc = "copy" =>
         /\ Start(rxProduceCount + 1) - Start(released) <= Cap
         /\ rxProduceCount < MaxFrames

(* The consumer's local counters are stream positions too: cTail of the    *)
(* next entry to deliver, cHead of some entry not beyond the published     *)
(* head.                                                                   *)
ConsumerInv ==
    /\ cPc = "idle" => delivered = released
    /\ cPc # "idle" =>
         /\ cTail = Start(delivered) % Modulus
         /\ \E n \in delivered .. rxProduceCount :
               /\ cHead = Start(n) % Modulus
               /\ cPc = "copy" => delivered < n
    /\ cPc = "copy" => cOff >= 2

(* The ring holds every entry not yet delivered, and the part written of   *)
(* the entry in progress.                                                  *)
CellsInv ==
    /\ \A k \in delivered .. rxProduceCount - 1, o \in Offsets :
          cells[(Start(k) + o) % Cap] = <<k, o>>
    /\ pPc = "copy" =>
          \A o \in 0 .. pOff - 1 :
             cells[(Start(rxProduceCount) + o) % Cap] = <<rxProduceCount, o>>

IInv ==
    /\ TypeOK
    /\ CountersInv
    /\ ConsumerInv
    /\ CellsInv
    /\ FrameIntact
    /\ BatchReachesHead
-----------------------------------------------------------------------------
(* Lemmas about positions. *)

(* The constants, in the form the proofs use them. *)
LEMMA Constants ==
    /\ Modulus \in Nat \ {0} /\ Cap \in Nat \ {0} /\ Cap < Modulus
    /\ EntrySize \in Nat \ {0, 1} /\ MaxFrames \in Nat /\ MaxDrops \in Nat
    /\ 0 \in Offsets /\ 1 \in Offsets
  BY RingAssumption DEF Offsets

(* Entries start one entry size apart, in order. *)
LEMMA StartFacts ==
    ASSUME NEW a \in Nat, NEW b \in Nat
    PROVE  /\ Start(a) \in Nat
           /\ Start(a + 1) = Start(a) + EntrySize
           /\ a <= b => Start(a) <= Start(b)
           /\ a < b => Start(a) + EntrySize <= Start(b)
           /\ EntrySize * (a - b) = Start(a) - Start(b)
<1> USE Constants DEF Start
<1>1. Start(a) \in Nat /\ Start(a + 1) = Start(a) + EntrySize
  BY MulDistributes
<1>2. a <= b => Start(a) <= Start(b)
  BY MulMono
<1>3. a < b => Start(a + 1) <= Start(b)
  <2>1. a < b => a + 1 <= b
    OBVIOUS
  <2> QED
    BY <2>1, MulMono
<1>4. EntrySize * (a - b) = Start(a) - Start(b)
  BY MulDistributes
<1> QED
  BY <1>1, <1>2, <1>3, <1>4

(* The unsigned difference of the counters is the length of the window.    *)
LEMMA SubOfPositions ==
    ASSUME NEW a \in Nat, NEW b \in Nat, b <= a, Start(a) - Start(b) <= Cap
    PROVE  Sub(Start(a) % Modulus, Start(b) % Modulus) = Start(a) - Start(b)
<1>1. Start(a) \in Nat /\ Start(b) \in Nat /\ Start(b) <= Start(a)
  BY StartFacts
<1>2. Start(a) - Start(b) \in 0 .. Modulus - 1
  BY <1>1, Constants
<1>3. Start(a) \in Int /\ Start(b) \in Int
  BY <1>1
<1>4. Modulus \in Nat \ {0}
  BY Constants
<1> QED
  BY <1>2, <1>3, <1>4, ModSub, Zenon DEF Sub

(* Adding an entry size to a position gives the next entry's. *)
LEMMA AddToPosition ==
    ASSUME NEW a \in Nat
    PROVE  Add(Start(a) % Modulus, EntrySize) = Start(a + 1) % Modulus
<1>0. Start(a) \in Nat /\ Start(a + 1) = Start(a) + EntrySize
  BY StartFacts
<1>1. Start(a) \in Int /\ EntrySize \in Int /\ Modulus \in Nat \ {0}
      /\ Start(a + 1) = Start(a) + EntrySize
  BY <1>0, Constants
<1>2. ((Start(a) % Modulus) + EntrySize) % Modulus = (Start(a) + EntrySize) % Modulus
  BY <1>1, ModAdd, Zenon
<1> QED
  BY <1>1, <1>2, Zenon DEF Add

(* Byte p of the entry being written never shares a cell with a byte that  *)
(* is not yet handed back.                                                 *)
LEMMA WindowDisjoint ==
    ASSUME NEW rel \in Nat, NEW n \in Nat, Start(n + 1) - Start(rel) <= Cap,
           NEW k \in rel .. n - 1, NEW o \in Offsets, NEW p \in Offsets
    PROVE  (Start(k) + o) % Cap # (Start(n) + p) % Cap
<1>1. k \in Nat /\ rel <= k /\ k < n
  OBVIOUS
<1>2. /\ Start(k) \in Nat /\ Start(n) \in Nat /\ Start(rel) \in Nat
      /\ Start(rel) <= Start(k) /\ Start(k) + EntrySize <= Start(n)
      /\ Start(n + 1) = Start(n) + EntrySize
  BY <1>1, StartFacts
<1>3. o \in Nat /\ p \in Nat /\ o < EntrySize /\ p < EntrySize
  BY Constants DEF Offsets
<1> DEFINE a == Start(k) + o
           b == Start(n) + p
<1>4. a \in Int /\ b \in Int /\ a < b /\ b - a < Cap
  BY <1>2, <1>3, Constants
<1> HIDE DEF a, b
<1>5. a % Cap # b % Cap
  BY <1>4, Constants, ModInjective
<1> QED
  BY <1>5 DEF a, b

(* Two bytes of one entry do not share a cell either.                      *)
LEMMA EntryDisjoint ==
    ASSUME NEW n \in Nat, EntrySize <= Cap,
           NEW o \in Offsets, NEW p \in Offsets, o < p
    PROVE  (Start(n) + o) % Cap # (Start(n) + p) % Cap
<1> DEFINE a == Start(n) + o
           b == Start(n) + p
<1>0. Start(n) \in Nat
  BY StartFacts
<1>1. a \in Int /\ b \in Int /\ a < b /\ b - a < Cap
  BY <1>0, Constants DEF Offsets
<1> HIDE DEF a, b
<1>2. a % Cap # b % Cap
  BY <1>1, Constants, ModInjective
<1> QED
  BY <1>2 DEF a, b

(* What the consumer reads at an offset of the entry it is at.             *)
LEMMA ReadAt ==
    ASSUME TypeOK, CellsInv, cTail = Start(delivered) % Modulus,
           delivered < rxProduceCount, NEW o \in Offsets
    PROVE  /\ cells[Index(Add(cTail, o))] = <<delivered, o>>
           /\ o = 0 => cells[Index(cTail)] = <<delivered, o>>
<1>1. delivered \in delivered .. rxProduceCount - 1 /\ delivered \in Nat
  BY DEF TypeOK
<1>2. cells[(Start(delivered) + o) % Cap] = <<delivered, o>>
  BY <1>1, Zenon DEF CellsInv
<1>3. Start(delivered) \in Int /\ o \in Int
  BY <1>1, StartFacts, Constants DEF Offsets
<1>4. /\ Index(Add(Start(delivered) % Modulus, o)) = (Start(delivered) + o) % Cap
      /\ Index(Start(delivered) % Modulus) = Start(delivered) % Cap
  BY <1>3, IndexOfPosition, Zenon
<1>5. o = 0 => Start(delivered) + o = Start(delivered)
  BY <1>3
<1> QED
  BY <1>2, <1>4, <1>5, Zenon

-----------------------------------------------------------------------------
(* The initial state. *)
LEMMA InitIInv == Init => IInv
<1> SUFFICES ASSUME Init PROVE IInv
  OBVIOUS
<1> USE Constants DEF Init
<1>1. Start(0) = 0 /\ Start(1) = EntrySize
  BY DEF Start
<1>2. 0 % Modulus = 0
  OBVIOUS
<1>3. TypeOK
  BY DEF TypeOK, Bytes
<1>4. CountersInv
  BY <1>1, <1>2 DEF CountersInv
<1>5. ConsumerInv /\ CellsInv /\ FrameIntact /\ BatchReachesHead
  BY DEF ConsumerInv, CellsInv, FrameIntact, BatchReachesHead
<1> QED
  BY <1>3, <1>4, <1>5 DEF IInv
-----------------------------------------------------------------------------
(* The steps of the producer. *)

(* A drop by the producer keeps the invariant, *)
LEMMA StepWriteDrop == IInv /\ WriteDrop => IInv'
<1> SUFFICES ASSUME IInv, WriteDrop PROVE IInv'
  OBVIOUS
<1> USE DEF WriteDrop, cVars
<1>1. TypeOK'
  BY Constants DEF IInv, TypeOK
<1>2. CountersInv'
  BY DEF IInv, CountersInv
<1>3. ConsumerInv' /\ FrameIntact' /\ BatchReachesHead'
  BY DEF IInv, ConsumerInv, FrameIntact, BatchReachesHead
<1>4. CellsInv'
  BY DEF IInv, CellsInv
<1> QED
  BY <1>1, <1>2, <1>3, <1>4 DEF IInv

(* so does the begin of a write, *)
LEMMA StepWriteBegin == IInv /\ WriteBegin => IInv'
<1> SUFFICES ASSUME IInv, WriteBegin PROVE IInv'
  OBVIOUS
<1> USE DEF WriteBegin, cVars
<1>1. TypeOK'
  BY Constants DEF IInv, TypeOK
<1>2. CountersInv'
  <2> DEFINE used == Start(rxProduceCount) - Start(released)
  <2>1. /\ rxProduceCount \in Nat /\ released \in Nat /\ released <= rxProduceCount
        /\ used <= Cap
    BY DEF IInv, TypeOK, CountersInv
  <2>2. Sub(head, tail) = used
    BY <2>1, SubOfPositions DEF IInv, CountersInv
  <2>3. /\ Start(released) <= Start(rxProduceCount)
        /\ Start(rxProduceCount) \in Nat /\ Start(released) \in Nat
        /\ Start(rxProduceCount + 1) = Start(rxProduceCount) + EntrySize
    BY <2>1, StartFacts
  <2>4. Cap - used \in 0 .. Modulus - 1
    BY <2>1, <2>3, Constants
  <2>5. (Cap - used) % Modulus = Cap - used
    BY <2>4, Constants
  <2>6. EntrySize <= Cap - used
    BY <2>2, <2>5 DEF Fits, RxFree, Sub
  <2>7. Start(rxProduceCount + 1) - Start(released) <= Cap
    BY <2>3, <2>6, Constants
  <2> QED
    BY <2>7 DEF IInv, CountersInv
<1>3. ConsumerInv' /\ FrameIntact' /\ BatchReachesHead'
  BY DEF IInv, ConsumerInv, FrameIntact, BatchReachesHead
<1>4. CellsInv'
  BY DEF IInv, CellsInv
<1> QED
  BY <1>1, <1>2, <1>3, <1>4 DEF IInv

(* each byte written, *)
LEMMA StepWriteByte == IInv /\ WriteByte => IInv'
<1> SUFFICES ASSUME IInv, WriteByte PROVE IInv'
  OBVIOUS
<1> DEFINE n == rxProduceCount
           at == (Start(n) + pOff) % Cap
<1>0. /\ n \in Nat /\ n < MaxFrames /\ released \in Nat /\ delivered \in Nat
      /\ released <= delivered /\ pOff \in Offsets
      /\ head = Start(n) % Modulus
      /\ Start(n + 1) - Start(released) <= Cap
  BY Constants DEF IInv, TypeOK, CountersInv, WriteByte, Offsets
<1>1. Start(n) \in Nat /\ Start(released) \in Nat /\ Start(released) <= Start(n)
      /\ Start(n + 1) = Start(n) + EntrySize
  <2>1. released <= n
    BY DEF IInv, TypeOK, CountersInv
  <2> QED
    BY <1>0, <2>1, StartFacts
<1>2. Index(Add(head, pOff)) = at
  <2>1. Start(n) \in Int /\ pOff \in Int
    BY <1>0, <1>1, Constants DEF Offsets
  <2>2. Index(Add(Start(n) % Modulus, pOff)) = (Start(n) + pOff) % Cap
    BY <2>1, IndexOfPosition, Zenon
  <2> QED
    BY <1>0, <2>2, Zenon
<1>3. cells' = [cells EXCEPT ![at] = <<n, pOff>>]
  BY <1>2 DEF WriteByte
<1>4. at \in 0 .. Cap - 1
  <2>1. Start(n) + pOff \in Int
    BY <1>0, <1>1, Constants DEF Offsets
  <2> QED
    BY <2>1, Constants, DivMod
<1>5. <<n, pOff>> \in Bytes
  BY <1>0, Constants DEF Bytes, Offsets
<1>6. TypeOK'
  <2>1. cells' \in [0 .. Cap - 1 -> Bytes \union {NoByte}]
    BY <1>3, <1>4, <1>5 DEF IInv, TypeOK
  <2> QED
    BY <2>1, <1>0, Constants DEF IInv, TypeOK, WriteByte, cVars, Offsets
<1>7. CountersInv' /\ ConsumerInv' /\ FrameIntact' /\ BatchReachesHead'
  BY DEF IInv, CountersInv, ConsumerInv, FrameIntact, BatchReachesHead, WriteByte, cVars
<1>8. CellsInv'
  <2>1. ASSUME NEW k \in delivered .. n - 1, NEW o \in Offsets
        PROVE  cells'[(Start(k) + o) % Cap] = <<k, o>>
    <3>1. k \in released .. n - 1
      BY <1>0
    <3>2. (Start(k) + o) % Cap # at
      BY <1>0, <3>1, WindowDisjoint
    <3>3. cells[(Start(k) + o) % Cap] = <<k, o>>
      BY Zenon DEF IInv, CellsInv
    <3>4. (Start(k) + o) % Cap \in 0 .. Cap - 1
      <4>1. k \in Nat /\ o \in Nat
        BY <1>0, Constants DEF Offsets
      <4>2. Start(k) + o \in Int
        BY <4>1, StartFacts
      <4> QED
        BY <4>2, Constants, DivMod
    <3> QED
      BY <1>3, <3>2, <3>3, <3>4, Zenon DEF IInv, TypeOK
  <2>2. ASSUME NEW o \in 0 .. pOff
        PROVE  cells'[(Start(n) + o) % Cap] = <<n, o>>
    <3>1. CASE o = pOff
      BY <1>3, <1>4, <3>1 DEF IInv, TypeOK
    <3>2. CASE o # pOff
      <4>1. o \in Offsets /\ o < pOff /\ o \in 0 .. pOff - 1 /\ EntrySize <= Cap
        BY <1>0, <1>1, <3>2, Constants DEF Offsets
      <4>2. (Start(n) + o) % Cap # at
        BY <1>0, <4>1, EntryDisjoint
      <4>3. cells[(Start(n) + o) % Cap] = <<n, o>>
        BY <4>1 DEF IInv, CellsInv, WriteByte
      <4>4. (Start(n) + o) % Cap \in 0 .. Cap - 1
        <5>1. Start(n) + o \in Int
          BY <1>1, <4>1, Constants DEF Offsets
        <5> QED
          BY <5>1, Constants, DivMod
      <4> QED
        BY <1>3, <4>2, <4>3, <4>4, Zenon DEF IInv, TypeOK
    <3> QED
      BY <3>1, <3>2
  <2>3. pOff' - 1 = pOff /\ n' = n /\ delivered' = delivered
    BY <1>0, Constants DEF WriteByte, cVars, Offsets
  <2> QED
    BY <2>1, <2>2, <2>3 DEF CellsInv
<1> QED
  BY <1>6, <1>7, <1>8 DEF IInv

(* and the store of head. *)
LEMMA StepWritePublish == IInv /\ WritePublish => IInv'
<1> SUFFICES ASSUME IInv, WritePublish PROVE IInv'
  OBVIOUS
<1> DEFINE n == rxProduceCount
<1>0. /\ n \in Nat /\ n < MaxFrames /\ delivered \in Nat /\ delivered <= n
      /\ n' = n + 1 /\ delivered' = delivered /\ released' = released
      /\ cells' = cells /\ pOff = EntrySize /\ pPc = "copy" /\ pPc' = "idle"
  BY DEF IInv, TypeOK, CountersInv, WritePublish, cVars
<1>1. TypeOK'
  <2>1. Add(head, EntrySize) \in 0 .. Modulus - 1
    BY Constants DEF IInv, TypeOK, Add
  <2> QED
    BY <1>0, <2>1, Constants DEF IInv, TypeOK, WritePublish, cVars
<1>2. CountersInv'
  <2>1. head' = Start(n + 1) % Modulus
    BY <1>0, AddToPosition DEF IInv, CountersInv, WritePublish
  <2> QED
    BY <1>0, <2>1 DEF IInv, CountersInv, WritePublish, cVars
<1>3. ConsumerInv'
  <2>1. delivered .. n \subseteq delivered' .. n'
    BY <1>0
  <2> QED
    BY <2>1 DEF IInv, ConsumerInv, WritePublish, cVars
<1>4. CellsInv'
  <2>1. ASSUME NEW k \in delivered .. n, NEW o \in Offsets
        PROVE  cells[(Start(k) + o) % Cap] = <<k, o>>
    <3>1. CASE k = n
      <4>1. o \in 0 .. pOff - 1
        BY <1>0 DEF Offsets
      <4> QED
        BY <1>0, <3>1, <4>1 DEF IInv, CellsInv
    <3>2. CASE k # n
      <4>1. k \in delivered .. n - 1
        BY <1>0, <3>2
      <4> QED
        BY <4>1, Zenon DEF IInv, CellsInv
    <3> QED
      BY <3>1, <3>2
  <2>2. delivered' .. n' - 1 = delivered .. n
    BY <1>0
  <2> QED
    BY <1>0, <2>1, <2>2 DEF CellsInv
<1>5. FrameIntact' /\ BatchReachesHead'
  BY DEF IInv, FrameIntact, BatchReachesHead, WritePublish, cVars
<1> QED
  BY <1>1, <1>2, <1>3, <1>4, <1>5 DEF IInv
-----------------------------------------------------------------------------
(* The steps of the consumer. *)

(* The consumer's load of head keeps it, *)
LEMMA StepDrainBegin == IInv /\ DrainBegin => IInv'
<1> SUFFICES ASSUME IInv, DrainBegin PROVE IInv'
  OBVIOUS
<1> USE DEF DrainBegin, pVars
<1>1. TypeOK'
  BY DEF IInv, TypeOK
<1>2. CountersInv'
  BY DEF IInv, CountersInv
<1>3. ConsumerInv'
  <2>1. /\ cTail' = Start(delivered) % Modulus
        /\ cHead' = Start(rxProduceCount) % Modulus
    BY DEF IInv, CountersInv, ConsumerInv
  <2>2. rxProduceCount \in delivered .. rxProduceCount
    BY DEF IInv, TypeOK, CountersInv
  <2> QED
    BY <2>1, <2>2 DEF ConsumerInv
<1>4. CellsInv' /\ FrameIntact' /\ BatchReachesHead'
  BY DEF IInv, CellsInv, FrameIntact, BatchReachesHead
<1> QED
  BY <1>1, <1>2, <1>3, <1>4 DEF IInv

(* An entry is always found complete: either the consumer is at the head   *)
(* it loaded, or the whole entry after cTail is in the ring.               *)
LEMMA EntryAtTail ==
    ASSUME IInv, cPc = "entry", cTail # cHead
    PROVE  /\ delivered < rxProduceCount
           /\ EntryComplete
           /\ Prefix(cTail) = << <<delivered, 0>>, <<delivered, 1>> >>
           /\ \E n \in delivered .. rxProduceCount :
                 cHead = Start(n) % Modulus /\ delivered < n
<1>1. PICK n \in delivered .. rxProduceCount : cHead = Start(n) % Modulus
  BY DEF IInv, ConsumerInv
<1>2. cTail = Start(delivered) % Modulus
  BY DEF IInv, ConsumerInv
<1>3. n # delivered
  BY <1>1, <1>2
<1>4. /\ delivered \in Nat /\ n \in Nat /\ rxProduceCount \in Nat /\ released \in Nat
      /\ delivered < n /\ n <= rxProduceCount /\ released <= delivered
  BY <1>1, <1>3 DEF IInv, TypeOK, CountersInv
<1>5. Sub(cHead, cTail) = Start(n) - Start(delivered)
  <2>1. /\ Start(n) \in Nat /\ Start(delivered) \in Nat /\ Start(released) \in Nat
        /\ Start(n) <= Start(rxProduceCount) /\ Start(released) <= Start(delivered)
        /\ Start(rxProduceCount) \in Nat
    BY <1>4, StartFacts
  <2>2. Start(n) - Start(delivered) <= Cap
    BY <2>1, Constants DEF IInv, CountersInv
  <2> QED
    BY <1>1, <1>2, <1>4, <2>2, SubOfPositions
<1>6. Sub(cHead, cTail) >= EntrySize
  <2>1. Start(delivered) + EntrySize <= Start(n)
        /\ Start(n) \in Nat /\ Start(delivered) \in Nat
    BY <1>4, StartFacts
  <2> QED
    BY <1>5, <2>1, Constants
<1>7. /\ cells[Index(cTail)] = <<delivered, 0>>
      /\ cells[Index(Add(cTail, 1))] = <<delivered, 1>>
  BY <1>2, <1>4, ReadAt, Constants DEF IInv
<1>8. Prefix(cTail) = << <<delivered, 0>>, <<delivered, 1>> >>
  BY <1>7 DEF Prefix
<1> QED
  BY <1>1, <1>4, <1>6, <1>8 DEF EntryComplete

(* so do decoding an entry, *)
LEMMA StepDecodeEntry == IInv /\ DecodeEntry => IInv'
<1> SUFFICES ASSUME IInv, DecodeEntry PROVE IInv'
  OBVIOUS
<1> USE DEF pVars
<1>1. CountersInv' /\ CellsInv'
  BY DEF IInv, CountersInv, CellsInv, DecodeEntry
<1>2. CASE cTail = cHead
  <2>1. /\ cPc = "entry" /\ cPc' = "publish"
        /\ UNCHANGED <<cells, pVars, tail, cHead, cTail, cOff, frame, delivered, released, last>>
    BY <1>2, Zenon DEF DecodeEntry
  <2>2. TypeOK'
    BY <2>1 DEF IInv, TypeOK
  <2>3. ConsumerInv'
    BY <2>1 DEF IInv, ConsumerInv
  <2>4. FrameIntact' /\ BatchReachesHead'
    BY <1>2, <2>1 DEF FrameIntact, BatchReachesHead
  <2> QED
    BY <1>1, <2>2, <2>3, <2>4 DEF IInv
<1>3. CASE cTail # cHead
  <2>0. cPc = "entry"
    BY DEF DecodeEntry
  <2>1. /\ delivered < rxProduceCount
        /\ EntryComplete
        /\ Prefix(cTail) = << <<delivered, 0>>, <<delivered, 1>> >>
        /\ \E n \in delivered .. rxProduceCount :
              cHead = Start(n) % Modulus /\ delivered < n
    BY <1>3, <2>0, EntryAtTail
  <2>2. /\ cPc' = "copy" /\ cOff' = 2
        /\ frame' = [frame EXCEPT ![0] = <<delivered, 0>>, ![1] = <<delivered, 1>>]
        /\ UNCHANGED <<cells, pVars, tail, cHead, cTail, delivered, released, last>>
    BY <1>3, <2>1 DEF DecodeEntry
  <2>3. <<delivered, 0>> \in Bytes /\ <<delivered, 1>> \in Bytes
    BY Constants DEF IInv, TypeOK, Bytes
  <2>4. TypeOK'
    BY <2>2, <2>3, Constants, SMTT(20) DEF IInv, TypeOK
  <2>5. ConsumerInv'
    BY <2>0, <2>1, <2>2 DEF IInv, ConsumerInv
  <2>6. FrameIntact'
    <3>1. frame \in [Offsets -> Bytes \union {NoByte}]
      BY DEF IInv, TypeOK
    <3>2. frame'[0] = <<delivered, 0>> /\ frame'[1] = <<delivered, 1>>
      BY <2>2, <3>1, Constants
    <3>3. ASSUME NEW o \in 0 .. 2 - 1 PROVE frame'[o] = <<delivered, o>>
      <4>1. o = 0 \/ o = 1
        OBVIOUS
      <4> QED
        BY <3>2, <4>1
    <3> QED
      BY <2>2, <3>3 DEF FrameIntact
  <2>7. BatchReachesHead'
    BY <2>2 DEF BatchReachesHead
  <2> QED
    BY <1>1, <2>4, <2>5, <2>6, <2>7 DEF IInv
<1> QED
  BY <1>2, <1>3

(* each byte copied, *)
LEMMA StepCopyByte == IInv /\ CopyByte => IInv'
<1> SUFFICES ASSUME IInv, CopyByte PROVE IInv'
  OBVIOUS
<1>0. /\ cPc = "copy" /\ cPc' = "copy" /\ cOff \in Offsets /\ cOff' = cOff + 1
      /\ frame' = [frame EXCEPT ![cOff] = cells[Index(Add(cTail, cOff))]]
      /\ UNCHANGED <<cells, pVars, tail, cHead, cTail, delivered, released, last>>
  BY Constants DEF IInv, TypeOK, CopyByte, Offsets
<1>1. /\ cTail = Start(delivered) % Modulus
      /\ delivered < rxProduceCount
  BY <1>0 DEF IInv, TypeOK, ConsumerInv
<1>2. cells[Index(Add(cTail, cOff))] = <<delivered, cOff>>
  BY <1>0, <1>1, ReadAt DEF IInv
<1>3. <<delivered, cOff>> \in Bytes
  BY <1>0, Constants DEF IInv, TypeOK, Bytes, Offsets
<1>4. TypeOK'
  <2>1. cOff + 1 \in 0 .. EntrySize
    BY <1>0, Constants DEF Offsets
  <2>2. frame' \in [Offsets -> Bytes \union {NoByte}]
    BY <1>0, <1>2, <1>3 DEF IInv, TypeOK
  <2> QED
    BY <1>0, <2>1, <2>2 DEF IInv, TypeOK, pVars
<1>5. CountersInv' /\ CellsInv'
  BY <1>0 DEF IInv, CountersInv, CellsInv, pVars
<1>6. ConsumerInv' /\ BatchReachesHead'
  BY <1>0, Constants DEF IInv, ConsumerInv, BatchReachesHead, pVars, Offsets
<1>7. FrameIntact'
  <2>1. ASSUME NEW o \in 0 .. cOff
        PROVE  frame'[o] = <<delivered, o>>
    <3>1. frame \in [Offsets -> Bytes \union {NoByte}] /\ o \in Offsets
      BY <1>0, Constants DEF IInv, TypeOK, Offsets
    <3>2. CASE o = cOff
      BY <1>0, <1>2, <3>1, <3>2
    <3>3. CASE o # cOff
      <4>1. o \in 0 .. cOff - 1
        BY <1>0, <3>3, Constants DEF Offsets
      <4> QED
        BY <1>0, <3>1, <3>3, <4>1 DEF IInv, FrameIntact
    <3> QED
      BY <3>2, <3>3
  <2>2. cOff' - 1 = cOff
    BY <1>0, Constants DEF Offsets
  <2> QED
    BY <1>0, <2>1, <2>2 DEF FrameIntact
<1> QED
  BY <1>4, <1>5, <1>6, <1>7 DEF IInv

(* handing the frame on, *)
LEMMA StepDeliver == IInv /\ Deliver => IInv'
<1> SUFFICES ASSUME IInv, Deliver PROVE IInv'
  OBVIOUS
<1>0. /\ cPc = "copy" /\ cPc' = "entry" /\ cOff = EntrySize
      /\ delivered' = delivered + 1 /\ last' = Identity(frame)
      /\ cTail' = Add(cTail, EntrySize)
      /\ UNCHANGED <<cells, pVars, tail, cHead, cOff, frame, released>>
  BY DEF Deliver
<1>1. PICK n \in delivered .. rxProduceCount :
         cHead = Start(n) % Modulus /\ delivered < n
  BY <1>0 DEF IInv, ConsumerInv
<1>2. /\ cTail = Start(delivered) % Modulus
      /\ delivered \in Nat /\ n \in Nat /\ rxProduceCount \in 0 .. MaxFrames
  BY <1>0, <1>1 DEF IInv, TypeOK, ConsumerInv
<1>3. TypeOK'
  <2>1. last' \in 0 .. MaxFrames \union {NoFrame, Torn}
    <3>1. frame[0] = <<delivered, 0>>
      BY <1>0, Constants DEF IInv, FrameIntact
    <3> QED
      BY <1>0, <3>1 DEF Identity, IInv, TypeOK
  <2>2. Add(cTail, EntrySize) \in 0 .. Modulus - 1
    BY Constants DEF IInv, TypeOK, Add
  <2>3. delivered + 1 \in 0 .. MaxFrames
    BY <1>1, <1>2, Constants
  <2> QED
    BY <1>0, <2>1, <2>2, <2>3 DEF IInv, TypeOK, pVars
<1>4. CountersInv'
  BY <1>0, <1>1, <1>2 DEF IInv, TypeOK, CountersInv, pVars
<1>5. ConsumerInv'
  <2>1. cTail' = Start(delivered + 1) % Modulus
    BY <1>0, <1>2, AddToPosition
  <2>2. n \in delivered + 1 .. rxProduceCount
    BY <1>1, <1>2
  <2> QED
    BY <1>0, <1>1, <2>1, <2>2 DEF ConsumerInv, pVars
<1>6. CellsInv'
  <2>1. delivered' .. rxProduceCount' - 1 \subseteq delivered .. rxProduceCount - 1
    BY <1>0, <1>2 DEF pVars
  <2> QED
    BY <1>0, <2>1 DEF IInv, CellsInv, pVars
<1>7. FrameIntact' /\ BatchReachesHead'
  BY <1>0 DEF FrameIntact, BatchReachesHead
<1> QED
  BY <1>3, <1>4, <1>5, <1>6, <1>7 DEF IInv

(* and the store of tail. *)
LEMMA StepDrainPublish == IInv /\ DrainPublish => IInv'
<1> SUFFICES ASSUME IInv, DrainPublish PROVE IInv'
  OBVIOUS
<1> USE DEF DrainPublish, pVars
<1>0. /\ delivered \in Nat /\ released \in Nat /\ rxProduceCount \in Nat
      /\ released <= delivered /\ delivered <= rxProduceCount
  BY DEF IInv, TypeOK, CountersInv
<1>1. TypeOK'
  BY DEF IInv, TypeOK
<1>2. CountersInv'
  <2>1. /\ Start(released) <= Start(delivered)
        /\ Start(rxProduceCount) \in Nat
        /\ Start(released) \in Nat /\ Start(delivered) \in Nat
        /\ Start(rxProduceCount + 1) = Start(rxProduceCount) + EntrySize
    BY <1>0, StartFacts
  <2>2. tail' = Start(delivered) % Modulus
    BY DEF IInv, ConsumerInv
  <2>3. Start(rxProduceCount) - Start(delivered) <= Cap
    BY <2>1, Constants DEF IInv, CountersInv
  <2>4. pPc = "copy" => Start(rxProduceCount + 1) - Start(delivered) <= Cap
                        /\ rxProduceCount < MaxFrames
    BY <2>1, Constants DEF IInv, CountersInv
  <2> QED
    BY <1>0, <2>2, <2>3, <2>4 DEF IInv, CountersInv
<1>3. ConsumerInv' /\ CellsInv' /\ FrameIntact' /\ BatchReachesHead'
  BY DEF IInv, ConsumerInv, CellsInv, FrameIntact, BatchReachesHead
<1> QED
  BY <1>1, <1>2, <1>3 DEF IInv

-----------------------------------------------------------------------------
(* Hence every step keeps the invariant. *)
LEMMA NextIInv == IInv /\ [Next]_vars => IInv'
<1> SUFFICES ASSUME IInv, [Next]_vars PROVE IInv'
  OBVIOUS
<1>1. CASE Producer
  BY <1>1, StepWriteDrop, StepWriteBegin, StepWriteByte, StepWritePublish DEF Producer
<1>2. CASE Consumer
  BY <1>2, StepDrainBegin, StepDecodeEntry, StepCopyByte, StepDeliver, StepDrainPublish
     DEF Consumer
<1>3. CASE UNCHANGED vars
  BY <1>3 DEF vars, pVars, cVars, IInv, TypeOK, CountersInv, ConsumerInv, CellsInv,
              FrameIntact, BatchReachesHead
<1> QED
  BY <1>1, <1>2, <1>3 DEF Next

(* The inductive invariant holds throughout. *)
THEOREM Invariance == Spec => []IInv
  BY InitIInv, NextIInv, PTL DEF Spec

(* Every variable keeps its type; in particular the counters never leave   *)
(* the range of uint32_t.                                                  *)
THEOREM TypeCorrect == Spec => []TypeOK
<1>1. IInv => TypeOK
  BY DEF IInv
<1> QED
  BY <1>1, Invariance, PTL

(* No frame is torn, lost, repeated or reordered between writeRxFrame and  *)
(* drainRxFrames, whatever the capacity and however often the counters     *)
(* wrap.                                                                   *)
THEOREM FramesIntact == Spec => []FrameIntact
<1>1. IInv => FrameIntact
  BY DEF IInv
<1> QED
  BY <1>1, Invariance, PTL

(* The unsigned difference of the counters is exactly the room in use and  *)
(* never exceeds the capacity.                                             *)
THEOREM UsedExact == Spec => []UsedIsExact
<1>1. IInv => UsedIsExact
  <2> SUFFICES ASSUME IInv PROVE UsedIsExact
    OBVIOUS
  <2>1. /\ rxProduceCount \in Nat /\ released \in Nat /\ released <= rxProduceCount
        /\ head = Start(rxProduceCount) % Modulus /\ tail = Start(released) % Modulus
        /\ Start(rxProduceCount) - Start(released) <= Cap
    BY DEF IInv, TypeOK, CountersInv
  <2>2. Sub(head, tail) = Start(rxProduceCount) - Start(released)
    BY <2>1, SubOfPositions
  <2>3. EntrySize * (rxProduceCount - released) = Start(rxProduceCount) - Start(released)
    BY <2>1, StartFacts
  <2> QED
    BY <2>1, <2>2, <2>3 DEF UsedIsExact
<1> QED
  BY <1>1, Invariance, PTL

(* The drain loop never stops short of the head it loaded.                 *)
THEOREM BatchComplete == Spec => []BatchReachesHead
<1>1. IInv => BatchReachesHead
  BY DEF IInv
<1> QED
  BY <1>1, Invariance, PTL

(* A frame is dropped only when one more does not fit.                     *)
THEOREM DropsOnlyWhenFull == Spec => DropOnlyWhenFull
<1>1. IInv /\ [Next]_vars =>
        [rxDropped' # rxDropped
           => EntrySize * (rxProduceCount - released + 1) > Cap]_vars
  <2> SUFFICES ASSUME IInv, [Next]_vars, rxDropped' # rxDropped
               PROVE  EntrySize * (rxProduceCount - released + 1) > Cap
    OBVIOUS
  <2>1. WriteDrop
    BY DEF Next, Producer, Consumer, WriteBegin, WriteByte, WritePublish, DrainBegin,
           DecodeEntry, CopyByte, Deliver, DrainPublish, vars, pVars
  <2> DEFINE used == Start(rxProduceCount) - Start(released)
  <2>2. /\ rxProduceCount \in Nat /\ released \in Nat /\ released <= rxProduceCount
        /\ used <= Cap /\ Sub(head, tail) = used
    BY SubOfPositions DEF IInv, TypeOK, CountersInv
  <2>3. /\ Start(rxProduceCount) \in Nat /\ Start(released) \in Nat
        /\ Start(released) <= Start(rxProduceCount)
        /\ EntrySize * (rxProduceCount - released) = used
    BY <2>2, StartFacts
  <2>4. Cap - used \in 0 .. Modulus - 1
    BY <2>2, <2>3, Constants
  <2>5. (Cap - used) % Modulus = Cap - used
    BY <2>4, Constants
  <2>6. EntrySize > Cap - used
    BY <2>1, <2>2, <2>3, <2>5, Constants DEF WriteDrop, Fits, RxFree, Sub
  <2>7. EntrySize * ((rxProduceCount - released) + 1) = used + EntrySize
    BY <2>2, <2>3, MulDistributes, Constants
  <2> QED
    BY <2>3, <2>6, <2>7, Constants
<1> QED
  BY <1>1, Invariance, PTL DEF Spec, DropOnlyWhenFull
-----------------------------------------------------------------------------
(* The ring implements the bounded FIFO of frames.                         *)

(* The queue of FrameFifo as the ring represents it: frames f .. n - 1.    *)
Numbers(f, n) == [i \in 1 .. (n - f) |-> f + i - 1]

(* The numbers from f up to n are a sequence, *)
LEMMA NumbersSeq ==
    ASSUME NEW f \in Nat, NEW n \in Nat, f <= n
    PROVE  /\ Numbers(f, n) \in Seq(Nat)
           /\ Len(Numbers(f, n)) = n - f
<1>1. n - f \in Nat
  OBVIOUS
<1>2. Numbers(f, n) \in [1 .. (n - f) -> Nat]
  BY DEF Numbers
<1>3. Numbers(f, n) \in Seq(Nat)
  BY <1>1, <1>2
<1>4. DOMAIN Numbers(f, n) = 1 .. (n - f)
  BY DEF Numbers
<1> QED
  BY <1>1, <1>3, <1>4

(* which is empty if there are none, *)
LEMMA NumbersEmpty ==
    ASSUME NEW f \in Nat
    PROVE  Numbers(f, f) = <<>>
<1>1. Numbers(f, f) \in Seq(Nat) /\ Len(Numbers(f, f)) = 0
  BY NumbersSeq
<1> QED
  BY <1>1

(* grows at its end, *)
LEMMA NumbersAppend ==
    ASSUME NEW f \in Nat, NEW n \in Nat, f <= n
    PROVE  Numbers(f, n + 1) = Append(Numbers(f, n), n)
<1> DEFINE a == Numbers(f, n + 1)
           c == Numbers(f, n)
           b == Append(c, n)
<1>1. a \in Seq(Nat) /\ Len(a) = n + 1 - f
  BY NumbersSeq
<1>2. c \in Seq(Nat) /\ Len(c) = n - f /\ n - f \in Nat
  BY NumbersSeq
<1>3. ASSUME NEW i \in 1 .. n + 1 - f PROVE a[i] = b[i]
  <2>1. a[i] = f + i - 1
    BY DEF Numbers
  <2>2. CASE i = n + 1 - f
    <3>1. i = Len(c) + 1 /\ f + i - 1 = n
      BY <1>2, <2>2
    <3> HIDE DEF c
    <3>2. b[i] = n
      BY <1>2, <3>1
    <3> QED
      BY <2>1, <3>1, <3>2
  <2>3. CASE i # n + 1 - f
    <3>1. i \in 1 .. n - f
      BY <2>3
    <3>2. c[i] = f + i - 1
      BY <3>1 DEF Numbers
    <3> HIDE DEF c
    <3>3. b[i] = c[i]
      BY <1>2, <3>1
    <3> QED
      BY <2>1, <3>2, <3>3
  <2> QED
    BY <2>2, <2>3
<1> HIDE DEF a, c
<1>4. b \in Seq(Nat) /\ Len(b) = n + 1 - f
  BY <1>2
<1> HIDE DEF b
<1>5. a = b
  BY <1>1, <1>3, <1>4
<1> QED
  BY <1>5 DEF a, b, c

(* and shrinks at its head. *)
LEMMA NumbersTail ==
    ASSUME NEW f \in Nat, NEW n \in Nat, f < n
    PROVE  /\ Numbers(f, n) # <<>>
           /\ Head(Numbers(f, n)) = f
           /\ Numbers(f + 1, n) = Tail(Numbers(f, n))
<1> DEFINE a == Numbers(f + 1, n)
           b == Tail(Numbers(f, n))
<1>1. a \in Seq(Nat) /\ Len(a) = n - f - 1
  BY NumbersSeq
<1>2. Numbers(f, n) \in Seq(Nat) /\ Len(Numbers(f, n)) = n - f
      /\ n - f \in Nat /\ n - f > 0
  BY NumbersSeq
<1>3. Numbers(f, n) # <<>>
  BY <1>2
<1>4. Head(Numbers(f, n)) = f
  <2>1. 1 \in 1 .. (n - f)
    BY <1>2
  <2>2. Numbers(f, n)[1] = f
    BY <2>1 DEF Numbers
  <2> QED
    BY <1>2, <2>2
<1>5. b \in Seq(Nat) /\ Len(b) = n - f - 1
  BY <1>2, <1>3
<1>6. ASSUME NEW i \in 1 .. n - f - 1 PROVE a[i] = b[i]
  <2>1. b[i] = Numbers(f, n)[i + 1]
    BY <1>2, <1>3
  <2> QED
    BY <2>1 DEF Numbers
<1> HIDE DEF a, b
<1>7. a = b
  BY <1>1, <1>5, <1>6
<1> QED
  BY <1>3, <1>4, <1>7 DEF a, b

(* Depth frames fit: one more than n frames fits iff n is below Depth.     *)
LEMMA DepthIsRoom ==
    ASSUME NEW n \in Nat
    PROVE  n < Cap \div EntrySize <=> EntrySize * (n + 1) <= Cap
<1> DEFINE d == Cap \div EntrySize
           r == Cap % EntrySize
<1>1. /\ Cap = EntrySize * d + r /\ r \in 0 .. EntrySize - 1 /\ d \in Int
  BY Constants, DivMod
<1> HIDE DEF d, r
<1>2. ASSUME n < d PROVE EntrySize * (n + 1) <= Cap
  <2>1. n + 1 <= d
    BY <1>1, <1>2
  <2>2. EntrySize * (n + 1) <= EntrySize * d
    BY <1>1, <2>1, MulMono, Constants
  <2>3. EntrySize * (n + 1) \in Int /\ EntrySize * d \in Int
    BY <1>1, MulDistributes, Constants
  <2> QED
    BY <1>1, <2>2, <2>3, Constants
<1>3. ASSUME ~(n < d) PROVE ~(EntrySize * (n + 1) <= Cap)
  <2>1. EntrySize * d <= EntrySize * n
    BY <1>1, <1>3, MulMono, Constants
  <2>2. EntrySize * (n + 1) = EntrySize * n + EntrySize
        /\ EntrySize * n \in Int /\ EntrySize * d \in Int
    BY <1>1, MulDistributes, Constants
  <2> QED
    BY <1>1, <2>1, <2>2, Constants
<1>4. n < d <=> EntrySize * (n + 1) <= Cap
  BY <1>2, <1>3
<1> QED
  BY <1>4 DEF d

(* Room in the FIFO is room in the ring.                                   *)
LEMMA FifoHasRoom ==
    ASSUME IInv
    PROVE  Fifo!HasRoom <=> Start(rxProduceCount + 1) - Start(released) <= Cap
<1> DEFINE n == rxProduceCount - released
<1>1. /\ rxProduceCount \in Nat /\ released \in Nat /\ delivered \in Nat
      /\ released <= delivered /\ delivered <= rxProduceCount /\ n \in Nat
  BY DEF IInv, TypeOK, CountersInv
<1>2. Len(Numbers(delivered, rxProduceCount)) + (delivered - released) = n
  BY <1>1, NumbersSeq
<1>3. Fifo!HasRoom <=> n < Cap \div EntrySize
  BY <1>2 DEF Fifo!HasRoom, Numbers
<1>4. n < Cap \div EntrySize <=> EntrySize * (n + 1) <= Cap
  BY <1>1, DepthIsRoom
<1>5. EntrySize * (n + 1) = Start(rxProduceCount + 1) - Start(released)
  <2>1. EntrySize * n = Start(rxProduceCount) - Start(released)
        /\ Start(rxProduceCount) \in Nat /\ Start(released) \in Nat
        /\ Start(rxProduceCount + 1) = Start(rxProduceCount) + EntrySize
    BY <1>1, StartFacts
  <2>2. EntrySize * (n + 1) = EntrySize * n + EntrySize
    BY <1>1, MulDistributes, Constants
  <2> QED
    BY <2>1, <2>2, Constants
<1> QED
  BY <1>3, <1>4, <1>5

(* The ring starts as the empty FIFO. *)
LEMMA InitFifo == Init => Fifo!Init
<1> SUFFICES ASSUME Init PROVE Fifo!Init
  OBVIOUS
<1>1. Numbers(delivered, rxProduceCount) = <<>>
  BY NumbersEmpty DEF Init
<1> QED
  BY <1>1 DEF Init, Fifo!Init, Numbers

(* Every step of the ring is a step of the FIFO, or changes nothing there. *)
LEMMA StepFifo == IInv /\ IInv' /\ [Next]_vars => [Fifo!Next]_(Fifo!vars)
<1> SUFFICES ASSUME IInv, IInv', [Next]_vars PROVE [Fifo!Next]_(Fifo!vars)
  OBVIOUS
<1>0. /\ rxProduceCount \in Nat /\ released \in Nat /\ delivered \in Nat
      /\ released <= delivered /\ delivered <= rxProduceCount
  BY DEF IInv, TypeOK, CountersInv
<1>1. ASSUME UNCHANGED <<rxProduceCount, delivered, released, last, rxDropped>>
      PROVE  [Fifo!Next]_(Fifo!vars)
  BY <1>1 DEF Fifo!vars
<1>2. CASE WriteDrop
  <2>1. /\ rxDropped' = rxDropped + 1
        /\ UNCHANGED <<rxProduceCount, delivered, released, last>>
    BY <1>2 DEF WriteDrop, cVars
  <2>2. ~Fifo!HasRoom
    <3> DEFINE used == Start(rxProduceCount) - Start(released)
    <3>1. used <= Cap /\ Sub(head, tail) = used
      BY <1>0, SubOfPositions DEF IInv, CountersInv
    <3>0. released <= rxProduceCount
      BY <1>0
    <3>2. /\ Start(rxProduceCount) \in Nat /\ Start(released) \in Nat
          /\ Start(released) <= Start(rxProduceCount)
          /\ Start(rxProduceCount + 1) = Start(rxProduceCount) + EntrySize
      BY <1>0, <3>0, StartFacts
    <3>3. Cap - used \in 0 .. Modulus - 1
      BY <3>1, <3>2, Constants
    <3>4. (Cap - used) % Modulus = Cap - used
      BY <3>3, Constants
    <3>5. EntrySize > Cap - used
      BY <1>2, <3>1, <3>2, <3>4, Constants DEF WriteDrop, Fits, RxFree, Sub
    <3>6. ~(Start(rxProduceCount + 1) - Start(released) <= Cap)
      BY <3>2, <3>5, Constants
    <3> QED
      BY <3>6, FifoHasRoom
  <2> QED
    BY <2>1, <2>2 DEF Fifo!Next, Fifo!Refuse
<1>3. CASE WritePublish
  <2>1. /\ rxProduceCount' = rxProduceCount + 1
        /\ UNCHANGED <<rxDropped, delivered, released, last>>
    BY <1>3 DEF WritePublish, cVars
  <2>2. Fifo!HasRoom
    BY <1>3, FifoHasRoom DEF WritePublish, IInv, CountersInv
  <2>3. Numbers(delivered', rxProduceCount')
          = Append(Numbers(delivered, rxProduceCount), rxProduceCount)
    BY <1>0, <2>1, NumbersAppend
  <2> QED
    BY <2>1, <2>2, <2>3 DEF Fifo!Next, Fifo!Accept, Numbers
<1>4. CASE Deliver
  <2>1. /\ delivered' = delivered + 1 /\ last' = Identity(frame)
        /\ UNCHANGED <<rxProduceCount, released, rxDropped>>
        /\ cPc = "copy" /\ cOff = EntrySize
    BY <1>4 DEF Deliver, pVars
  <2>2. delivered < rxProduceCount
    BY <1>0, <2>1 DEF IInv, ConsumerInv
  <2>3. Identity(frame) = delivered
    BY <2>1, Constants DEF IInv, FrameIntact, Identity, Offsets
  <2>4. /\ Numbers(delivered, rxProduceCount) # <<>>
        /\ Head(Numbers(delivered, rxProduceCount)) = delivered
        /\ Numbers(delivered + 1, rxProduceCount)
             = Tail(Numbers(delivered, rxProduceCount))
    BY <1>0, <2>2, NumbersTail
  <2>5. delivered' - released' = (delivered - released) + 1
    BY <1>0, <2>1
  <2>6. /\ Numbers(delivered', rxProduceCount') = Tail(Numbers(delivered, rxProduceCount))
        /\ last' = Head(Numbers(delivered, rxProduceCount))
    BY <2>1, <2>3, <2>4
  <2> QED
    BY <2>1, <2>4, <2>5, <2>6 DEF Fifo!Next, Fifo!Take, Numbers
<1>5. CASE DrainPublish
  <2>1. /\ released' = delivered
        /\ UNCHANGED <<rxProduceCount, delivered, last, rxDropped>>
    BY <1>5 DEF DrainPublish, pVars
  <2>2. delivered' - released' = 0
    BY <1>0, <2>1
  <2> QED
    BY <2>1, <2>2 DEF Fifo!Next, Fifo!Return
<1>6. CASE WriteBegin \/ WriteByte
  BY <1>1, <1>6 DEF WriteBegin, WriteByte, cVars
<1>7. CASE DrainBegin \/ DecodeEntry \/ CopyByte
  BY <1>1, <1>7 DEF DrainBegin, DecodeEntry, CopyByte, pVars
<1>8. CASE UNCHANGED vars
  BY <1>1, <1>8 DEF vars, pVars, cVars
<1> QED
  BY <1>2, <1>3, <1>4, <1>5, <1>6, <1>7, <1>8 DEF Next, Producer, Consumer

(* Seen from its two ends, the byte ring is a bounded FIFO of frames that  *)
(* refuses a frame only when Cap \div EntrySize frames are still held.     *)
THEOREM RingImplementsFifo == Spec => FifoSpec
<1>1. Spec => [][IInv /\ IInv' /\ [Next]_vars]_vars
  BY Invariance, PTL DEF Spec
<1>2. IInv /\ IInv' /\ [Next]_vars => [Fifo!Next]_(Fifo!vars)
  BY StepFifo
<1> QED
  BY <1>1, <1>2, InitFifo, Invariance, PTL DEF Spec, FifoSpec, Fifo!Spec
=============================================================================
