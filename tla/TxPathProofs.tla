---------------------------- MODULE TxPathProofs ----------------------------
(***************************************************************************)
(* Proofs about TxPath, for every set of configurations, ring capacity,    *)
(* echo limit and bound that satisfy TxAssumption.                         *)
(*                                                                         *)
(* The argument.  The buffer of a pipe belongs to the drain that claimed   *)
(* it, then to the USB stack, then to a completion not yet handled, and    *)
(* inFlight is set for exactly as long (OwnerInv).  A local tail never     *)
(* passes the head (RingInv), and every frame behind it that the batch     *)
(* does not hold was handed to the stack (HandInv), so storing it loses    *)
(* nothing.  With one queue the numbers sent on a ring increase and stay   *)
(* behind those of the frames in transfer, these behind the tail about to  *)
(* be stored, and the batch is next to it (OrderInv).                      *)
(***************************************************************************)
EXTENDS TxPath, FiniteSetTheorems, TLAPS
-----------------------------------------------------------------------------
(* The least and the greatest of a set of numbers.                         *)

(* A set of naturals has a least element, *)
LEMMA LeastNatural ==
    ASSUME NEW S, S \subseteq Nat, S # {}
    PROVE  \E m \in S : \A k \in S : m <= k
<1>1. PICK m \in S : \A k \in S : ~ (<<k, m>> \in OpToRel(<, Nat))
  BY WFMin, NatLessThanWellFounded, Zenon
<1>2. \A k \in S : ~ (k < m)
  BY <1>1 DEF OpToRel
<1> QED
  BY <1>2

(* and one that has a bound a greatest. *)
LEMMA GreatestNatural ==
    ASSUME NEW N \in Nat, NEW S, S \subseteq 0 .. N, S # {}
    PROVE  \E m \in S : \A k \in S : k <= m
<1> DEFINE T == {N - k : k \in S}
<1>1. \A k \in S : N - k \in T /\ N - k \in Nat /\ N - (N - k) = k
  OBVIOUS
<1>2. \A n \in T : n \in Nat /\ N - n \in S
  BY <1>1
<1> HIDE DEF T
<1>3. PICK n \in T : \A k \in T : n <= k
  BY <1>1, <1>2, LeastNatural
<1>4. \A k \in S : k <= N - n
  BY <1>1, <1>2, <1>3
<1> QED
  BY <1>2, <1>4

USE TxAssumption DEF Rings, Pipes, Queues, Codec

-----------------------------------------------------------------------------
(* The types, in parts the steps disturb separately. *)

CounterTypes ==
    /\ head \in [Rings -> 0 .. MaxFrames] /\ tail \in [Rings -> 0 .. MaxFrames]
    /\ newTail \in [Queues -> 0 .. MaxFrames]
    /\ config \in Configs

ControlTypes ==
    /\ skewed \in BOOLEAN
    /\ wPc \in [Rings -> {"idle", "call", "served"}]
    /\ inFlight \in [Pipes -> BOOLEAN]
    /\ completion \in [Pipes -> {None, "ok", "error"}]
    /\ pc \in [Queues -> {"idle", "load", "read", "claim", "submit", "store"}]
    /\ caller \in [Queues -> Rings \union {None}]
    /\ pass \in [Queues -> 0 .. 1]

FrameTypes ==
    /\ transfer \in [Pipes -> Seq(Frames) \union {None}]
    /\ batch \in [Queues -> Seq(Frames)]
    /\ sent \in [Rings -> Seq(1 .. MaxFrames)] /\ failed \subseteq Frames

EchoTypes ==
    /\ echoInflight \in Nat /\ echoes \in Nat
    /\ ~config.txQueue => echoInflight <= kMaxEchoInflight

HistoryTypes == commands \in 0 .. MaxCommands /\ faults \in 0 .. MaxFaults

(* The type invariant, in the parts the steps are checked against. *)
LEMMA TypeParts ==
    TypeOK <=> /\ CounterTypes /\ ControlTypes /\ FrameTypes
               /\ EchoTypes /\ HistoryTypes
  BY Zenon DEF TypeOK, CounterTypes, ControlTypes, FrameTypes, EchoTypes, HistoryTypes

-----------------------------------------------------------------------------
(* The inductive invariant of the buffers and the rings. *)

Owns(q, p) == pc[q] = "submit" /\ Pipe(q) = p

(* The claimed buffer of a pipe has one owner, and an owned one is claimed. *)
OwnerInv ==
    /\ \A q, u \in Queues : \A p \in Pipes : Owns(q, p) /\ Owns(u, p) => q = u
    /\ \A q \in Queues : \A p \in Pipes :
         Owns(q, p) => inFlight[p] /\ transfer[p] = None /\ completion[p] = None
    /\ \A p \in Pipes : transfer[p] # None => inFlight[p] /\ completion[p] = None
    /\ \A p \in Pipes : completion[p] # None => inFlight[p]
    /\ \A p \in Pipes :
         inFlight[p] => \/ transfer[p] # None \/ completion[p] # None
                        \/ \E q \in Queues : Owns(q, p)

(* A drain past its read has frames in its batch, a command none. *)
Loaded(q) == pc[q] \in {"claim", "submit"} /\ batch[q] # <<>>

(* Tails, stored and local, stay behind the head. *)
RingInv ==
    /\ \A r \in Rings : tail[r] <= head[r]
    /\ \A q \in Queues :
         pc[q] \in {"read", "store"} \/ Loaded(q) => newTail[q] <= head[Ring(q)]
    /\ \A q \in Queues : pc[q] = "store" => batch[q] # <<>>

(* With one queue nothing runs on the second, and no echo is counted       *)
(* between the comparison with the limit and the send.                     *)
QueueInv ==
    ~config.txQueue =>
      /\ pc["tx"] = "idle"
      /\ Codec = "gs_usb" /\ pc["default"] \in {"read", "claim", "submit", "store"}
           => echoInflight < kMaxEchoInflight

SafeInv == TypeOK /\ OwnerInv /\ RingInv /\ QueueInv

(* A drain's ring and its pipe have the same number.                       *)
LEMMA RingOfQueue ==
    ASSUME ControlTypes, NEW q \in Queues
    PROVE  Ring(q) \in Rings /\ Pipe(q) \in Pipes /\ Ring(q) = Pipe(q)
  BY DEF ControlTypes, Ring, Pipe

(* The entry at the place of another ring's tail is a written one or none. *)
LEMMA SamePlaceWritten ==
    ASSUME CounterTypes, NEW t \in Nat
    PROVE  AtSamePlace(t) \in 0 .. head[1]
<1> DEFINE there == {m \in 1 .. head[1] : (m - 1) % RingCap = t % RingCap}
<1>1. head[1] \in Nat
  BY DEF CounterTypes
<1>2. CASE there = {}
  BY <1>1, <1>2 DEF AtSamePlace
<1>3. CASE there # {}
  <2>1. there \subseteq 0 .. head[1]
    OBVIOUS
  <2>2. \E m \in there : \A k \in there : k <= m
    <3> HIDE DEF there
    <3> QED
      BY <1>1, <1>3, <2>1, GreatestNatural
  <2>3. AtSamePlace(t) = CHOOSE m \in there : \A k \in there : k <= m
    BY <1>3 DEF AtSamePlace
  <2>4. AtSamePlace(t) \in there
    <3> HIDE DEF there
    <3> QED
      BY <2>2, <2>3
  <2> QED
    BY <2>1, <2>4
<1> QED
  BY <1>2, <1>3

(* Going on to the next drain, or returning, moves this queue only.        *)
LEMMA NextPassMoves ==
    ASSUME ControlTypes, NEW q \in Queues, NextPass(q)
    PROVE  /\ wPc' \in [Rings -> {"idle", "call", "served"}]
           /\ caller' \in [Queues -> Rings \union {None}]
           /\ pass' \in [Queues -> 0 .. 1]
           /\ pc' \in [Queues -> {"idle", "load", "read", "claim", "submit", "store"}]
           /\ pc'[q] \in {"idle", "load"}
           /\ \A u \in Queues : u # q => pc'[u] = pc[u] /\ pass'[u] = pass[u]
<1> USE DEF ControlTypes
<1>1. CASE pass[q] < LastPass
  <2>1. pass[q] = 0
    BY <1>1 DEF LastPass
  <2> QED
    BY <1>1, <2>1 DEF NextPass
<1>2. CASE ~(pass[q] < LastPass)
  <2>1. CASE caller[q] = None
    BY <1>2, <2>1 DEF NextPass
  <2>2. CASE caller[q] # None
    <3>1. caller[q] \in Rings
      BY <2>2
    <3> QED
      BY <1>2, <2>2, <3>1 DEF NextPass
  <2> QED
    BY <2>1, <2>2
<1> QED
  BY <1>1, <1>2

(* A failed send ends the drain or starts its second pass. *)
LEMMA SendFailedMoves ==
    ASSUME ControlTypes, NEW q \in Queues, SendFailed(q)
    PROVE  /\ wPc' \in [Rings -> {"idle", "call", "served"}]
           /\ caller' \in [Queues -> Rings \union {None}]
           /\ pass' \in [Queues -> 0 .. 1]
           /\ pc' \in [Queues -> {"idle", "load", "read", "claim", "submit", "store"}]
           /\ pc'[q] \in {"idle", "load"}
           /\ \A u \in Queues : u # q => pc'[u] = pc[u] /\ pass'[u] = pass[u]
<1>1. CASE batch[q] = <<>>
  BY <1>1 DEF SendFailed, ControlTypes
<1>2. CASE batch[q] # <<>>
  BY <1>2, NextPassMoves DEF SendFailed
<1> QED
  BY <1>1, <1>2

(* A handler's drain starts on an idle queue, which it moves only.         *)
LEMMA StartDrainMoves ==
    ASSUME ControlTypes, NEW q \in Queues, NEW who \in Rings \union {None},
           StartDrain(q, who)
    PROVE  /\ caller' \in [Queues -> Rings \union {None}]
           /\ pass' \in [Queues -> 0 .. 1]
           /\ pc' \in [Queues -> {"idle", "load", "read", "claim", "submit", "store"}]
           /\ pc'[q] = "load"
           /\ \A u \in Queues : u # q => pc'[u] = pc[u] /\ pass'[u] = pass[u]
           /\ UNCHANGED <<newTail, batch>>
  BY DEF StartDrain, ControlTypes

(* The queue that drains is one of the queues. *)
LEMMA TxQueueIsQueue == TxQueue \in Queues /\ None \in Rings \union {None}
  BY DEF TxQueue

(* The numbers of a transfer's frames are a sequence of numbers.           *)
LEMMA OfRingType ==
    ASSUME NEW f \in Seq(Frames), NEW r \in Rings
    PROVE  OfRing(f, r) \in Seq(1 .. MaxFrames)
<1>1. CASE f # <<>> /\ f[1][1] = r
  <2>1. Len(f) \in Nat /\ DOMAIN f = 1 .. Len(f)
    OBVIOUS
  <2>2. \A i \in 1 .. Len(f) : f[i][2] \in 1 .. MaxFrames
    BY DEF Frames
  <2>3. OfRing(f, r) = [i \in 1 .. Len(f) |-> f[i][2]]
    BY <1>1, <2>1 DEF OfRing
  <2> QED
    BY <2>1, <2>2, <2>3
<1>2. CASE ~(f # <<>> /\ f[1][1] = r)
  <2>1. OfRing(f, r) = <<>>
    BY <1>2 DEF OfRing
  <2> QED
    BY <2>1
<1> QED
  BY <1>1, <1>2

-----------------------------------------------------------------------------
(* The read of the ring: the drain goes on to the next one, or its batch   *)
(* holds the frames behind the local tail, which may pass one more of them *)
(* when the batch is full (SLCAN).                                         *)
BatchRead(q) ==
    /\ newTail' \in [Queues -> 0 .. MaxFrames]
    /\ newTail'[q] >= newTail[q] + Len(batch'[q]) /\ newTail'[q] <= head[Ring(q)]
    /\ batch' \in [Queues -> Seq(Frames)] /\ batch'[q] # <<>>
    /\ \A u \in Queues : u # q => newTail'[u] = newTail[u] /\ batch'[u] = batch[u]
    /\ ~WrongRing(q) =>
         \A i \in 1 .. Len(batch'[q]) : batch'[q][i] = <<Ring(q), newTail[q] + i>>
    /\ Codec # "slcan" \/ head[Ring(q)] - newTail[q] <= config.batch
         => newTail'[q] = newTail[q] + Len(batch'[q])
    /\ pc' = [pc EXCEPT ![q] = "claim"]
    /\ UNCHANGED <<caller, pass, wPc, skewed>>

(* A read loads a batch or ends the pass. *)
LEMMA ReadMoves ==
    ASSUME CounterTypes, ControlTypes, FrameTypes, NEW q \in Queues, DrainRead(q)
    PROVE  \/ /\ NextPass(q) /\ UNCHANGED <<newTail, batch>>
              /\ skewed' \in BOOLEAN
              /\ ~WrongRing(q) => skewed' = skewed
           \/ BatchRead(q)
<1> DEFINE r == Ring(q)
           t == newTail[q]
           available == head[r] - t
           n == IF Codec = "slcan" THEN Smaller(available, config.batch) ELSE 1
           passed == IF Codec = "slcan" /\ available > config.batch THEN n + 1 ELSE n
           full == [i \in 1 .. n |-> <<r, t + i>>]
<1>1. r \in Rings /\ t \in 0 .. MaxFrames /\ head[r] \in 0 .. MaxFrames
      /\ available \in Int /\ config.batch \in Nat \ {0}
  BY RingOfQueue DEF CounterTypes
<1>2. CASE available <= 0
  <2>1. NextPass(q) /\ UNCHANGED <<newTail, batch, skewed>>
    BY <1>2 DEF DrainRead
  <2> QED
    BY <2>1 DEF ControlTypes
<1>3. CASE ~(available <= 0) /\ WrongRing(q) /\ AtSamePlace(t) = 0
  <2>1. skewed' = TRUE /\ NextPass(q) /\ UNCHANGED <<newTail, batch>>
    BY <1>3 DEF DrainRead
  <2> QED
    BY <1>3, <2>1
<1>4. CASE ~(available <= 0) /\ ~(WrongRing(q) /\ AtSamePlace(t) = 0)
  <2>1. /\ batch' = [batch EXCEPT ![q] = IF WrongRing(q) THEN << <<1, AtSamePlace(t)>> >>
                                         ELSE full]
        /\ newTail' = [newTail EXCEPT ![q] = t + passed]
        /\ pc' = [pc EXCEPT ![q] = "claim"]
        /\ UNCHANGED <<caller, pass, wPc, skewed>>
    BY <1>4 DEF DrainRead
  <2>2. /\ n \in 1 .. available /\ passed \in n .. available
        /\ Codec # "slcan" \/ available <= config.batch => passed = n
    <3> HIDE DEF r, t
    <3> QED
      BY <1>1, <1>4 DEF Smaller
  <2>3. /\ full \in Seq(Frames) /\ Len(full) = n /\ full # <<>>
        /\ \A i \in 1 .. n : full[i] = <<r, t + i>>
    <3>1. n \in Nat /\ \A i \in 1 .. n : t + i \in 1 .. MaxFrames /\ <<r, t + i>> \in Frames
      <4> HIDE DEF r, t, n
      <4> QED
        BY <1>1, <2>2, SMTT(20) DEF Frames
    <3> HIDE DEF r, t, n
    <3> QED
      BY <2>2, <3>1
  <2>4. newTail' \in [Queues -> 0 .. MaxFrames] /\ newTail'[q] = t + passed
        /\ \A u \in Queues : u # q => newTail'[u] = newTail[u]
    <3>1. t + passed \in 0 .. MaxFrames
      <4> HIDE DEF r, t, n, passed
      <4> QED
        BY <1>1, <2>2
    <3> HIDE DEF r, t, n, passed
    <3> QED
      BY <2>1, <3>1 DEF CounterTypes
  <2>5. CASE WrongRing(q)
    <3>1. Codec = "pcan_single"
      BY <2>5 DEF WrongRing
    <3>2. <<1, AtSamePlace(t)>> \in Frames
      <4>1. AtSamePlace(t) \in 0 .. head[1] /\ head[1] \in 0 .. MaxFrames
        BY <1>1, SamePlaceWritten, SMTT(20) DEF CounterTypes
      <4> HIDE DEF t
      <4> QED
        BY <1>4, <2>5, <4>1 DEF Frames
    <3>3. batch' = [batch EXCEPT ![q] = << <<1, AtSamePlace(t)>> >>]
      BY <2>1, <2>5
    <3>4. /\ batch' \in [Queues -> Seq(Frames)] /\ batch'[q] # <<>> /\ Len(batch'[q]) = 1
          /\ \A u \in Queues : u # q => batch'[u] = batch[u]
      <4> HIDE DEF t
      <4> QED
        BY <3>2, <3>3 DEF FrameTypes
    <3>5. n = 1 /\ passed = 1
      BY <3>1
    <3> HIDE DEF r, t, n, passed, full
    <3> QED
      BY <1>1, <2>1, <2>2, <2>4, <2>5, <3>1, <3>4, <3>5 DEF BatchRead, r, t
  <2>6. CASE ~WrongRing(q)
    <3>1. batch' = [batch EXCEPT ![q] = full]
      BY <2>1, <2>6
    <3> HIDE DEF full, n, passed
    <3>2. /\ batch' \in [Queues -> Seq(Frames)] /\ batch'[q] = full
          /\ \A u \in Queues : u # q => batch'[u] = batch[u]
      BY <2>3, <3>1 DEF FrameTypes
    <3> QED
      BY <1>1, <2>1, <2>2, <2>3, <2>4, <2>6, <3>2, SMTT(20) DEF BatchRead
  <2> QED
    BY <2>5, <2>6
<1> QED
  BY <1>2, <1>3, <1>4
-----------------------------------------------------------------------------
(* The types are kept by every step. *)

(* Every step keeps the counters of the rings typed, *)
LEMMA CounterTypesKept ==
    ASSUME CounterTypes, ControlTypes, FrameTypes, RingInv, [Next]_vars
    PROVE  CounterTypes'
<1>1. ASSUME NEW r \in Rings, Write(r) PROVE CounterTypes'
  <2>1. head[r] \in 0 .. MaxFrames /\ config.frames \in 0 .. MaxFrames
        /\ head[r] < config.frames
    BY <1>1 DEF CounterTypes, Write
  <2>2. head[r] + 1 \in 0 .. MaxFrames
    BY <2>1
  <2>3. head' = [head EXCEPT ![r] = head[r] + 1]
        /\ UNCHANGED <<tail, newTail, config>>
    BY <1>1 DEF Write, queueVars
  <2> QED
    BY <2>2, <2>3 DEF CounterTypes
<1>2. ASSUME NEW q \in Queues, DrainLoad(q) PROVE CounterTypes'
  <2>1. newTail' = [newTail EXCEPT ![q] = tail[Ring(q)]] /\ UNCHANGED <<head, tail, config>>
    BY <1>2 DEF DrainLoad, ringVars
  <2> QED
    BY <2>1, RingOfQueue DEF CounterTypes
<1>3. ASSUME NEW q \in Queues, DrainRead(q) PROVE CounterTypes'
  <2>1. UNCHANGED <<head, tail, config>>
    BY <1>3 DEF DrainRead
  <2>2. newTail' \in [Queues -> 0 .. MaxFrames]
    BY <1>3, ReadMoves DEF CounterTypes, BatchRead
  <2> QED
    BY <2>1, <2>2 DEF CounterTypes
<1>4. ASSUME NEW q \in Queues, StoreTail(q) PROVE CounterTypes'
  <2>1. tail' = [tail EXCEPT ![Ring(q)] = newTail[q]] /\ UNCHANGED <<head, newTail, config>>
    BY <1>4 DEF StoreTail
  <2> QED
    BY <2>1, RingOfQueue DEF CounterTypes
<1>5. \/ \E r \in Rings : Write(r)
      \/ \E q \in Queues : DrainLoad(q) \/ DrainRead(q) \/ StoreTail(q)
      \/ UNCHANGED <<head, tail, newTail, config>>
  BY DEF Next, DrainStep, SendData, WriteComplete, StartDrain, EchoReceived, SendCommand,
         Claim, Submit, SubmitFails, TransferDone, TransferFails,
         vars, ringVars, queueVars
<1>6. UNCHANGED <<head, tail, newTail, config>> => CounterTypes'
  BY DEF CounterTypes
<1> QED
  BY <1>1, <1>2, <1>3, <1>4, <1>5, <1>6

(* Where a queue may be after a step, and that it has one local drain.     *)
QueueTypes ==
    /\ wPc \in [Rings -> {"idle", "call", "served"}]
    /\ pc \in [Queues -> {"idle", "load", "read", "claim", "submit", "store"}]
    /\ caller \in [Queues -> Rings \union {None}]
    /\ pass \in [Queues -> 0 .. 1]

(* the state of the queues, *)
LEMMA QueueTypesKept ==
    ASSUME CounterTypes, ControlTypes, FrameTypes, [Next]_vars
    PROVE  QueueTypes'
<1>1. ASSUME NEW r \in Rings, Write(r) \/ SendData(r) PROVE QueueTypes'
  BY <1>1, StartDrainMoves DEF Write, SendData, queueVars, QueueTypes, ControlTypes
<1>2. ASSUME NEW p \in Pipes, WriteComplete(p) PROVE QueueTypes'
  <2>1. CASE completion[p] = "ok"
    BY <1>2, <2>1, TxQueueIsQueue, StartDrainMoves DEF WriteComplete, QueueTypes, ControlTypes
  <2>2. CASE completion[p] # "ok"
    BY <1>2, <2>2 DEF WriteComplete, queueVars, QueueTypes, ControlTypes
  <2> QED
    BY <2>1, <2>2
<1>3. CASE EchoReceived
  <2>1. CASE StartDrain("default", None)
    BY <1>3, <2>1, StartDrainMoves DEF EchoReceived, QueueTypes, ControlTypes
  <2>2. CASE UNCHANGED queueVars
    BY <1>3, <2>2 DEF EchoReceived, queueVars, QueueTypes, ControlTypes
  <2> QED
    BY <1>3, <2>1, <2>2 DEF EchoReceived
<1>4. CASE SendCommand
  BY <1>4 DEF SendCommand, QueueTypes, ControlTypes
<1>5. ASSUME NEW q \in Queues, NextPass(q) \/ SendFailed(q) PROVE QueueTypes'
  BY <1>5, NextPassMoves, SendFailedMoves DEF QueueTypes
<1>6. ASSUME NEW q \in Queues, DrainLoad(q) PROVE QueueTypes'
  <2>1. CASE NextPass(q)
    BY <1>5, <2>1
  <2>2. CASE pc' = [pc EXCEPT ![q] = "read"] /\ UNCHANGED <<caller, pass, wPc>>
    BY <2>2 DEF QueueTypes, ControlTypes
  <2> QED
    BY <1>6, <2>1, <2>2 DEF DrainLoad
<1>7. ASSUME NEW q \in Queues, DrainRead(q) PROVE QueueTypes'
  <2>1. CASE NextPass(q)
    BY <1>5, <2>1
  <2>2. CASE BatchRead(q)
    BY <2>2 DEF BatchRead, QueueTypes, ControlTypes
  <2> QED
    BY <1>7, <2>1, <2>2, ReadMoves
<1>8. ASSUME NEW q \in Queues, Claim(q) PROVE QueueTypes'
  <2>1. CASE SendFailed(q)
    BY <1>5, <2>1
  <2>2. CASE pc' = [pc EXCEPT ![q] = "submit"] /\ UNCHANGED <<caller, pass, wPc>>
    BY <2>2 DEF QueueTypes, ControlTypes
  <2> QED
    BY <1>8, <2>1, <2>2 DEF Claim
<1>9. ASSUME NEW q \in Queues, Submit(q) PROVE QueueTypes'
  BY <1>9 DEF Submit, QueueTypes, ControlTypes
<1>10. ASSUME NEW q \in Queues, SubmitFails(q) \/ StoreTail(q) PROVE QueueTypes'
  BY <1>5, <1>10 DEF SubmitFails, StoreTail
<1>11. ASSUME NEW p \in Pipes, TransferDone(p) \/ TransferFails(p) PROVE QueueTypes'
  BY <1>11 DEF TransferDone, TransferFails, queueVars, QueueTypes, ControlTypes
<1>12. CASE UNCHANGED vars
  BY <1>12 DEF vars, queueVars, QueueTypes, ControlTypes
<1> QED
  BY <1>1, <1>2, <1>3, <1>4, <1>6, <1>7, <1>8, <1>9, <1>10, <1>11, <1>12
  DEF Next, DrainStep

(* that of the drains, *)
LEMMA ControlTypesKept ==
    ASSUME CounterTypes, ControlTypes, FrameTypes, [Next]_vars
    PROVE  ControlTypes'
<1>1. QueueTypes'
  BY QueueTypesKept
<1>2. skewed' \in BOOLEAN
  <2>1. ASSUME NEW q \in Queues, DrainRead(q) PROVE skewed' \in BOOLEAN
    BY <2>1, ReadMoves DEF BatchRead, ControlTypes
  <2>2. (\E q \in Queues : DrainRead(q)) \/ UNCHANGED skewed
    BY DEF Next, DrainStep, Write, SendData, WriteComplete, EchoReceived, SendCommand,
           DrainLoad, Claim, Submit, SubmitFails, StoreTail, TransferDone, TransferFails,
           vars, ringVars
  <2> QED
    BY <2>1, <2>2 DEF ControlTypes
<1>3. inFlight' \in [Pipes -> BOOLEAN]
  <2>1. ASSUME NEW p \in Pipes, WriteComplete(p) PROVE inFlight' \in [Pipes -> BOOLEAN]
    <3>1. inFlight' = [inFlight EXCEPT ![p] = FALSE]
      BY <2>1 DEF WriteComplete
    <3> QED
      BY <3>1 DEF ControlTypes
  <2>2. ASSUME NEW q \in Queues, Claim(q) \/ SubmitFails(q)
        PROVE  inFlight' \in [Pipes -> BOOLEAN]
    <3>1. \/ inFlight' = [inFlight EXCEPT ![Pipe(q)] = TRUE]
          \/ inFlight' = [inFlight EXCEPT ![Pipe(q)] = FALSE]
      BY <2>2 DEF Claim, SubmitFails
    <3> QED
      BY <3>1 DEF ControlTypes
  <2>3. \/ \E p \in Pipes : WriteComplete(p)
        \/ \E q \in Queues : Claim(q) \/ SubmitFails(q)
        \/ UNCHANGED inFlight
    BY DEF Next, DrainStep, Write, SendData, EchoReceived, SendCommand, DrainLoad, DrainRead,
           Submit, StoreTail, TransferDone, TransferFails, vars, usbVars
  <2> QED
    BY <2>1, <2>2, <2>3 DEF ControlTypes
<1>4. completion' \in [Pipes -> {None, "ok", "error"}]
  <2>1. ASSUME NEW p \in Pipes, WriteComplete(p) \/ TransferDone(p) \/ TransferFails(p)
        PROVE  completion' \in [Pipes -> {None, "ok", "error"}]
    <3>1. \E v \in {None, "ok", "error"} : completion' = [completion EXCEPT ![p] = v]
      BY <2>1, Zenon DEF WriteComplete, TransferDone, TransferFails
    <3>2. completion \in [Pipes -> {None, "ok", "error"}]
      BY DEF ControlTypes
    <3> QED
      BY <3>1, <3>2
  <2>2. \/ \E p \in Pipes : WriteComplete(p) \/ TransferDone(p) \/ TransferFails(p)
        \/ UNCHANGED completion
    BY DEF Next, DrainStep, Write, SendData, EchoReceived, SendCommand, DrainLoad, DrainRead,
           Claim, Submit, SubmitFails, StoreTail, vars, usbVars
  <2> QED
    BY <2>1, <2>2 DEF ControlTypes
<1> QED
  BY <1>1, <1>2, <1>3, <1>4 DEF ControlTypes, QueueTypes

(* the frames, *)
LEMMA FrameTypesKept ==
    ASSUME CounterTypes, ControlTypes, FrameTypes, [Next]_vars
    PROVE  FrameTypes'
<1>1. transfer' \in [Pipes -> Seq(Frames) \union {None}]
  <2>1. ASSUME NEW q \in Queues, Submit(q)
        PROVE  transfer' \in [Pipes -> Seq(Frames) \union {None}]
    BY <2>1, RingOfQueue DEF Submit, FrameTypes
  <2>2. ASSUME NEW p \in Pipes, TransferDone(p) \/ TransferFails(p)
        PROVE  transfer' \in [Pipes -> Seq(Frames) \union {None}]
    BY <2>2 DEF TransferDone, TransferFails, FrameTypes
  <2>3. \/ \E q \in Queues : Submit(q)
        \/ \E p \in Pipes : TransferDone(p) \/ TransferFails(p)
        \/ UNCHANGED transfer
    BY DEF Next, DrainStep, Write, SendData, WriteComplete, EchoReceived, SendCommand,
           DrainLoad, DrainRead, Claim, SubmitFails, StoreTail, vars, usbVars
  <2> QED
    BY <2>1, <2>2, <2>3 DEF FrameTypes
<1>2. batch' \in [Queues -> Seq(Frames)]
  <2>1. CASE SendCommand
    <3>1. <<>> \in Seq(Frames) /\ batch' = [batch EXCEPT !["default"] = <<>>]
      BY <2>1 DEF SendCommand
    <3> QED
      BY <3>1 DEF FrameTypes
  <2>2. ASSUME NEW q \in Queues, DrainRead(q) PROVE batch' \in [Queues -> Seq(Frames)]
    BY <2>2, ReadMoves DEF BatchRead, FrameTypes
  <2>3. SendCommand \/ (\E q \in Queues : DrainRead(q)) \/ UNCHANGED batch
    BY DEF Next, DrainStep, Write, SendData, WriteComplete, StartDrain, EchoReceived,
           DrainLoad, Claim, Submit, SubmitFails, StoreTail, TransferDone, TransferFails,
           vars, queueVars
  <2> QED
    BY <2>1, <2>2, <2>3 DEF FrameTypes
<1>3. sent' \in [Rings -> Seq(1 .. MaxFrames)]
  <2>1. ASSUME NEW p \in Pipes, TransferDone(p) PROVE sent' \in [Rings -> Seq(1 .. MaxFrames)]
    <3>1. transfer[p] \in Seq(Frames)
      BY <2>1 DEF TransferDone, FrameTypes
    <3>2. ASSUME NEW r \in Rings
          PROVE  sent[r] \o OfRing(transfer[p], r) \in Seq(1 .. MaxFrames)
      <4>1. OfRing(transfer[p], r) \in Seq(1 .. MaxFrames) /\ sent[r] \in Seq(1 .. MaxFrames)
        BY <3>1, OfRingType DEF FrameTypes
      <4> QED
        BY <4>1
    <3>3. sent' = [r \in Rings |-> sent[r] \o OfRing(transfer[p], r)]
      BY <2>1 DEF TransferDone
    <3> QED
      BY <3>2, <3>3
  <2>2. (\E p \in Pipes : TransferDone(p)) \/ UNCHANGED sent
    BY DEF Next, DrainStep, Write, SendData, WriteComplete, EchoReceived, SendCommand,
           DrainLoad, DrainRead, Claim, Submit, SubmitFails, StoreTail, TransferFails,
           vars, histVars
  <2> QED
    BY <2>1, <2>2 DEF FrameTypes
<1>4. failed' \subseteq Frames
  <2>1. ASSUME NEW p \in Pipes, TransferFails(p) PROVE failed' \subseteq Frames
    <3>1. transfer[p] \in Seq(Frames)
      BY <2>1 DEF TransferFails, FrameTypes
    <3>2. \A i \in DOMAIN transfer[p] : transfer[p][i] \in Frames
      BY <3>1
    <3>3. failed' = failed \union {transfer[p][i] : i \in DOMAIN transfer[p]}
      BY <2>1 DEF TransferFails
    <3> QED
      BY <3>2, <3>3 DEF FrameTypes
  <2>2. (\E p \in Pipes : TransferFails(p)) \/ UNCHANGED failed
    BY DEF Next, DrainStep, Write, SendData, WriteComplete, EchoReceived, SendCommand,
           DrainLoad, DrainRead, Claim, Submit, SubmitFails, StoreTail, TransferDone,
           vars, histVars
  <2> QED
    BY <2>1, <2>2 DEF FrameTypes
<1> QED
  BY <1>1, <1>2, <1>3, <1>4 DEF FrameTypes

(* and the histories. *)
LEMMA HistoryTypesKept ==
    ASSUME HistoryTypes, [Next]_vars
    PROVE  HistoryTypes'
<1>1. commands' = commands \/ (commands < MaxCommands /\ commands' = commands + 1)
  BY DEF Next, DrainStep, Write, SendData, WriteComplete, EchoReceived, SendCommand, DrainLoad,
         DrainRead, Claim, Submit, SubmitFails, StoreTail, TransferDone, TransferFails,
         vars, histVars
<1>2. faults' = faults \/ (faults < MaxFaults /\ faults' = faults + 1)
  BY DEF Next, DrainStep, Write, SendData, WriteComplete, EchoReceived, SendCommand, DrainLoad,
         DrainRead, Claim, Submit, SubmitFails, StoreTail, TransferDone, TransferFails, Fault,
         vars, histVars
<1> QED
  BY <1>1, <1>2 DEF HistoryTypes

(* The echo count moves with onTxSent and with an echo.                    *)
LEMMA EchoSteps ==
    ASSUME ControlTypes, [Next]_vars
    PROVE  \/ \E q \in Queues : StoreTail(q)
           \/ EchoReceived
           \/ \E p \in Pipes : TransferDone(p) /\ UNCHANGED echoInflight
           \/ UNCHANGED <<echoInflight, echoes>>
  BY DEF Next, DrainStep, Write, SendData, WriteComplete, SendCommand, DrainLoad, DrainRead,
         Claim, Submit, SubmitFails, TransferDone, TransferFails, vars, echoVars

(* The configuration stays. *)
LEMMA ConfigKept ==
    ASSUME [Next]_vars
    PROVE  config' = config
  BY DEF Next, DrainStep, Write, SendData, WriteComplete, EchoReceived, SendCommand, DrainLoad,
         DrainRead, Claim, Submit, SubmitFails, StoreTail, TransferDone, TransferFails, vars

(* Every step keeps the echo slots typed. *)
LEMMA EchoTypesKept ==
    ASSUME ControlTypes, EchoTypes, QueueInv, [Next]_vars
    PROVE  EchoTypes'
<1>1. ASSUME NEW q \in Queues, StoreTail(q) PROVE EchoTypes'
  <2>1. CASE Codec = "gs_usb"
    <3>1. echoInflight' = echoInflight + 1 /\ echoes' = echoes /\ config' = config
      BY <1>1, <2>1 DEF StoreTail, CountEcho
    <3>2. ~config.txQueue => echoInflight < kMaxEchoInflight
      <4>1. pc[q] = "store" /\ (q = "default" \/ q = "tx")
        BY <1>1 DEF StoreTail
      <4> QED
        BY <2>1, <4>1 DEF QueueInv
    <3>3. echoInflight \in Nat /\ kMaxEchoInflight \in Nat
      BY DEF EchoTypes
    <3> QED
      BY <3>1, <3>2, <3>3 DEF EchoTypes
  <2>2. CASE Codec # "gs_usb"
    <3>1. echoInflight' = echoInflight /\ echoes' = echoes /\ config' = config
      BY <1>1, <2>2 DEF StoreTail, CountEcho
    <3> QED
      BY <3>1 DEF EchoTypes
  <2> QED
    BY <2>1, <2>2
<1>2. CASE EchoReceived
  <2>1. echoInflight' = (IF echoInflight > 0 THEN echoInflight - 1 ELSE 0)
        /\ echoes' = echoes - 1 /\ echoes > 0 /\ config' = config
    BY <1>2 DEF EchoReceived
  <2> QED
    BY <2>1 DEF EchoTypes
<1>3. ASSUME NEW p \in Pipes, TransferDone(p), UNCHANGED echoInflight PROVE EchoTypes'
  <2>1. (echoes' = echoes \/ echoes' = echoes + 1) /\ config' = config
    BY <1>3 DEF TransferDone
  <2> QED
    BY <1>3, <2>1 DEF EchoTypes
<1>4. CASE UNCHANGED <<echoInflight, echoes>>
  BY <1>4, ConfigKept DEF EchoTypes
<1> QED
  BY <1>1, <1>2, <1>3, <1>4, EchoSteps

(* What a step does to the places of the queues, for the invariants that   *)
(* speak of them: one queue q moves, or none.                              *)
QueueStep(q) ==
    /\ \A u \in Queues : u # q => /\ pc'[u] = pc[u] /\ pass'[u] = pass[u]
                                  /\ batch'[u] = batch[u] /\ newTail'[u] = newTail[u]
    /\ \/ pc'[q] \in {"idle", "load"} /\ (pc[q] = "submit" => Submit(q) \/ SubmitFails(q))
       \/ DrainLoad(q) /\ pc'[q] = "read"
       \/ DrainRead(q) /\ BatchRead(q)
       \/ SendCommand /\ q = "default"
       \/ Claim(q) /\ pc'[q] = "submit" /\ ~inFlight[Pipe(q)]
       \/ Submit(q) /\ batch[q] # <<>>
    /\ pc[q] = "idle" => q \in {"default", TxQueue}

(* A step moves one queue's drain, or none. *)
LEMMA OneQueueMoves ==
    ASSUME CounterTypes, ControlTypes, FrameTypes, [Next]_vars
    PROVE  \/ UNCHANGED <<pc, pass, newTail, batch>>
           \/ \E q \in Queues : QueueStep(q)
<1> DEFINE Goal == UNCHANGED <<pc, pass, newTail, batch>> \/ \E q \in Queues : QueueStep(q)
<1> USE DEF QueueStep
<1>1. ASSUME NEW q \in Queues, NEW who \in Rings \union {None}, StartDrain(q, who),
             q \in {"default", TxQueue}, pc[q] = "idle"
      PROVE  Goal
  BY <1>1, StartDrainMoves
<1>2. ASSUME NEW q \in Queues, NextPass(q) \/ SendFailed(q), pc[q] # "idle",
             pc[q] = "submit" => SubmitFails(q),
             \A u \in Queues : u # q => batch'[u] = batch[u] /\ newTail'[u] = newTail[u]
      PROVE  Goal
  BY <1>2, NextPassMoves, SendFailedMoves
<1>3. ASSUME NEW r \in Rings, Write(r) \/ SendData(r) PROVE Goal
  <2>1. CASE Write(r)
    BY <2>1 DEF Write, queueVars
  <2>2. CASE SendData(r)
    BY <1>1, <2>2 DEF SendData
  <2> QED
    BY <1>3, <2>1, <2>2
<1>4. ASSUME NEW p \in Pipes, WriteComplete(p) PROVE Goal
  <2>1. StartDrain(TxQueue, None) \/ UNCHANGED queueVars
    BY <1>4 DEF WriteComplete
  <2>2. CASE StartDrain(TxQueue, None)
    BY <1>1, <1>4, <2>2, TxQueueIsQueue DEF WriteComplete
  <2> QED
    BY <2>1, <2>2 DEF queueVars
<1>5. CASE EchoReceived
  <2>1. StartDrain("default", None) \/ UNCHANGED queueVars
    BY <1>5 DEF EchoReceived
  <2>2. CASE StartDrain("default", None)
    BY <1>1, <1>5, <2>2, TxQueueIsQueue DEF EchoReceived
  <2> QED
    BY <2>1, <2>2 DEF queueVars
<1>6. CASE SendCommand
  <2>1. /\ pc' = [pc EXCEPT !["default"] = "claim"] /\ batch' = [batch EXCEPT !["default"] = <<>>]
        /\ UNCHANGED <<pass, newTail>>
    BY <1>6 DEF SendCommand
  <2>2. \A u \in Queues : u # "default" => /\ pc'[u] = pc[u] /\ pass'[u] = pass[u]
                                           /\ batch'[u] = batch[u] /\ newTail'[u] = newTail[u]
    BY <2>1 DEF ControlTypes, FrameTypes
  <2> QED
    BY <1>6, <2>2
<1>7. ASSUME NEW q \in Queues, DrainLoad(q) PROVE Goal
  <2>1. /\ pc[q] = "load" /\ UNCHANGED batch
        /\ \A u \in Queues : u # q => newTail'[u] = newTail[u]
    BY <1>7 DEF DrainLoad, CounterTypes
  <2>2. CASE NextPass(q)
    BY <1>2, <2>1, <2>2
  <2>3. CASE pc' = [pc EXCEPT ![q] = "read"] /\ UNCHANGED <<caller, pass, wPc>>
    <3>1. pc'[q] = "read" /\ \A u \in Queues : u # q => pc'[u] = pc[u] /\ pass'[u] = pass[u]
      BY <2>3 DEF ControlTypes
    <3> QED
      BY <1>7, <2>1, <3>1
  <2> QED
    BY <1>7, <2>2, <2>3 DEF DrainLoad
<1>8. ASSUME NEW q \in Queues, DrainRead(q) PROVE Goal
  <2>1. pc[q] = "read"
    BY <1>8 DEF DrainRead
  <2>2. CASE NextPass(q) /\ UNCHANGED <<newTail, batch>>
    BY <1>2, <2>1, <2>2
  <2>3. CASE BatchRead(q)
    <3>1. \A u \in Queues : u # q => /\ pc'[u] = pc[u] /\ pass'[u] = pass[u]
                                     /\ batch'[u] = batch[u] /\ newTail'[u] = newTail[u]
      BY <2>3 DEF BatchRead, ControlTypes
    <3> QED
      BY <1>8, <2>1, <2>3, <3>1
  <2> QED
    BY <1>8, <2>2, <2>3, ReadMoves
<1>9. ASSUME NEW q \in Queues, Claim(q) PROVE Goal
  <2>1. pc[q] = "claim" /\ UNCHANGED <<newTail, batch>>
    BY <1>9 DEF Claim
  <2>2. CASE inFlight[Pipe(q)]
    BY <1>2, <1>9, <2>1, <2>2 DEF Claim
  <2>3. CASE ~inFlight[Pipe(q)]
    <3>1. pc' = [pc EXCEPT ![q] = "submit"] /\ UNCHANGED pass
      BY <1>9, <2>3 DEF Claim
    <3>2. pc'[q] = "submit" /\ \A u \in Queues : u # q => pc'[u] = pc[u] /\ pass'[u] = pass[u]
      BY <3>1 DEF ControlTypes
    <3> QED
      BY <1>9, <2>1, <2>3, <3>2
  <2> QED
    BY <2>2, <2>3
<1>10. ASSUME NEW q \in Queues, Submit(q) PROVE Goal
  <2>1. /\ pc[q] = "submit"
        /\ pass' = pass /\ newTail' = newTail /\ batch' = batch
        /\ pc' = [pc EXCEPT ![q] = IF batch[q] = <<>> THEN "idle" ELSE "store"]
    BY <1>10 DEF Submit
  <2>2. /\ \A u \in Queues : u # q => /\ pc'[u] = pc[u] /\ pass'[u] = pass[u]
                                       /\ batch'[u] = batch[u] /\ newTail'[u] = newTail[u]
        /\ batch[q] = <<>> => pc'[q] = "idle"
    BY <2>1 DEF ControlTypes
  <2> QED
    BY <1>10, <2>1, <2>2
<1>11. ASSUME NEW q \in Queues, SubmitFails(q) \/ StoreTail(q) PROVE Goal
  <2>1. /\ pc[q] # "idle" /\ UNCHANGED <<newTail, batch>> /\ (NextPass(q) \/ SendFailed(q))
        /\ pc[q] = "submit" => SubmitFails(q)
    BY <1>11 DEF SubmitFails, StoreTail
  <2> QED
    BY <1>2, <2>1
<1>12. ASSUME NEW p \in Pipes, TransferDone(p) \/ TransferFails(p) PROVE Goal
  BY <1>12 DEF TransferDone, TransferFails, queueVars
<1>13. CASE UNCHANGED vars
  BY <1>13 DEF vars, queueVars
<1> QED
  BY <1>3, <1>4, <1>5, <1>6, <1>7, <1>8, <1>9, <1>10, <1>11, <1>12, <1>13
  DEF Next, DrainStep

(* Each ring's tail stays behind its head. *)
LEMMA RingInvKept ==
    ASSUME CounterTypes, ControlTypes, FrameTypes, RingInv, [Next]_vars
    PROVE  RingInv'
<1>1. /\ \A r \in Rings : head[r] \in Nat /\ head'[r] \in Nat /\ head[r] <= head'[r]
      /\ \A r \in Rings : tail[r] \in Nat /\ tail'[r] \in Nat
      /\ \A q \in Queues : newTail[q] \in Nat
  <2>1. /\ head \in [Rings -> 0 .. MaxFrames] /\ tail \in [Rings -> 0 .. MaxFrames]
        /\ head' \in [Rings -> 0 .. MaxFrames] /\ tail' \in [Rings -> 0 .. MaxFrames]
        /\ newTail \in [Queues -> 0 .. MaxFrames]
    BY CounterTypesKept DEF CounterTypes
  <2>2. (\E r \in Rings : head' = [head EXCEPT ![r] = @ + 1]) \/ head' = head
    BY DEF Next, DrainStep, Write, SendData, WriteComplete, EchoReceived, SendCommand,
           DrainLoad, DrainRead, Claim, Submit, SubmitFails, StoreTail, TransferDone,
           TransferFails, vars, ringVars
  <2>3. \A r \in Rings : head[r] <= head'[r]
    BY <2>1, <2>2
  <2> QED
    BY <2>1, <2>3
<1>2. \A r \in Rings : tail'[r] <= head'[r]
  <2>1. ASSUME NEW q \in Queues, StoreTail(q), NEW r \in Rings PROVE tail'[r] <= head[r]
    <3>1. pc[q] = "store" /\ tail' = [tail EXCEPT ![Ring(q)] = newTail[q]]
      BY <2>1 DEF StoreTail
    <3>2. Ring(q) \in Rings /\ newTail[q] <= head[Ring(q)]
      BY <3>1, RingOfQueue DEF RingInv
    <3>3. tail'[r] = IF r = Ring(q) THEN newTail[q] ELSE tail[r]
      BY <3>1, <3>2 DEF CounterTypes
    <3> QED
      BY <3>2, <3>3 DEF RingInv
  <2>2. (\E q \in Queues : StoreTail(q)) \/ UNCHANGED tail
    BY DEF Next, DrainStep, Write, SendData, WriteComplete, EchoReceived, SendCommand,
           DrainLoad, DrainRead, Claim, Submit, SubmitFails, TransferDone, TransferFails,
           vars, ringVars
  <2>3. ASSUME NEW r \in Rings PROVE tail'[r] <= head[r]
    BY <2>1, <2>2 DEF RingInv
  <2> QED
    BY <1>1, <2>3
<1>3. ASSUME NEW u \in Queues, pc'[u] = pc[u], pass'[u] = pass[u], batch'[u] = batch[u],
             newTail'[u] = newTail[u]
      PROVE  /\ pc'[u] \in {"read", "store"} \/ Loaded(u)' => newTail'[u] <= head'[Ring(u)']
             /\ pc'[u] = "store" => batch'[u] # <<>>
  <2>1. Ring(u)' = Ring(u) /\ Ring(u) \in Rings
    BY <1>3, ConfigKept, RingOfQueue DEF Ring
  <2>2. Loaded(u)' <=> Loaded(u)
    BY <1>3 DEF Loaded
  <2> QED
    BY <1>1, <1>3, <2>1, <2>2 DEF RingInv
<1>4. ASSUME NEW q \in Queues, QueueStep(q)
      PROVE  /\ pc'[q] \in {"read", "store"} \/ Loaded(q)' => newTail'[q] <= head'[Ring(q)']
             /\ pc'[q] = "store" => batch'[q] # <<>>
  <2>1. Ring(q) \in Rings /\ config' = config
    BY ConfigKept, RingOfQueue
  <2>2. CASE pc'[q] \in {"idle", "load"}
    BY <2>2 DEF Loaded
  <2>3. CASE DrainLoad(q) /\ pc'[q] = "read"
    <3>1. newTail' = [newTail EXCEPT ![q] = tail[Ring(q)]] /\ head' = head
      BY <2>3 DEF DrainLoad, ringVars
    <3>2. pass' = pass
      BY <2>3, NextPassMoves DEF DrainLoad
    <3>3. newTail'[q] = tail[Ring(q)] /\ Ring(q)' = Ring(q)
      BY <2>1, <3>1, <3>2 DEF CounterTypes, Ring
    <3> QED
      BY <2>1, <2>3, <3>1, <3>3 DEF RingInv
  <2>4. CASE DrainRead(q) /\ BatchRead(q)
    <3>1. newTail'[q] <= head[Ring(q)] /\ Ring(q)' = Ring(q) /\ head' = head
      BY <2>1, <2>4 DEF BatchRead, DrainRead, Ring
    <3>2. pc'[q] = "claim"
      BY <2>4 DEF BatchRead, ControlTypes
    <3> QED
      BY <3>1, <3>2
  <2>5. CASE SendCommand /\ q = "default"
    <3>1. pc'[q] = "claim" /\ batch'[q] = <<>>
      BY <2>5 DEF SendCommand, ControlTypes, FrameTypes
    <3> QED
      BY <3>1 DEF Loaded
  <2>6. CASE Claim(q) /\ pc'[q] = "submit" /\ ~inFlight[Pipe(q)]
    <3>1. pc[q] = "claim" /\ pass' = pass /\ batch' = batch /\ newTail' = newTail /\ head' = head
      BY <2>6 DEF Claim, ringVars
    <3>2. Ring(q)' = Ring(q) /\ (Loaded(q)' <=> Loaded(q))
      BY <2>1, <2>6, <3>1 DEF Ring, Loaded
    <3> QED
      BY <2>6, <3>1, <3>2 DEF RingInv
  <2>7. CASE Submit(q) /\ batch[q] # <<>>
    <3>1. pc[q] = "submit" /\ pass' = pass /\ batch' = batch /\ newTail' = newTail /\ head' = head
      BY <2>7 DEF Submit, ringVars
    <3>2. Ring(q)' = Ring(q) /\ Loaded(q)
      BY <2>1, <2>7, <3>1 DEF Ring, Loaded
    <3> QED
      BY <2>7, <3>1, <3>2 DEF RingInv
  <2> QED
    BY <1>4, <2>2, <2>3, <2>4, <2>5, <2>6, <2>7 DEF QueueStep
<1>5. ASSUME NEW u \in Queues
      PROVE  /\ pc'[u] \in {"read", "store"} \/ Loaded(u)' => newTail'[u] <= head'[Ring(u)']
             /\ pc'[u] = "store" => batch'[u] # <<>>
  <2>1. CASE UNCHANGED <<pc, pass, newTail, batch>>
    BY <1>3, <2>1
  <2>2. ASSUME NEW q \in Queues, QueueStep(q)
        PROVE  u = q \/ (/\ pc'[u] = pc[u] /\ pass'[u] = pass[u]
                         /\ batch'[u] = batch[u] /\ newTail'[u] = newTail[u])
    BY <2>2 DEF QueueStep
  <2> QED
    BY <1>3, <1>4, <2>1, <2>2, OneQueueMoves
<1> QED
  BY <1>2, <1>5 DEF RingInv

(* With one queue, the second is idle and echoes stay below the limit. *)
LEMMA QueueInvKept ==
    ASSUME CounterTypes, ControlTypes, FrameTypes, QueueInv, [Next]_vars
    PROVE  QueueInv'
<1> SUFFICES ASSUME ~config.txQueue PROVE QueueInv'
  BY ConfigKept DEF QueueInv
<1> DEFINE Places == {"read", "claim", "submit", "store"}
<1>0. config' = config /\ pc["tx"] = "idle" /\ TxQueue = "default"
  BY ConfigKept DEF QueueInv, TxQueue
<1>1. pc'["tx"] = "idle"
  BY <1>0, OneQueueMoves DEF QueueStep
<1>2. ASSUME Codec = "gs_usb", pc'["default"] \in Places
      PROVE  echoInflight' < kMaxEchoInflight
  <2>1. echoInflight' = echoInflight
    <3>1. ASSUME NEW q \in Queues, StoreTail(q) PROVE pc'["default"] \notin Places
      <4>1. q = "default"
        BY <1>0, <3>1 DEF StoreTail
      <4>2. NextPass(q)
        BY <3>1 DEF StoreTail
      <4> QED
        BY <4>1, <4>2, NextPassMoves
    <3>2. EchoReceived => pc'["default"] \notin Places
      <4>1. EchoReceived => pc["default"] = "idle" /\ (StartDrain("default", None) \/ pc' = pc)
        BY DEF EchoReceived, queueVars
      <4> QED
        BY <4>1, StartDrainMoves
    <3> QED
      BY <1>2, <3>1, <3>2, EchoSteps
  <2>2. echoInflight < kMaxEchoInflight
    <3>1. CASE pc["default"] \in Places
      BY <1>2, <3>1 DEF QueueInv
    <3>2. CASE pc["default"] \notin Places
      <4>1. DrainLoad("default") /\ pc'["default"] = "read"
        <5>1. PICK q \in Queues : QueueStep(q)
          BY <1>2, <3>2, OneQueueMoves
        <5>2. q = "default"
          BY <1>2, <3>2, <5>1 DEF QueueStep
        <5>3. ~SendCommand
          BY <1>2 DEF SendCommand
        <5> QED
          BY <1>2, <3>2, <5>1, <5>2, <5>3 DEF QueueStep, DrainRead, Claim, Submit
      <4>2. ~NextPass("default")
        BY <4>1, NextPassMoves
      <4>3. CanSend
        BY <4>1, <4>2 DEF DrainLoad
      <4> QED
        BY <1>2, <4>3 DEF CanSend
    <3> QED
      BY <3>1, <3>2
  <2> QED
    BY <2>1, <2>2
<1> QED
  BY <1>0, <1>1, <1>2 DEF QueueInv

(* The owners stay but for a claim, and the end of one's own submission.   *)
LEMMA OwnersStay ==
    ASSUME CounterTypes, ControlTypes, FrameTypes, [Next]_vars
    PROVE  \/ \E q \in Queues : Claim(q) /\ ~inFlight[Pipe(q)]
           \/ \E q \in Queues : Submit(q) \/ SubmitFails(q)
           \/ \A u \in Queues : \A p \in Pipes : Owns(u, p)' <=> Owns(u, p)
<1>1. config' = config
  BY ConfigKept
<1>2. CASE UNCHANGED <<pc, pass, newTail, batch>>
  BY <1>1, <1>2 DEF Owns, Pipe
<1>3. ASSUME NEW q \in Queues, QueueStep(q)
      PROVE  \/ Claim(q) /\ ~inFlight[Pipe(q)]
             \/ Submit(q) \/ SubmitFails(q)
             \/ \A u \in Queues : \A p \in Pipes : Owns(u, p)' <=> Owns(u, p)
  <2>1. ASSUME NEW u \in Queues, u # q, NEW p \in Pipes PROVE Owns(u, p)' <=> Owns(u, p)
    BY <1>1, <1>3, <2>1 DEF QueueStep, Owns, Pipe
  <2>2. ASSUME pc[q] # "submit", pc'[q] # "submit", NEW u \in Queues, NEW p \in Pipes
        PROVE  Owns(u, p)' <=> Owns(u, p)
    BY <2>1, <2>2 DEF Owns
  <2>3. \/ Claim(q) /\ ~inFlight[Pipe(q)]
        \/ Submit(q) \/ SubmitFails(q)
        \/ pc[q] # "submit" /\ pc'[q] # "submit"
    BY <1>3 DEF QueueStep, DrainLoad, DrainRead, BatchRead, SendCommand, ControlTypes
  <2> QED
    BY <2>2, <2>3
<1> QED
  BY <1>2, <1>3, OneQueueMoves

(* What takes the buffer is never taken for no transfer.                   *)
LEMMA FramesAreSome ==
    ASSUME NEW f \in Seq(Frames)
    PROVE  f # None
<1>1. Frames \subseteq Rings \X Nat
  BY DEF Frames
<1>2. f \in Seq(Rings \X Nat)
  <2>1. Len(f) \in Nat /\ DOMAIN f = 1 .. Len(f) /\ f = [i \in 1 .. Len(f) |-> f[i]]
        /\ \A i \in 1 .. Len(f) : f[i] \in Rings \X Nat
    BY <1>1
  <2> QED
    BY <2>1
<1> QED
  BY <1>2

(* A buffer stays in one hand. *)
LEMMA OwnerInvKept ==
    ASSUME CounterTypes, ControlTypes, FrameTypes, OwnerInv, [Next]_vars
    PROVE  OwnerInv'
<1> DEFINE Same == \A u \in Queues : \A p \in Pipes : Owns(u, p)' <=> Owns(u, p)
<1>0. config' = config /\ None \notin {"ok", "error"}
  BY ConfigKept
<1>1. ASSUME NEW q \in Queues, Claim(q), ~inFlight[Pipe(q)] PROVE OwnerInv'
  <2>1. /\ pc' = [pc EXCEPT ![q] = "submit"] /\ pass' = pass
        /\ inFlight' = [inFlight EXCEPT ![Pipe(q)] = TRUE]
        /\ transfer' = transfer /\ completion' = completion
    BY <1>1 DEF Claim
  <2>2. \A u \in Queues : \A p \in Pipes :
           Owns(u, p)' <=> Owns(u, p) \/ (u = q /\ p = Pipe(q))
    <3>1. ASSUME NEW u \in Queues, NEW p \in Pipes
          PROVE  Owns(u, p)' <=> Owns(u, p) \/ (u = q /\ p = Pipe(q))
      <4>1. Pipe(u)' = Pipe(u) /\ pc[q] = "claim"
        BY <1>0, <1>1, <2>1 DEF Pipe, Claim
      <4>2. pc'[u] = IF u = q THEN "submit" ELSE pc[u]
        BY <2>1 DEF ControlTypes
      <4> QED
        BY <4>1, <4>2 DEF Owns
    <3> QED
      BY <3>1
  <2>3. \A p \in Pipes : inFlight'[p] <=> inFlight[p] \/ p = Pipe(q)
    <3>1. \A p \in Pipes : inFlight'[p] = IF p = Pipe(q) THEN TRUE ELSE inFlight[p]
      BY <2>1 DEF ControlTypes
    <3> QED
      BY <3>1
  <2>4. Pipe(q) \in Pipes
    BY RingOfQueue
  <2>5. \A u \in Queues : ~Owns(u, Pipe(q))
    BY <1>1, <2>4, Zenon DEF OwnerInv
  <2>6. transfer[Pipe(q)] = None /\ completion[Pipe(q)] = None
    BY <1>1, <2>4, Zenon DEF OwnerInv
  <2>7. \A u, w \in Queues : \A p \in Pipes : Owns(u, p)' /\ Owns(w, p)' => u = w
    BY <2>2, <2>5, Zenon DEF OwnerInv
  <2>8. \A u \in Queues : \A p \in Pipes :
           Owns(u, p)' => inFlight'[p] /\ transfer'[p] = None /\ completion'[p] = None
    BY <2>1, <2>2, <2>3, <2>6, Zenon DEF OwnerInv
  <2>9. \A p \in Pipes : /\ transfer'[p] # None => inFlight'[p] /\ completion'[p] = None
                         /\ completion'[p] # None => inFlight'[p]
    BY <2>1, <2>3, Zenon DEF OwnerInv
  <2>10. \A p \in Pipes :
           inFlight'[p] => \/ transfer'[p] # None \/ completion'[p] # None
                           \/ \E u \in Queues : Owns(u, p)'
    BY <2>1, <2>2, <2>3, Zenon DEF OwnerInv
  <2> QED
    BY <2>7, <2>8, <2>9, <2>10, Zenon DEF OwnerInv
<1>2. ASSUME NEW q \in Queues, Submit(q) \/ SubmitFails(q) PROVE OwnerInv'
  <2> DEFINE p0 == Pipe(q)
  <2>1. /\ p0 \in Pipes /\ Owns(q, p0)
        /\ inFlight[p0] /\ transfer[p0] = None /\ completion[p0] = None
        /\ \A u \in Queues : Owns(u, p0) => u = q
    <3>1. p0 \in Pipes /\ Owns(q, p0)
      BY <1>2, RingOfQueue DEF Submit, SubmitFails, Owns
    <3> QED
      BY <3>1, Zenon DEF OwnerInv
  <2>2. \A u \in Queues : \A p \in Pipes : Owns(u, p)' <=> Owns(u, p) /\ u # q
    <3>1. pc'[q] # "submit" /\ \A u \in Queues : u # q => pc'[u] = pc[u] /\ pass'[u] = pass[u]
      <4>1. CASE Submit(q)
        BY <4>1 DEF Submit, ControlTypes
      <4>2. CASE SubmitFails(q)
        BY <4>2, SendFailedMoves DEF SubmitFails
      <4> QED
        BY <1>2, <4>1, <4>2
    <3> QED
      BY <1>0, <3>1 DEF Owns, Pipe
  <2>3. \A u \in Queues : \A p \in Pipes : Owns(u, p)' => Owns(u, p) /\ p # p0
    BY <2>1, <2>2, Zenon
  <2>4. \A u \in Queues : \A p \in Pipes : p # p0 => (Owns(u, p)' <=> Owns(u, p))
    <3>1. \A p \in Pipes : Owns(q, p) => p = p0
      BY DEF Owns
    <3> QED
      BY <2>2, <3>1, Zenon
  <2>5. CASE Submit(q)
    <3>1. /\ transfer' = [transfer EXCEPT ![p0] = batch[q]] /\ batch[q] \in Seq(Frames)
          /\ inFlight' = inFlight /\ completion' = completion
      BY <2>5 DEF Submit, FrameTypes
    <3>2. transfer'[p0] # None /\ \A p \in Pipes : p # p0 => transfer'[p] = transfer[p]
      BY <2>1, <3>1, FramesAreSome DEF FrameTypes
    <3> HIDE DEF p0
    <3> QED
      BY <2>1, <2>3, <2>4, <3>1, <3>2, ZenonT(90) DEF OwnerInv
  <2>6. CASE SubmitFails(q)
    <3>1. /\ inFlight' = [inFlight EXCEPT ![p0] = FALSE]
          /\ transfer' = transfer /\ completion' = completion
      BY <2>6 DEF SubmitFails
    <3>2. \A p \in Pipes : inFlight'[p] = IF p = p0 THEN FALSE ELSE inFlight[p]
      BY <3>1 DEF ControlTypes
    <3>3. \A p \in Pipes : inFlight'[p] <=> inFlight[p] /\ p # p0
      BY <3>2
    <3> HIDE DEF p0
    <3> QED
      BY <2>1, <2>3, <2>4, <3>1, <3>3, Zenon DEF OwnerInv
  <2> QED
    BY <1>2, <2>5, <2>6
<1>3. ASSUME NEW p0 \in Pipes, TransferDone(p0) \/ TransferFails(p0), Same PROVE OwnerInv'
  <2>1. /\ transfer[p0] # None /\ inFlight' = inFlight
        /\ transfer' = [transfer EXCEPT ![p0] = None]
        /\ \E st \in {"ok", "error"} : completion' = [completion EXCEPT ![p0] = st]
    BY <1>3 DEF TransferDone, TransferFails
  <2>2. /\ transfer'[p0] = None /\ completion'[p0] # None
        /\ \A p \in Pipes : p # p0 => transfer'[p] = transfer[p] /\ completion'[p] = completion[p]
    BY <1>0, <2>1 DEF FrameTypes, ControlTypes
  <2>3. inFlight[p0] /\ completion[p0] = None /\ \A u \in Queues : ~Owns(u, p0)
    BY <2>1, Zenon DEF OwnerInv
  <2>4. \A u, w \in Queues : \A p \in Pipes : Owns(u, p)' /\ Owns(w, p)' => u = w
    BY <1>3, Zenon DEF OwnerInv
  <2>5. \A u \in Queues : \A p \in Pipes :
           Owns(u, p)' => inFlight'[p] /\ transfer'[p] = None /\ completion'[p] = None
    BY <1>3, <2>1, <2>2, <2>3, Zenon DEF OwnerInv
  <2>6. \A p \in Pipes : /\ transfer'[p] # None => inFlight'[p] /\ completion'[p] = None
                         /\ completion'[p] # None => inFlight'[p]
    BY <2>1, <2>2, <2>3, Zenon DEF OwnerInv
  <2>7. \A p \in Pipes :
           inFlight'[p] => \/ transfer'[p] # None \/ completion'[p] # None
                           \/ \E u \in Queues : Owns(u, p)'
    BY <1>3, <2>1, <2>2, ZenonT(90) DEF OwnerInv
  <2> QED
    BY <2>4, <2>5, <2>6, <2>7, Zenon DEF OwnerInv
<1>4. ASSUME NEW p0 \in Pipes, WriteComplete(p0), Same PROVE OwnerInv'
  <2>1. /\ completion[p0] # None /\ transfer' = transfer
        /\ inFlight' = [inFlight EXCEPT ![p0] = FALSE]
        /\ completion' = [completion EXCEPT ![p0] = None]
    BY <1>4 DEF WriteComplete
  <2>2. /\ completion'[p0] = None
        /\ \A p \in Pipes : p # p0 => completion'[p] = completion[p]
    BY <2>1 DEF ControlTypes
  <2>3. \A p \in Pipes : inFlight'[p] <=> inFlight[p] /\ p # p0
    <3>1. \A p \in Pipes : inFlight'[p] = IF p = p0 THEN FALSE ELSE inFlight[p]
      BY <2>1 DEF ControlTypes
    <3> QED
      BY <3>1
  <2>4. transfer[p0] = None /\ \A u \in Queues : ~Owns(u, p0)
    BY <2>1, Zenon DEF OwnerInv
  <2>5. \A u, w \in Queues : \A p \in Pipes : Owns(u, p)' /\ Owns(w, p)' => u = w
    BY <1>4, Zenon DEF OwnerInv
  <2>6. \A u \in Queues : \A p \in Pipes :
           Owns(u, p)' => inFlight'[p] /\ transfer'[p] = None /\ completion'[p] = None
    BY <1>4, <2>1, <2>2, <2>3, <2>4, Zenon DEF OwnerInv
  <2>7. \A p \in Pipes : /\ transfer'[p] # None => inFlight'[p] /\ completion'[p] = None
                         /\ completion'[p] # None => inFlight'[p]
    BY <2>1, <2>2, <2>3, <2>4, Zenon DEF OwnerInv
  <2>8. \A p \in Pipes :
           inFlight'[p] => \/ transfer'[p] # None \/ completion'[p] # None
                           \/ \E u \in Queues : Owns(u, p)'
    BY <1>4, <2>1, <2>2, <2>3, Zenon DEF OwnerInv
  <2> QED
    BY <2>5, <2>6, <2>7, <2>8, Zenon DEF OwnerInv
<1>5. ASSUME UNCHANGED usbVars, Same PROVE OwnerInv'
  <2>1. inFlight' = inFlight /\ transfer' = transfer /\ completion' = completion
    BY <1>5 DEF usbVars
  <2> QED
    BY <1>5, <2>1, Zenon DEF OwnerInv
<1>6. ASSUME NEW q \in Queues, Claim(q), inFlight[Pipe(q)] PROVE UNCHANGED usbVars
  <2>1. inFlight' = [inFlight EXCEPT ![Pipe(q)] = TRUE]
        /\ transfer' = transfer /\ completion' = completion
    BY <1>6 DEF Claim
  <2>2. \A p \in Pipes : inFlight'[p] = inFlight[p]
    <3>1. \A p \in Pipes : inFlight'[p] = IF p = Pipe(q) THEN TRUE ELSE inFlight[p]
      BY <2>1 DEF ControlTypes
    <3>2. inFlight[Pipe(q)] = TRUE
      BY <1>6, RingOfQueue DEF ControlTypes
    <3> QED
      BY <3>1, <3>2
  <2>3. inFlight \in [Pipes -> BOOLEAN] /\ inFlight' \in [Pipes -> BOOLEAN]
    BY <2>1 DEF ControlTypes
  <2>4. inFlight' = inFlight
    BY <2>2, <2>3
  <2> QED
    BY <2>1, <2>4 DEF usbVars
<1>7. \/ \E q \in Queues : Claim(q)
      \/ \E q \in Queues : Submit(q) \/ SubmitFails(q)
      \/ \E p \in Pipes : TransferDone(p) \/ TransferFails(p)
      \/ \E p \in Pipes : WriteComplete(p)
      \/ UNCHANGED usbVars
  BY DEF Next, DrainStep, Write, SendData, EchoReceived, SendCommand, DrainLoad, DrainRead,
         StoreTail, vars
<1>8. \/ \E q \in Queues : Claim(q) /\ ~inFlight[Pipe(q)]
      \/ \E q \in Queues : Submit(q) \/ SubmitFails(q)
      \/ Same
  BY OwnersStay
<1> HIDE DEF Same
<1> QED
  BY <1>1, <1>2, <1>3, <1>4, <1>5, <1>6, <1>7, <1>8

-----------------------------------------------------------------------------
(* The invariant holds throughout. *)

(* The first half of the invariant holds at the start *)
LEMMA SafeInit == Init => SafeInv
<1> SUFFICES ASSUME Init PROVE SafeInv
  OBVIOUS
<1>1. CounterTypes
  BY DEF Init, CounterTypes
<1>2. ControlTypes
  <2>1. skewed \in BOOLEAN /\ inFlight \in [Pipes -> BOOLEAN]
    BY DEF Init
  <2>2. completion \in [Pipes -> {None, "ok", "error"}] /\ caller \in [Queues -> Rings \union {None}]
    BY DEF Init
  <2>3. /\ wPc \in [Rings -> {"idle", "call", "served"}] /\ pass \in [Queues -> 0 .. 1]
        /\ pc \in [Queues -> {"idle", "load", "read", "claim", "submit", "store"}]
    BY DEF Init
  <2> QED
    BY <2>1, <2>2, <2>3 DEF ControlTypes
<1>3. FrameTypes
  <2>1. <<>> \in Seq(Frames) /\ <<>> \in Seq(1 .. MaxFrames)
    OBVIOUS
  <2> QED
    BY <2>1 DEF Init, FrameTypes
<1>4. EchoTypes /\ HistoryTypes
  BY DEF Init, EchoTypes, HistoryTypes
<1>5. OwnerInv
  BY DEF Init, OwnerInv, Owns
<1>6. RingInv
  BY DEF Init, RingInv, Loaded
<1>7. QueueInv
  BY DEF Init, QueueInv
<1> QED
  BY <1>1, <1>2, <1>3, <1>4, <1>5, <1>6, <1>7, TypeParts, Zenon DEF SafeInv

(* and is kept by every step. *)
LEMMA SafeStep == SafeInv /\ [Next]_vars => SafeInv'
<1> SUFFICES ASSUME SafeInv, [Next]_vars PROVE SafeInv'
  OBVIOUS
<1>1. CounterTypes /\ ControlTypes /\ FrameTypes /\ EchoTypes /\ HistoryTypes
      /\ OwnerInv /\ RingInv /\ QueueInv
  BY TypeParts, Zenon DEF SafeInv
<1>2. CounterTypes' /\ ControlTypes' /\ FrameTypes' /\ EchoTypes' /\ HistoryTypes'
  BY <1>1, CounterTypesKept, ControlTypesKept, FrameTypesKept, EchoTypesKept, HistoryTypesKept, Zenon
<1>3. OwnerInv' /\ RingInv' /\ QueueInv'
  BY <1>1, OwnerInvKept, RingInvKept, QueueInvKept, Zenon
<1>4. TypeOK'
  BY <1>2, TypeParts, PTL
<1> QED
  BY <1>3, <1>4, Zenon DEF SafeInv

(* Counters, handlers and buffers of the two pipes agree in every          *)
(* reachable state, whatever fails and however many queues there are.      *)
THEOREM Safety == Spec => []SafeInv
<1> QED
  BY SafeInit, SafeStep, PTL DEF Spec
-----------------------------------------------------------------------------
(* The one TX buffer of a pipe is in one hand at a time, and inFlight says *)
(* whether it is in one: fTxInFlight guards the buffer that SendRawBytes   *)
(* fills, through the transfer and until WriteComplete.                    *)
THEOREM BufferInOneHand == Spec => []BufferExclusive
<1>1. SafeInv => BufferExclusive
  <2> SUFFICES ASSUME SafeInv PROVE BufferExclusive
    OBVIOUS
  <2> DEFINE Owners(p) == {q \in Queues : pc[q] = "submit" /\ Pipe(q) = p}
  <2>1. TypeOK /\ OwnerInv
    BY DEF SafeInv
  <2>2. ASSUME NEW p \in Pipes PROVE BufferOwners(p) = IF inFlight[p] THEN 1 ELSE 0
    <3>1. \A q \in Queues : q \in Owners(p) <=> Owns(q, p)
      BY DEF Owns
    <3>2. CASE \E q \in Queues : Owns(q, p)
      <4>1. PICK q \in Queues : Owns(q, p)
        BY <3>2
      <4>2. inFlight[p] /\ transfer[p] = None /\ completion[p] = None
        BY <2>1, <4>1, Zenon DEF OwnerInv
      <4>3. Owners(p) = {q}
        <5>1. \A u \in Queues : Owns(u, p) => u = q
          BY <2>1, <4>1, ZenonT(90) DEF OwnerInv
        <5> QED
          BY <3>1, <4>1, <5>1
      <4>4. Cardinality(Owners(p)) = 1
        BY <4>3, FS_Singleton
      <4> HIDE DEF Owners
      <4> QED
        BY <4>2, <4>4 DEF BufferOwners, Owners
    <3>3. CASE ~ \E q \in Queues : Owns(q, p)
      <4>1. Owners(p) = {}
        BY <3>1, <3>3
      <4>2. Cardinality(Owners(p)) = 0
        BY <4>1, FS_EmptySet
      <4>3. /\ inFlight[p] <=> (transfer[p] # None \/ completion[p] # None)
            /\ transfer[p] = None \/ completion[p] = None
        BY <2>1, <3>3, Zenon DEF OwnerInv
      <4>4. BufferOwners(p) = (IF transfer[p] # None THEN 1 ELSE 0)
                              + (IF completion[p] # None THEN 1 ELSE 0)
        BY <4>2 DEF BufferOwners
      <4> HIDE DEF Owners
      <4> QED
        BY <4>3, <4>4
    <3> QED
      BY <3>2, <3>3
  <2> QED
    BY <2>1, <2>2 DEF BufferExclusive
<1> QED
  BY <1>1, Safety, PTL
-----------------------------------------------------------------------------
(* Where the frames of batches and transfers come from.                    *)

(* Each drain reads the ring it consumes: not the fallback for an adapter  *)
(* without EP 0x03.                                                        *)
OwnRing == Codec # "pcan_single"

(* And no frame is passed over: SLCAN's batch holds all the ring does.     *)
Sound == OwnRing /\ (Codec = "slcan" => ~config.txQueue /\ config.batch >= RingCap)

First(q) == batch[q][1][2]

(* The batch is a run of the ring's frames that ends at the local tail,    *)
(* with one queue the run that begins behind the tail.                     *)
BatchAt(q) ==
    /\ \A i \in 1 .. Len(batch[q]) : batch[q][i] = <<Ring(q), First(q) + i - 1>>
    /\ First(q) + Len(batch[q]) - 1 <= newTail[q]
    /\ Sound => First(q) + Len(batch[q]) - 1 = newTail[q]
    /\ ~config.txQueue => First(q) = tail[Ring(q)] + 1

CapInv ==
    /\ \A r \in Rings : head[r] - tail[r] <= RingCap
    /\ pc["default"] = "read" => newTail["default"] = tail[Ring("default")]
    /\ pc["default"] = "store" => newTail["default"] >= tail[Ring("default")]

PlacedInv ==
    OwnRing =>
      /\ \A p \in Pipes : transfer[p] # None =>
           \A i \in 1 .. Len(transfer[p]) : transfer[p][i][1] = p
      /\ \A q \in Queues : Loaded(q) => BatchAt(q)
      /\ ~config.txQueue => CapInv

(* The shape of a number sequence and of a batch.                          *)
LEMMA BatchNumbers ==
    ASSUME FrameTypes, CounterTypes, NEW q \in Queues
    PROVE  /\ Len(batch[q]) \in Nat /\ DOMAIN batch[q] = 1 .. Len(batch[q])
           /\ batch[q] # <<>> => Len(batch[q]) >= 1 /\ First(q) \in 1 .. MaxFrames
           /\ newTail[q] \in 0 .. MaxFrames
<1>1. batch[q] \in Seq(Frames)
  BY DEF FrameTypes
<1>2. batch[q] # <<>> => Len(batch[q]) >= 1 /\ batch[q][1] \in Frames
  BY <1>1
<1> QED
  BY <1>1, <1>2, SMTT(20) DEF CounterTypes, First, Frames

(* What the read puts into the batch.                                      *)
LEMMA ReadPlaces ==
    ASSUME SafeInv, OwnRing, ~config.txQueue => CapInv,
           NEW q \in Queues, DrainRead(q), BatchRead(q)
    PROVE  BatchAt(q)' /\ First(q)' = newTail[q] + 1
<1>1. CounterTypes /\ ControlTypes /\ FrameTypes /\ QueueInv
  BY TypeParts, Zenon DEF SafeInv
<1>2. /\ ~WrongRing(q) /\ config' = config /\ head' = head /\ tail' = tail /\ pass' = pass
      /\ pc[q] = "read"
  BY DEF OwnRing, WrongRing, DrainRead, BatchRead
<1>3. Ring(q)' = Ring(q) /\ Ring(q) \in Rings
  BY <1>1, <1>2, RingOfQueue DEF Ring
<1>4. /\ batch'[q] \in Seq(Frames) /\ Len(batch'[q]) \in Nat /\ Len(batch'[q]) >= 1
      /\ batch'[q][1] = <<Ring(q), newTail[q] + 1>>
      /\ \A i \in 1 .. Len(batch'[q]) : batch'[q][i] = <<Ring(q), newTail[q] + i>>
  <2>1. batch'[q] \in Seq(Frames) /\ batch'[q] # <<>>
    BY <1>2 DEF BatchRead
  <2>2. Len(batch'[q]) \in Nat /\ Len(batch'[q]) >= 1
    BY <2>1
  <2> QED
    BY <1>2, <2>1, <2>2 DEF BatchRead
<1>5. First(q)' = newTail[q] + 1
  BY <1>4 DEF First
<1>6. newTail[q] \in Nat /\ newTail'[q] \in Nat /\ head[Ring(q)] \in Nat /\ tail[Ring(q)] \in Nat
      /\ config.batch \in Nat /\ RingCap \in Nat
  BY <1>1, <1>3, SMTT(20) DEF CounterTypes, BatchRead
<1>7. \A i \in 1 .. Len(batch'[q]) : batch'[q][i] = <<Ring(q)', First(q)' + i - 1>>
  <2>1. \A i \in 1 .. Len(batch'[q]) : newTail[q] + i = First(q)' + i - 1
    BY <1>4, <1>5, <1>6
  <2> QED
    BY <1>3, <1>4, <2>1
<1>8. First(q)' + Len(batch'[q]) - 1 <= newTail'[q]
  BY <1>4, <1>5, <1>6 DEF BatchRead
<1>9. ~config.txQueue => newTail[q] = tail[Ring(q)] /\ head[Ring(q)] - tail[Ring(q)] <= RingCap
  <2>1. ~config.txQueue => q = "default"
    BY <1>1, <1>2 DEF QueueInv
  <2> QED
    BY <1>2, <1>3, <2>1 DEF CapInv
<1>10. Sound => First(q)' + Len(batch'[q]) - 1 = newTail'[q]
  <2>1. Sound => Codec # "slcan" \/ head[Ring(q)] - newTail[q] <= config.batch
    BY <1>6, <1>9 DEF Sound
  <2> QED
    BY <1>4, <1>5, <1>6, <2>1 DEF BatchRead
<1>11. Sound' = Sound
  BY <1>2 DEF Sound, OwnRing
<1>12. ~config.txQueue => First(q)' = tail'[Ring(q)'] + 1
  BY <1>2, <1>3, <1>5, <1>9
<1> QED
  BY <1>2, <1>5, <1>7, <1>8, <1>10, <1>11, <1>12 DEF BatchAt

(* Frames in transfer stay where they were put.                            *)
LEMMA TransferPlacedKept ==
    ASSUME SafeInv, OwnRing, PlacedInv, [Next]_vars
    PROVE  \A p \in Pipes : transfer'[p] # None =>
             \A i \in 1 .. Len(transfer'[p]) : transfer'[p][i][1] = p
<1>0. ControlTypes /\ FrameTypes /\ CounterTypes
  BY TypeParts, Zenon DEF SafeInv
<1>1. ASSUME NEW q \in Queues, Submit(q), NEW p \in Pipes, transfer'[p] # None,
             NEW i \in 1 .. Len(transfer'[p])
      PROVE  transfer'[p][i][1] = p
  <2>1. pc[q] = "submit" /\ transfer' = [transfer EXCEPT ![Pipe(q)] = batch[q]]
    BY <1>1 DEF Submit
  <2>2. CASE p = Pipe(q)
    <3>1. transfer'[p] = batch[q] /\ i \in 1 .. Len(batch[q])
      BY <1>0, <1>1, <2>1, <2>2 DEF FrameTypes
    <3>2. batch[q] # <<>>
      BY <1>0, <3>1 DEF FrameTypes
    <3>3. BatchAt(q)
      BY <2>1, <3>2 DEF PlacedInv, Loaded
    <3>4. batch[q][i][1] = Ring(q)
      BY <3>1, <3>3 DEF BatchAt
    <3> QED
      BY <1>0, <2>2, <3>1, <3>4, RingOfQueue
  <2>3. CASE p # Pipe(q)
    <3>1. transfer'[p] = transfer[p]
      BY <1>0, <2>1, <2>3 DEF FrameTypes
    <3> QED
      BY <1>1, <3>1 DEF PlacedInv
  <2> QED
    BY <2>2, <2>3
<1>2. ASSUME NEW p0 \in Pipes, transfer' = [transfer EXCEPT ![p0] = None],
             NEW p \in Pipes, transfer'[p] # None
      PROVE  transfer'[p] = transfer[p]
  BY <1>0, <1>2 DEF FrameTypes
<1>3. \/ \E q \in Queues : Submit(q)
      \/ \E p0 \in Pipes : transfer' = [transfer EXCEPT ![p0] = None]
      \/ transfer' = transfer
  BY DEF Next, DrainStep, Write, SendData, WriteComplete, EchoReceived, SendCommand, DrainLoad,
         DrainRead, Claim, SubmitFails, StoreTail, TransferDone, TransferFails, vars, usbVars
<1>4. ASSUME NEW p \in Pipes, transfer'[p] # None, transfer'[p] = transfer[p]
      PROVE  \A i \in 1 .. Len(transfer'[p]) : transfer'[p][i][1] = p
  BY <1>4 DEF PlacedInv
<1>5. ASSUME NEW p \in Pipes, transfer'[p] # None
      PROVE  \A i \in 1 .. Len(transfer'[p]) : transfer'[p][i][1] = p
  BY <1>1, <1>2, <1>3, <1>4, <1>5
<1> QED
  BY <1>5

(* With one queue the tail moves at that queue's store only.               *)
LEMMA TailStays ==
    ASSUME SafeInv, [Next]_vars, ~config.txQueue, pc["default"] # "store"
    PROVE  tail' = tail
<1>1. \A q \in Queues : ~StoreTail(q)
  BY DEF SafeInv, QueueInv, StoreTail
<1> QED
  BY <1>1 DEF Next, DrainStep, Write, SendData, WriteComplete, EchoReceived, SendCommand,
              DrainLoad, DrainRead, Claim, Submit, SubmitFails, TransferDone, TransferFails,
              vars, ringVars

(* A batch stays the frames of its ring from the tail on, *)
LEMMA BatchPlacedKept ==
    ASSUME SafeInv, OwnRing, PlacedInv, [Next]_vars, NEW u \in Queues, Loaded(u)'
    PROVE  BatchAt(u)'
<1>0. CounterTypes /\ ControlTypes /\ FrameTypes /\ QueueInv /\ config' = config
  BY TypeParts, ConfigKept, Zenon DEF SafeInv
<1>1. ASSUME pc'[u] \in {"claim", "submit"}, Loaded(u), pass'[u] = pass[u], batch'[u] = batch[u],
             newTail'[u] = newTail[u]
      PROVE  BatchAt(u)'
  <2>1. BatchAt(u)
    BY <1>1 DEF PlacedInv
  <2>2. ~config.txQueue => tail' = tail
    BY <1>0, <1>1, TailStays DEF Loaded, QueueInv
  <2>3. Ring(u)' = Ring(u) /\ First(u)' = First(u) /\ Sound' = Sound
    BY <1>0, <1>1 DEF Ring, First, Sound, OwnRing
  <2> QED
    BY <1>0, <1>1, <2>1, <2>2, <2>3 DEF BatchAt
<1>2. CASE pc'[u] = pc[u] /\ pass'[u] = pass[u] /\ batch'[u] = batch[u] /\ newTail'[u] = newTail[u]
  <2>1. Loaded(u) /\ pc'[u] \in {"claim", "submit"}
    BY <1>2 DEF Loaded
  <2> QED
    BY <1>1, <1>2, <2>1
<1>3. CASE QueueStep(u)
  <2>1. CASE DrainRead(u) /\ BatchRead(u)
    BY <2>1, ReadPlaces DEF PlacedInv
  <2>2. CASE Claim(u) /\ pc'[u] = "submit" /\ ~inFlight[Pipe(u)]
    <3>1. pc[u] = "claim" /\ pass' = pass /\ batch' = batch /\ newTail' = newTail
      BY <2>2 DEF Claim
    <3>2. Loaded(u)
      BY <3>1 DEF Loaded
    <3> QED
      BY <1>1, <2>2, <3>1, <3>2
  <2>3. pc'[u] \in {"claim", "submit"} /\ batch'[u] # <<>>
    BY DEF Loaded
  <2>4. SendCommand /\ u = "default" => batch'[u] = <<>>
    BY <1>0 DEF SendCommand, FrameTypes
  <2>5. Submit(u) /\ batch[u] # <<>> => pc'[u] = "store"
    BY <1>0 DEF Submit, ControlTypes
  <2> QED
    BY <1>3, <2>1, <2>2, <2>3, <2>4, <2>5 DEF QueueStep
<1> QED
  <2>1. ASSUME NEW q \in Queues, QueueStep(q)
        PROVE  q = u \/ (/\ pc'[u] = pc[u] /\ pass'[u] = pass[u]
                         /\ batch'[u] = batch[u] /\ newTail'[u] = newTail[u])
    BY <2>1 DEF QueueStep
  <2>2. CASE UNCHANGED <<pc, pass, newTail, batch>>
    BY <1>2, <2>2
  <2> QED
    BY <1>0, <1>2, <1>3, <2>1, <2>2, OneQueueMoves

(* and with one queue the rings hold no more than they can. *)
LEMMA CapKept ==
    ASSUME SafeInv, OwnRing, PlacedInv, [Next]_vars, ~config.txQueue
    PROVE  CapInv'
<1> DEFINE d == "default"
<1>0. /\ CounterTypes /\ ControlTypes /\ FrameTypes /\ QueueInv /\ config' = config
      /\ CounterTypes' /\ d \in Queues /\ CapInv
  BY TypeParts, ConfigKept, CounterTypesKept, Zenon DEF SafeInv, PlacedInv
<1>1. Ring(d) \in Rings /\ RingCap \in Nat
      /\ \A r \in Rings : head[r] \in Nat /\ tail[r] \in Nat /\ head'[r] \in Nat /\ tail'[r] \in Nat
  BY <1>0, RingOfQueue DEF CounterTypes
<1>2. ASSUME NEW r \in Rings PROVE head'[r] - tail'[r] <= RingCap
  <2>1. ASSUME NEW w \in Rings, Write(w) PROVE head'[r] - tail'[r] <= RingCap
    <3>1. /\ head[w] - tail[w] < RingCap /\ tail' = tail
          /\ head'[r] = IF r = w THEN head[w] + 1 ELSE head[r]
      BY <1>0, <2>1 DEF Write, CounterTypes
    <3> QED
      BY <1>0, <1>1, <3>1 DEF CapInv
  <2>2. ASSUME NEW q \in Queues, StoreTail(q) PROVE head'[r] - tail'[r] <= RingCap
    <3>1. q = d /\ pc[d] = "store"
      BY <1>0, <2>2 DEF StoreTail, QueueInv
    <3>2. head' = head /\ tail' = [tail EXCEPT ![Ring(d)] = newTail[d]]
      BY <2>2, <3>1 DEF StoreTail
    <3>3. newTail[d] \in Nat /\ newTail[d] >= tail[Ring(d)]
      BY <1>0, <3>1 DEF CounterTypes, CapInv
    <3>4. tail'[r] = IF r = Ring(d) THEN newTail[d] ELSE tail[r]
      BY <1>0, <1>1, <3>2 DEF CounterTypes
    <3>5. head[r] - tail[r] <= RingCap
      BY <1>0 DEF CapInv
    <3> HIDE DEF d
    <3> QED
      BY <1>1, <3>2, <3>3, <3>4, <3>5
  <2>3. \/ \E w \in Rings : Write(w)
        \/ \E q \in Queues : StoreTail(q)
        \/ UNCHANGED <<head, tail>>
    BY DEF Next, DrainStep, SendData, WriteComplete, EchoReceived, SendCommand, DrainLoad,
           DrainRead, Claim, Submit, SubmitFails, TransferDone, TransferFails, vars, ringVars
  <2> QED
    BY <1>0, <2>1, <2>2, <2>3 DEF CapInv
<1>3. CASE pc'[d] = pc[d] /\ pass'[d] = pass[d] /\ newTail'[d] = newTail[d]
  <2>1. pc[d] = "store" => tail' = tail
    <3>1. ASSUME NEW q \in Queues, StoreTail(q) PROVE pc'[d] # pc[d]
      <4>1. q = d /\ NextPass(q) /\ pc[d] = "store"
        BY <1>0, <3>1 DEF StoreTail, QueueInv
      <4> QED
        BY <1>0, <4>1, NextPassMoves
    <3> QED
      BY <1>3, <3>1
      DEF Next, DrainStep, Write, SendData, WriteComplete, EchoReceived, SendCommand, DrainLoad,
          DrainRead, Claim, Submit, SubmitFails, TransferDone, TransferFails, vars, ringVars
  <2>2. tail' = tail
    BY <2>1, TailStays
  <2>3. Ring(d)' = Ring(d)
    BY <1>0, <1>3 DEF Ring
  <2> QED
    BY <1>0, <1>2, <1>3, <2>2, <2>3 DEF CapInv
<1>4. CASE QueueStep(d)
  <2>1. CASE pc'[d] \notin {"read", "store"}
    BY <1>2, <2>1 DEF CapInv
  <2>2. CASE DrainLoad(d) /\ pc'[d] = "read"
    <3>1. newTail' = [newTail EXCEPT ![d] = tail[Ring(d)]] /\ tail' = tail /\ pass' = pass
      BY <1>0, <2>2, NextPassMoves DEF DrainLoad, ringVars
    <3>2. newTail'[d] = tail[Ring(d)] /\ Ring(d)' = Ring(d)
      BY <1>0, <3>1 DEF CounterTypes, Ring
    <3> QED
      BY <1>2, <2>2, <3>1, <3>2 DEF CapInv
  <2>3. CASE Submit(d) /\ batch[d] # <<>>
    <3>1. /\ pc[d] = "submit" /\ pc'[d] = "store" /\ tail' = tail /\ newTail' = newTail
          /\ pass' = pass
      BY <1>0, <2>3 DEF Submit, ControlTypes, ringVars
    <3>2. BatchAt(d) /\ Len(batch[d]) >= 1 /\ First(d) \in Nat /\ Len(batch[d]) \in Nat
      BY <1>0, <2>3, <3>1, BatchNumbers DEF PlacedInv, Loaded
    <3>3. newTail[d] >= tail[Ring(d)] /\ Ring(d)' = Ring(d)
      <4>1. First(d) = tail[Ring(d)] + 1 /\ First(d) + Len(batch[d]) - 1 <= newTail[d]
        BY <3>2 DEF BatchAt
      <4>2. newTail[d] \in Nat
        BY <1>0 DEF CounterTypes
      <4>3. Ring(d)' = Ring(d)
        BY <1>0, <3>1 DEF Ring
      <4> HIDE DEF d
      <4> QED
        BY <1>1, <3>2, <4>1, <4>2, <4>3, SMTT(20)
    <3> QED
      BY <1>2, <3>1, <3>3 DEF CapInv
  <2>4. \/ pc'[d] \notin {"read", "store"}
        \/ DrainLoad(d) /\ pc'[d] = "read"
        \/ Submit(d) /\ batch[d] # <<>>
    <3>1. SendCommand => pc'[d] = "claim"
      BY <1>0 DEF SendCommand, ControlTypes
    <3>2. BatchRead(d) => pc'[d] = "claim"
      BY <1>0 DEF BatchRead, ControlTypes
    <3> QED
      BY <1>4, <3>1, <3>2 DEF QueueStep
  <2> QED
    BY <2>1, <2>2, <2>3, <2>4
<1> QED
  <2>1. ASSUME NEW q \in Queues, QueueStep(q)
        PROVE  q = d \/ (pc'[d] = pc[d] /\ pass'[d] = pass[d] /\ newTail'[d] = newTail[d])
    BY <2>1 DEF QueueStep
  <2>2. CASE UNCHANGED <<pc, pass, newTail, batch>>
    BY <1>3, <2>2
  <2> QED
    BY <1>0, <1>3, <1>4, <2>1, <2>2, OneQueueMoves

(* Where frames are holds at the start *)
LEMMA PlacedInit == Init => PlacedInv
<1> SUFFICES ASSUME Init PROVE PlacedInv
  OBVIOUS
<1>1. /\ \A p \in Pipes : transfer[p] = None
      /\ \A q \in Queues : pc[q] = "idle"
      /\ \A r \in Rings : head[r] = 0 /\ tail[r] = 0
      /\ "default" \in Queues /\ RingCap \in Nat
  BY DEF Init
<1>2. \A q \in Queues : ~Loaded(q)
  BY <1>1 DEF Loaded
<1>3. CapInv
  BY <1>1 DEF CapInv
<1> QED
  BY <1>1, <1>2, <1>3, Zenon DEF PlacedInv

(* and is kept by every step. *)
LEMMA PlacedStep == SafeInv /\ PlacedInv /\ [Next]_vars => PlacedInv'
<1> SUFFICES ASSUME SafeInv, PlacedInv, [Next]_vars, OwnRing PROVE PlacedInv'
  BY ConfigKept DEF PlacedInv, OwnRing
<1>1. \A q \in Queues : Loaded(q)' => BatchAt(q)'
  BY BatchPlacedKept
<1>2. ~config'.txQueue => CapInv'
  BY CapKept, ConfigKept
<1> QED
  BY <1>1, <1>2, TransferPlacedKept, Zenon DEF PlacedInv

(* Hence every frame is where PlacedInv says, in every state. *)
LEMMA FramesPlaced == Spec => []PlacedInv
<1> QED
  BY PlacedInit, PlacedStep, Safety, PTL DEF Spec
-----------------------------------------------------------------------------
(* No frame is consumed that was not handed to the USB stack.              *)

Handed(r, n) ==
    \/ \E i \in DOMAIN sent[r] : sent[r][i] = n
    \/ <<r, n>> \in failed
    \/ \E p \in Pipes : transfer[p] # None
         /\ \E i \in DOMAIN transfer[p] : transfer[p][i] = <<r, n>>

(* Behind the tails, stored and local, all was handed over but what the    *)
(* batch holds.                                                            *)
HandInv ==
    Sound =>
      /\ ~skewed
      /\ \A r \in Rings : \A n \in 1 .. tail[r] : Handed(r, n)
      /\ \A q \in Queues : \A r \in Rings : Ring(q) = r =>
           /\ pc[q] \in {"read", "store"} => \A n \in 1 .. newTail[q] : Handed(r, n)
           /\ Loaded(q) => \A n \in 1 .. First(q) - 1 : Handed(r, n)

(* Of frames all of one ring, none are of the other. *)
LEMMA OfRingItself ==
    ASSUME NEW f \in Seq(Frames), NEW r \in Rings,
           \A i \in 1 .. Len(f) : f[i][1] = r
    PROVE  /\ OfRing(f, r) = [i \in 1 .. Len(f) |-> f[i][2]]
           /\ \A o \in Rings : o # r => OfRing(f, o) = <<>>
<1>1. Len(f) \in Nat /\ DOMAIN f = 1 .. Len(f)
  OBVIOUS
<1>2. CASE f = <<>>
  <2>1. [i \in 1 .. Len(f) |-> f[i][2]] = <<>>
    BY <1>2
  <2> QED
    BY <1>2, <2>1 DEF OfRing
<1>3. CASE f # <<>>
  <2>1. f[1][1] = r
    BY <1>1, <1>3
  <2> QED
    BY <1>1, <1>3, <2>1 DEF OfRing
<1> QED
  BY <1>2, <1>3

(* What a transfer's end does to the history.                              *)
LEMMA TransferEnds ==
    ASSUME SafeInv, OwnRing, PlacedInv, NEW p \in Pipes, TransferDone(p)
    PROVE  /\ transfer[p] \in Seq(Frames) /\ Len(transfer[p]) \in Nat
           /\ DOMAIN transfer[p] = 1 .. Len(transfer[p])
           /\ \A i \in 1 .. Len(transfer[p]) :
                transfer[p][i] = <<p, transfer[p][i][2]>> /\ transfer[p][i][2] \in 1 .. MaxFrames
           /\ sent'[p] = sent[p] \o [i \in 1 .. Len(transfer[p]) |-> transfer[p][i][2]]
           /\ [i \in 1 .. Len(transfer[p]) |-> transfer[p][i][2]] \in Seq(1 .. MaxFrames)
           /\ \A r \in Rings : r # p => sent'[r] = sent[r]
<1>1. FrameTypes /\ transfer[p] # None
  BY TypeParts, Zenon DEF SafeInv, TransferDone
<1>2. transfer[p] \in Seq(Frames)
  BY <1>1 DEF FrameTypes
<1>3. Len(transfer[p]) \in Nat /\ DOMAIN transfer[p] = 1 .. Len(transfer[p])
  BY <1>2
<1>4. \A i \in 1 .. Len(transfer[p]) : transfer[p][i] \in Frames /\ transfer[p][i][1] = p
  BY <1>1, <1>2, <1>3 DEF PlacedInv
<1>5. \A i \in 1 .. Len(transfer[p]) :
        transfer[p][i] = <<p, transfer[p][i][2]>> /\ transfer[p][i][2] \in 1 .. MaxFrames
  BY <1>4 DEF Frames
<1>6. /\ OfRing(transfer[p], p) = [i \in 1 .. Len(transfer[p]) |-> transfer[p][i][2]]
      /\ \A r \in Rings : r # p => OfRing(transfer[p], r) = <<>>
  BY <1>2, <1>4, OfRingItself
<1>7. \A r \in Rings : sent'[r] = sent[r] \o OfRing(transfer[p], r)
  BY DEF TransferDone
<1>8. \A r \in Rings : r # p => sent'[r] = sent[r]
  <2>1. ASSUME NEW s \in Seq(1 .. MaxFrames) PROVE s \o <<>> = s
    OBVIOUS
  <2>2. ASSUME NEW r \in Rings, r # p PROVE sent'[r] = sent[r]
    <3>1. sent'[r] = sent[r] \o <<>> /\ sent[r] \in Seq(1 .. MaxFrames)
      BY <1>1, <1>6, <1>7, <2>2 DEF FrameTypes
    <3> QED
      BY <2>1, <3>1
  <2> QED
    BY <2>2
<1>9. [i \in 1 .. Len(transfer[p]) |-> transfer[p][i][2]] \in Seq(1 .. MaxFrames)
  BY <1>3, <1>5
<1> QED
  BY <1>2, <1>3, <1>5, <1>6, <1>7, <1>8, <1>9

(* One sequence of numbers after another. *)
LEMMA Concatenated ==
    ASSUME NEW s \in Seq(1 .. MaxFrames), NEW t \in Seq(1 .. MaxFrames)
    PROVE  /\ Len(s) \in Nat /\ DOMAIN s = 1 .. Len(s)
           /\ DOMAIN (s \o t) = 1 .. Len(s) + Len(t)
           /\ \A i \in 1 .. Len(s) : (s \o t)[i] = s[i]
           /\ \A i \in 1 .. Len(t) : (s \o t)[Len(s) + i] = t[i]
  OBVIOUS

(* What was handed over stays so.                                          *)
LEMMA HandedStays ==
    ASSUME SafeInv, OwnRing, PlacedInv, [Next]_vars, NEW r \in Rings, NEW n \in Nat,
           Handed(r, n)
    PROVE  Handed(r, n)'
<1>0. ControlTypes /\ FrameTypes /\ OwnerInv
  BY TypeParts, Zenon DEF SafeInv
<1>1. ASSUME NEW p0 \in Pipes, TransferDone(p0) PROVE Handed(r, n)'
  <2> DEFINE f == transfer[p0]
             g == [i \in 1 .. Len(f) |-> f[i][2]]
  <2>1. /\ Len(f) \in Nat /\ DOMAIN f = 1 .. Len(f) /\ g \in Seq(1 .. MaxFrames)
        /\ \A i \in 1 .. Len(f) : f[i] = <<p0, f[i][2]>>
        /\ sent'[p0] = sent[p0] \o g
        /\ \A o \in Rings : o # p0 => sent'[o] = sent[o]
    BY <1>0, <1>1, TransferEnds
  <2>2. transfer' = [transfer EXCEPT ![p0] = None] /\ failed' = failed
    BY <1>1 DEF TransferDone
  <2>3. sent[p0] \in Seq(1 .. MaxFrames) /\ Len(g) = Len(f)
    BY <1>0, <2>1 DEF FrameTypes
  <2>4. /\ Len(sent[p0]) \in Nat /\ DOMAIN sent[p0] = 1 .. Len(sent[p0])
        /\ DOMAIN sent'[p0] = 1 .. Len(sent[p0]) + Len(f)
        /\ \A i \in 1 .. Len(sent[p0]) : sent'[p0][i] = sent[p0][i]
        /\ \A i \in 1 .. Len(f) : sent'[p0][Len(sent[p0]) + i] = g[i]
    <3> HIDE DEF f, g
    <3> DEFINE c == sent[p0] \o g
    <3>1. /\ Len(sent[p0]) \in Nat /\ DOMAIN sent[p0] = 1 .. Len(sent[p0])
          /\ DOMAIN c = 1 .. Len(sent[p0]) + Len(g)
          /\ \A i \in 1 .. Len(sent[p0]) : c[i] = sent[p0][i]
          /\ \A i \in 1 .. Len(g) : c[Len(sent[p0]) + i] = g[i]
      BY <2>1, <2>3, Concatenated
    <3>2. sent'[p0] = c
      BY <2>1
    <3> HIDE DEF c
    <3> QED
      BY <2>3, <3>1, <3>2
  <2>5. CASE \E i \in DOMAIN sent[r] : sent[r][i] = n
    <3>1. CASE r = p0
      <4>1. PICK i \in 1 .. Len(sent[p0]) : sent[p0][i] = n
        BY <2>4, <2>5, <3>1
      <4>2. i \in DOMAIN sent'[r] /\ sent'[r][i] = n
        <5> HIDE DEF f
        <5> QED
          BY <2>1, <2>4, <3>1, <4>1
      <4> QED
        BY <4>2 DEF Handed
    <3>2. CASE r # p0
      BY <2>1, <2>5, <3>2 DEF Handed
    <3> QED
      BY <3>1, <3>2
  <2>6. CASE <<r, n>> \in failed
    BY <2>2, <2>6 DEF Handed
  <2>7. ASSUME NEW p \in Pipes, transfer[p] # None,
               NEW i \in DOMAIN transfer[p], transfer[p][i] = <<r, n>>
        PROVE  Handed(r, n)'
    <3>1. CASE p = p0
      <4>1. i \in 1 .. Len(f) /\ f[i] = <<p0, f[i][2]>> /\ f[i] = <<r, n>>
        BY <2>1, <2>7, <3>1
      <4>2. r = p0 /\ g[i] = n
        BY <4>1
      <4>3. Len(sent[p0]) + i \in DOMAIN sent'[r] /\ sent'[r][Len(sent[p0]) + i] = n
        <5> HIDE DEF f, g
        <5>1. sent'[p0][Len(sent[p0]) + i] = g[i]
          BY <2>4, <4>1
        <5>2. Len(sent[p0]) + i \in 1 .. Len(sent[p0]) + Len(f)
          <6>1. Len(sent[p0]) \in Nat /\ Len(f) \in Nat /\ i \in 1 .. Len(f)
            BY <2>1, <2>4, <4>1
          <6> QED
            BY <6>1
        <5> QED
          BY <2>4, <4>2, <5>1, <5>2
      <4> QED
        BY <4>3 DEF Handed
    <3>2. CASE p # p0
      <4>1. transfer'[p] = transfer[p]
        BY <1>0, <2>2, <3>2 DEF FrameTypes
      <4> QED
        BY <2>7, <4>1 DEF Handed
    <3> QED
      BY <3>1, <3>2
  <2> QED
    BY <2>5, <2>6, <2>7 DEF Handed
<1>2. ASSUME NEW p0 \in Pipes, TransferFails(p0) PROVE Handed(r, n)'
  <2>1. /\ transfer' = [transfer EXCEPT ![p0] = None] /\ sent' = sent
        /\ failed' = failed \union {transfer[p0][i] : i \in DOMAIN transfer[p0]}
    BY <1>2 DEF TransferFails
  <2>2. CASE \/ \E i \in DOMAIN sent[r] : sent[r][i] = n
             \/ <<r, n>> \in failed
    BY <2>1, <2>2 DEF Handed
  <2>3. ASSUME NEW p \in Pipes, transfer[p] # None,
               NEW i \in DOMAIN transfer[p], transfer[p][i] = <<r, n>>
        PROVE  Handed(r, n)'
    <3>1. CASE p = p0
      BY <2>1, <2>3, <3>1 DEF Handed
    <3>2. CASE p # p0
      <4>1. transfer'[p] = transfer[p]
        BY <1>0, <2>1, <3>2 DEF FrameTypes
      <4> QED
        BY <2>3, <4>1 DEF Handed
    <3> QED
      BY <3>1, <3>2
  <2> QED
    BY <2>2, <2>3 DEF Handed
<1>3. ASSUME NEW q \in Queues, Submit(q) PROVE Handed(r, n)'
  <2>1. /\ transfer' = [transfer EXCEPT ![Pipe(q)] = batch[q]]
        /\ sent' = sent /\ failed' = failed
    BY <1>3 DEF Submit, histVars
  <2>2. transfer[Pipe(q)] = None
    <3>1. Owns(q, Pipe(q)) /\ Pipe(q) \in Pipes
      BY <1>0, <1>3, RingOfQueue DEF Owns, Submit
    <3> QED
      BY <1>0, <3>1, Zenon DEF OwnerInv
  <2>3. \A p \in Pipes : transfer[p] # None => transfer'[p] = transfer[p]
    BY <1>0, <2>1, <2>2 DEF FrameTypes
  <2> QED
    BY <2>1, <2>3 DEF Handed
<1>4. \/ \E p0 \in Pipes : TransferDone(p0) \/ TransferFails(p0)
      \/ \E q \in Queues : Submit(q)
      \/ transfer' = transfer /\ sent' = sent /\ failed' = failed
  BY DEF Next, DrainStep, Write, SendData, WriteComplete, EchoReceived, SendCommand, DrainLoad,
         DrainRead, Claim, SubmitFails, StoreTail, vars, usbVars, histVars
<1>5. CASE transfer' = transfer /\ sent' = sent /\ failed' = failed
  BY <1>5 DEF Handed
<1> QED
  BY <1>1, <1>2, <1>3, <1>4, <1>5

(* What is behind the tails has been handed on: so at the start, *)
LEMMA HandInit == Init => HandInv
<1> SUFFICES ASSUME Init PROVE HandInv
  OBVIOUS
<1>1. /\ skewed = FALSE
      /\ \A q \in Queues : pc[q] = "idle"
      /\ \A r \in Rings : tail[r] = 0
  BY DEF Init
<1>2. \A q \in Queues : ~Loaded(q)
  BY <1>1 DEF Loaded
<1> QED
  BY <1>1, <1>2 DEF HandInv

(* A drain's place after the step: what is behind it was handed over.      *)
LEMMA HandedBehind ==
    ASSUME SafeInv, PlacedInv, HandInv, Sound, [Next]_vars, NEW u \in Queues,
           NEW r \in Rings, Ring(u)' = r
    PROVE  /\ pc'[u] \in {"read", "store"} => \A n \in 1 .. newTail'[u] : Handed(r, n)'
           /\ Loaded(u)' => \A n \in 1 .. First(u)' - 1 : Handed(r, n)'
<1>0. /\ CounterTypes /\ ControlTypes /\ FrameTypes /\ config' = config /\ OwnRing
      /\ Ring(u) \in Rings /\ Ring(u) = Pipe(u)
      /\ newTail[u] \in Nat
  <2>1. CounterTypes /\ ControlTypes /\ FrameTypes /\ config' = config /\ OwnRing
    BY TypeParts, ConfigKept, Zenon DEF SafeInv, Sound
  <2> QED
    BY <2>1, RingOfQueue DEF CounterTypes
<1>1. \A n \in Nat : Handed(r, n) => Handed(r, n)'
  BY <1>0, HandedStays
<1>2. ASSUME pass'[u] = pass[u] PROVE Ring(u) = r
  BY <1>0, <1>2 DEF Ring
<1>3. CASE pc'[u] = pc[u] /\ pass'[u] = pass[u] /\ batch'[u] = batch[u] /\ newTail'[u] = newTail[u]
  <2>1. (Loaded(u)' <=> Loaded(u)) /\ First(u)' = First(u)
    BY <1>3 DEF Loaded, First
  <2>2. ASSUME pc[u] \in {"read", "store"}, NEW n \in 1 .. newTail[u] PROVE Handed(r, n)'
    BY <1>0, <1>1, <1>2, <1>3, <2>2 DEF HandInv
  <2>3. ASSUME Loaded(u), NEW n \in 1 .. First(u) - 1 PROVE Handed(r, n)'
    BY <1>0, <1>1, <1>2, <1>3, <2>3 DEF HandInv
  <2> QED
    BY <1>2, <1>3, <2>1, <2>2, <2>3
<1>4. CASE QueueStep(u)
  <2>1. CASE pc'[u] \in {"idle", "load"}
    BY <2>1 DEF Loaded
  <2>2. CASE DrainLoad(u) /\ pc'[u] = "read"
    <3>1. newTail' = [newTail EXCEPT ![u] = tail[Ring(u)]] /\ pass' = pass
      BY <1>0, <2>2, NextPassMoves DEF DrainLoad
    <3>2. newTail'[u] = tail[Ring(u)] /\ Ring(u) = r
      BY <1>0, <1>2, <3>1 DEF CounterTypes
    <3>3. ~Loaded(u)'
      BY <2>2 DEF Loaded
    <3>4. ASSUME NEW n \in 1 .. tail[Ring(u)] PROVE Handed(r, n)'
      BY <1>0, <1>1, <3>2, <3>4 DEF HandInv
    <3> QED
      BY <2>2, <3>2, <3>3, <3>4
  <2>3. CASE DrainRead(u) /\ BatchRead(u)
    <3>1. pc[u] = "read" /\ pc'[u] = "claim" /\ Ring(u) = r
      BY <1>0, <1>2, <2>3 DEF DrainRead, BatchRead, ControlTypes
    <3>2. First(u)' - 1 = newTail[u]
      BY <1>0, <2>3, ReadPlaces DEF PlacedInv
    <3>3. ASSUME NEW n \in 1 .. newTail[u] PROVE Handed(r, n)'
      BY <1>0, <1>1, <3>1, <3>3 DEF HandInv
    <3> QED
      BY <3>1, <3>2, <3>3
  <2>4. CASE SendCommand /\ u = "default"
    <3>1. pc'[u] = "claim" /\ batch'[u] = <<>>
      BY <1>0, <2>4 DEF SendCommand, ControlTypes, FrameTypes
    <3> QED
      BY <3>1 DEF Loaded
  <2>5. CASE Claim(u) /\ pc'[u] = "submit" /\ ~inFlight[Pipe(u)]
    <3>1. /\ pc[u] = "claim" /\ Ring(u) = r /\ First(u)' = First(u)
          /\ Loaded(u)' <=> Loaded(u)
      BY <1>0, <1>2, <2>5 DEF Claim, First, Loaded
    <3>2. ASSUME Loaded(u), NEW n \in 1 .. First(u) - 1 PROVE Handed(r, n)'
      BY <1>0, <1>1, <3>1, <3>2 DEF HandInv
    <3> QED
      BY <2>5, <3>1, <3>2
  <2>6. CASE Submit(u) /\ batch[u] # <<>>
    <3>1. /\ pc[u] = "submit" /\ pc'[u] = "store" /\ newTail' = newTail /\ Ring(u) = r
          /\ transfer' = [transfer EXCEPT ![Pipe(u)] = batch[u]]
      BY <1>0, <1>2, <2>6 DEF Submit, ControlTypes
    <3>2. BatchAt(u) /\ Loaded(u)
      BY <1>0, <2>6, <3>1 DEF PlacedInv, Loaded
    <3>3. /\ Len(batch[u]) \in Nat /\ DOMAIN batch[u] = 1 .. Len(batch[u])
          /\ First(u) \in Nat
      BY <1>0, <2>6, BatchNumbers
    <3>4. transfer'[Pipe(u)] = batch[u] /\ batch[u] # None /\ Pipe(u) \in Pipes
      BY <1>0, <3>1, FramesAreSome, RingOfQueue DEF FrameTypes
    <3>5. ASSUME NEW n \in 1 .. newTail[u] PROVE Handed(r, n)'
      <4>1. CASE n < First(u)
        <5>1. n \in 1 .. First(u) - 1
          BY <3>3, <4>1
        <5> QED
          BY <1>0, <1>1, <3>1, <3>2, <5>1 DEF HandInv
      <4>2. CASE ~(n < First(u))
        <5> DEFINE i == n - First(u) + 1
        <5>1. First(u) + Len(batch[u]) - 1 = newTail[u]
          BY <3>2 DEF BatchAt
        <5>2. i \in 1 .. Len(batch[u]) /\ First(u) + i - 1 = n
          BY <1>0, <3>3, <4>2, <5>1
        <5> HIDE DEF i
        <5>3. batch[u][i] = <<r, n>>
          BY <3>1, <3>2, <5>2 DEF BatchAt
        <5> QED
          BY <3>3, <3>4, <5>2, <5>3 DEF Handed
      <4> QED
        BY <4>1, <4>2
    <3> QED
      BY <3>1, <3>5 DEF Loaded
  <2> QED
    BY <1>4, <2>1, <2>2, <2>3, <2>4, <2>5, <2>6 DEF QueueStep
<1> QED
  <2>1. ASSUME NEW q \in Queues, QueueStep(q)
        PROVE  q = u \/ (/\ pc'[u] = pc[u] /\ pass'[u] = pass[u]
                         /\ batch'[u] = batch[u] /\ newTail'[u] = newTail[u])
    BY <2>1 DEF QueueStep
  <2>2. CASE UNCHANGED <<pc, pass, newTail, batch>>
    BY <1>3, <2>2
  <2> QED
    BY <1>0, <1>3, <1>4, <2>1, <2>2, OneQueueMoves

(* and so it is after every step. *)
LEMMA HandStep == SafeInv /\ PlacedInv /\ HandInv /\ [Next]_vars => HandInv'
<1> SUFFICES ASSUME SafeInv, PlacedInv, HandInv, [Next]_vars, Sound PROVE HandInv'
  BY ConfigKept DEF HandInv, Sound, OwnRing
<1>0. /\ CounterTypes /\ ControlTypes /\ FrameTypes /\ OwnRing
      /\ \A r \in Rings : tail[r] \in Nat
  <2>1. CounterTypes /\ ControlTypes /\ FrameTypes /\ OwnRing
    BY TypeParts, Zenon DEF SafeInv, Sound
  <2> QED
    BY <2>1 DEF CounterTypes
<1>1. ~skewed'
  <2>1. ~skewed
    BY DEF HandInv
  <2>2. ASSUME NEW q \in Queues, DrainRead(q) PROVE skewed' = skewed
    <3>1. ~WrongRing(q)
      BY <1>0 DEF OwnRing, WrongRing
    <3> QED
      BY <1>0, <2>2, <3>1, ReadMoves DEF BatchRead
  <2>3. (\E q \in Queues : DrainRead(q)) \/ skewed' = skewed
    BY DEF Next, DrainStep, Write, SendData, WriteComplete, EchoReceived, SendCommand,
           DrainLoad, Claim, Submit, SubmitFails, StoreTail, TransferDone, TransferFails,
           vars, ringVars
  <2> QED
    BY <2>1, <2>2, <2>3
<1>2. \A r \in Rings : \A n \in 1 .. tail'[r] : Handed(r, n)'
  <2>1. ASSUME NEW q \in Queues, StoreTail(q), NEW r \in Rings, NEW n \in 1 .. tail'[r]
        PROVE  Handed(r, n)
    <3>1. pc[q] = "store" /\ tail' = [tail EXCEPT ![Ring(q)] = newTail[q]]
      BY <2>1 DEF StoreTail
    <3>2. tail'[r] = IF r = Ring(q) THEN newTail[q] ELSE tail[r]
      BY <1>0, <3>1 DEF CounterTypes
    <3> QED
      BY <2>1, <3>1, <3>2 DEF HandInv
  <2>2. (\E q \in Queues : StoreTail(q)) \/ tail' = tail
    BY DEF Next, DrainStep, Write, SendData, WriteComplete, EchoReceived, SendCommand,
           DrainLoad, DrainRead, Claim, Submit, SubmitFails, TransferDone, TransferFails,
           vars, ringVars
  <2>3. ASSUME NEW r \in Rings, NEW n \in 1 .. tail'[r] PROVE Handed(r, n)
    BY <2>1, <2>2 DEF HandInv
  <2> QED
    BY <1>0, <2>3, HandedStays
<1>3. \A u \in Queues : \A r \in Rings : Ring(u)' = r =>
        /\ pc'[u] \in {"read", "store"} => \A n \in 1 .. newTail'[u] : Handed(r, n)'
        /\ Loaded(u)' => \A n \in 1 .. First(u)' - 1 : Handed(r, n)'
  BY HandedBehind
<1> QED
  BY <1>1, <1>2, <1>3 DEF HandInv

(* When each drain reads its own ring and an SLCAN batch holds all a ring  *)
(* does, a frame the driver has consumed was handed to the USB stack:      *)
(* drainTxRing stores a tail only behind frames SendRawBytes took.         *)
THEOREM NothingLostSilently == Spec => [](Sound => NoSilentLoss)
<1>1. HandInv => (Sound => NoSilentLoss)
  BY DEF HandInv, NoSilentLoss, Handed
<1>2. Spec => []HandInv
  BY HandInit, HandStep, Safety, FramesPlaced, PTL DEF Spec
<1> QED
  BY <1>1, <1>2, PTL
-----------------------------------------------------------------------------
(* With one queue, frames of a ring go out in order and once. *)

(* How far the frames of ring r have been handed over: to the tail about   *)
(* to be stored, or to the one that is.                                    *)
Reached(r) ==
    IF pc["default"] = "store" /\ Ring("default") = r THEN newTail["default"] ELSE tail[r]

InOrder(s) == \A i, j \in DOMAIN s : i < j => s[i] < s[j]

(* The numbers sent increase, those in transfer follow them, and all are   *)
(* at most the number reached.                                             *)
OrderInv ==
    OwnRing /\ ~config.txQueue =>
      /\ \A r \in Rings : InOrder(sent[r]) /\ \A i \in DOMAIN sent[r] : sent[r][i] <= Reached(r)
      /\ \A p \in Pipes : transfer[p] # None =>
           /\ \A i, j \in 1 .. Len(transfer[p]) : i < j => transfer[p][i][2] < transfer[p][j][2]
           /\ \A i \in 1 .. Len(transfer[p]) :
                /\ transfer[p][i][2] <= Reached(p)
                /\ \A j \in DOMAIN sent[p] : sent[p][j] < transfer[p][i][2]

(* What is reached moves with a submission only.                           *)
LEMMA ReachedMoves ==
    ASSUME SafeInv, OwnRing, PlacedInv, ~config.txQueue, [Next]_vars, NEW r \in Rings
    PROVE  /\ Reached(r) \in Nat /\ Reached(r)' \in Nat /\ Reached(r) <= Reached(r)'
<1> DEFINE d == "default"
<1>0. /\ CounterTypes /\ ControlTypes /\ FrameTypes /\ config' = config /\ CapInv
      /\ CounterTypes' /\ d \in Queues /\ pc["tx"] = "idle"
  BY TypeParts, ConfigKept, CounterTypesKept, Zenon DEF SafeInv, PlacedInv, QueueInv
<1>1. /\ newTail[d] \in Nat /\ newTail'[d] \in Nat /\ tail[r] \in Nat /\ tail'[r] \in Nat
      /\ Ring(d) \in Rings
  BY <1>0, RingOfQueue DEF CounterTypes
<1>2. Reached(r) \in Nat /\ Reached(r)' \in Nat
  BY <1>1 DEF Reached
<1>3. CASE pc[d] = "store"
  <2>1. CASE StoreTail(d)
    <3>1. tail' = [tail EXCEPT ![Ring(d)] = newTail[d]] /\ pc'[d] # "store"
      BY <1>0, <2>1, NextPassMoves DEF StoreTail
    <3>2. tail'[r] = IF r = Ring(d) THEN newTail[d] ELSE tail[r]
      BY <1>0, <3>1 DEF CounterTypes
    <3> QED
      BY <1>1, <1>3, <3>1, <3>2 DEF Reached
  <2>2. CASE ~StoreTail(d)
    <3>1. \A q \in Queues : ~StoreTail(q)
      BY <1>0, <2>2 DEF StoreTail
    <3>2. tail' = tail
      BY <3>1
      DEF Next, DrainStep, Write, SendData, WriteComplete, EchoReceived, SendCommand,
          DrainLoad, DrainRead, Claim, Submit, SubmitFails, TransferDone, TransferFails,
          vars, ringVars
    <3>3. pc' = pc /\ pass' = pass /\ newTail' = newTail
      BY <1>0, <1>3, <2>2
      DEF Next, DrainStep, Write, SendData, WriteComplete, EchoReceived, SendCommand,
          DrainLoad, DrainRead, Claim, Submit, SubmitFails, TransferDone, TransferFails,
          StoreTail, TxQueue, vars, queueVars
    <3>4. Ring(d)' = Ring(d)
      BY <1>0, <3>3 DEF Ring
    <3> QED
      BY <1>1, <3>2, <3>3, <3>4 DEF Reached
  <2> QED
    BY <2>1, <2>2
<1>4. CASE pc[d] # "store"
  <2>1. tail' = tail /\ Reached(r) = tail[r]
    BY <1>4, TailStays DEF Reached
  <2>2. CASE pc'[d] = "store" /\ Ring(d)' = r
    <3>1. CapInv'
      BY CapKept
    <3>2. newTail'[d] >= tail'[r]
      BY <2>2, <3>1 DEF CapInv
    <3> QED
      BY <1>1, <2>1, <2>2, <3>2 DEF Reached
  <2>3. CASE ~(pc'[d] = "store" /\ Ring(d)' = r)
    BY <1>1, <2>1, <2>3 DEF Reached
  <2> QED
    BY <2>2, <2>3
<1> QED
  BY <1>2, <1>3, <1>4

(* Nothing is out of order at the start, *)
LEMMA OrderInit == Init => OrderInv
  BY DEF Init, OrderInv, InOrder

(* and no step puts it so. *)
LEMMA OrderStep == SafeInv /\ PlacedInv /\ OrderInv /\ [Next]_vars => OrderInv'
<1> SUFFICES ASSUME SafeInv, PlacedInv, OrderInv, [Next]_vars, OwnRing, ~config.txQueue
             PROVE  OrderInv'
  BY ConfigKept DEF OrderInv, OwnRing
<1>0. /\ CounterTypes /\ ControlTypes /\ FrameTypes /\ FrameTypes' /\ OwnerInv
      /\ config' = config /\ pc["tx"] = "idle"
  BY TypeParts, ConfigKept, FrameTypesKept, Zenon DEF SafeInv, QueueInv
<1>1. \A r \in Rings : /\ Reached(r) \in Nat /\ Reached(r)' \in Nat /\ Reached(r) <= Reached(r)'
                       /\ DOMAIN sent[r] = 1 .. Len(sent[r]) /\ Len(sent[r]) \in Nat
                       /\ \A i \in DOMAIN sent[r] : sent[r][i] \in Nat
  <2>1. \A r \in Rings : sent[r] \in Seq(1 .. MaxFrames)
    BY <1>0 DEF FrameTypes
  <2>2. \A r \in Rings : /\ DOMAIN sent[r] = 1 .. Len(sent[r]) /\ Len(sent[r]) \in Nat
                         /\ \A i \in DOMAIN sent[r] : sent[r][i] \in Nat
    BY <2>1
  <2> QED
    BY <2>2, ReachedMoves
<1>2. \A p \in Pipes : transfer[p] # None =>
        /\ transfer[p] \in Seq(Frames) /\ Len(transfer[p]) \in Nat
        /\ \A i \in 1 .. Len(transfer[p]) : transfer[p][i][2] \in Nat
  <2>1. \A p \in Pipes : transfer[p] # None => transfer[p] \in Seq(Frames)
    BY <1>0 DEF FrameTypes
  <2> QED
    BY <2>1 DEF Frames
<1> DEFINE SentOK(r) == InOrder(sent[r]) /\ \A i \in DOMAIN sent[r] : sent[r][i] <= Reached(r)
           MovingOK(p) ==
             transfer[p] # None =>
               /\ \A i, j \in 1 .. Len(transfer[p]) :
                    i < j => transfer[p][i][2] < transfer[p][j][2]
               /\ \A i \in 1 .. Len(transfer[p]) :
                    /\ transfer[p][i][2] <= Reached(p)
                    /\ \A j \in DOMAIN sent[p] : sent[p][j] < transfer[p][i][2]
<1>3. \A r \in Rings : SentOK(r) /\ MovingOK(r)
  BY DEF OrderInv
<1>4. ASSUME NEW r \in Rings, sent'[r] = sent[r] PROVE SentOK(r)'
  BY <1>1, <1>3, <1>4 DEF InOrder
<1>5. ASSUME NEW p \in Rings, sent'[p] = sent[p], transfer'[p] = transfer[p] PROVE MovingOK(p)'
  <2> SUFFICES ASSUME transfer[p] # None PROVE MovingOK(p)'
    BY <1>5
  <2> DEFINE f == transfer[p]
  <2>1. /\ \A i \in 1 .. Len(f) : f[i][2] \in Nat
        /\ Reached(p) \in Nat /\ Reached(p)' \in Nat /\ Reached(p) <= Reached(p)'
    BY <1>1, <1>2
  <2>2. /\ \A i, j \in 1 .. Len(f) : i < j => f[i][2] < f[j][2]
        /\ \A i \in 1 .. Len(f) : /\ f[i][2] <= Reached(p)
                                  /\ \A j \in DOMAIN sent[p] : sent[p][j] < f[i][2]
    BY <1>3
  <2>3. \A i \in 1 .. Len(f) : f[i][2] <= Reached(p)'
    <3> HIDE DEF f
    <3> QED
      BY <2>1, <2>2
  <2>4. transfer'[p] = f /\ sent'[p] = sent[p]
    BY <1>5
  <2> HIDE DEF f
  <2> QED
    BY <2>2, <2>3, <2>4
<1>6. ASSUME NEW p \in Rings, TransferDone(p), NEW r \in Rings PROVE SentOK(r)' /\ MovingOK(r)'
  <2> DEFINE f == transfer[p]
             g == [i \in 1 .. Len(f) |-> f[i][2]]
             m == Len(sent[p])
  <2>1. /\ f # None /\ Len(f) \in Nat /\ g \in Seq(1 .. MaxFrames) /\ sent'[p] = sent[p] \o g
        /\ \A o \in Rings : o # p => sent'[o] = sent[o]
    BY <1>6, TransferEnds DEF TransferDone
  <2>2. transfer' = [transfer EXCEPT ![p] = None]
    BY <1>6 DEF TransferDone
  <2>3. transfer'[p] = None /\ \A o \in Rings : o # p => transfer'[o] = transfer[o]
    BY <1>0, <2>2 DEF FrameTypes
  <2>4. CASE r # p
    BY <1>4, <1>5, <2>1, <2>3, <2>4
  <2>5. CASE r = p
    <3>1. MovingOK(p)'
      BY <2>3
    <3>2. /\ DOMAIN sent'[p] = 1 .. m + Len(f) /\ m \in Nat
          /\ \A i \in 1 .. m : sent'[p][i] = sent[p][i]
          /\ \A i \in 1 .. Len(f) : sent'[p][m + i] = f[i][2]
      <4> DEFINE c == sent[p] \o g
      <4>1. sent[p] \in Seq(1 .. MaxFrames) /\ Len(g) = Len(f)
            /\ \A i \in 1 .. Len(f) : g[i] = f[i][2]
        BY <1>0, <2>1 DEF FrameTypes
      <4> HIDE DEF f, g, m
      <4>2. /\ Len(sent[p]) \in Nat /\ DOMAIN c = 1 .. Len(sent[p]) + Len(g)
            /\ \A i \in 1 .. Len(sent[p]) : c[i] = sent[p][i]
            /\ \A i \in 1 .. Len(g) : c[Len(sent[p]) + i] = g[i]
        BY <2>1, <4>1, Concatenated
      <4>3. sent'[p] = c
        BY <2>1
      <4> HIDE DEF c
      <4> QED
        BY <4>1, <4>2, <4>3 DEF m
    <3>3. \A i \in 1 .. Len(f) : f[i][2] \in Nat
      BY <1>2, <2>1
    <3>4. \A i \in 1 .. m : sent[p][i] \in Nat /\ sent[p][i] <= Reached(p)
      BY <1>1, <1>3
    <3>5. /\ \A i, j \in 1 .. m : i < j => sent[p][i] < sent[p][j]
          /\ \A i, j \in 1 .. Len(f) : i < j => f[i][2] < f[j][2]
          /\ \A i \in 1 .. Len(f) : f[i][2] <= Reached(p)
          /\ \A i \in 1 .. Len(f), j \in 1 .. m : sent[p][j] < f[i][2]
      BY <1>1, <1>3, <2>1 DEF InOrder
    <3>6. Reached(p) \in Nat /\ Reached(p)' \in Nat /\ Reached(p) <= Reached(p)'
      BY <1>1
    <3> HIDE DEF f, m
    <3>7. ASSUME NEW i \in DOMAIN sent'[p] PROVE i \in 1 .. m \/ (i - m \in 1 .. Len(f) /\ i = m + (i - m))
      BY <2>1, <3>2
    <3>8. ASSUME NEW i \in DOMAIN sent'[p] PROVE sent'[p][i] <= Reached(p)'
      <4>1. CASE i \in 1 .. m
        BY <3>2, <3>4, <3>6, <4>1
      <4>2. CASE i - m \in 1 .. Len(f) /\ i = m + (i - m)
        <5>1. sent'[p][i] = f[i - m][2]
          BY <3>2, <4>2
        <5> QED
          BY <3>3, <3>5, <3>6, <4>2, <5>1
      <4> QED
        BY <3>7, <4>1, <4>2
    <3>9. ASSUME NEW i \in DOMAIN sent'[p], NEW j \in DOMAIN sent'[p], i < j
          PROVE  sent'[p][i] < sent'[p][j]
      <4>1. CASE i \in 1 .. m /\ j \in 1 .. m
        BY <3>2, <3>5, <3>9, <4>1
      <4>2. CASE i \in 1 .. m /\ j - m \in 1 .. Len(f) /\ j = m + (j - m)
        <5>1. sent'[p][i] = sent[p][i] /\ sent'[p][j] = f[j - m][2]
          BY <3>2, <4>2
        <5> QED
          BY <3>5, <4>2, <5>1
      <4>3. CASE i - m \in 1 .. Len(f) /\ j - m \in 1 .. Len(f) /\ i = m + (i - m) /\ j = m + (j - m)
        <5>1. sent'[p][i] = f[i - m][2] /\ sent'[p][j] = f[j - m][2]
          BY <3>2, <4>3
        <5>2. i - m < j - m
          BY <3>2, <3>9, <4>3
        <5> QED
          BY <3>5, <4>3, <5>1, <5>2
      <4>4. CASE i - m \in 1 .. Len(f) /\ j \in 1 .. m
        BY <2>1, <3>2, <3>9, <4>4
      <4> QED
        BY <3>7, <4>1, <4>2, <4>3, <4>4
    <3>10. SentOK(p)'
      BY <3>8, <3>9 DEF InOrder
    <3> HIDE DEF SentOK, MovingOK
    <3> QED
      BY <2>5, <3>1, <3>10
  <2> HIDE DEF SentOK, MovingOK
  <2> QED
    BY <2>4, <2>5
<1>7. ASSUME NEW p \in Rings, TransferFails(p), NEW r \in Rings PROVE SentOK(r)' /\ MovingOK(r)'
  <2>1. transfer' = [transfer EXCEPT ![p] = None] /\ sent' = sent
    BY <1>7 DEF TransferFails
  <2>2. CASE r # p
    <3>1. transfer'[r] = transfer[r]
      BY <1>0, <2>1, <2>2 DEF FrameTypes
    <3> QED
      BY <1>4, <1>5, <2>1, <3>1
  <2>3. CASE r = p
    <3>1. transfer'[r] = None
      BY <1>0, <2>1, <2>3 DEF FrameTypes
    <3> QED
      BY <1>4, <2>1, <3>1
  <2> QED
    BY <2>2, <2>3
<1>8. ASSUME NEW q \in Queues, Submit(q), NEW r \in Rings PROVE SentOK(r)' /\ MovingOK(r)'
  <2>1. /\ q = "default" /\ pc[q] = "submit" /\ tail' = tail /\ newTail' = newTail /\ sent' = sent
        /\ pass' = pass /\ transfer' = [transfer EXCEPT ![Pipe(q)] = batch[q]]
    BY <1>0, <1>8 DEF Submit, ringVars, histVars
  <2>2. Ring(q) \in Rings /\ Ring(q) = Pipe(q) /\ Ring(q)' = Ring(q)
    BY <1>0, <2>1, RingOfQueue DEF Ring
  <2>3. CASE r # Pipe(q)
    <3>1. transfer'[r] = transfer[r]
      BY <1>0, <2>1, <2>3 DEF FrameTypes
    <3> QED
      BY <1>4, <1>5, <2>1, <3>1
  <2>4. CASE r = Pipe(q) /\ batch[q] = <<>>
    <3>1. transfer'[r] = <<>> /\ Len(<<>>) = 0
      BY <1>0, <2>1, <2>4 DEF FrameTypes
    <3>2. MovingOK(r)'
      BY <3>1
    <3> HIDE DEF SentOK, MovingOK
    <3> QED
      BY <1>4, <2>1, <3>2
  <2>5. CASE r = Pipe(q) /\ batch[q] # <<>>
    <3> DEFINE b == batch[q]
    <3>1. transfer'[r] = b /\ Len(b) \in Nat /\ First(q) \in Nat /\ newTail[q] \in Nat
          /\ Len(b) >= 1
      BY <1>0, <2>1, <2>2, <2>5, BatchNumbers DEF FrameTypes
    <3>2. BatchAt(q)
      BY <2>1, <2>5 DEF PlacedInv, Loaded
    <3>3. \A i \in 1 .. Len(b) : b[i][2] = First(q) + i - 1
      BY <3>2 DEF BatchAt
    <3>4. First(q) + Len(b) - 1 <= newTail[q] /\ First(q) = tail[r] + 1
      BY <2>2, <2>5, <3>2 DEF BatchAt
    <3>5. Reached(r) = tail[r]
      BY <2>1 DEF Reached
    <3>6. Reached(r)' = newTail[q]
      <4>1. pc'[q] = "store"
        BY <1>0, <1>8, <2>5 DEF Submit, ControlTypes
      <4> QED
        BY <2>1, <2>2, <2>5, <4>1 DEF Reached
    <3>7. \A j \in DOMAIN sent'[r] : sent'[r][j] \in Nat /\ sent'[r][j] <= tail[r]
      BY <1>1, <1>3, <2>1, <3>5
    <3> HIDE DEF b
    <3>8. /\ \A i, j \in 1 .. Len(b) : i < j => b[i][2] < b[j][2]
          /\ \A i \in 1 .. Len(b) :
               /\ b[i][2] <= Reached(r)'
               /\ \A j \in DOMAIN sent'[r] : sent'[r][j] < b[i][2]
      <4>1. tail[r] \in Nat
        BY <1>0 DEF CounterTypes
      <4>2. ASSUME NEW i \in 1 .. Len(b), NEW j \in 1 .. Len(b), i < j PROVE b[i][2] < b[j][2]
        BY <3>1, <3>3, <4>2
      <4>3. ASSUME NEW i \in 1 .. Len(b) PROVE b[i][2] <= Reached(r)' /\ b[i][2] > tail[r]
        BY <3>1, <3>3, <3>4, <3>6, <4>1, SMTT(20)
      <4>4. ASSUME NEW i \in 1 .. Len(b), NEW j \in DOMAIN sent'[r] PROVE sent'[r][j] < b[i][2]
        <5>1. b[i][2] \in Nat /\ b[i][2] > tail[r]
          BY <3>1, <3>3, <4>3
        <5> QED
          BY <3>7, <4>1, <5>1
      <4> QED
        BY <4>2, <4>3, <4>4
    <3>9. MovingOK(r)'
      BY <3>1, <3>8
    <3> HIDE DEF SentOK, MovingOK
    <3> QED
      BY <1>4, <2>1, <3>9
  <2> QED
    BY <2>3, <2>4, <2>5
<1>9. \/ \E p \in Rings : TransferDone(p) \/ TransferFails(p)
      \/ \E q \in Queues : Submit(q)
      \/ sent' = sent /\ transfer' = transfer
  BY DEF Next, DrainStep, Write, SendData, WriteComplete, EchoReceived, SendCommand, DrainLoad,
         DrainRead, Claim, SubmitFails, StoreTail, vars, usbVars, histVars
<1>10. ASSUME NEW r \in Rings PROVE SentOK(r)' /\ MovingOK(r)'
  <2> HIDE DEF SentOK, MovingOK
  <2>1. CASE sent' = sent /\ transfer' = transfer
    BY <1>4, <1>5, <2>1
  <2> QED
    BY <1>6, <1>7, <1>8, <1>9, <2>1
<1> QED
  BY <1>0, <1>10 DEF OrderInv

(* With the handlers on one queue, as the code binds them, the frames of a *)
(* channel go out in the order written, each at most once (for the codecs  *)
(* whose drains read their own ring).                                      *)
THEOREM InOrderAndOnce == Spec => [](OwnRing => SentInOrderOnce)
<1>1. OrderInv => (OwnRing => SentInOrderOnce)
  BY DEF OrderInv, SentInOrderOnce, InOrder
<1>2. Spec => []OrderInv
  BY OrderInit, OrderStep, Safety, FramesPlaced, PTL DEF Spec
<1> QED
  BY <1>1, <1>2, PTL
=============================================================================
