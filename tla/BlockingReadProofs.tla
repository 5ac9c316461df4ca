------------------------- MODULE BlockingReadProofs -------------------------
(***************************************************************************)
(* Proofs about BlockingRead, for every finite set of threads, set of      *)
(* channels, ring and FIFO capacity and number of frames that satisfy      *)
(* ReadAssumption.                                                         *)
(*                                                                         *)
(* The argument.  At most one thread is the drainer (RoleInv), so nobody   *)
(* else touches waitPending or calls WaitForData between its steps; the    *)
(* completion is therefore where the drainer's own steps and the driver's  *)
(* handler left it (WaitInv, NotificationConserved).  The mutex has one    *)
(* holder, whose local tail stays inside the batch it loaded (LockInv).    *)
(* The frames in the ring are numbered consecutively per channel and end   *)
(* with the last one written (RingNumbered), so the frame fanned out next  *)
(* is the one after all those a reader was given or was counted out for.   *)
(***************************************************************************)
EXTENDS BlockingRead, FiniteSetTheorems, FunctionTheorems, TLAPS

Entries == Channels \X (1 .. MaxFrames)

(* The entries of channel c behind position k of s. *)
Behind(c, s, k) == {i \in k + 1 .. Len(s) : s[i][1] = c}
CountBehind(c, s, k) == Cardinality(Behind(c, s, k))

-----------------------------------------------------------------------------
(* The inductive invariant. *)

InRecheck == \E t \in Threads : pc[t] \in {"wfd_recheck", "wfd_take"}
Armed == waitPending \/ InRecheck

(* Who has the role. *)
RoleInv ==
    /\ \A t, u \in Threads : IsDrainer(t) /\ IsDrainer(u) => t = u
    /\ drainer_active <=> \E t \in Threads : IsDrainer(t)

(* Who is in WaitForData has not yet set waitPending. *)
WaitInv ==
    \A t \in Threads :
        pc[t] \in {"wfd_check", "wfd_store", "wfd_recheck", "wfd_take"}
            => ~waitPending

(* The mutex, and the local counters of its holder. *)
LockInv ==
    \A t \in Threads :
        /\ pc[t] = "fan" <=> drain_lock = t
        /\ at[t] <= limit[t] /\ limit[t] <= Len(ring)
        /\ drain_lock # t => limit[t] = 0

(* A frame in the ring has the number of its place among those written. *)
RingNumbered ==
    \A i \in 1 .. Len(ring) :
        ring[i][2] = written[ring[i][1]] - CountBehind(ring[i][1], ring, i)

IInv ==
    /\ TypeOK
    /\ RoleInv
    /\ WaitInv
    /\ LockInv
    /\ NotificationConserved
    /\ NoMissedNotification
    /\ RingNumbered
    /\ EachReaderOnce
-----------------------------------------------------------------------------
(* Lemmas about the entries behind a position. *)

(* The entries of a ring behind a position are finitely many. *)
LEMMA BehindFinite ==
    ASSUME NEW c, NEW s, Len(s) \in Nat, NEW k \in Nat
    PROVE  IsFiniteSet(Behind(c, s, k)) /\ CountBehind(c, s, k) \in Nat
<1>1. IsFiniteSet(k + 1 .. Len(s))
  BY FS_Interval
<1>2. Behind(c, s, k) \subseteq k + 1 .. Len(s)
  BY DEF Behind
<1> QED
  BY <1>1, <1>2, FS_Subset, FS_CardinalityType DEF CountBehind

(* Passing an entry of the channel leaves one less, another's as many.     *)
LEMMA PassEntry ==
    ASSUME NEW c, NEW s, Len(s) \in Nat, NEW k \in Nat, k < Len(s)
    PROVE  CountBehind(c, s, k) =
             CountBehind(c, s, k + 1) + (IF s[k + 1][1] = c THEN 1 ELSE 0)
<1>1. IsFiniteSet(Behind(c, s, k + 1)) /\ CountBehind(c, s, k + 1) \in Nat
  BY BehindFinite
<1>2. k + 1 \notin Behind(c, s, k + 1)
  BY DEF Behind
<1>3. CASE s[k + 1][1] = c
  <2>1. Behind(c, s, k) = Behind(c, s, k + 1) \union {k + 1}
    BY <1>3 DEF Behind
  <2>2. Cardinality(Behind(c, s, k + 1) \union {k + 1})
          = Cardinality(Behind(c, s, k + 1)) + 1
    BY <1>1, <1>2, FS_AddElement
  <2> QED
    BY <1>3, <2>1, <2>2 DEF CountBehind
<1>4. CASE s[k + 1][1] # c
  <2>1. Behind(c, s, k) = Behind(c, s, k + 1)
    BY <1>4 DEF Behind
  <2> QED
    BY <1>1, <1>4, <2>1 DEF CountBehind
<1> QED
  BY <1>3, <1>4

(* Appending an entry of the channel adds one behind every position.       *)
LEMMA AppendEntry ==
    ASSUME NEW c, NEW s \in Seq(Entries), NEW e \in Entries, NEW k \in Nat, k <= Len(s)
    PROVE  CountBehind(c, Append(s, e), k) =
             CountBehind(c, s, k) + (IF e[1] = c THEN 1 ELSE 0)
<1> DEFINE n == Len(s) + 1
           a == Append(s, e)
<1>1. Len(s) \in Nat /\ Len(a) = n /\ a[n] = e /\ \A i \in 1 .. Len(s) : a[i] = s[i]
  OBVIOUS
<1>2. IsFiniteSet(Behind(c, s, k)) /\ CountBehind(c, s, k) \in Nat
  BY <1>1, BehindFinite
<1>3. n \notin Behind(c, s, k)
  BY <1>1 DEF Behind
<1>4. CASE e[1] = c
  <2>1. Behind(c, a, k) = Behind(c, s, k) \union {n}
    BY <1>1, <1>4 DEF Behind
  <2>2. Cardinality(Behind(c, s, k) \union {n}) = Cardinality(Behind(c, s, k)) + 1
    BY <1>2, <1>3, FS_AddElement
  <2> QED
    BY <1>4, <2>1, <2>2 DEF CountBehind
<1>5. CASE e[1] # c
  <2>1. Behind(c, a, k) = Behind(c, s, k)
    BY <1>1, <1>5 DEF Behind
  <2> QED
    BY <1>2, <1>5, <2>1 DEF CountBehind
<1> QED
  BY <1>4, <1>5

(* Dropping m entries moves the positions, not what is behind them.        *)
LEMMA DropEntries ==
    ASSUME NEW c, NEW s \in Seq(Entries), NEW m \in Nat, m <= Len(s), NEW k \in Nat
    PROVE  CountBehind(c, SubSeq(s, m + 1, Len(s)), k) = CountBehind(c, s, m + k)
<1> DEFINE d == SubSeq(s, m + 1, Len(s))
           shift == [i \in Behind(c, d, k) |-> i + m]
<1>1. /\ Len(s) \in Nat /\ Len(d) = Len(s) - m
      /\ \A i \in 1 .. Len(s) - m : d[i] = s[i + m]
  OBVIOUS
<1>2. shift \in Bijection(Behind(c, d, k), Behind(c, s, m + k))
  <2>1. ASSUME NEW i \in Behind(c, d, k) PROVE i \in Int /\ i + m \in Behind(c, s, m + k)
    BY <1>1 DEF Behind
  <2>2. ASSUME NEW j \in Behind(c, s, m + k)
        PROVE  \E i \in Behind(c, d, k) : i + m = j
    <3>1. j - m \in Behind(c, d, k) /\ (j - m) + m = j
      BY <1>1 DEF Behind
    <3> QED
      BY <3>1
  <2>3. /\ shift \in [Behind(c, d, k) -> Behind(c, s, m + k)]
        /\ \A a, b \in Behind(c, d, k) : shift[a] = shift[b] => a = b
        /\ \A j \in Behind(c, s, m + k) : \E i \in Behind(c, d, k) : shift[i] = j
    BY <2>1, <2>2
  <2> QED
    BY <2>3, Fun_IsBij
<1>3. IsFiniteSet(Behind(c, d, k))
  BY <1>1, BehindFinite
<1>4. Cardinality(Behind(c, d, k)) = Cardinality(Behind(c, s, m + k))
  BY <1>2, <1>3, FS_Bijection DEF ExistsBijection
<1> QED
  BY <1>4 DEF CountBehind

(* NumberOf counts the entries behind the start. *)
LEMMA NumberOfIsCountBehind ==
    ASSUME NEW c, NEW s \in Seq(Entries)
    PROVE  NumberOf(c, s) = CountBehind(c, s, 0)
<1>1. {i \in DOMAIN s : s[i][1] = c} = Behind(c, s, 0)
  BY DEF Behind
<1> QED
  BY <1>1 DEF NumberOf, CountBehind
-----------------------------------------------------------------------------
(* What the drainer finds: before it stores its completion there is none,  *)
(* and one it takes from the port is the one it waited for.                *)
LEMMA Handshake ==
    ASSUME IInv, NEW t \in Threads
    PROVE  /\ pc[t] \in {"wfd_check", "wfd_store"} => ~Armed /\ msgs = 0 /\ ~pending
           /\ pc[t] \in {"wfd_recheck", "wfd_take"} => ~waitPending
           /\ pc[t] = "receive" /\ msgs > 0 => msgs = 1 /\ ~pending /\ waitPending
           /\ pc[t] = "receive" => ~InRecheck
<1>0. /\ pending \in BOOLEAN /\ msgs \in 0 .. 1 /\ waitPending \in BOOLEAN
      /\ RoleInv /\ WaitInv /\ NotificationConserved
  BY DEF IInv, TypeOK
<1>1. ASSUME pc[t] \in DrainerSection, NEW u \in Threads, pc[u] \in DrainerSection
      PROVE  t = u
  BY <1>0, <1>1 DEF RoleInv, IsDrainer
<1>2. pc[t] \in {"wfd_check", "wfd_store", "receive"} => ~InRecheck
  BY <1>1 DEF InRecheck, DrainerSection
<1>3. pc[t] \in {"wfd_check", "wfd_store", "wfd_recheck", "wfd_take"} => ~waitPending
  BY <1>0 DEF WaitInv
<1> QED
  BY <1>0, <1>2, <1>3 DEF Armed, InRecheck, NotificationConserved

-----------------------------------------------------------------------------
(* Typing, in three parts: the frames, the shared flags, the threads. *)

FramesTyped ==
    /\ written \in [Channels -> 0 .. MaxFrames]
    /\ ring \in Seq(Channels \X (1 .. MaxFrames)) /\ Len(ring) <= RingCap
    /\ fifo \in [Threads -> Seq(1 .. MaxFrames)]
    /\ got \in [Threads -> Seq(1 .. MaxFrames)]
    /\ overflowed \in [Threads -> SUBSET (1 .. MaxFrames)]

FlagsTyped ==
    /\ dPc \in {"idle", "notify"}
    /\ pending \in BOOLEAN /\ msgs \in 0 .. 1 /\ waitPending \in BOOLEAN
    /\ drain_lock \in Threads \union {None}
    /\ drainer_active \in BOOLEAN

ThreadsTyped ==
    /\ pc \in [Threads -> DrainerSection \union
                 {"idle", "lock", "fan", "check", "elect", "load", "sleep", "pop"}]
    /\ ctx \in [Threads -> {"first", "poll", "block"}]
    /\ limit \in [Threads -> 0 .. RingCap] /\ at \in [Threads -> 0 .. RingCap]
    /\ seen \in [Threads -> BOOLEAN] /\ expired \in [Threads -> BOOLEAN]

(* The type invariant, in the parts the steps are checked against. *)
LEMMA TypeParts == TypeOK <=> FramesTyped /\ FlagsTyped /\ ThreadsTyped
  BY DEF TypeOK, FramesTyped, FlagsTyped, ThreadsTyped

(* Every step keeps the types of frames, FIFOs and the ring, *)
LEMMA FramesStep ==
    ASSUME FramesTyped, ThreadsTyped, LockInv, [Next]_vars
    PROVE  FramesTyped'
<1> USE ReadAssumption DEF FramesTyped
<1>1. CASE Produce
  <2>1. PICK c \in Channels :
           /\ written[c] < MaxFrames /\ Len(ring) < RingCap
           /\ ring' = Append(ring, <<c, written[c] + 1>>)
           /\ written' = [written EXCEPT ![c] = @ + 1]
    BY <1>1 DEF Produce
  <2>2. written[c] + 1 \in 1 .. MaxFrames
    BY <2>1
  <2>3. <<c, written[c] + 1>> \in Channels \X (1 .. MaxFrames)
    BY <2>2
  <2>4. ring' \in Seq(Channels \X (1 .. MaxFrames)) /\ Len(ring') <= RingCap
    BY <2>1, <2>3
  <2> QED
    BY <1>1, <2>1, <2>2, <2>4 DEF Produce
<1>2. ASSUME NEW t \in Threads, TakePacket(t)
      PROVE  FramesTyped'
  BY <1>2 DEF TakePacket, driverVars
<1>3. ASSUME NEW t \in Threads, FanOut(t)
      PROVE  FramesTyped'
  <2>1. at[t] + 1 \in 1 .. Len(ring)
    BY <1>3, SMTT(20) DEF FanOut, LockInv, ThreadsTyped
  <2>2. ring[at[t] + 1][2] \in 1 .. MaxFrames
    BY <2>1
  <2>3. fifo' \in [Threads -> Seq(1 .. MaxFrames)]
    <3> DEFINE e == ring[at[t] + 1][2]
    <3>1. \A r \in Threads : fifo[r] \in Seq(1 .. MaxFrames)
                           /\ Append(fifo[r], e) \in Seq(1 .. MaxFrames)
      BY <2>2
    <3>2. \E S : fifo' = [r \in Threads |-> IF r \in S THEN Append(fifo[r], e) ELSE fifo[r]]
      <4> DEFINE S == {r \in Threads : /\ ChannelOf[r] = ring[at[t] + 1][1]
                                       /\ ~(Len(fifo[r]) = FifoCap)}
      <4>1. fifo' = [r \in Threads |-> IF r \in S THEN Append(fifo[r], e) ELSE fifo[r]]
        BY <1>3 DEF FanOut
      <4> QED
        BY <4>1
    <3> HIDE DEF e
    <3> QED
      BY <3>1, <3>2
  <2>4. overflowed' \in [Threads -> SUBSET (1 .. MaxFrames)]
    BY <1>3, <2>2 DEF FanOut
  <2> QED
    BY <1>3, <2>3, <2>4 DEF FanOut, driverVars
<1>4. ASSUME NEW t \in Threads, Unlock(t)
      PROVE  FramesTyped'
  <2>1. at[t] \in Nat /\ at[t] <= Len(ring) /\ Len(ring) \in Nat
    BY <1>4 DEF Unlock, LockInv, ThreadsTyped
  <2>2. ring' = SubSeq(ring, at[t] + 1, Len(ring))
    BY <1>4 DEF Unlock
  <2>3. ring' \in Seq(Channels \X (1 .. MaxFrames)) /\ Len(ring') <= RingCap
    <3> DEFINE S == Channels \X (1 .. MaxFrames)
    <3>1. ring \in Seq(S) /\ Len(ring) <= RingCap
      OBVIOUS
    <3> HIDE DEF S, FramesTyped
    <3>2. ring' \in Seq(S)
      BY <2>1, <2>2, <3>1
    <3>3. Len(ring') = Len(ring) - at[t]
      BY <2>1, <2>2, <3>1
    <3>4. Len(ring') <= RingCap
      BY <2>1, <3>1, <3>3
    <3> QED
      BY <3>2, <3>4 DEF S
  <2> QED
    BY <1>4, <2>3 DEF Unlock, driverVars
<1>5. CASE UNCHANGED <<written, ring, fifo, got, overflowed>>
  BY <1>5
<1>6. \/ Produce \/ UNCHANGED <<written, ring, fifo, got, overflowed>>
      \/ \E t \in Threads : TakePacket(t) \/ FanOut(t) \/ Unlock(t)
  BY DEF Next, Step, vars, driverVars, notifyVars, drainVars, NotifyRxDataAvailable,
         CallBlocking, CallPoll, Expire, TakeNothing, Lock, Check, Elect, LoadEpoch,
         Wake, BumpEpoch, Release, Arm, WaitForDataCheck, WaitForDataStore,
         WaitForDataRecheck, WaitForDataTake, Receive, ReceiveTimeout
<1> QED
  BY <1>1, <1>2, <1>3, <1>4, <1>5, <1>6

(* A completion handed over moves from the user client to the port.        *)
LEMMA HandOver ==
    ASSUME FlagsTyped, NotificationConserved, CompletePending
    PROVE  /\ pending' = FALSE /\ msgs' \in 0 .. 1
           /\ msgs' = msgs + (IF pending THEN 1 ELSE 0)
<1>1. pending => msgs = 0
  BY DEF NotificationConserved, FlagsTyped
<1> QED
  BY <1>1 DEF CompletePending, FlagsTyped

(* those of the handshake's flags, *)
LEMMA FlagsStep ==
    ASSUME IInv, [Next]_vars
    PROVE  FlagsTyped'
<1> USE DEF FlagsTyped
<1>0. FlagsTyped /\ NotificationConserved
  BY TypeParts DEF IInv
<1>1. CASE Produce
  BY <1>0, <1>1 DEF Produce, notifyVars
<1>2. CASE NotifyRxDataAvailable
  <2>1. pending' = FALSE /\ msgs' \in 0 .. 1
    BY <1>0, <1>2, HandOver DEF NotifyRxDataAvailable
  <2>2. dPc' = "idle" /\ UNCHANGED <<waitPending, drain_lock, drainer_active>>
    BY <1>2 DEF NotifyRxDataAvailable, drainVars
  <2> QED
    BY <1>0, <2>1, <2>2
<1>3. ASSUME NEW t \in Threads, Lock(t) \/ Unlock(t)
      PROVE  FlagsTyped'
  <2>1. drain_lock' \in Threads \union {None}
    BY <1>3 DEF Lock, Unlock
  <2>2. UNCHANGED <<dPc, pending, msgs, waitPending, drainer_active>>
    BY <1>3 DEF Lock, Unlock, driverVars, notifyVars
  <2> QED
    BY <1>0, <2>1, <2>2
<1>4. ASSUME NEW t \in Threads, Elect(t) \/ Release(t)
      PROVE  FlagsTyped'
  <2>1. drainer_active' \in BOOLEAN
    BY <1>4 DEF Elect, Release
  <2>2. UNCHANGED <<dPc, pending, msgs, waitPending, drain_lock>>
    BY <1>4 DEF Elect, Release, driverVars, notifyVars, drainVars
  <2> QED
    BY <1>0, <2>1, <2>2
<1>5. ASSUME NEW t \in Threads, WaitForDataCheck(t) \/ WaitForDataStore(t)
      PROVE  FlagsTyped'
  <2>1. msgs = 0 /\ ~pending
    BY <1>5, Handshake DEF WaitForDataCheck, WaitForDataStore
  <2>2. msgs' \in 0 .. 1
    BY <1>5, <2>1 DEF WaitForDataCheck, WaitForDataStore
  <2>3. pending' \in BOOLEAN /\ waitPending' \in BOOLEAN
    BY <1>0, <1>5 DEF WaitForDataCheck, WaitForDataStore
  <2>4. UNCHANGED <<dPc, drain_lock, drainer_active>>
    BY <1>5 DEF WaitForDataCheck, WaitForDataStore, driverVars, drainVars
  <2> QED
    BY <1>0, <2>2, <2>3, <2>4
<1>8. ASSUME NEW t \in Threads, WaitForDataRecheck(t) \/ WaitForDataTake(t)
      PROVE  FlagsTyped'
  <2>1. pending' \in BOOLEAN /\ msgs' \in 0 .. 1
    BY <1>0, <1>8, HandOver DEF WaitForDataRecheck, WaitForDataTake
  <2>2. waitPending' \in BOOLEAN
    BY <1>0, <1>8 DEF WaitForDataRecheck, WaitForDataTake
  <2>3. UNCHANGED <<dPc, drain_lock, drainer_active>>
    BY <1>8 DEF WaitForDataRecheck, WaitForDataTake, driverVars, drainVars
  <2> QED
    BY <1>0, <2>1, <2>2, <2>3
<1>9. ASSUME NEW t \in Threads, Receive(t)
      PROVE  FlagsTyped'
  <2>1. msgs' \in 0 .. 1
    BY <1>0, <1>9 DEF Receive
  <2>2. waitPending' = FALSE /\ UNCHANGED <<dPc, pending, drain_lock, drainer_active>>
    BY <1>9 DEF Receive, driverVars, drainVars
  <2> QED
    BY <1>0, <2>1, <2>2
<1>6. CASE UNCHANGED <<dPc, pending, msgs, waitPending, drain_lock, drainer_active>>
  BY <1>0, <1>6
<1>7. \/ Produce \/ NotifyRxDataAvailable
      \/ UNCHANGED <<dPc, pending, msgs, waitPending, drain_lock, drainer_active>>
      \/ \E t \in Threads :
            \/ Lock(t) \/ Unlock(t) \/ Elect(t) \/ Release(t)
            \/ WaitForDataRecheck(t) \/ Receive(t)
            \/ WaitForDataCheck(t) \/ WaitForDataStore(t) \/ WaitForDataTake(t)
  BY DEF Next, Step, vars, driverVars, notifyVars, drainVars,
         CallBlocking, CallPoll, Expire, TakePacket, TakeNothing, FanOut, Check,
         LoadEpoch, Wake, BumpEpoch, Arm, ReceiveTimeout
<1> QED
  BY <1>1, <1>2, <1>3, <1>4, <1>5, <1>6, <1>7, <1>8, <1>9

(* Where a thread goes after its drain. *)
LEMMA DrainGoesOn ==
    ASSUME ThreadsTyped, NEW t \in Threads
    PROVE  /\ AfterDrain[ctx[t]] \in {"check", "pop", "bump"}
           /\ AfterDrain[ctx[t]] = "bump" <=> ctx[t] = "block"
<1>1. AfterDrain["first"] = "check" /\ AfterDrain["poll"] = "pop" /\ AfterDrain["block"] = "bump"
  BY DEF AfterDrain
<1>2. ctx[t] = "first" \/ ctx[t] = "poll" \/ ctx[t] = "block"
  BY DEF ThreadsTyped
<1> QED
  BY <1>1, <1>2

(* and those of the threads. *)
LEMMA ThreadsStep ==
    ASSUME ThreadsTyped, FramesTyped, [Next]_vars
    PROVE  ThreadsTyped'
<1> USE DEF ThreadsTyped, Goto, DrainerSection
<1>1. CASE Produce \/ NotifyRxDataAvailable
  BY <1>1 DEF Produce, NotifyRxDataAvailable, drainVars
<1>2. ASSUME NEW t \in Threads, CallBlocking(t) \/ CallPoll(t) \/ Expire(t)
      PROVE  ThreadsTyped'
  BY <1>2 DEF CallBlocking, CallPoll, Expire, drainVars
<1>3. ASSUME NEW t \in Threads, TakePacket(t) \/ TakeNothing(t)
      PROVE  ThreadsTyped'
  BY <1>3 DEF TakePacket, TakeNothing, drainVars
<1>4. ASSUME NEW t \in Threads, Lock(t)
      PROVE  ThreadsTyped'
  <2>1. Len(ring) \in 0 .. RingCap /\ 0 \in 0 .. RingCap
    BY ReadAssumption DEF FramesTyped
  <2> QED
    BY <1>4, <2>1 DEF Lock
<1>11. ASSUME NEW t \in Threads, Unlock(t)
      PROVE  ThreadsTyped'
  <2>1. AfterDrain[ctx[t]] \in {"check", "pop", "bump"} /\ 0 \in 0 .. RingCap
    BY DrainGoesOn, ReadAssumption
  <2> QED
    BY <1>11, <2>1 DEF Unlock
<1>10. ASSUME NEW t \in Threads, FanOut(t)
      PROVE  ThreadsTyped'
  BY <1>10, ReadAssumption DEF FanOut
<1>5. ASSUME NEW t \in Threads, Check(t) \/ Elect(t) \/ LoadEpoch(t) \/ Wake(t)
      PROVE  ThreadsTyped'
  BY <1>5 DEF Check, Elect, LoadEpoch, Wake, drainVars
<1>6. ASSUME NEW t \in Threads, BumpEpoch(t) \/ Release(t) \/ Arm(t)
      PROVE  ThreadsTyped'
  BY <1>6 DEF BumpEpoch, Release, Arm, drainVars
<1>7. ASSUME NEW t \in Threads,
             \/ WaitForDataCheck(t) \/ WaitForDataStore(t)
             \/ WaitForDataRecheck(t) \/ WaitForDataTake(t)
      PROVE  ThreadsTyped'
  BY <1>7 DEF WaitForDataCheck, WaitForDataStore, WaitForDataRecheck, WaitForDataTake,
              drainVars
<1>8. ASSUME NEW t \in Threads, Receive(t) \/ ReceiveTimeout(t)
      PROVE  ThreadsTyped'
  BY <1>8 DEF Receive, ReceiveTimeout, drainVars
<1>9. CASE UNCHANGED vars
  BY <1>9 DEF vars, drainVars
<1> QED
  BY <1>1, <1>2, <1>3, <1>4, <1>5, <1>6, <1>7, <1>8, <1>9, <1>10, <1>11
     DEF Next, Step
-----------------------------------------------------------------------------
(* The role changes hands in Elect and Release only. *)

(* Only electing and releasing a drainer moves the role. *)
LEMMA RoleKept ==
    ASSUME ThreadsTyped, [Next]_vars,
           \A t \in Threads : ~Elect(t) /\ ~Release(t)
    PROVE  /\ \A u \in Threads : IsDrainer(u)' <=> IsDrainer(u)
           /\ UNCHANGED drainer_active
<1> USE DEF ThreadsTyped, Goto
<1>1. CASE Produce \/ NotifyRxDataAvailable \/ UNCHANGED vars
  BY <1>1 DEF Produce, NotifyRxDataAvailable, vars, IsDrainer
<1>2. ASSUME NEW t \in Threads, CallBlocking(t) \/ CallPoll(t) \/ Expire(t)
      PROVE  /\ \A u \in Threads : IsDrainer(u)' <=> IsDrainer(u)
             /\ UNCHANGED drainer_active
  BY <1>2 DEF CallBlocking, CallPoll, Expire, IsDrainer, DrainerSection
<1>3. ASSUME NEW t \in Threads, TakePacket(t) \/ TakeNothing(t)
      PROVE  /\ \A u \in Threads : IsDrainer(u)' <=> IsDrainer(u)
             /\ UNCHANGED drainer_active
  BY <1>3 DEF TakePacket, TakeNothing, IsDrainer, DrainerSection
<1>4. ASSUME NEW t \in Threads, Lock(t) \/ FanOut(t)
      PROVE  /\ \A u \in Threads : IsDrainer(u)' <=> IsDrainer(u)
             /\ UNCHANGED drainer_active
  BY <1>4 DEF Lock, FanOut, IsDrainer, DrainerSection
<1>5. ASSUME NEW t \in Threads, Unlock(t)
      PROVE  /\ \A u \in Threads : IsDrainer(u)' <=> IsDrainer(u)
             /\ UNCHANGED drainer_active
  BY <1>5, DrainGoesOn DEF Unlock, IsDrainer, DrainerSection
<1>6. ASSUME NEW t \in Threads, Check(t) \/ LoadEpoch(t) \/ Wake(t)
      PROVE  /\ \A u \in Threads : IsDrainer(u)' <=> IsDrainer(u)
             /\ UNCHANGED drainer_active
  BY <1>6 DEF Check, LoadEpoch, Wake, IsDrainer, DrainerSection
<1>7. ASSUME NEW t \in Threads, BumpEpoch(t) \/ Arm(t)
      PROVE  /\ \A u \in Threads : IsDrainer(u)' <=> IsDrainer(u)
             /\ UNCHANGED drainer_active
  BY <1>7 DEF BumpEpoch, Arm, IsDrainer, DrainerSection
<1>8. ASSUME NEW t \in Threads,
             \/ WaitForDataCheck(t) \/ WaitForDataStore(t)
             \/ WaitForDataRecheck(t) \/ WaitForDataTake(t)
      PROVE  /\ \A u \in Threads : IsDrainer(u)' <=> IsDrainer(u)
             /\ UNCHANGED drainer_active
  BY <1>8 DEF WaitForDataCheck, WaitForDataStore, WaitForDataRecheck, WaitForDataTake,
              IsDrainer, DrainerSection
<1>9. ASSUME NEW t \in Threads, Receive(t) \/ ReceiveTimeout(t)
      PROVE  /\ \A u \in Threads : IsDrainer(u)' <=> IsDrainer(u)
             /\ UNCHANGED drainer_active
  BY <1>9 DEF Receive, ReceiveTimeout, IsDrainer, DrainerSection
<1> QED
  BY <1>1, <1>2, <1>3, <1>4, <1>5, <1>6, <1>7, <1>8, <1>9 DEF Next, Step

(* No step makes a second drainer. *)
LEMMA RoleStep ==
    ASSUME ThreadsTyped, RoleInv, [Next]_vars
    PROVE  RoleInv'
<1>1. ASSUME NEW t \in Threads, Elect(t), ~drainer_active
      PROVE  RoleInv'
  <2>1. \A u \in Threads : ~IsDrainer(u)
    BY <1>1 DEF RoleInv
  <2>2. drainer_active' = TRUE /\ pc' = [pc EXCEPT ![t] = "arm"] /\ ctx' = ctx
    BY <1>1 DEF Elect, Goto
  <2>3. IsDrainer(t)' /\ \A u \in Threads \ {t} : ~IsDrainer(u)'
    BY <2>1, <2>2 DEF IsDrainer, DrainerSection, ThreadsTyped
  <2> QED
    BY <2>2, <2>3 DEF RoleInv
<1>2. ASSUME NEW t \in Threads, Elect(t), drainer_active
      PROVE  RoleInv'
  <2>1. drainer_active' = TRUE /\ pc[t] = "elect" /\ pc' = [pc EXCEPT ![t] = "load"]
        /\ ctx' = ctx
    BY <1>2 DEF Elect, Goto
  <2>2. \A u \in Threads : IsDrainer(u)' <=> IsDrainer(u)
    BY <2>1 DEF IsDrainer, DrainerSection, ThreadsTyped
  <2> QED
    BY <1>2, <2>1, <2>2 DEF RoleInv
<1>3. ASSUME NEW t \in Threads, Release(t)
      PROVE  RoleInv'
  <2>1. /\ drainer_active' = FALSE /\ pc[t] = "release" /\ pc' = [pc EXCEPT ![t] = "check"]
        /\ ctx' = ctx
    BY <1>3 DEF Release, Goto
  <2>2. IsDrainer(t)
    BY <2>1 DEF IsDrainer, DrainerSection
  <2>3. \A u \in Threads \ {t} : ~IsDrainer(u)
    BY <2>2 DEF RoleInv
  <2>4. \A u \in Threads : ~IsDrainer(u)'
    BY <2>1, <2>3 DEF IsDrainer, DrainerSection, ThreadsTyped
  <2> QED
    BY <2>1, <2>4 DEF RoleInv
<1>4. CASE \A t \in Threads : ~Elect(t) /\ ~Release(t)
  BY <1>4, RoleKept DEF RoleInv
<1> QED
  BY <1>1, <1>2, <1>3, <1>4
-----------------------------------------------------------------------------
(* The mutex. *)

(* The mutex keeps its holder, and the holder its counters. *)
LEMMA LockStep ==
    ASSUME FramesTyped, ThreadsTyped, LockInv, [Next]_vars
    PROVE  LockInv'
<1> USE ReadAssumption DEF Goto, ThreadsTyped, LockInv
<1>0. Len(ring) \in Nat
  BY DEF FramesTyped
<1>1. CASE Produce
  <2>1. Len(ring') = Len(ring) + 1
    BY <1>1 DEF Produce, FramesTyped
  <2> QED
    BY <1>0, <1>1, <2>1 DEF Produce
<1>2. ASSUME NEW t \in Threads, Lock(t)
      PROVE  LockInv'
  BY <1>0, <1>2 DEF Lock
<1>3. ASSUME NEW t \in Threads, FanOut(t)
      PROVE  LockInv'
  BY <1>0, <1>3 DEF FanOut
<1>4. ASSUME NEW t \in Threads, Unlock(t)
      PROVE  LockInv'
  <2>1. AfterDrain[ctx[t]] # "fan"
    BY DrainGoesOn
  <2>2. at[t] \in Nat /\ at[t] <= Len(ring)
    BY <1>0, <1>4 DEF Unlock
  <2>3. Len(ring') \in Nat
    <3>1. ring' = SubSeq(ring, at[t] + 1, Len(ring))
      BY <1>4 DEF Unlock
    <3>2. ring \in Seq(Channels \X (1 .. MaxFrames))
      BY DEF FramesTyped
    <3> QED
      BY <2>2, <3>1, <3>2
  <2> QED
    BY <1>0, <1>4, <2>1, <2>3 DEF Unlock
<1>5. ASSUME UNCHANGED <<ring, drain_lock, limit, at>>,
             \A t \in Threads : (pc[t] = "fan") <=> (pc'[t] = "fan")
      PROVE  LockInv'
  BY <1>5
<1>6. ASSUME ~Produce, \A t \in Threads : ~Lock(t) /\ ~FanOut(t) /\ ~Unlock(t)
      PROVE  /\ UNCHANGED <<ring, drain_lock, limit, at>>
             /\ \A t \in Threads : (pc[t] = "fan") <=> (pc'[t] = "fan")
  <2>1. CASE NotifyRxDataAvailable \/ UNCHANGED vars
    BY <2>1 DEF NotifyRxDataAvailable, vars, drainVars
  <2>2. ASSUME NEW t \in Threads, CallBlocking(t) \/ CallPoll(t) \/ Expire(t)
        PROVE  /\ UNCHANGED <<ring, drain_lock, limit, at>>
               /\ \A u \in Threads : (pc[u] = "fan") <=> (pc'[u] = "fan")
    BY <2>2 DEF CallBlocking, CallPoll, Expire, drainVars
  <2>3. ASSUME NEW t \in Threads,
               \/ TakePacket(t) \/ TakeNothing(t)
               \/ Check(t) \/ Elect(t) \/ LoadEpoch(t) \/ Wake(t)
        PROVE  /\ UNCHANGED <<ring, drain_lock, limit, at>>
               /\ \A u \in Threads : (pc[u] = "fan") <=> (pc'[u] = "fan")
    BY <2>3 DEF TakePacket, TakeNothing, Check, Elect, LoadEpoch, Wake, drainVars
  <2>4. ASSUME NEW t \in Threads, BumpEpoch(t) \/ Release(t) \/ Arm(t)
        PROVE  /\ UNCHANGED <<ring, drain_lock, limit, at>>
               /\ \A u \in Threads : (pc[u] = "fan") <=> (pc'[u] = "fan")
    BY <2>4 DEF BumpEpoch, Release, Arm, drainVars
  <2>5. ASSUME NEW t \in Threads,
               \/ WaitForDataCheck(t) \/ WaitForDataStore(t)
               \/ WaitForDataRecheck(t) \/ WaitForDataTake(t)
        PROVE  /\ UNCHANGED <<ring, drain_lock, limit, at>>
               /\ \A u \in Threads : (pc[u] = "fan") <=> (pc'[u] = "fan")
    BY <2>5 DEF WaitForDataCheck, WaitForDataStore, WaitForDataRecheck,
                WaitForDataTake, drainVars
  <2>6. ASSUME NEW t \in Threads, Receive(t) \/ ReceiveTimeout(t)
        PROVE  /\ UNCHANGED <<ring, drain_lock, limit, at>>
               /\ \A u \in Threads : (pc[u] = "fan") <=> (pc'[u] = "fan")
    BY <2>6 DEF Receive, ReceiveTimeout, drainVars
  <2> QED
    BY <1>6, <2>1, <2>2, <2>3, <2>4, <2>5, <2>6 DEF Next, Step
<1> QED
  BY <1>1, <1>2, <1>3, <1>4, <1>5, <1>6
-----------------------------------------------------------------------------
(* The handshake. *)

(* Nobody else is in the drainer's section with a drainer. *)
LEMMA LoneDrainer ==
    ASSUME RoleInv, NEW t \in Threads, pc[t] \in DrainerSection,
           NEW u \in Threads, u # t
    PROVE  pc[u] \notin DrainerSection
  BY DEF RoleInv, IsDrainer

(* Who is in WaitForData has not yet set waitPending. *)
LEMMA WaitStep ==
    ASSUME ThreadsTyped, FlagsTyped, RoleInv, WaitInv, [Next]_vars
    PROVE  WaitInv'
<1> USE DEF Goto, ThreadsTyped, WaitInv
<1>1. CASE Produce \/ NotifyRxDataAvailable \/ UNCHANGED vars
  BY <1>1 DEF Produce, NotifyRxDataAvailable, vars, notifyVars
<1>2. ASSUME NEW t \in Threads, CallBlocking(t) \/ CallPoll(t) \/ Expire(t)
      PROVE  WaitInv'
  BY <1>2 DEF CallBlocking, CallPoll, Expire, notifyVars
<1>3. ASSUME NEW t \in Threads, TakePacket(t) \/ TakeNothing(t)
      PROVE  WaitInv'
  BY <1>3 DEF TakePacket, TakeNothing, notifyVars
<1>4. ASSUME NEW t \in Threads, Lock(t) \/ FanOut(t)
      PROVE  WaitInv'
  BY <1>4 DEF Lock, FanOut, notifyVars
<1>5. ASSUME NEW t \in Threads, Unlock(t)
      PROVE  WaitInv'
  BY <1>5, DrainGoesOn DEF Unlock, notifyVars
<1>6. ASSUME NEW t \in Threads, Check(t) \/ Elect(t) \/ LoadEpoch(t) \/ Wake(t)
      PROVE  WaitInv'
  BY <1>6 DEF Check, Elect, LoadEpoch, Wake, notifyVars
<1>7. ASSUME NEW t \in Threads, BumpEpoch(t) \/ Release(t) \/ Arm(t)
      PROVE  WaitInv'
  BY <1>7 DEF BumpEpoch, Release, Arm, notifyVars
<1>8. ASSUME NEW t \in Threads,
             \/ WaitForDataCheck(t) \/ WaitForDataStore(t)
             \/ WaitForDataRecheck(t) \/ WaitForDataTake(t)
      PROVE  WaitInv'
  <2>1. \A u \in Threads \ {t} : pc'[u] = pc[u] /\ pc[u] \notin DrainerSection
    BY <1>8, LoneDrainer
       DEF WaitForDataCheck, WaitForDataStore, WaitForDataRecheck, WaitForDataTake,
           DrainerSection
  <2>2. pc'[t] = "receive" \/ (pc'[t] \in {"wfd_store", "wfd_recheck", "wfd_take"}
                               /\ waitPending' = waitPending /\ ~waitPending)
    BY <1>8
       DEF WaitForDataCheck, WaitForDataStore, WaitForDataRecheck, WaitForDataTake
  <2> QED
    BY <2>1, <2>2 DEF DrainerSection
<1>9. ASSUME NEW t \in Threads, Receive(t) \/ ReceiveTimeout(t)
      PROVE  WaitInv'
  BY <1>9 DEF Receive, ReceiveTimeout, notifyVars
<1> QED
  BY <1>1, <1>2, <1>3, <1>4, <1>5, <1>6, <1>7, <1>8, <1>9 DEF Next, Step

(* The places of the completion, and what moves it. *)
Handshakes(t) ==
    \/ WaitForDataCheck(t) \/ WaitForDataStore(t)
    \/ WaitForDataRecheck(t) \/ WaitForDataTake(t) \/ Receive(t)

(* Outside the handshake its state does not move. *)
LEMMA HandshakeKept ==
    ASSUME ThreadsTyped, [Next]_vars, ~NotifyRxDataAvailable,
           \A t \in Threads : ~Handshakes(t)
    PROVE  /\ UNCHANGED <<pending, msgs, waitPending>>
           /\ \A t \in Threads : (pc'[t] \in {"wfd_recheck", "wfd_take"})
                                    <=> (pc[t] \in {"wfd_recheck", "wfd_take"})
           /\ Produce \/ UNCHANGED <<ring, dPc>>
                      \/ \E t \in Threads : Unlock(t) /\ UNCHANGED dPc
<1> USE DEF Goto, ThreadsTyped
<1> DEFINE Kept == /\ UNCHANGED <<pending, msgs, waitPending>>
                   /\ \A t \in Threads : (pc'[t] \in {"wfd_recheck", "wfd_take"})
                                            <=> (pc[t] \in {"wfd_recheck", "wfd_take"})
           Still == UNCHANGED <<ring, dPc>>
<1>1. CASE Produce \/ UNCHANGED vars
  BY <1>1 DEF Produce, vars, notifyVars, driverVars, drainVars
<1>2. ASSUME NEW t \in Threads, CallBlocking(t) \/ CallPoll(t) \/ Expire(t)
      PROVE  Kept /\ Still
  BY <1>2 DEF CallBlocking, CallPoll, Expire, notifyVars, driverVars, drainVars
<1>3. ASSUME NEW t \in Threads, TakePacket(t) \/ TakeNothing(t) \/ Lock(t) \/ FanOut(t)
      PROVE  Kept /\ Still
  BY <1>3 DEF TakePacket, TakeNothing, Lock, FanOut, notifyVars, driverVars, drainVars
<1>4. ASSUME NEW t \in Threads, Unlock(t)
      PROVE  Kept /\ UNCHANGED dPc
  BY <1>4, DrainGoesOn DEF Unlock, notifyVars, driverVars
<1>5. ASSUME NEW t \in Threads, Check(t) \/ Elect(t) \/ LoadEpoch(t) \/ Wake(t)
      PROVE  Kept /\ Still
  BY <1>5 DEF Check, Elect, LoadEpoch, Wake, notifyVars, driverVars, drainVars
<1>6. ASSUME NEW t \in Threads,
             BumpEpoch(t) \/ Release(t) \/ Arm(t) \/ ReceiveTimeout(t)
      PROVE  Kept /\ Still
  BY <1>6 DEF BumpEpoch, Release, Arm, ReceiveTimeout, notifyVars, driverVars, drainVars
<1> HIDE DEF Kept, Still
<1>7. Kept /\ (Produce \/ Still \/ \E t \in Threads : Unlock(t) /\ UNCHANGED dPc)
  BY <1>1, <1>2, <1>3, <1>4, <1>5, <1>6 DEF Next, Step, Handshakes, Kept, Still
<1> QED
  BY <1>7 DEF Kept, Still

(* The drainer's steps: where the completion is before and after. *)
LEMMA HandshakeMoves ==
    ASSUME IInv, NEW t \in Threads, Handshakes(t)
    PROVE  /\ InRecheck' <=> pc'[t] \in {"wfd_recheck", "wfd_take"}
           /\ pc'[t] \in {"wfd_store", "wfd_recheck", "wfd_take", "receive", "lock"}
           /\ UNCHANGED <<ring, dPc>>
<1>1. ThreadsTyped /\ RoleInv
  BY TypeParts DEF IInv
<1>2. pc[t] \in DrainerSection /\ \A u \in Threads \ {t} : pc'[u] = pc[u]
  BY <1>1 DEF Handshakes, WaitForDataCheck, WaitForDataStore, WaitForDataRecheck,
              WaitForDataTake, Receive, ThreadsTyped, Goto, DrainerSection
<1>3. \A u \in Threads \ {t} : pc'[u] \notin {"wfd_recheck", "wfd_take"}
  BY <1>1, <1>2, LoneDrainer DEF DrainerSection
<1>4. /\ pc'[t] \in {"wfd_store", "wfd_recheck", "wfd_take", "receive", "lock"}
      /\ UNCHANGED <<ring, dPc>>
  BY <1>1 DEF Handshakes, WaitForDataCheck, WaitForDataStore, WaitForDataRecheck,
              WaitForDataTake, Receive, ThreadsTyped, Goto, driverVars, drainVars
<1> QED
  BY <1>3, <1>4 DEF InRecheck

(* No completion is lost or sent twice in a step. *)
LEMMA NotificationStep ==
    ASSUME IInv, [Next]_vars
    PROVE  NotificationConserved'
<1>0. ThreadsTyped /\ FlagsTyped /\ NotificationConserved
  BY TypeParts DEF IInv
<1>a. FlagsTyped'
  BY FlagsStep
<1> DEFINE There == (IF pending THEN 1 ELSE 0) + msgs
<1>b. There = IF Armed THEN 1 ELSE 0
  BY <1>0 DEF NotificationConserved, Armed, InRecheck
<1>c. SUFFICES There' = IF Armed' THEN 1 ELSE 0
  BY DEF NotificationConserved, Armed, InRecheck
<1>1. CASE NotifyRxDataAvailable
  <2>1. There' = There
    <3>1. ~pending' /\ msgs' = msgs + (IF pending THEN 1 ELSE 0)
      BY <1>0, <1>1, HandOver DEF NotifyRxDataAvailable
    <3>2. msgs \in 0 .. 1
      BY <1>0 DEF FlagsTyped
    <3> QED
      BY <3>1, <3>2
  <2>2. Armed' <=> Armed
    BY <1>1 DEF NotifyRxDataAvailable, Armed, InRecheck
  <2> QED
    BY <1>b, <2>1, <2>2
<1>2. ASSUME NEW t \in Threads, WaitForDataCheck(t)
      PROVE  There' = IF Armed' THEN 1 ELSE 0
  <2>1. ~Armed /\ msgs = 0 /\ ~pending
    BY <1>2, Handshake DEF WaitForDataCheck
  <2>2. InRecheck' <=> pc'[t] \in {"wfd_recheck", "wfd_take"}
    BY <1>2, HandshakeMoves DEF Handshakes
  <2>3. CASE ring # <<>>
    <3>1. msgs' = 1 /\ ~pending' /\ waitPending'
      BY <1>2, <2>1, <2>3 DEF WaitForDataCheck
    <3> QED
      BY <3>1 DEF Armed
  <2>4. CASE ring = <<>>
    <3>1. msgs' = 0 /\ ~pending' /\ ~waitPending' /\ pc'[t] = "wfd_store"
      BY <1>0, <1>2, <2>1, <2>4 DEF WaitForDataCheck, Goto, ThreadsTyped, Armed
    <3> QED
      BY <2>2, <3>1 DEF Armed
  <2> QED
    BY <2>3, <2>4
<1>3. ASSUME NEW t \in Threads, WaitForDataStore(t)
      PROVE  There' = IF Armed' THEN 1 ELSE 0
  <2>1. msgs = 0 /\ ~pending
    BY <1>3, Handshake DEF WaitForDataStore
  <2>2. msgs' = 0 /\ pending' /\ pc'[t] = "wfd_recheck"
    BY <1>0, <1>3, <2>1 DEF WaitForDataStore, Goto, ThreadsTyped
  <2>3. InRecheck'
    BY <1>3, <2>2, HandshakeMoves DEF Handshakes
  <2> QED
    BY <2>2, <2>3 DEF Armed
<1>4. ASSUME NEW t \in Threads, WaitForDataRecheck(t)
      PROVE  There' = IF Armed' THEN 1 ELSE 0
  <2>1. Armed /\ There' = There
    BY <1>4 DEF WaitForDataRecheck, Armed, InRecheck
  <2>2. waitPending' \/ pc'[t] = "wfd_take"
    BY <1>0, <1>4 DEF WaitForDataRecheck, Goto, ThreadsTyped
  <2>3. Armed'
    BY <2>2 DEF Armed, InRecheck
  <2> QED
    BY <1>b, <2>1, <2>3
<1>5. ASSUME NEW t \in Threads, WaitForDataTake(t)
      PROVE  There' = IF Armed' THEN 1 ELSE 0
  <2>1. Armed /\ Armed'
    BY <1>5 DEF WaitForDataTake, Armed, InRecheck
  <2>2. There' = There
    <3>1. ~pending' /\ msgs' = msgs + (IF pending THEN 1 ELSE 0)
      BY <1>0, <1>5, HandOver DEF WaitForDataTake
    <3>2. msgs \in 0 .. 1
      BY <1>0 DEF FlagsTyped
    <3> QED
      BY <3>1, <3>2
  <2> QED
    BY <1>b, <2>1, <2>2
<1>6. ASSUME NEW t \in Threads, Receive(t)
      PROVE  There' = IF Armed' THEN 1 ELSE 0
  <2>1. msgs = 1 /\ ~pending
    BY <1>0, <1>6, Handshake DEF Receive
  <2>2. msgs' = 0 /\ ~pending' /\ ~waitPending' /\ pc'[t] = "lock"
    BY <1>0, <1>6, <2>1 DEF Receive, Goto, ThreadsTyped
  <2>3. ~InRecheck'
    BY <1>6, <2>2, HandshakeMoves DEF Handshakes
  <2> QED
    BY <2>2, <2>3 DEF Armed
<1>7. CASE ~NotifyRxDataAvailable /\ \A t \in Threads : ~Handshakes(t)
  <2>1. There' = There /\ (Armed' <=> Armed)
    BY <1>0, <1>7, HandshakeKept DEF Armed, InRecheck
  <2> QED
    BY <1>b, <2>1
<1> QED
  BY <1>1, <1>2, <1>3, <1>4, <1>5, <1>6, <1>7 DEF Handshakes

(* No step leaves a drainer asleep over data without a message. *)
LEMMA NoMissedStep ==
    ASSUME IInv, [Next]_vars
    PROVE  NoMissedNotification'
<1>0. ThreadsTyped /\ FlagsTyped /\ FramesTyped /\ LockInv /\ NoMissedNotification
  BY TypeParts DEF IInv
<1> SUFFICES ASSUME pending', ring' # <<>>, dPc' # "notify"
             PROVE  InRecheck'
  BY DEF NoMissedNotification, InRecheck
<1>1. CASE NotifyRxDataAvailable
  BY <1>1 DEF NotifyRxDataAvailable, CompletePending
<1>2. ASSUME NEW t \in Threads, Handshakes(t)
      PROVE  InRecheck'
  <2>1. UNCHANGED <<ring, dPc>> /\ (InRecheck' <=> pc'[t] \in {"wfd_recheck", "wfd_take"})
    BY <1>2, HandshakeMoves
  <2>2. CASE WaitForDataCheck(t)
    <3>1. ~pending'
      BY <2>2, Handshake DEF WaitForDataCheck
    <3> QED
      BY <3>1
  <2>3. CASE WaitForDataStore(t)
    BY <1>0, <2>1, <2>3 DEF WaitForDataStore, Goto, ThreadsTyped
  <2>4. CASE WaitForDataRecheck(t)
    BY <1>0, <2>1, <2>4 DEF WaitForDataRecheck, Goto, ThreadsTyped
  <2>5. CASE WaitForDataTake(t)
    BY <2>5 DEF WaitForDataTake, CompletePending
  <2>6. CASE Receive(t)
    <3>1. ~pending'
      BY <1>0, <2>6, Handshake DEF Receive
    <3> QED
      BY <3>1
  <2> QED
    BY <1>2, <2>2, <2>3, <2>4, <2>5, <2>6 DEF Handshakes
<1>3. CASE ~NotifyRxDataAvailable /\ \A t \in Threads : ~Handshakes(t)
  <2>1. pending /\ (InRecheck' <=> InRecheck) /\ ~Produce
    BY <1>0, <1>3, HandshakeKept DEF InRecheck, Produce
  <2>2. ring # <<>> /\ dPc # "notify"
    <3>1. CASE UNCHANGED <<ring, dPc>>
      BY <3>1
    <3>2. ASSUME NEW t \in Threads, Unlock(t), UNCHANGED dPc
          PROVE  ring # <<>>
      BY <1>0, <3>2 DEF Unlock, FramesTyped
    <3> QED
      BY <1>0, <1>3, <2>1, <3>1, <3>2, HandshakeKept
  <2> QED
    BY <1>0, <2>1, <2>2 DEF NoMissedNotification, InRecheck
<1> QED
  BY <1>1, <1>2, <1>3
-----------------------------------------------------------------------------
(* The frames.  Position is how far the holder of the mutex has come.      *)

Position == IF drain_lock = None THEN 0 ELSE at[drain_lock]
Placed == FramesTyped /\ ThreadsTyped /\ FlagsTyped /\ LockInv

(* The place of the drain is in the ring, and the drainer's own. *)
LEMMA PositionInRing ==
    ASSUME Placed
    PROVE  /\ Len(ring) \in Nat /\ Position \in Nat /\ Position <= Len(ring)
           /\ \A t \in Threads : pc[t] = "fan" => Position = at[t] /\ drain_lock = t
<1> USE DEF Placed
<1>1. Len(ring) \in Nat
  BY DEF FramesTyped
<1>2. \A t \in Threads : pc[t] = "fan" => Position = at[t] /\ drain_lock = t
  BY ReadAssumption DEF LockInv, Position
<1>3. Position \in Nat /\ Position <= Len(ring)
  BY <1>1, ReadAssumption DEF FlagsTyped, ThreadsTyped, LockInv, Position
<1> QED
  BY <1>1, <1>2, <1>3

(* What is fanned out is what was written but is not behind the position.  *)
LEMMA FannedOutByPosition ==
    Placed => \A c \in Channels :
                 FannedOut(c) = written[c] - CountBehind(c, ring, Position)
<1> SUFFICES ASSUME Placed, NEW c \in Channels
             PROVE  FannedOut(c) = written[c] - CountBehind(c, ring, Position)
  OBVIOUS
<1>1. ring \in Seq(Entries)
  BY DEF Placed, FramesTyped, Entries
<1>2. CASE drain_lock = None
  <2>1. NumberOf(c, ring) = CountBehind(c, ring, 0)
    BY <1>1, NumberOfIsCountBehind
  <2> QED
    BY <1>2, <2>1 DEF FannedOut, Position
<1>3. CASE drain_lock # None
  <2> DEFINE p == at[drain_lock]
             d == SubSeq(ring, p + 1, Len(ring))
  <2>1. Position = p
    BY <1>3 DEF Position
  <2>2. p \in Nat /\ p <= Len(ring) /\ Len(ring) \in Nat
    BY <2>1, PositionInRing
  <2>3. d \in Seq(Entries)
    BY <1>1, <2>2
  <2>4. NumberOf(c, d) = CountBehind(c, d, 0)
    BY <2>3, NumberOfIsCountBehind
  <2>5. CountBehind(c, d, 0) = CountBehind(c, ring, p + 0)
    BY <1>1, <2>2, DropEntries
  <2>6. p + 0 = p
    BY <2>2
  <2>7. FannedOut(c) = written[c] - NumberOf(c, d)
    BY <1>3 DEF FannedOut
  <2> QED
    BY <2>1, <2>4, <2>5, <2>6, <2>7
<1> QED
  BY <1>2, <1>3

(* Entries stay numbered in the order of their channel. *)
LEMMA RingStep ==
    ASSUME FramesTyped, ThreadsTyped, FlagsTyped, LockInv, RingNumbered, [Next]_vars
    PROVE  RingNumbered'
<1>0. ring \in Seq(Entries) /\ Len(ring) \in Nat /\ written \in [Channels -> 0 .. MaxFrames]
  BY DEF FramesTyped, Entries
<1>1. CASE Produce
  <2>1. PICK c \in Channels :
           /\ written[c] < MaxFrames
           /\ ring' = Append(ring, <<c, written[c] + 1>>)
           /\ written' = [written EXCEPT ![c] = @ + 1]
    BY <1>1 DEF Produce
  <2> DEFINE e == <<c, written[c] + 1>>
             n == Len(ring) + 1
  <2>2. e \in Entries /\ e[1] = c /\ e[2] = written[c] + 1
    BY <1>0, <2>1, ReadAssumption DEF Entries
  <2> HIDE DEF e
  <2>3. Len(ring') = n /\ ring'[n] = e /\ \A i \in 1 .. Len(ring) : ring'[i] = ring[i]
    BY <1>0, <2>1, <2>2 DEF e
  <2>4. ASSUME NEW i \in 1 .. Len(ring)
        PROVE  ring'[i][2] = written'[ring'[i][1]] - CountBehind(ring'[i][1], ring', i)
    <3> DEFINE d == ring[i][1]
    <3>1. ring'[i] = ring[i] /\ d \in Channels
      BY <1>0, <2>3 DEF Entries
    <3>2. ring[i][2] = written[d] - CountBehind(d, ring, i)
      BY DEF RingNumbered
    <3>3. CountBehind(d, ring', i)
            = CountBehind(d, ring, i) + (IF e[1] = d THEN 1 ELSE 0)
      <4>1. i \in Nat /\ i <= Len(ring) /\ ring' = Append(ring, e)
        BY <1>0, <2>1 DEF e
      <4> QED
        BY <1>0, <2>2, <4>1, AppendEntry
    <3>4. CountBehind(d, ring, i) \in Nat
      BY <1>0, BehindFinite
    <3>5. written'[d] = written[d] + (IF e[1] = d THEN 1 ELSE 0)
      BY <1>0, <2>1, <2>2, <3>1
    <3>6. written[d] \in Nat
      BY <1>0, <3>1
    <3> HIDE DEF d
    <3>7. ring[i][2] = written'[d] - CountBehind(d, ring', i)
      BY <3>2, <3>3, <3>4, <3>5, <3>6
    <3> QED
      BY <3>1, <3>7 DEF d
  <2>5. ring'[n][2] = written'[ring'[n][1]] - CountBehind(ring'[n][1], ring', n)
    <3>1. Behind(c, ring', n) = {}
      BY <1>0, <2>3 DEF Behind
    <3>2. CountBehind(c, ring', n) = 0
      BY <3>1, FS_EmptySet DEF CountBehind
    <3>3. written'[c] = written[c] + 1 /\ written[c] \in Nat
      BY <1>0, <2>1
    <3> QED
      BY <2>2, <2>3, <3>2, <3>3
  <2>6. 1 .. Len(ring') = (1 .. Len(ring)) \union {n}
    BY <1>0, <2>3
  <2> QED
    BY <2>4, <2>5, <2>6 DEF RingNumbered
<1>2. ASSUME NEW t \in Threads, Unlock(t)
      PROVE  RingNumbered'
  <2> DEFINE m == at[t]
  <2>1. m \in Nat /\ m <= Len(ring) /\ ring' = SubSeq(ring, m + 1, Len(ring))
        /\ written' = written
    BY <1>2, PositionInRing DEF Placed, Unlock, driverVars
  <2> HIDE DEF m
  <2>2. Len(ring') = Len(ring) - m /\ \A i \in 1 .. Len(ring') : ring'[i] = ring[m + i]
    BY <1>0, <2>1
  <2>3. ASSUME NEW i \in 1 .. Len(ring')
        PROVE  ring'[i][2] = written'[ring'[i][1]] - CountBehind(ring'[i][1], ring', i)
    <3>1. ring'[i] = ring[m + i] /\ m + i \in 1 .. Len(ring)
      BY <1>0, <2>1, <2>2
    <3>2. ring[m + i][2] = written[ring[m + i][1]] - CountBehind(ring[m + i][1], ring, m + i)
      BY <3>1 DEF RingNumbered
    <3>3. CountBehind(ring[m + i][1], ring', i) = CountBehind(ring[m + i][1], ring, m + i)
      BY <1>0, <2>1, DropEntries
    <3> QED
      BY <2>1, <3>1, <3>2, <3>3
  <2> QED
    BY <2>3 DEF RingNumbered
<1>3. CASE UNCHANGED <<ring, written>>
  BY <1>3 DEF RingNumbered
<1>4. \/ Produce \/ UNCHANGED <<ring, written>> \/ \E t \in Threads : Unlock(t)
  BY DEF Next, Step, vars, driverVars, drainVars, NotifyRxDataAvailable,
         CallBlocking, CallPoll, Expire, TakePacket, TakeNothing, Lock, FanOut, Check,
         Elect, LoadEpoch, Wake, BumpEpoch, Release, Arm, WaitForDataCheck,
         WaitForDataStore, WaitForDataRecheck, WaitForDataTake, Receive, ReceiveTimeout
<1> QED
  BY <1>1, <1>2, <1>3, <1>4
-----------------------------------------------------------------------------
(* What a reader of a channel has when n of its frames were fanned out.    *)
HasFirst(s, over, n) ==
    LET received == {s[i] : i \in DOMAIN s}
    IN  /\ \A i, j \in DOMAIN s : i < j => s[i] < s[j]
        /\ received \intersect over = {}
        /\ received \union over = 1 .. n

(* EachReaderOnce, as each thread having the first frames of its channel. *)
LEMMA EachReaderHas ==
    EachReaderOnce <=>
        \A t \in Threads :
            HasFirst(got[t] \o fifo[t], overflowed[t], FannedOut(ChannelOf[t]))
  BY DEF EachReaderOnce, HasFirst

(* What has been fanned out after a step, counted from the ring; *)
LEMMA FannedOutAfter ==
    Placed' => (\A c \in Channels :
                   FannedOut(c) = written[c] - CountBehind(c, ring, Position))'
  BY FannedOutByPosition, PTL

(* and EachReaderOnce after it, the same way. *)
LEMMA EachReaderHasAfter ==
    EachReaderOnce' <=>
        (\A t \in Threads :
            HasFirst(got[t] \o fifo[t], overflowed[t], FannedOut(ChannelOf[t])))'
  BY EachReaderHas, PTL

(* The next number, appended or counted out. *)
LEMMA NextNumber ==
    ASSUME NEW s \in Seq(Nat), NEW over \in SUBSET Nat, NEW n \in Nat, HasFirst(s, over, n)
    PROVE  /\ HasFirst(Append(s, n + 1), over, n + 1)
           /\ HasFirst(s, over \union {n + 1}, n + 1)
<1> DEFINE a == Append(s, n + 1)
<1>1. /\ DOMAIN s = 1 .. Len(s) /\ DOMAIN a = 1 .. Len(s) + 1 /\ Len(s) \in Nat
      /\ a[Len(s) + 1] = n + 1 /\ \A i \in DOMAIN s : a[i] = s[i]
  OBVIOUS
<1>2. {a[i] : i \in DOMAIN a} = {s[i] : i \in DOMAIN s} \union {n + 1}
  BY <1>1
<1>3. \A i \in DOMAIN s : s[i] \in 1 .. n
  BY DEF HasFirst
<1>4. over \subseteq 1 .. n
  BY DEF HasFirst
<1>5. (1 .. n) \union {n + 1} = 1 .. n + 1
  OBVIOUS
<1> HIDE DEF a
<1>6. \A i, j \in DOMAIN a : i < j => a[i] < a[j]
  BY <1>1, <1>3 DEF HasFirst
<1>7. HasFirst(a, over, n + 1)
  <2> DEFINE R == {s[i] : i \in DOMAIN s}
  <2>1. R \intersect over = {} /\ R \union over = 1 .. n
    BY DEF HasFirst
  <2>2. n + 1 \notin over
    BY <1>4
  <2>3. (R \union {n + 1}) \intersect over = {}
    BY <2>1, <2>2
  <2>4. (R \union {n + 1}) \union over = 1 .. n + 1
    BY <1>5, <2>1
  <2> HIDE DEF R
  <2>5. {a[i] : i \in DOMAIN a} = R \union {n + 1}
    BY <1>2 DEF R
  <2> QED
    BY <1>6, <2>3, <2>4, <2>5 DEF HasFirst
<1>8. HasFirst(s, over \union {n + 1}, n + 1)
  BY <1>3, <1>5 DEF HasFirst
<1> QED
  BY <1>7, <1>8 DEF a

(* The frame fanned out is the next one of its channel. *)
LEMMA FanOutIsNext ==
    ASSUME Placed, Placed', RingNumbered, NEW t \in Threads, FanOut(t)
    PROVE  LET e == ring[at[t] + 1]
           IN  /\ e \in Entries
               /\ \A c \in Channels :
                    IF c = e[1] THEN FannedOut(c) = e[2] - 1 /\ FannedOut(c)' = e[2]
                                ELSE FannedOut(c)' = FannedOut(c)
<1> DEFINE k == at[t]
           e == ring[k + 1]
<1>1. /\ k \in Nat /\ k < Len(ring) /\ Len(ring) \in Nat
      /\ Position = k /\ drain_lock = t /\ t # None
  <2>1. /\ pc[t] = "fan" /\ at[t] < limit[t]
        /\ limit[t] <= Len(ring) /\ at[t] \in Nat /\ limit[t] \in Nat
    BY ReadAssumption DEF FanOut, Placed, LockInv, ThreadsTyped
  <2> QED
    BY <2>1, PositionInRing, ReadAssumption
<1>2. e \in Entries /\ e[1] \in Channels /\ e[2] \in Nat
  <2>1. ring \in Seq(Entries)
    BY DEF Placed, FramesTyped, Entries
  <2>2. e \in Entries
    BY <1>1, <2>1
  <2> HIDE DEF e
  <2> QED
    BY <2>2 DEF Entries
<1>3. Position' = k + 1 /\ ring' = ring /\ written' = written
  BY <1>1 DEF FanOut, Placed, ThreadsTyped, Position, driverVars
<1>4. \A c \in Channels : written[c] \in Nat
  BY DEF Placed, FramesTyped
<1> HIDE DEF k
<1>5. \A c \in Channels :
         /\ CountBehind(c, ring, k + 1) \in Nat
         /\ CountBehind(c, ring, k) =
              CountBehind(c, ring, k + 1) + (IF e[1] = c THEN 1 ELSE 0)
  BY <1>1, BehindFinite, PassEntry
<1>6. e[2] = written[e[1]] - CountBehind(e[1], ring, k + 1)
  BY <1>1 DEF RingNumbered
<1>7. \A c \in Channels : FannedOut(c) = written[c] - CountBehind(c, ring, k)
  BY <1>1, FannedOutByPosition
<1>8. \A c \in Channels : FannedOut(c)' = written[c] - CountBehind(c, ring, k + 1)
  BY <1>3, FannedOutAfter
<1>9. ASSUME NEW c \in Channels, c = e[1]
      PROVE  FannedOut(c) = e[2] - 1 /\ FannedOut(c)' = e[2]
  <2>1. e[2] = written[c] - CountBehind(c, ring, k + 1)
    BY <1>6, <1>9
  <2>2. /\ CountBehind(c, ring, k + 1) \in Nat /\ written[c] \in Nat
        /\ CountBehind(c, ring, k) = CountBehind(c, ring, k + 1) + 1
    BY <1>4, <1>5, <1>9
  <2>3. /\ FannedOut(c) = written[c] - CountBehind(c, ring, k)
        /\ FannedOut(c)' = written[c] - CountBehind(c, ring, k + 1)
    BY <1>7, <1>8
  <2> HIDE DEF e
  <2> QED
    BY <2>1, <2>2, <2>3
<1>10. \A c \in Channels : c # e[1] => FannedOut(c)' = FannedOut(c)
  BY <1>4, <1>5, <1>7, <1>8
<1> QED
  BY <1>2, <1>9, <1>10 DEF k

(* Only FanOut fans out. *)
LEMMA FannedOutKept ==
    ASSUME Placed, Placed', [Next]_vars, \A t \in Threads : ~FanOut(t)
    PROVE  \A c \in Channels : FannedOut(c)' = FannedOut(c)
<1>0. /\ ring \in Seq(Entries) /\ Len(ring) \in Nat
      /\ written \in [Channels -> 0 .. MaxFrames]
      /\ Position \in Nat /\ Position <= Len(ring)
  BY PositionInRing DEF Placed, FramesTyped, Entries
<1> SUFFICES ASSUME NEW c \in Channels
             PROVE  written'[c] - CountBehind(c, ring', Position')
                      = written[c] - CountBehind(c, ring, Position)
  BY FannedOutByPosition, FannedOutAfter
<1>1. CASE Produce
  <2>1. PICK d \in Channels :
           /\ written[d] < MaxFrames
           /\ ring' = Append(ring, <<d, written[d] + 1>>)
           /\ written' = [written EXCEPT ![d] = @ + 1]
    BY <1>1 DEF Produce
  <2> DEFINE e == <<d, written[d] + 1>>
  <2>2. e \in Entries /\ e[1] = d
    BY <1>0, <2>1, ReadAssumption DEF Entries
  <2> HIDE DEF e
  <2>3. ring' = Append(ring, e)
    BY <2>1 DEF e
  <2>4. CountBehind(c, ring', Position)
          = CountBehind(c, ring, Position) + (IF e[1] = c THEN 1 ELSE 0)
    BY <1>0, <2>2, <2>3, AppendEntry
  <2>5. CountBehind(c, ring, Position) \in Nat /\ written[c] \in Nat
    BY <1>0, BehindFinite
  <2>6. Position' = Position
    BY <1>1 DEF Produce, Position
  <2>7. written'[c] = written[c] + (IF e[1] = c THEN 1 ELSE 0)
    BY <1>0, <2>1, <2>2
  <2> QED
    BY <2>4, <2>5, <2>6, <2>7
<1>2. ASSUME NEW t \in Threads, Lock(t)
      PROVE  written'[c] - CountBehind(c, ring', Position')
               = written[c] - CountBehind(c, ring, Position)
  <2>1. Position = 0 /\ Position' = 0
    BY <1>2, ReadAssumption DEF Lock, Position, Placed, ThreadsTyped
  <2> QED
    BY <1>2, <2>1 DEF Lock, driverVars
<1>3. ASSUME NEW t \in Threads, Unlock(t)
      PROVE  written'[c] - CountBehind(c, ring', Position')
               = written[c] - CountBehind(c, ring, Position)
  <2>1. Position = at[t] /\ Position' = 0 /\ written' = written
        /\ ring' = SubSeq(ring, at[t] + 1, Len(ring))
    BY <1>3, PositionInRing DEF Unlock, Position, driverVars
  <2>2. CountBehind(c, ring', 0) = CountBehind(c, ring, Position + 0)
    BY <1>0, <2>1, DropEntries
  <2>3. Position + 0 = Position
    BY <1>0
  <2> QED
    BY <2>1, <2>2, <2>3
<1>4. CASE UNCHANGED <<ring, written, drain_lock, at>>
  BY <1>4 DEF Position
<1>5. \/ Produce \/ UNCHANGED <<ring, written, drain_lock, at>>
      \/ \E t \in Threads : Lock(t) \/ Unlock(t) \/ FanOut(t)
  BY DEF Next, Step, vars, driverVars, drainVars, NotifyRxDataAvailable,
         CallBlocking, CallPoll, Expire, TakePacket, TakeNothing, Check,
         Elect, LoadEpoch, Wake, BumpEpoch, Release, Arm, WaitForDataCheck,
         WaitForDataStore, WaitForDataRecheck, WaitForDataTake, Receive, ReceiveTimeout
<1> QED
  BY <1>1, <1>2, <1>3, <1>4, <1>5

(* A step gives each reader each frame once, or changes nothing of it. *)
LEMMA EachReaderStep ==
    ASSUME Placed, Placed', RingNumbered, EachReaderOnce, [Next]_vars
    PROVE  EachReaderOnce'
<1>0. /\ got \in [Threads -> Seq(1 .. MaxFrames)] /\ fifo \in [Threads -> Seq(1 .. MaxFrames)]
      /\ overflowed \in [Threads -> SUBSET (1 .. MaxFrames)]
      /\ ChannelOf \in [Threads -> Channels] /\ MaxFrames \in Nat
  BY ReadAssumption DEF Placed, FramesTyped
<1> SUFFICES ASSUME NEW r \in Threads
             PROVE  HasFirst(got'[r] \o fifo'[r], overflowed'[r], FannedOut(ChannelOf[r])')
  BY EachReaderHasAfter
<1> DEFINE s == got[r] \o fifo[r]
           n == FannedOut(ChannelOf[r])
<1>1. HasFirst(s, overflowed[r], n)
  BY EachReaderHas
<1>2. ASSUME NEW t \in Threads, TakePacket(t)
      PROVE  HasFirst(got'[r] \o fifo'[r], overflowed'[r], n')
  <2>1. n' = n
    BY <1>2 DEF TakePacket, FannedOut, driverVars
  <2>2. got'[r] \o fifo'[r] = s
    <3>1. CASE r = t
      <4> DEFINE f == fifo[r]
                 g == got[r]
      <4>1. f \in Seq(1 .. MaxFrames) /\ g \in Seq(1 .. MaxFrames) /\ f # <<>>
        BY <1>0, <1>2, <3>1 DEF TakePacket
      <4>2. got'[r] = Append(g, Head(f)) /\ fifo'[r] = Tail(f)
        BY <1>0, <1>2, <3>1 DEF TakePacket
      <4> HIDE DEF f, g
      <4>3. Append(g, Head(f)) \o Tail(f) = g \o f
        BY <4>1
      <4> QED
        BY <4>2, <4>3 DEF f, g
    <3>2. CASE r # t
      BY <1>0, <1>2, <3>2 DEF TakePacket
    <3> QED
      BY <3>1, <3>2
  <2> QED
    BY <1>1, <1>2, <2>1, <2>2 DEF TakePacket
<1>3. ASSUME NEW t \in Threads, FanOut(t)
      PROVE  HasFirst(got'[r] \o fifo'[r], overflowed'[r], n')
  <2> DEFINE e == ring[at[t] + 1]
  <2>1. /\ e \in Entries
        /\ \A c \in Channels :
             IF c = e[1] THEN FannedOut(c) = e[2] - 1 /\ FannedOut(c)' = e[2]
                         ELSE FannedOut(c)' = FannedOut(c)
    BY <1>3, FanOutIsNext
  <2>2. got' = got
    BY <1>3 DEF FanOut
  <2>3. CASE ChannelOf[r] # e[1]
    <3>1. fifo'[r] = fifo[r] /\ overflowed'[r] = overflowed[r]
      BY <1>3, <2>3 DEF FanOut
    <3>2. n' = n
      BY <1>0, <2>1, <2>3
    <3> QED
      BY <1>1, <2>2, <3>1, <3>2
  <2>4. CASE ChannelOf[r] = e[1]
    <3>1. n \in Nat /\ n + 1 = e[2] /\ n' = n + 1
      <4>1. n = e[2] - 1 /\ n' = e[2]
        <5>1. ChannelOf[r] \in Channels
          BY <1>0
        <5> HIDE DEF e
        <5> QED
          BY <2>1, <2>4, <5>1
      <4>2. e[2] \in Nat /\ e[2] > 0
        <5> HIDE DEF e
        <5> QED
          BY <1>0, <2>1 DEF Entries
      <4> HIDE DEF n, e
      <4> QED
        BY <4>1, <4>2
    <3>2. s \in Seq(Nat) /\ overflowed[r] \in SUBSET Nat
      BY <1>0
    <3> HIDE DEF n, s
    <3>3. /\ HasFirst(Append(s, n + 1), overflowed[r], n + 1)
          /\ HasFirst(s, overflowed[r] \union {n + 1}, n + 1)
      BY <1>1, <3>1, <3>2, NextNumber
    <3>4. CASE Len(fifo[r]) = FifoCap
      <4>1. fifo'[r] = fifo[r] /\ overflowed'[r] = overflowed[r] \union {n + 1}
        BY <1>3, <2>4, <3>1, <3>4 DEF FanOut
      <4> QED
        BY <2>2, <3>1, <3>3, <4>1 DEF s
    <3>5. CASE Len(fifo[r]) # FifoCap
      <4>1. fifo'[r] = Append(fifo[r], n + 1) /\ overflowed'[r] = overflowed[r]
        BY <1>3, <2>4, <3>1, <3>5 DEF FanOut
      <4>2. got[r] \o Append(fifo[r], n + 1) = Append(s, n + 1)
        BY <1>0, <3>1 DEF s
      <4> QED
        BY <2>2, <3>1, <3>3, <4>1, <4>2
    <3> QED
      BY <3>4, <3>5
  <2> QED
    BY <2>3, <2>4
<1>4. CASE UNCHANGED <<got, fifo, overflowed>> /\ \A t \in Threads : ~FanOut(t)
  <2>1. n' = n
    BY <1>0, <1>4, FannedOutKept
  <2> QED
    BY <1>1, <1>4, <2>1
<1>5. UNCHANGED <<got, fifo, overflowed>> \/ \E t \in Threads : TakePacket(t) \/ FanOut(t)
  BY DEF Next, Step, vars, driverVars, drainVars, Produce, NotifyRxDataAvailable,
         CallBlocking, CallPoll, Expire, TakeNothing, Lock, Unlock, Check,
         Elect, LoadEpoch, Wake, BumpEpoch, Release, Arm, WaitForDataCheck,
         WaitForDataStore, WaitForDataRecheck, WaitForDataTake, Receive, ReceiveTimeout
<1> QED
  BY <1>2, <1>3, <1>4, <1>5
-----------------------------------------------------------------------------
(* The invariant holds at the start *)
LEMMA InitInv == Init => IInv
<1> SUFFICES ASSUME Init PROVE IInv
  OBVIOUS
<1> USE ReadAssumption DEF Init
<1>1. FramesTyped
  BY DEF FramesTyped
<1>2. FlagsTyped
  <2>1. waitPending \in BOOLEAN /\ pending = waitPending
    OBVIOUS
  <2>2. pending \in BOOLEAN
    BY <2>1, Zenon
  <2>3. dPc \in {"idle", "notify"} /\ msgs \in 0 .. 1
    OBVIOUS
  <2>4. drain_lock \in Threads \union {None} /\ drainer_active \in BOOLEAN
    OBVIOUS
  <2> QED
    BY <2>1, <2>2, <2>3, <2>4, Zenon DEF FlagsTyped
<1>3. ThreadsTyped
  BY DEF ThreadsTyped
<1>4. RoleInv /\ WaitInv
  BY DEF RoleInv, WaitInv, IsDrainer, DrainerSection
<1>5. LockInv
  BY DEF LockInv
<1>6. NotificationConserved
  BY DEF NotificationConserved
<1>7. NoMissedNotification /\ RingNumbered
  BY DEF NoMissedNotification, RingNumbered
<1>8. EachReaderOnce
  <2>1. \A c \in Channels : FannedOut(c) = 0
    <3>1. ASSUME NEW c \in Channels PROVE FannedOut(c) = 0
      <4>1. NumberOf(c, ring) = 0
        <5>1. {i \in DOMAIN ring : ring[i][1] = c} = {}
          OBVIOUS
        <5> QED
          BY <5>1, FS_EmptySet DEF NumberOf
      <4> QED
        BY <4>1 DEF FannedOut
    <3> QED
      BY <3>1
  <2>2. \A t \in Threads : got[t] \o fifo[t] = <<>> /\ overflowed[t] = {}
    OBVIOUS
  <2> QED
    BY <2>1, <2>2 DEF EachReaderOnce
<1> QED
  BY <1>1, <1>2, <1>3, <1>4, <1>5, <1>6, <1>7, <1>8, TypeParts DEF IInv

(* and is kept by every step. *)
LEMMA NextInv == IInv /\ [Next]_vars => IInv'
<1> SUFFICES ASSUME IInv, [Next]_vars PROVE IInv'
  OBVIOUS
<1>1. FramesTyped /\ FlagsTyped /\ ThreadsTyped
  BY TypeParts DEF IInv
<1>2. FramesTyped' /\ FlagsTyped' /\ ThreadsTyped' /\ LockInv'
  BY <1>1, FramesStep, FlagsStep, ThreadsStep, LockStep DEF IInv
<1>3. TypeOK'
  BY <1>2 DEF TypeOK, FramesTyped, FlagsTyped, ThreadsTyped
<1>4. RoleInv' /\ WaitInv'
  BY <1>1, RoleStep, WaitStep DEF IInv
<1>5. NotificationConserved' /\ NoMissedNotification'
  BY NotificationStep, NoMissedStep
<1>6. RingNumbered'
  BY <1>1, RingStep DEF IInv
<1>7. EachReaderOnce'
  BY <1>1, <1>2, EachReaderStep DEF IInv, Placed
<1> QED
  BY <1>2, <1>3, <1>4, <1>5, <1>6, <1>7 DEF IInv

(* The invariant that the step lemmas above keep. *)
THEOREM Invariance == Spec => []IInv
  BY InitInv, NextInv, PTL DEF Spec

(* readManyBlocking: the threads that share asyncPort, waitPending and the *)
(* WaitForData call use them one at a time, and drainer_active is set      *)
(* exactly while one does.                                                 *)
THEOREM OneDrainerAlways == Spec => []OneDrainer
<1>1. IInv => OneDrainer
  BY DEF IInv, RoleInv, OneDrainer
<1> QED
  BY <1>1, Invariance, PTL

(* WaitForData and NotifyRxDataAvailable: a completion the client waits    *)
(* for is stored in the user client or queued at the port, never both,     *)
(* never neither, whatever the interleaving with the driver's handler.     *)
THEOREM CompletionConserved == Spec => []NotificationConserved
<1>1. IInv => NotificationConserved
  BY DEF IInv
<1> QED
  BY <1>1, Invariance, PTL

(* The two race fixes of WaitForData: no completion stays stored over a    *)
(* ring with frames unless somebody is about to hand it over.              *)
THEOREM NotificationNotMissed == Spec => []NoMissedNotification
<1>1. IInv => NoMissedNotification
  BY DEF IInv
<1> QED
  BY <1>1, Invariance, PTL

(* drainRxFrames by whichever thread: a reader has received, has queued or *)
(* was counted out for exactly the frames of its channel fanned out so     *)
(* far, each once and in order.                                            *)
THEOREM FramesReachReadersOnce == Spec => []EachReaderOnce
<1>1. IInv => EachReaderOnce
  BY DEF IInv
<1> QED
  BY <1>1, Invariance, PTL
=============================================================================
