---------------------------- MODULE BlockingRead ----------------------------
(***************************************************************************)
(* How the reader threads of one CANClientImpl share the RX ring:          *)
(* readManyBlocking and readMany of the client, the WaitForData handshake  *)
(* with the driver's user client, and the driver writing and notifying.    *)
(*                                                                         *)
(* Each thread reads through its own CANClient copy, hence its own FIFO.   *)
(* Whoever holds drain_lock moves frames from the ring to the FIFOs.  One  *)
(* blocking thread at a time is the drainer: it waits for the driver in    *)
(* blockForData, drains, bumps drain_epoch and gives the role up.  The     *)
(* others sleep on drain_epoch, with no timeout of their own.              *)
(*                                                                         *)
(* The ring is abstracted to the FIFO that SharedRing is proved to         *)
(* implement; the reader FIFOs to sequences (ReaderFifo has their index    *)
(* arithmetic and registration).  drain_epoch only matters through "is it  *)
(* still the value this thread loaded", which is seen[t].  WaitForData and *)
(* the driver's completion handler interleave step by step: the code asks  *)
(* for cross-queue safety (usb_can_user_client.cpp:190).                   *)
(***************************************************************************)
EXTENDS Integers, Sequences, FiniteSets

CONSTANTS Threads,     \* reader threads, one CANClient copy each
          Channels,    \* CAN channels
          ChannelOf,   \* [Threads -> Channels], the channel of each copy
          RingCap,     \* frames the RX ring holds
          FifoCap,     \* kFrameFifoSize - 1, packets a reader FIFO holds
          MaxFrames,   \* bound of the model: frames written per channel
          None         \* no thread

ASSUME ReadAssumption ==
    /\ IsFiniteSet(Threads) /\ None \notin Threads
    /\ ChannelOf \in [Threads -> Channels]
    /\ RingCap \in Nat \ {0} /\ FifoCap \in Nat \ {0} /\ MaxFrames \in Nat

VARIABLES
    ring,          \* unread entries: <<channel, number>>
    written,       \* frames written so far, per channel
    dPc,           \* driver: "idle", or "notify" after a frame was written
    pending,       \* fPendingCompletion holds a completion
    msgs,          \* completion messages queued at asyncPort
    waitPending,   \* client: a WaitForData is believed outstanding
    drain_lock,    \* holder of the mutex
    drainer_active,
    pc, ctx,       \* per thread: where it is; why it drains
    limit, at,     \* per thread: entries in the ring when head was loaded,
                   \*   entries its local tail has passed since
    seen,          \* per thread: drain_epoch is still the value it loaded
    expired,       \* per thread: mach_absolute_time() >= deadline
    fifo,          \* per thread: the reader FIFO
    got,           \* history: what the caller received
    overflowed     \* history: frames not queued because the FIFO was full

driverVars == <<written, dPc>>
notifyVars == <<pending, msgs, waitPending>>
drainVars  == <<ring, drain_lock, limit, at, fifo, overflowed>>
vars == <<driverVars, notifyVars, drainVars, drainer_active, pc, ctx, seen,
          expired, got>>

Init ==
    /\ ring = <<>>
    /\ written = [c \in Channels |-> 0]
    /\ dPc = "idle"
    /\ waitPending \in BOOLEAN   \* did the probe of setupAsyncNotification
    /\ pending = waitPending     \*   time out, or complete at once?
    /\ msgs = 0
    /\ drain_lock = None
    /\ drainer_active = FALSE
    /\ pc = [t \in Threads |-> "idle"]
    /\ ctx = [t \in Threads |-> "poll"]
    /\ limit = [t \in Threads |-> 0] /\ at = [t \in Threads |-> 0]
    /\ seen = [t \in Threads |-> FALSE]
    /\ expired = [t \in Threads |-> FALSE]
    /\ fifo = [t \in Threads |-> <<>>]
    /\ got = [t \in Threads |-> <<>>]
    /\ overflowed = [t \in Threads |-> {}]

Goto(t, label) == pc' = [pc EXCEPT ![t] = label]

-----------------------------------------------------------------------------
(* The driver: ReadCompleteBundled writes frames, then notifies once. *)

Produce ==
    \E c \in Channels :
        /\ written[c] < MaxFrames
        /\ Len(ring) < RingCap
        /\ ring' = Append(ring, <<c, written[c] + 1>>)
        /\ written' = [written EXCEPT ![c] = @ + 1]
        /\ dPc' = "notify"
        /\ UNCHANGED <<notifyVars, drain_lock, limit, at, fifo, overflowed,
                       drainer_active, pc, ctx, seen, expired, got>>

(* Hand the pending completion, if any, to the client's port. *)
CompletePending ==
    /\ msgs' = IF pending THEN msgs + 1 ELSE msgs
    /\ pending' = FALSE

NotifyRxDataAvailable ==
    /\ dPc = "notify"
    /\ CompletePending
    /\ dPc' = "idle"
    /\ UNCHANGED <<written, waitPending, drainVars, drainer_active, pc, ctx,
                   seen, expired, got>>

-----------------------------------------------------------------------------
(* The caller. *)

CallBlocking(t) ==
    /\ pc[t] = "idle"
    /\ Goto(t, "lock")
    /\ ctx' = [ctx EXCEPT ![t] = "first"]
    /\ expired' = [expired EXCEPT ![t] = FALSE]
    /\ UNCHANGED <<driverVars, notifyVars, drainVars, drainer_active, seen, got>>

CallPoll(t) ==
    /\ pc[t] = "idle"
    /\ Goto(t, "lock")
    /\ ctx' = [ctx EXCEPT ![t] = "poll"]
    /\ UNCHANGED <<driverVars, notifyVars, drainVars, drainer_active, seen,
                   expired, got>>

(* readPacketFromReader until the FIFO is empty or max_packets is reached. *)
TakePacket(t) ==
    /\ pc[t] = "pop"
    /\ fifo[t] # <<>>
    /\ got' = [got EXCEPT ![t] = Append(@, Head(fifo[t]))]
    /\ fifo' = [fifo EXCEPT ![t] = Tail(@)]
    /\ \E label \in {"pop", "idle"} : Goto(t, label)
    /\ UNCHANGED <<driverVars, notifyVars, ring, drain_lock, limit, at, overflowed,
                   drainer_active, ctx, seen, expired>>

TakeNothing(t) ==
    /\ pc[t] = "pop"
    /\ fifo[t] = <<>>
    /\ Goto(t, "idle")
    /\ UNCHANGED <<driverVars, notifyVars, drainVars, drainer_active, ctx, seen,
                   expired, got>>

-----------------------------------------------------------------------------
(* drainRxFrames under drain_lock. *)

(* Mutant of Lock: the mutex is not waited for. *)
LockNoMutex(t) ==
    /\ pc[t] = "lock"
    /\ drain_lock' = t
    /\ limit' = [limit EXCEPT ![t] = Len(ring)]
    /\ at' = [at EXCEPT ![t] = 0]
    /\ Goto(t, "fan")
    /\ UNCHANGED <<driverVars, notifyVars, ring, fifo, overflowed,
                   drainer_active, ctx, seen, expired, got>>

Lock(t) ==
    /\ pc[t] = "lock"
    /\ drain_lock = None
    /\ drain_lock' = t
    /\ limit' = [limit EXCEPT ![t] = Len(ring)]
    /\ at' = [at EXCEPT ![t] = 0]
    /\ Goto(t, "fan")
    /\ UNCHANGED <<driverVars, notifyVars, ring, fifo, overflowed,
                   drainer_active, ctx, seen, expired, got>>

(* fanOutPacket for the next entry of the batch. *)
FanOut(t) ==
    /\ pc[t] = "fan"
    /\ at[t] < limit[t]
    /\ LET entry == ring[at[t] + 1]
           listens(r) == ChannelOf[r] = entry[1]
           full(r) == Len(fifo[r]) = FifoCap
       IN /\ fifo' = [r \in Threads |->
                        IF listens(r) /\ ~full(r)
                        THEN Append(fifo[r], entry[2]) ELSE fifo[r]]
          /\ overflowed' = [r \in Threads |->
                        IF listens(r) /\ full(r)
                        THEN overflowed[r] \union {entry[2]} ELSE overflowed[r]]
    /\ at' = [at EXCEPT ![t] = @ + 1]
    /\ UNCHANGED <<driverVars, notifyVars, ring, drain_lock, limit,
                   drainer_active, pc, ctx, seen, expired, got>>

AfterDrain == [first |-> "check", poll |-> "pop", block |-> "bump"]

(* Mutant of Unlock: the tail is never published. *)
UnlockNoPublish(t) ==
    /\ pc[t] = "fan"
    /\ at[t] = limit[t]
    /\ drain_lock' = None
    /\ limit' = [limit EXCEPT ![t] = 0]
    /\ at' = [at EXCEPT ![t] = 0]
    /\ Goto(t, AfterDrain[ctx[t]])
    /\ UNCHANGED <<driverVars, notifyVars, ring, fifo, overflowed, drainer_active,
                   ctx, seen, expired, got>>

(* The tail is published for the whole batch and the mutex released. *)
Unlock(t) ==
    /\ pc[t] = "fan"
    /\ at[t] = limit[t]
    /\ ring' = SubSeq(ring, at[t] + 1, Len(ring))
    /\ drain_lock' = None
    /\ limit' = [limit EXCEPT ![t] = 0]
    /\ at' = [at EXCEPT ![t] = 0]
    /\ Goto(t, AfterDrain[ctx[t]])
    /\ UNCHANGED <<driverVars, notifyVars, fifo, overflowed, drainer_active, ctx,
                   seen, expired, got>>

-----------------------------------------------------------------------------
(* The loop of readManyBlocking. *)

(* Mutant of Check: the deadline is not looked at. *)
CheckNoDeadline(t) ==
    /\ pc[t] = "check"
    /\ Goto(t, IF fifo[t] = <<>> THEN "elect" ELSE "pop")
    /\ UNCHANGED <<driverVars, notifyVars, drainVars, drainer_active, ctx, seen,
                   expired, got>>

(* The condition of the loop: leave it, or try to become the drainer. *)
Check(t) ==
    /\ pc[t] = "check"
    /\ Goto(t, IF fifo[t] = <<>> /\ ~expired[t] THEN "elect" ELSE "pop")
    /\ UNCHANGED <<driverVars, notifyVars, drainVars, drainer_active, ctx, seen,
                   expired, got>>

(* Mutant of Elect: the role is taken without the compare. *)
ElectAlways(t) ==
    /\ pc[t] = "elect"
    /\ drainer_active' = TRUE
    /\ Goto(t, "arm")
    /\ UNCHANGED <<driverVars, notifyVars, drainVars, ctx, seen, expired, got>>

(* compare_exchange_strong on drainer_active. *)
Elect(t) ==
    /\ pc[t] = "elect"
    /\ drainer_active' = TRUE
    /\ Goto(t, IF drainer_active THEN "load" ELSE "arm")
    /\ UNCHANGED <<driverVars, notifyVars, drainVars, ctx, seen, expired, got>>

(* A loser loads drain_epoch, then waits until it differs. *)
LoadEpoch(t) ==
    /\ pc[t] = "load"
    /\ seen' = [seen EXCEPT ![t] = TRUE]
    /\ Goto(t, "sleep")
    /\ UNCHANGED <<driverVars, notifyVars, drainVars, drainer_active, ctx,
                   expired, got>>

Wake(t) ==
    /\ pc[t] = "sleep"
    /\ ~seen[t]
    /\ Goto(t, "check")
    /\ UNCHANGED <<driverVars, notifyVars, drainVars, drainer_active, ctx, seen,
                   expired, got>>

(* Mutant of BumpEpoch: nobody is notified. *)
BumpSilently(t) ==
    /\ pc[t] = "bump"
    /\ Goto(t, "release")
    /\ UNCHANGED <<driverVars, notifyVars, drainVars, drainer_active, ctx, seen,
                   expired, got>>

(* The drainer after its drain: drain_epoch.fetch_add, notify_all. *)
BumpEpoch(t) ==
    /\ pc[t] = "bump"
    /\ seen' = [r \in Threads |-> FALSE]
    /\ Goto(t, "release")
    /\ UNCHANGED <<driverVars, notifyVars, drainVars, drainer_active, ctx,
                   expired, got>>

(* drainer_active.store(false): the role is free again. *)
Release(t) ==
    /\ pc[t] = "release"
    /\ drainer_active' = FALSE
    /\ Goto(t, "check")
    /\ UNCHANGED <<driverVars, notifyVars, drainVars, ctx, seen, expired, got>>

(* The deadline passes. *)
Expire(t) ==
    /\ pc[t] \notin {"idle", "pop"} /\ ctx[t] # "poll"
    /\ ~expired[t]
    /\ expired' = [expired EXCEPT ![t] = TRUE]
    /\ UNCHANGED <<driverVars, notifyVars, drainVars, drainer_active, pc, ctx,
                   seen, got>>

-----------------------------------------------------------------------------
(* blockForData, and WaitForData on the driver's side of the call. *)

Arm(t) ==
    /\ pc[t] = "arm"
    /\ Goto(t, IF waitPending THEN "receive" ELSE "wfd_check")
    /\ UNCHANGED <<driverVars, notifyVars, drainVars, drainer_active, ctx, seen,
                   expired, got>>

(* Race fix 1: complete at once when the ring has data. *)
WaitForDataCheck(t) ==
    /\ pc[t] = "wfd_check"
    /\ IF ring # <<>>
       THEN /\ msgs' = msgs + 1
            /\ waitPending' = TRUE
            /\ Goto(t, "receive")
       ELSE /\ Goto(t, "wfd_store")
            /\ UNCHANGED <<msgs, waitPending>>
    /\ UNCHANGED <<driverVars, pending, drainVars, drainer_active, ctx, seen,
                   expired, got>>

(* Store the completion; one found there is completed as aborted. *)
WaitForDataStore(t) ==
    /\ pc[t] = "wfd_store"
    /\ msgs' = IF pending THEN msgs + 1 ELSE msgs
    /\ pending' = TRUE
    /\ Goto(t, "wfd_recheck")
    /\ UNCHANGED <<driverVars, waitPending, drainVars, drainer_active, ctx, seen,
                   expired, got>>

(* Mutant of WaitForDataRecheck: the ring is not looked at again. *)
WaitForDataNoRecheck(t) ==
    /\ pc[t] = "wfd_recheck"
    /\ waitPending' = TRUE
    /\ Goto(t, "receive")
    /\ UNCHANGED <<driverVars, pending, msgs, drainVars, drainer_active, ctx,
                   seen, expired, got>>

(* Race fix 2: data may have arrived before the completion was stored. *)
WaitForDataRecheck(t) ==
    /\ pc[t] = "wfd_recheck"
    /\ IF ring # <<>>
       THEN /\ Goto(t, "wfd_take")
            /\ UNCHANGED waitPending
       ELSE /\ waitPending' = TRUE
            /\ Goto(t, "receive")
    /\ UNCHANGED <<driverVars, pending, msgs, drainVars, drainer_active, ctx,
                   seen, expired, got>>

WaitForDataTake(t) ==
    /\ pc[t] = "wfd_take"
    /\ CompletePending
    /\ waitPending' = TRUE
    /\ Goto(t, "receive")
    /\ UNCHANGED <<driverVars, drainVars, drainer_active, ctx, seen, expired, got>>

(* Mutant of Receive: waitPending stays set. *)
ReceiveKeepFlag(t) ==
    /\ pc[t] = "receive"
    /\ msgs > 0
    /\ msgs' = msgs - 1
    /\ Goto(t, "lock")
    /\ ctx' = [ctx EXCEPT ![t] = "block"]
    /\ UNCHANGED <<driverVars, pending, waitPending, drainVars, drainer_active,
                   seen, expired, got>>

(* mach_msg: a message, or two milliseconds without one. *)
Receive(t) ==
    /\ pc[t] = "receive"
    /\ msgs > 0
    /\ msgs' = msgs - 1
    /\ waitPending' = FALSE
    /\ Goto(t, "lock")
    /\ ctx' = [ctx EXCEPT ![t] = "block"]
    /\ UNCHANGED <<driverVars, pending, drainVars, drainer_active, seen, expired,
                   got>>

ReceiveTimeout(t) ==
    /\ pc[t] = "receive"
    /\ msgs = 0
    /\ Goto(t, "lock")
    /\ ctx' = [ctx EXCEPT ![t] = "block"]
    /\ UNCHANGED <<driverVars, notifyVars, drainVars, drainer_active, seen,
                   expired, got>>

-----------------------------------------------------------------------------
(* What thread t does inside a call it has made. *)
Step(t) ==
    \/ TakePacket(t) \/ TakeNothing(t)
    \/ Lock(t) \/ FanOut(t) \/ Unlock(t)
    \/ Check(t) \/ Elect(t) \/ LoadEpoch(t) \/ Wake(t)
    \/ BumpEpoch(t) \/ Release(t)
    \/ Arm(t) \/ WaitForDataCheck(t) \/ WaitForDataStore(t)
    \/ WaitForDataRecheck(t) \/ WaitForDataTake(t)
    \/ Receive(t) \/ ReceiveTimeout(t)

Next ==
    \/ Produce \/ NotifyRxDataAvailable
    \/ \E t \in Threads :
         CallBlocking(t) \/ CallPoll(t) \/ Step(t) \/ Expire(t)

Spec == Init /\ [][Next]_vars

(* Threads inside a call keep running, the mutex is handed to a thread     *)
(* that keeps asking for it, the clock advances and the driver's handler   *)
(* finishes.  Nothing makes a caller call, or a frame arrive.              *)
Fairness ==
    /\ WF_vars(NotifyRxDataAvailable)
    /\ \A t \in Threads : /\ WF_vars(Step(t))
                          /\ SF_vars(Lock(t))
                          /\ WF_vars(Expire(t))

FairSpec == Spec /\ Fairness

-----------------------------------------------------------------------------
DrainerSection ==
    {"arm", "wfd_check", "wfd_store", "wfd_recheck", "wfd_take", "receive",
     "bump", "release"}

IsDrainer(t) ==
    \/ pc[t] \in DrainerSection
    \/ pc[t] \in {"lock", "fan"} /\ ctx[t] = "block"

(* The values each variable takes in every reachable state.                *)
TypeOK ==
    /\ written \in [Channels -> 0 .. MaxFrames]
    /\ ring \in Seq(Channels \X (1 .. MaxFrames)) /\ Len(ring) <= RingCap
    /\ dPc \in {"idle", "notify"}
    /\ pending \in BOOLEAN /\ msgs \in 0 .. 1 /\ waitPending \in BOOLEAN
    /\ drain_lock \in Threads \union {None}
    /\ drainer_active \in BOOLEAN
    /\ pc \in [Threads -> DrainerSection \union
                 {"idle", "lock", "fan", "check", "elect", "load", "sleep", "pop"}]
    /\ ctx \in [Threads -> {"first", "poll", "block"}]
    /\ limit \in [Threads -> 0 .. RingCap] /\ at \in [Threads -> 0 .. RingCap]
    /\ seen \in [Threads -> BOOLEAN] /\ expired \in [Threads -> BOOLEAN]
    /\ fifo \in [Threads -> Seq(1 .. MaxFrames)]
    /\ got \in [Threads -> Seq(1 .. MaxFrames)]
    /\ overflowed \in [Threads -> SUBSET (1 .. MaxFrames)]

(* asyncPort, waitPending and the WaitForData call are shared by the       *)
(* reader threads without a lock: only drainer_active keeps two of them    *)
(* from using them at once, and it is set exactly while one does.          *)
OneDrainer ==
    /\ TypeOK
    /\ \A t, u \in Threads : IsDrainer(t) /\ IsDrainer(u) => t = u
    /\ drainer_active <=> \E t \in Threads : IsDrainer(t)

(* A WaitForData the client believes outstanding has exactly one place     *)
(* where its completion is: stored in the user client, or queued at the    *)
(* port.  None is lost between check, store, re-check and notify, and      *)
(* none is completed twice.                                                *)
NotificationConserved ==
    LET armed == \/ waitPending
                 \/ \E t \in Threads : pc[t] \in {"wfd_recheck", "wfd_take"}
        there == (IF pending THEN 1 ELSE 0) + msgs
    IN  there = IF armed THEN 1 ELSE 0

(* While frames wait in the ring, a stored completion is about to be       *)
(* handed over, by the driver's notification or by WaitForData's second    *)
(* check: the client never waits out its timeout with data there.          *)
NoMissedNotification ==
    pending /\ ring # <<>> =>
        \/ dPc = "notify"
        \/ \E t \in Threads : pc[t] \in {"wfd_recheck", "wfd_take"}

NumberOf(c, s) == Cardinality({i \in DOMAIN s : s[i][1] = c})
FannedOut(c) ==
    written[c] - NumberOf(c, IF drain_lock = None THEN ring
                             ELSE SubSeq(ring, at[drain_lock] + 1, Len(ring)))

(* Whatever threads drain, each frame of a channel fanned out so far was   *)
(* queued to every reader of the channel exactly once and in order, or     *)
(* counted out because that reader's FIFO was full; other channels' frames *)
(* never reach it.                                                         *)
EachReaderOnce ==
    \A t \in Threads :
        LET s == got[t] \o fifo[t]
            received == {s[i] : i \in DOMAIN s}
        IN  /\ \A i, j \in DOMAIN s : i < j => s[i] < s[j]
            /\ received \intersect overflowed[t] = {}
            /\ received \union overflowed[t] = 1 .. FannedOut(ChannelOf[t])

-----------------------------------------------------------------------------
(* A call keeps going until it returns, or sleeps on drain_epoch: the      *)
(* deadline ends the loop whoever has the role, and a thread that has it   *)
(* gives it up before it returns.                                          *)
RunsOrSleeps == \A t \in Threads : []<>(pc[t] \in {"idle", "sleep"})

(* A frame in the ring when a drainer is waiting for the driver is moved   *)
(* out of the ring.                                                        *)
WaitingDrainerDrains ==
    \A c \in Channels, k \in 1 .. MaxFrames :
        LET inRing == \E i \in DOMAIN ring : ring[i] = <<c, k>>
        IN  inRing /\ (\E t \in Threads : pc[t] = "receive") ~> ~inRing

(* A thread asleep while another waits for the driver wakes up.            *)
SleeperWoken ==
    \A t, u \in Threads :
        pc[t] = "sleep" /\ pc[u] = "receive" ~> pc[t] # "sleep"

(* can_client.h:84 says of readManyBlocking that it blocks "up to          *)
(* timeoutMs", and every other call returns too.                           *)
CallReturns == \A t \in Threads : pc[t] # "idle" ~> pc[t] = "idle"
=============================================================================
