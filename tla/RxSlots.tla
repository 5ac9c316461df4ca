------------------------------- MODULE RxSlots -------------------------------
(***************************************************************************)
(* The bundled reads of the driver: StartIO and StopIO, the slot states,   *)
(* SubmitPendingReads, and ReadCompleteBundled with the codec it feeds.    *)
(*                                                                         *)
(* All of them run on the driver's default queue, one at a time; the USB   *)
(* stack accepts, completes and aborts reads in between.  A bulk pipe      *)
(* completes its reads in the order submitted; a bundle is a run of        *)
(* consecutive slots of one session, wrapping at the end of the ring.      *)
(*                                                                         *)
(* Of the data a read brings, only whether it ends in the middle of a line *)
(* matters: the SLCAN codec keeps such a part (bufLen_ > 0).               *)
(***************************************************************************)
EXTENDS Integers, Sequences, FiniteSets

CONSTANTS RX_RING_SIZE,   \* number of slots
          AbortDelivers,  \* the completions of aborted reads are handled
                          \*   before the next StartIO
          PartialAccept,  \* the values of partial considered
          MaxSessions,    \* bound of the model: calls of StartIO
          MaxFailures     \* bound of the model: failures of AsyncIOBundled

ASSUME SlotsAssumption ==
    /\ RX_RING_SIZE \in Nat \ {0}
    /\ AbortDelivers \in BOOLEAN
    /\ PartialAccept \subseteq BOOLEAN
    /\ MaxSessions \in Nat /\ MaxFailures \in Nat

VARIABLES
    partial,           \* whether AsyncIOBundled may accept a part of what it
                       \*   is given; fixed for the behaviour
    fIsRunning,
    fRxSlotState,      \* per slot: "free" or "inflight"
    fRxSlotsInFlight,
    pipe,              \* reads the USB stack has: <<session, slot>>
    completions,       \* bundles not yet handled
    residue,           \* the codec holds part of a line
    session,           \* StartIO calls so far
    failures,          \* failures of AsyncIOBundled so far
    took               \* history: the last submission took a read

vars == <<partial, fIsRunning, fRxSlotState, fRxSlotsInFlight, pipe,
          completions, residue, session, failures, took>>

Slots == 0 .. RX_RING_SIZE - 1
Wrap(i) == i % RX_RING_SIZE

Init ==
    /\ partial \in PartialAccept
    /\ fIsRunning = FALSE
    /\ fRxSlotState = [i \in Slots |-> "free"]
    /\ fRxSlotsInFlight = 0
    /\ pipe = <<>> /\ completions = <<>>
    /\ residue = FALSE
    /\ session = 0 /\ failures = 0
    /\ took = FALSE

-----------------------------------------------------------------------------
(* SubmitPendingReads, on the slot states and count the caller has set.    *)

FreeSlots(state) == {i \in Slots : state[i] = "free"}
FirstFree(state) == CHOOSE i \in FreeSlots(state) :
                        \A j \in FreeSlots(state) : i <= j

(* Length of the run from the first free slot: to the next slot in flight, *)
(* and on from slot 0 if it reaches the end of the ring.                   *)
RunLength(state) ==
    LET start == FirstFree(state)
        ends == {n \in 1 .. RX_RING_SIZE :
                    n = RX_RING_SIZE \/ state[Wrap(start + n)] # "free"}
    IN  CHOOSE n \in ends : \A m \in ends : n <= m

(* How many reads the stack accepts when it reports success; in part may   *)
(* be none, which SubmitPendingReads allows for and does not report.       *)
Accepted(run) == IF partial THEN 0 .. run ELSE {run}

(* Mutant of SubmitPendingReads: the count is not kept. *)
SubmitUncounted(state, count, s, queue) ==
    LET start == FirstFree(state)
    IN  \E accepted \in Accepted(RunLength(state)) :
            /\ fRxSlotState' = [i \in Slots |->
                 IF \E k \in 0 .. accepted - 1 : i = Wrap(start + k)
                 THEN "inflight" ELSE state[i]]
            /\ fRxSlotsInFlight' = count
            /\ pipe' = queue \o
                 [k \in 1 .. accepted |-> <<s, Wrap(start + k - 1)>>]
            /\ took' = (accepted > 0)
            /\ UNCHANGED failures

(* Mutant of SubmitPendingReads: the reads are submitted from slot 0.      *)
SubmitFromZero(state, count, s, queue) ==
    LET start == FirstFree(state)
    IN  \E accepted \in Accepted(RunLength(state)) :
            /\ fRxSlotState' = [i \in Slots |->
                 IF \E k \in 0 .. accepted - 1 : i = Wrap(start + k)
                 THEN "inflight" ELSE state[i]]
            /\ fRxSlotsInFlight' = count + accepted
            /\ pipe' = queue \o [k \in 1 .. accepted |-> <<s, k - 1>>]
            /\ took' = (accepted > 0)
            /\ UNCHANGED failures

(* The USB stack accepts the run, a part of it or none, or fails.          *)
SubmitPendingReads(state, count, s, queue) ==
    LET start == FirstFree(state)
    IN  \/ \E accepted \in Accepted(RunLength(state)) :
             /\ fRxSlotState' = [i \in Slots |->
                  IF \E k \in 0 .. accepted - 1 : i = Wrap(start + k)
                  THEN "inflight" ELSE state[i]]
             /\ fRxSlotsInFlight' = count + accepted
             /\ pipe' = queue \o
                  [k \in 1 .. accepted |-> <<s, Wrap(start + k - 1)>>]
             /\ took' = (accepted > 0)
             /\ UNCHANGED failures
        \/ /\ failures < MaxFailures
           /\ failures' = failures + 1
           /\ fRxSlotState' = state
           /\ fRxSlotsInFlight' = count
           /\ pipe' = queue
           /\ took' = FALSE

-----------------------------------------------------------------------------
(* The driver's handlers. *)

NothingOutstanding == pipe = <<>> /\ completions = <<>>
AllFree == [i \in Slots |-> "free"]

(* StartIO with StartAsyncRead: when the submission fails it does not run; *)
(* when it succeeds with no read accepted, it does.                        *)
StartIO ==
    /\ ~fIsRunning
    /\ session < MaxSessions
    /\ AbortDelivers => NothingOutstanding
    /\ session' = session + 1
    /\ SubmitPendingReads(AllFree, 0, session + 1, pipe)
    /\ fIsRunning' = (failures' = failures)
    /\ UNCHANGED <<partial, completions, residue>>

(* StopIO: the codec is reset, then the pipe aborted; each read still      *)
(* there comes back as aborted.                                            *)
StopIO ==
    /\ fIsRunning
    /\ fIsRunning' = FALSE
    /\ residue' = FALSE
    /\ completions' = completions \o
         [i \in 1 .. Len(pipe) |->
             [session |-> pipe[i][1], first |-> pipe[i][2],
              kinds |-> <<"aborted">>]]
    /\ pipe' = <<>>
    /\ fRxSlotState' = AllFree
    /\ fRxSlotsInFlight' = 0
    /\ UNCHANGED <<partial, session, failures, took>>

CountAfter(n) == IF fRxSlotsInFlight > n THEN fRxSlotsInFlight - n ELSE 0

(* What the codec holds after a bundle: the last read with data decides.   *)
ResidueAfter(bundle) ==
    LET data == {i \in DOMAIN bundle.kinds :
                    bundle.kinds[i] \in {"whole", "part"}}
    IN  IF data = {} THEN residue
        ELSE bundle.kinds[CHOOSE i \in data : \A j \in data : j <= i] = "part"

(* Mutant of ReadCompleteBundled: nothing is submitted again. *)
ReadCompleteNoSubmit ==
    /\ completions # <<>>
    /\ LET bundle == Head(completions)
           n == Len(bundle.kinds)
       IN  /\ fRxSlotState' = [i \in Slots |->
                 IF \E k \in 0 .. n - 1 : i = Wrap(bundle.first + k)
                 THEN "free" ELSE fRxSlotState[i]]
           /\ fRxSlotsInFlight' = CountAfter(n)
           /\ residue' = ResidueAfter(bundle)
    /\ completions' = Tail(completions)
    /\ UNCHANGED <<partial, fIsRunning, pipe, session, failures, took>>

(* ReadCompleteBundled: decode, free the slots, submit again if running.   *)
ReadCompleteBundled ==
    /\ completions # <<>>
    /\ LET bundle == Head(completions)
           n == Len(bundle.kinds)
           state == [i \in Slots |->
                       IF \E k \in 0 .. n - 1 : i = Wrap(bundle.first + k)
                       THEN "free" ELSE fRxSlotState[i]]
           count == CountAfter(n)
       IN  /\ residue' = ResidueAfter(bundle)
           /\ IF fIsRunning
              THEN SubmitPendingReads(state, count, session, pipe)
              ELSE /\ fRxSlotState' = state
                   /\ fRxSlotsInFlight' = count
                   /\ UNCHANGED <<pipe, failures, took>>
    /\ completions' = Tail(completions)
    /\ UNCHANGED <<partial, fIsRunning, session>>

-----------------------------------------------------------------------------
(* The USB stack: reads at the head of the pipe complete as one bundle.    *)

Bundleable(n) ==
    \A k \in 1 .. n :
        pipe[k] = <<pipe[1][1], Wrap(pipe[1][2] + k - 1)>>

Complete ==
    /\ pipe # <<>>
    /\ \E n \in 1 .. Len(pipe) :
         /\ Bundleable(n)
         /\ \E kind \in {"whole", "part", "error"} :
              completions' = Append(completions,
                  [session |-> pipe[1][1], first |-> pipe[1][2],
                   kinds |-> [k \in 1 .. n |-> kind]])
         /\ pipe' = SubSeq(pipe, n + 1, Len(pipe))
    /\ UNCHANGED <<partial, fIsRunning, fRxSlotState, fRxSlotsInFlight,
                   residue, session, failures, took>>

-----------------------------------------------------------------------------
Next == StartIO \/ StopIO \/ ReadCompleteBundled \/ Complete

Spec == Init /\ [][Next]_vars

\* The adapter keeps sending, and its completions are handled.
FairSpec == Spec /\ WF_vars(Complete) /\ SF_vars(ReadCompleteBundled)

-----------------------------------------------------------------------------
Kinds == {"whole", "part", "error", "aborted"}

(* Slots of session s whose read is not finished: with the USB stack, or   *)
(* completed and not yet handled.                                          *)
Outstanding(s) ==
    {pipe[i][2] : i \in {j \in DOMAIN pipe : pipe[j][1] = s}}
    \union UNION {{Wrap(completions[i].first + k) :
                      k \in 0 .. Len(completions[i].kinds) - 1} :
                  i \in {j \in DOMAIN completions :
                            completions[j].session = s}}

BundledReads ==
    Cardinality(UNION {{i} \X DOMAIN completions[i].kinds :
                          i \in DOMAIN completions})

(* The values each variable takes in every reachable state.                *)
TypeOK ==
    /\ partial \in PartialAccept
    /\ fIsRunning \in BOOLEAN
    /\ fRxSlotState \in [Slots -> {"free", "inflight"}]
    /\ fRxSlotsInFlight \in 0 .. RX_RING_SIZE
    /\ pipe \in Seq((1 .. MaxSessions) \X Slots)
    /\ \A i \in DOMAIN completions :
         /\ completions[i].first \in Slots
         /\ completions[i].kinds \in Seq(Kinds)
    /\ residue \in BOOLEAN
    /\ session \in 0 .. MaxSessions /\ failures \in 0 .. MaxFailures
    /\ took \in BOOLEAN

(* While the driver runs, a read is outstanding, unless the last           *)
(* submission took none: it failed, or the stack accepted none.  One that  *)
(* took none while other reads were out is made good by the next.          *)
NeverStarved ==
    fIsRunning /\ NothingOutstanding => ~took

(* What StartIO's success suggests: while the driver runs and no call of   *)
(* AsyncIOBundled has failed, a read is out.  The code does not ensure it: *)
(* it takes a success with no read accepted for one.                       *)
SuccessIsReception ==
    fIsRunning /\ failures = 0 => ~NothingOutstanding

(* While the driver runs, the slots marked in flight are those whose read  *)
(* has been submitted and not handled, fRxSlotsInFlight counts them, and   *)
(* there is one unless the last submission took none.                      *)
SlotsExact ==
    /\ TypeOK
    /\ NeverStarved
    /\ fIsRunning =>
        /\ {i \in Slots : fRxSlotState[i] = "inflight"} = Outstanding(session)
        /\ fRxSlotsInFlight = Cardinality(Outstanding(session))

(* A slot's buffer is never given to a second read before the first is     *)
(* decoded.                                                                *)
BufferUsedOnce ==
    Len(pipe) + BundledReads = Cardinality(Outstanding(session))
                             + Cardinality(UNION {{s} \X Outstanding(s) :
                                                    s \in 1 .. session - 1})

(* A slot that a submission left free, as it does when free slots lie at   *)
(* both ends of the ring, is submitted by a later one while the adapter    *)
(* keeps sending and AsyncIOBundled neither fails nor accepts in part.     *)
FreeSlotResubmitted ==
    \A i \in Slots :
        fIsRunning /\ fRxSlotState[i] = "free" /\ ~partial /\ failures = 0
            ~> fRxSlotState[i] = "inflight" \/ ~fIsRunning \/ failures > 0

(* "Codec cleanup" in StopIO: a session starts with no part of a line left *)
(* over from the one before.                                               *)
CleanStart ==
    [][~fIsRunning /\ fIsRunning' => ~residue]_vars
=============================================================================
