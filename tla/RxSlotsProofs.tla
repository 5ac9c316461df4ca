---------------------------- MODULE RxSlotsProofs ----------------------------
(***************************************************************************)
(* Proofs about RxSlots, for every number of slots and every bound.        *)
(*                                                                         *)
(* The argument.  A read has one place: a position of the pipe, or a       *)
(* position of a bundle not yet handled.  No two places have the same slot *)
(* (ApartInv), because a submission takes a run of slots that are free,    *)
(* and while the driver runs the free slots are exactly those no place has *)
(* (ExactInv).  Both need the completions of one session to be handled     *)
(* before the next (AbortDelivers): a completion handled later frees a     *)
(* slot that is no longer its own.  That the count stays behind the number *)
(* of slots in flight needs nothing (CountInv).                            *)
(***************************************************************************)
EXTENDS RxSlots, FiniteSetTheorems, TLAPS
-----------------------------------------------------------------------------
(* Remainders, the least of a set of numbers, sequences joined and cut.    *)

(* The remainder is unique. *)
LEMMA ModUnique ==
    ASSUME NEW m \in Nat \ {0}, NEW q \in Int, NEW r \in 0 .. m - 1
    PROVE  (m * q + r) % m = r
  OBVIOUS

(* Two positions less than m apart have different remainders. *)
LEMMA ModInjective ==
    ASSUME NEW m \in Nat \ {0}, NEW a \in Int, NEW b \in Int,
           a < b, b - a < m
    PROVE  a % m # b % m
<1> DEFINE d == (b \div m) - (a \div m)
<1>1. d \in Int /\ (a % m = b % m => b - a = m * d)
  OBVIOUS
<1> HIDE DEF d
<1>2. (d <= 0 => m * d <= 0) /\ (d >= 1 => m * d >= m)
  BY <1>1
<1> QED
  BY <1>1, <1>2

(* A set of naturals has a least element. *)
LEMMA LeastNatural ==
    ASSUME NEW S, S \subseteq Nat, S # {}
    PROVE  \E m \in S : \A k \in S : m <= k
<1>1. PICK m \in S : \A k \in S : ~ (<<k, m>> \in OpToRel(<, Nat))
  BY WFMin, NatLessThanWellFounded, Zenon
<1>2. \A k \in S : ~ (k < m)
  BY <1>1 DEF OpToRel
<1> QED
  BY <1>2

(* One sequence after another. *)
LEMMA Concatenation ==
    ASSUME NEW S, NEW s \in Seq(S), NEW t \in Seq(S)
    PROVE  /\ Len(s) \in Nat /\ DOMAIN s = 1 .. Len(s)
           /\ Len(t) \in Nat /\ DOMAIN t = 1 .. Len(t)
           /\ s \o t \in Seq(S) /\ Len(s \o t) = Len(s) + Len(t)
           /\ DOMAIN (s \o t) = 1 .. Len(s) + Len(t)
           /\ \A i \in 1 .. Len(s) : (s \o t)[i] = s[i]
           /\ \A i \in 1 .. Len(t) : (s \o t)[Len(s) + i] = t[i]
  OBVIOUS

(* What is left of a sequence without its first n elements. *)
LEMMA Dropped ==
    ASSUME NEW S, NEW s \in Seq(S), NEW n \in 0 .. Len(s)
    PROVE  /\ DOMAIN SubSeq(s, n + 1, Len(s)) = 1 .. Len(s) - n
           /\ \A i \in 1 .. Len(s) - n : SubSeq(s, n + 1, Len(s))[i] = s[n + i]
  OBVIOUS

USE SlotsAssumption DEF Slots, Wrap

-----------------------------------------------------------------------------
(* The inductive invariant.                                                *)

Run(first, n) == {Wrap(first + k) : k \in 0 .. n - 1}

Marked(state) == {i \in Slots : state[i] = "inflight"}

InFlight == Marked(fRxSlotState)

Bundles == [session : 1 .. MaxSessions, first : Slots, kinds : Seq(Kinds)]

ControlTypes ==
    /\ partial \in PartialAccept
    /\ fIsRunning \in BOOLEAN
    /\ residue \in BOOLEAN
    /\ session \in 0 .. MaxSessions /\ failures \in 0 .. MaxFailures
    /\ took \in BOOLEAN
    /\ fIsRunning => session > 0

SlotTypes ==
    /\ fRxSlotState \in [Slots -> {"free", "inflight"}]
    /\ fRxSlotsInFlight \in Nat

QueueTypes ==
    /\ pipe \in Seq((1 .. MaxSessions) \X Slots)
    /\ completions \in Seq(Bundles)
    /\ \A i \in DOMAIN completions : completions[i].kinds # <<>>

(* The count is never ahead of the slots: a stale completion frees a slot  *)
(* at most once for each it subtracts.                                     *)
CountInv == fRxSlotsInFlight <= Cardinality(InFlight)

StateInv ==
    ControlTypes /\ SlotTypes /\ QueueTypes /\ CountInv /\ NeverStarved

InPipe(s) == \E i \in DOMAIN pipe : pipe[i][2] = s

BundleRun(i) == Run(completions[i].first, Len(completions[i].kinds))

InBundle(s) == \E i \in DOMAIN completions : s \in BundleRun(i)

(* All that is outstanding is of this session, and none is with the stack  *)
(* once the driver has stopped.                                            *)
CurrentInv ==
    /\ \A i \in DOMAIN pipe : pipe[i][1] = session
    /\ \A i \in DOMAIN completions : completions[i].session = session
    /\ ~fIsRunning => pipe = <<>>

(* No slot has two places.                                                 *)
PipeApart == \A i, j \in DOMAIN pipe : pipe[i][2] = pipe[j][2] => i = j

BundlesApart ==
    /\ \A i \in DOMAIN completions :
         Len(completions[i].kinds) <= RX_RING_SIZE
    /\ \A i, j \in DOMAIN completions : \A s \in Slots :
         s \in BundleRun(i) /\ s \in BundleRun(j) => i = j

PlacesApart == \A s \in Slots : ~ (InPipe(s) /\ InBundle(s))

ApartInv == PipeApart /\ BundlesApart /\ PlacesApart

(* The slots in flight are those with a place, and they are counted.       *)
ExactInv ==
    fIsRunning =>
        /\ \A s \in Slots : s \in InFlight <=> InPipe(s) \/ InBundle(s)
        /\ fRxSlotsInFlight = Cardinality(InFlight)

ReadInv == CurrentInv /\ ApartInv /\ ExactInv

IInv == StateInv /\ (AbortDelivers => ReadInv)
-----------------------------------------------------------------------------
(* Runs of slots. *)

(* Two steps from a slot that are less than a turn apart meet no slot      *)
(* twice.                                                                  *)
LEMMA StepsApart ==
    ASSUME NEW first \in Slots, NEW j \in 0 .. RX_RING_SIZE - 1,
           NEW k \in 0 .. RX_RING_SIZE - 1, Wrap(first + j) = Wrap(first + k)
    PROVE  j = k
<1>1. CASE j < k
  BY <1>1, ModInjective, first + j < first + k,
     (first + k) - (first + j) < RX_RING_SIZE
<1>2. CASE k < j
  BY <1>2, ModInjective, first + k < first + j,
     (first + j) - (first + k) < RX_RING_SIZE
<1> QED
  BY <1>1, <1>2

(* Wrapping gives a slot, *)
LEMMA WrapInSlots ==
    ASSUME NEW a \in Int
    PROVE  Wrap(a) \in Slots
  OBVIOUS

(* and leaves a slot as it is. *)
LEMMA WrapOfSlot ==
    ASSUME NEW s \in Slots
    PROVE  Wrap(s) = s
<1>1. RX_RING_SIZE * 0 + s = s
  OBVIOUS
<1> QED
  BY <1>1, ModUnique

(* A run has as many slots as steps, or fewer if it meets itself.          *)
LEMMA RunSize ==
    ASSUME NEW first \in Slots, NEW n \in Nat
    PROVE  /\ Run(first, n) \subseteq Slots
           /\ IsFiniteSet(Run(first, n))
           /\ Cardinality(Run(first, n)) \in Nat
           /\ Cardinality(Run(first, n)) <= n
           /\ n <= RX_RING_SIZE => Cardinality(Run(first, n)) = n
<1> DEFINE f == [k \in 0 .. n - 1 |-> Wrap(first + k)]
<1>1. Run(first, n) \subseteq Slots
  BY WrapInSlots DEF Run
<1>2. f \in Surjection(0 .. n - 1, Run(first, n))
  BY DEF Run, Surjection
<1>3. IsFiniteSet(0 .. n - 1) /\ Cardinality(0 .. n - 1) = n
  BY FS_Interval
<1>4. /\ IsFiniteSet(Run(first, n))
      /\ Cardinality(Run(first, n)) <= n
      /\ Cardinality(Run(first, n)) = n <=> f \in Injection(0 .. n - 1, Run(first, n))
  <2> HIDE DEF f
  <2> QED
    BY <1>2, <1>3, FS_Surjection
<1>5. ASSUME n <= RX_RING_SIZE PROVE f \in Injection(0 .. n - 1, Run(first, n))
  <2>1. f \in [0 .. n - 1 -> Run(first, n)]
    BY DEF Run
  <2>2. ASSUME NEW j \in 0 .. n - 1, NEW k \in 0 .. n - 1, f[j] = f[k]
        PROVE  j = k
    <3>1. j \in 0 .. RX_RING_SIZE - 1 /\ k \in 0 .. RX_RING_SIZE - 1
      BY <1>5
    <3>2. Wrap(first + j) = Wrap(first + k)
      BY <2>2
    <3> QED
      BY <3>1, <3>2, StepsApart
  <2> HIDE DEF f
  <2> QED
    BY <2>1, <2>2 DEF Injection, IsInjective
<1>6. Cardinality(Run(first, n)) \in Nat
  BY <1>4, FS_CardinalityType
<1> QED
  BY <1>1, <1>4, <1>5, <1>6

(* What SubmitPendingReads offers the stack: a run of free slots.          *)
LEMMA FreeRun ==
    ASSUME NEW state \in [Slots -> {"free", "inflight"}],
           FreeSlots(state) # {}
    PROVE  /\ FirstFree(state) \in Slots
           /\ RunLength(state) \in 1 .. RX_RING_SIZE
           /\ \A k \in 0 .. RunLength(state) - 1 :
                state[Wrap(FirstFree(state) + k)] = "free"
<1> DEFINE start == FirstFree(state)
           ends == {n \in 1 .. RX_RING_SIZE :
                       n = RX_RING_SIZE \/ state[Wrap(start + n)] # "free"}
<1>1. start \in FreeSlots(state)
  <2>1. FreeSlots(state) \subseteq Nat
    BY DEF FreeSlots
  <2>2. \E i \in FreeSlots(state) : \A j \in FreeSlots(state) : i <= j
    BY <2>1, LeastNatural
  <2> QED
    BY <2>2 DEF FirstFree
<1>2. start \in Slots /\ state[start] = "free"
  BY <1>1 DEF FreeSlots
<1>3. \E n \in ends : \A m \in ends : n <= m
  <2>1. ends \subseteq Nat /\ RX_RING_SIZE \in ends
    OBVIOUS
  <2> HIDE DEF ends
  <2> QED
    BY <2>1, LeastNatural
<1>4. RunLength(state) \in ends /\ \A m \in ends : RunLength(state) <= m
  <2>1. RunLength(state) = CHOOSE n \in ends : \A m \in ends : n <= m
    BY DEF RunLength
  <2> HIDE DEF ends
  <2> QED
    BY <1>3, <2>1
<1>5. RunLength(state) \in 1 .. RX_RING_SIZE
  BY <1>4
<1>6. ASSUME NEW k \in 0 .. RunLength(state) - 1
      PROVE  state[Wrap(start + k)] = "free"
  <2>1. CASE k = 0
    <3>1. Wrap(start + k) = start
      BY <1>2, <2>1, WrapOfSlot
    <3> QED
      BY <1>2, <3>1
  <2>2. CASE k # 0
    <3>1. k \in 1 .. RX_RING_SIZE /\ ~ (RunLength(state) <= k)
      BY <1>5, <2>2
    <3>2. k \notin ends
      BY <1>4, <3>1
    <3> QED
      BY <3>1, <3>2
  <2> QED
    BY <2>1, <2>2
<1> QED
  BY <1>2, <1>5, <1>6
-----------------------------------------------------------------------------
(* Marking a run of slots, and what that does to their number.             *)

Mark(state, run, mark) ==
    [i \in Slots |-> IF i \in run THEN mark ELSE state[i]]

(* The slots in flight are at most as many as there are slots. *)
LEMMA MarkedFinite ==
    ASSUME NEW state
    PROVE  /\ IsFiniteSet(Marked(state)) /\ Cardinality(Marked(state)) \in Nat
           /\ Cardinality(Marked(state)) <= RX_RING_SIZE
<1>1. IsFiniteSet(Slots) /\ Cardinality(Slots) = RX_RING_SIZE
  BY FS_Interval
<1>2. Marked(state) \in SUBSET Slots
  BY DEF Marked
<1> QED
  BY <1>1, <1>2, FS_Subset, FS_CardinalityType

(* Submitting a run of free slots adds its length.                         *)
LEMMA MarkInFlight ==
    ASSUME NEW state \in [Slots -> {"free", "inflight"}],
           NEW first \in Slots, NEW n \in 0 .. RX_RING_SIZE,
           \A i \in Run(first, n) : state[i] = "free"
    PROVE  /\ Mark(state, Run(first, n), "inflight") \in [Slots -> {"free", "inflight"}]
           /\ Marked(Mark(state, Run(first, n), "inflight"))
                = Marked(state) \union Run(first, n)
           /\ Cardinality(Marked(Mark(state, Run(first, n), "inflight")))
                = Cardinality(Marked(state)) + n
<1>1. Run(first, n) \subseteq Slots /\ IsFiniteSet(Run(first, n))
      /\ Cardinality(Run(first, n)) = n
  BY RunSize
<1>2. Marked(state) \cap Run(first, n) = {}
  BY DEF Marked
<1>3. Marked(Mark(state, Run(first, n), "inflight"))
        = Marked(state) \union Run(first, n)
  BY <1>1 DEF Marked, Mark
<1>4. Cardinality(Marked(state) \union Run(first, n))
        = Cardinality(Marked(state)) + n - 0
  BY <1>1, <1>2, FS_Union, FS_EmptySet, MarkedFinite
<1>5. Cardinality(Marked(state)) \in Nat
  BY MarkedFinite
<1>6. Mark(state, Run(first, n), "inflight") \in [Slots -> {"free", "inflight"}]
  BY DEF Mark
<1>7. Cardinality(Marked(state) \union Run(first, n))
        = Cardinality(Marked(state)) + n
  BY <1>4, <1>5
<1>8. Cardinality(Marked(Mark(state, Run(first, n), "inflight")))
        = Cardinality(Marked(state)) + n
  BY <1>3, <1>7, Zenon
<1> QED
  BY <1>3, <1>6, <1>8, Zenon

(* Freeing a run takes its length off, or less if some slots were free.    *)
LEMMA MarkFree ==
    ASSUME NEW state \in [Slots -> {"free", "inflight"}],
           NEW first \in Slots, NEW n \in Nat
    PROVE  /\ Mark(state, Run(first, n), "free") \in [Slots -> {"free", "inflight"}]
           /\ Marked(Mark(state, Run(first, n), "free"))
                = Marked(state) \ Run(first, n)
           /\ Cardinality(Marked(Mark(state, Run(first, n), "free")))
                >= Cardinality(Marked(state)) - n
           /\ n <= RX_RING_SIZE /\ Run(first, n) \subseteq Marked(state)
                => Cardinality(Marked(Mark(state, Run(first, n), "free")))
                     = Cardinality(Marked(state)) - n
           /\ n > 0 => FreeSlots(Mark(state, Run(first, n), "free")) # {}
<1>1. /\ Run(first, n) \subseteq Slots /\ IsFiniteSet(Run(first, n))
      /\ Cardinality(Run(first, n)) \in Nat /\ Cardinality(Run(first, n)) <= n
      /\ n <= RX_RING_SIZE => Cardinality(Run(first, n)) = n
  BY RunSize
<1>2. Marked(Mark(state, Run(first, n), "free")) = Marked(state) \ Run(first, n)
  BY <1>1 DEF Marked, Mark
<1>3. IsFiniteSet(Marked(state)) /\ Cardinality(Marked(state)) \in Nat
  BY MarkedFinite
<1>4. Cardinality(Marked(state) \ Run(first, n))
        = Cardinality(Marked(state)) - Cardinality(Marked(state) \cap Run(first, n))
  BY <1>3, FS_Difference
<1>5. /\ Cardinality(Marked(state) \cap Run(first, n)) \in Nat
      /\ Cardinality(Marked(state) \cap Run(first, n)) <= Cardinality(Run(first, n))
  <2>1. Marked(state) \cap Run(first, n) \in SUBSET Run(first, n)
    OBVIOUS
  <2> QED
    BY <1>1, <2>1, FS_Subset, FS_CardinalityType
<1>6. Mark(state, Run(first, n), "free") \in [Slots -> {"free", "inflight"}]
  BY DEF Mark
<1>7. Cardinality(Marked(Mark(state, Run(first, n), "free")))
        >= Cardinality(Marked(state)) - n
  <2>1. Cardinality(Marked(state) \ Run(first, n)) >= Cardinality(Marked(state)) - n
    BY <1>1, <1>3, <1>4, <1>5
  <2> QED
    BY <1>2, <2>1
<1>8. ASSUME n <= RX_RING_SIZE, Run(first, n) \subseteq Marked(state)
      PROVE  Cardinality(Marked(Mark(state, Run(first, n), "free")))
                     = Cardinality(Marked(state)) - n
  <2>1. Marked(state) \cap Run(first, n) = Run(first, n)
    BY <1>8
  <2> QED
    BY <1>1, <1>2, <1>4, <1>8, <2>1
<1>9. ASSUME n > 0 PROVE FreeSlots(Mark(state, Run(first, n), "free")) # {}
  <2>1. first \in Run(first, n)
    <3>1. Wrap(first + 0) = first
      BY WrapOfSlot
    <3> QED
      BY <1>9, <3>1 DEF Run
  <2> QED
    BY <2>1 DEF FreeSlots, Mark
<1> QED
  BY <1>2, <1>6, <1>7, <1>8, <1>9

-----------------------------------------------------------------------------
(* A submission.                                                           *)

Submitted(state, count, s, queue, first, n) ==
    /\ fRxSlotState' = Mark(state, Run(first, n), "inflight")
    /\ fRxSlotsInFlight' = count + n
    /\ pipe' = queue \o [k \in 1 .. n |-> <<s, Wrap(first + k - 1)>>]
    /\ took' = (n > 0)
    /\ failures' = failures

NotSubmitted(state, count, queue) ==
    /\ failures < MaxFailures
    /\ failures' = failures + 1
    /\ fRxSlotState' = state
    /\ fRxSlotsInFlight' = count
    /\ pipe' = queue
    /\ took' = FALSE

(* The stack takes a run of free slots, perhaps of none, or fails.         *)
LEMMA SubmissionCases ==
    ASSUME partial \in BOOLEAN,
           NEW state \in [Slots -> {"free", "inflight"}], FreeSlots(state) # {},
           NEW count, NEW s, NEW queue,
           SubmitPendingReads(state, count, s, queue)
    PROVE  \/ NotSubmitted(state, count, queue)
           \/ \E first \in Slots : \E n \in 0 .. RX_RING_SIZE :
                /\ \A i \in Run(first, n) : state[i] = "free"
                /\ Submitted(state, count, s, queue, first, n)
<1> DEFINE start == FirstFree(state)
<1>1. /\ start \in Slots
      /\ RunLength(state) \in 1 .. RX_RING_SIZE
      /\ \A k \in 0 .. RunLength(state) - 1 : state[Wrap(start + k)] = "free"
  BY FreeRun
<1>2. CASE \E accepted \in Accepted(RunLength(state)) :
             /\ fRxSlotState' = [i \in Slots |->
                  IF \E k \in 0 .. accepted - 1 : i = Wrap(start + k)
                  THEN "inflight" ELSE state[i]]
             /\ fRxSlotsInFlight' = count + accepted
             /\ pipe' = queue \o
                  [k \in 1 .. accepted |-> <<s, Wrap(start + k - 1)>>]
             /\ took' = (accepted > 0)
             /\ UNCHANGED failures
  <2>1. PICK n \in Accepted(RunLength(state)) :
             /\ fRxSlotState' = [i \in Slots |->
                  IF \E k \in 0 .. n - 1 : i = Wrap(start + k)
                  THEN "inflight" ELSE state[i]]
             /\ fRxSlotsInFlight' = count + n
             /\ pipe' = queue \o
                  [k \in 1 .. n |-> <<s, Wrap(start + k - 1)>>]
             /\ took' = (n > 0)
             /\ UNCHANGED failures
    BY <1>2
  <2>2. n \in 0 .. RunLength(state) /\ n \in 0 .. RX_RING_SIZE
    BY <1>1 DEF Accepted
  <2>3. \A i \in Run(start, n) : state[i] = "free"
    BY <1>1, <2>2 DEF Run
  <2>4. \A i \in Slots : (\E k \in 0 .. n - 1 : i = Wrap(start + k)) <=> i \in Run(start, n)
    BY DEF Run
  <2>5. fRxSlotState' = Mark(state, Run(start, n), "inflight")
    BY <2>1, <2>4 DEF Mark
  <2>6. Submitted(state, count, s, queue, start, n)
    BY <2>1, <2>5 DEF Submitted
  <2> QED
    BY <1>1, <2>2, <2>3, <2>6
<1>3. CASE NotSubmitted(state, count, queue)
  BY <1>3
<1> QED
  BY <1>2, <1>3 DEF SubmitPendingReads, NotSubmitted
-----------------------------------------------------------------------------
(* The types and the count. *)

(* A submission on a state whose count is not ahead leaves it not ahead.   *)
LEMMA SubmissionTypes ==
    ASSUME ControlTypes,
           NEW state \in [Slots -> {"free", "inflight"}],
           NEW count \in Nat, count <= Cardinality(Marked(state)),
           NEW s \in 1 .. MaxSessions,
           NEW queue \in Seq((1 .. MaxSessions) \X Slots),
           \/ NotSubmitted(state, count, queue)
           \/ \E first \in Slots : \E n \in 0 .. RX_RING_SIZE :
                /\ \A i \in Run(first, n) : state[i] = "free"
                /\ Submitted(state, count, s, queue, first, n)
    PROVE  /\ SlotTypes' /\ CountInv'
           /\ failures' \in 0 .. MaxFailures
           /\ pipe' \in Seq((1 .. MaxSessions) \X Slots)
           /\ failures' \in {failures, failures + 1}
           /\ took' \in BOOLEAN /\ (took' => pipe' # <<>>)
<1>1. CASE NotSubmitted(state, count, queue)
  BY <1>1 DEF NotSubmitted, SlotTypes, CountInv, InFlight, ControlTypes
<1>2. ASSUME NEW first \in Slots, NEW n \in 0 .. RX_RING_SIZE,
             \A i \in Run(first, n) : state[i] = "free",
             Submitted(state, count, s, queue, first, n)
      PROVE  /\ SlotTypes' /\ CountInv'
             /\ failures' \in 0 .. MaxFailures
             /\ pipe' \in Seq((1 .. MaxSessions) \X Slots)
             /\ failures' = failures
             /\ took' \in BOOLEAN /\ (took' => pipe' # <<>>)
  <2> DEFINE new == Mark(state, Run(first, n), "inflight")
             reads == [k \in 1 .. n |-> <<s, Wrap(first + k - 1)>>]
  <2>1. n \in 0 .. RX_RING_SIZE
    OBVIOUS
  <2>2. /\ new \in [Slots -> {"free", "inflight"}]
        /\ Cardinality(Marked(new)) = Cardinality(Marked(state)) + n
    BY <1>2, <2>1, MarkInFlight
  <2>3. fRxSlotState' = new /\ fRxSlotsInFlight' = count + n
        /\ pipe' = queue \o reads /\ failures' = failures
        /\ took' = (n > 0)
    BY <1>2 DEF Submitted
  <2>4. reads \in Seq((1 .. MaxSessions) \X Slots) /\ Len(reads) = n
    <3>1. ASSUME NEW k \in 1 .. n
          PROVE  <<s, Wrap(first + k - 1)>> \in (1 .. MaxSessions) \X Slots
      <4>1. first + k - 1 \in Int
        OBVIOUS
      <4>2. Wrap(first + k - 1) \in Slots
        BY <4>1, WrapInSlots
      <4> QED
        BY <4>2
    <3> QED
      BY <3>1
  <2>5. /\ pipe' \in Seq((1 .. MaxSessions) \X Slots)
        /\ Len(pipe') = Len(queue) + n
    <3> DEFINE S == (1 .. MaxSessions) \X Slots
    <3>1. queue \in Seq(S) /\ reads \in Seq(S)
      BY <2>4
    <3> HIDE DEF reads, S
    <3>2. queue \o reads \in Seq(S) /\ Len(queue \o reads) = Len(queue) + Len(reads)
      BY <3>1, Concatenation
    <3>3. pipe' \in Seq(S) /\ Len(pipe') = Len(queue) + n
      BY <2>3, <2>4, <3>2
    <3> QED
      BY <3>3 DEF S
  <2>6. took' \in BOOLEAN /\ (took' => pipe' # <<>>)
    <3>1. Len(queue) \in Nat
      BY Concatenation
    <3>2. n > 0 => pipe' # <<>>
      BY <2>5, <3>1
    <3>3. (n > 0) \in BOOLEAN
      OBVIOUS
    <3>4. took' = (n > 0)
      BY <2>3
    <3> QED
      BY <3>2, <3>3, <3>4, Zenon
  <2>7. SlotTypes'
    BY <2>2, <2>3 DEF SlotTypes
  <2>8. CountInv'
    <3>1. Cardinality(Marked(state)) \in Nat
      BY MarkedFinite
    <3>2. InFlight' = Marked(new)
      BY <2>3 DEF InFlight
    <3>3. count + n <= Cardinality(Marked(new))
      <4> HIDE DEF new
      <4> QED
        BY <2>2, <3>1
    <3> QED
      BY <2>3, <3>2, <3>3 DEF CountInv
  <2> QED
    BY <2>3, <2>5, <2>6, <2>7, <2>8 DEF ControlTypes
<1> QED
  BY <1>1, <1>2

(* The slots a bundle frees, and what the handler does next.               *)
Freed == Mark(fRxSlotState, BundleRun(1), "free")

(* What a completion does: stop, submit nothing, or submit a free run. *)
LEMMA ReadCompleteCases ==
    ASSUME StateInv, ReadCompleteBundled
    PROVE  LET n == Len(completions[1].kinds)
           IN  /\ completions # <<>> /\ completions' = Tail(completions)
               /\ completions[1] \in Bundles /\ n \in Nat \ {0}
               /\ UNCHANGED <<partial, fIsRunning, session>>
               /\ residue' \in BOOLEAN
               /\ \/ /\ ~fIsRunning
                     /\ fRxSlotState' = Freed /\ fRxSlotsInFlight' = CountAfter(n)
                     /\ UNCHANGED <<pipe, failures, took>>
                  \/ /\ fIsRunning
                     /\ NotSubmitted(Freed, CountAfter(n), pipe)
                  \/ /\ fIsRunning
                     /\ \E first \in Slots : \E m \in 0 .. RX_RING_SIZE :
                          /\ \A i \in Run(first, m) : Freed[i] = "free"
                          /\ Submitted(Freed, CountAfter(n), session, pipe, first, m)
<1> DEFINE b == completions[1]
           n == Len(b.kinds)
           state == [i \in Slots |->
                       IF \E k \in 0 .. n - 1 : i = Wrap(b.first + k)
                       THEN "free" ELSE fRxSlotState[i]]
<1>1. completions # <<>> /\ Head(completions) = b
  BY DEF ReadCompleteBundled, StateInv, QueueTypes
<1>2. 1 \in DOMAIN completions /\ b \in Bundles
  BY <1>1 DEF StateInv, QueueTypes
<1>3. n \in Nat \ {0}
  <2>1. b.kinds \in Seq(Kinds) /\ b.kinds # <<>>
    BY <1>2 DEF StateInv, QueueTypes, Bundles
  <2> QED
    BY <2>1
<1>4. state = Freed
  BY DEF Freed, Mark, Run, BundleRun
<1>5. /\ residue' = ResidueAfter(b)
      /\ IF fIsRunning
         THEN SubmitPendingReads(Freed, CountAfter(n), session, pipe)
         ELSE /\ fRxSlotState' = Freed
              /\ fRxSlotsInFlight' = CountAfter(n)
              /\ UNCHANGED <<pipe, failures, took>>
      /\ completions' = Tail(completions)
      /\ UNCHANGED <<partial, fIsRunning, session>>
  BY <1>1, <1>4, ZenonT(30) DEF ReadCompleteBundled
<1>6. ResidueAfter(b) \in BOOLEAN
  BY DEF ResidueAfter, StateInv, ControlTypes
<1>7. Freed \in [Slots -> {"free", "inflight"}] /\ FreeSlots(Freed) # {}
  <2>1. b.first \in Slots /\ fRxSlotState \in [Slots -> {"free", "inflight"}]
    BY <1>2 DEF Bundles, StateInv, SlotTypes
  <2>2. n > 0 /\ n \in Nat
    BY <1>3
  <2> HIDE DEF b, n
  <2>3. /\ Mark(fRxSlotState, Run(b.first, n), "free") \in [Slots -> {"free", "inflight"}]
        /\ FreeSlots(Mark(fRxSlotState, Run(b.first, n), "free")) # {}
    BY <2>1, <2>2, MarkFree
  <2> QED
    BY <2>3 DEF b, n, Freed, BundleRun
<1>8. partial \in BOOLEAN
  BY SlotsAssumption DEF StateInv, ControlTypes
<1>9. CASE fIsRunning
  <2>1. SubmitPendingReads(Freed, CountAfter(n), session, pipe)
    BY <1>5, <1>9
  <2>2. \/ NotSubmitted(Freed, CountAfter(n), pipe)
        \/ \E first \in Slots : \E m \in 0 .. RX_RING_SIZE :
             /\ \A i \in Run(first, m) : Freed[i] = "free"
             /\ Submitted(Freed, CountAfter(n), session, pipe, first, m)
    <3> HIDE DEF n
    <3> QED
      BY <1>7, <1>8, <2>1, SubmissionCases
  <2> QED
    BY <1>1, <1>2, <1>3, <1>5, <1>6, <1>9, <2>2, Zenon
<1>10. CASE ~fIsRunning
  BY <1>1, <1>2, <1>3, <1>5, <1>6, <1>10, Zenon
<1> QED
  BY <1>9, <1>10

(* StartIO keeps the states and the count exact, and says what it submits. *)
LEMMA StartIOKeepsState ==
    ASSUME StateInv, StartIO
    PROVE  /\ StateInv'
           /\ \/ NotSubmitted(AllFree, 0, pipe) /\ ~fIsRunning'
              \/ /\ fIsRunning'
                 /\ \E first \in Slots : \E n \in 0 .. RX_RING_SIZE :
                      /\ \A i \in Run(first, n) : AllFree[i] = "free"
                      /\ Submitted(AllFree, 0, session + 1, pipe, first, n)
<1> USE DEF StateInv
<1>1. partial \in BOOLEAN
  BY DEF ControlTypes
<1>2. AllFree \in [Slots -> {"free", "inflight"}] /\ FreeSlots(AllFree) # {}
  <2>1. 0 \in Slots /\ AllFree[0] = "free"
    BY DEF AllFree
  <2> QED
    BY <2>1 DEF AllFree, FreeSlots
<1>3. \/ NotSubmitted(AllFree, 0, pipe)
      \/ \E first \in Slots : \E n \in 0 .. RX_RING_SIZE :
           /\ \A i \in Run(first, n) : AllFree[i] = "free"
           /\ Submitted(AllFree, 0, session + 1, pipe, first, n)
  BY <1>1, <1>2, SubmissionCases DEF StartIO
<1>4. session + 1 \in 1 .. MaxSessions
  BY DEF StartIO, ControlTypes
<1>5. /\ SlotTypes' /\ CountInv'
      /\ failures' \in 0 .. MaxFailures
      /\ pipe' \in Seq((1 .. MaxSessions) \X Slots)
      /\ took' \in BOOLEAN /\ (took' => pipe' # <<>>)
  <2>1. 0 \in Nat /\ 0 <= Cardinality(Marked(AllFree))
    BY MarkedFinite
  <2> QED
    BY <1>2, <1>3, <1>4, <2>1, SubmissionTypes DEF QueueTypes
<1>6. ControlTypes'
  <2>1. fIsRunning' \in BOOLEAN
    BY DEF StartIO
  <2>2. session' = session + 1 /\ partial' = partial /\ residue' = residue
    BY DEF StartIO
  <2> QED
    BY <1>4, <1>5, <2>1, <2>2 DEF ControlTypes
<1>7. QueueTypes'
  BY <1>5 DEF QueueTypes, StartIO
<1>8. fIsRunning' <=> failures' = failures
  BY DEF StartIO
<1>9. failures' \in Nat /\ failures \in Nat
  BY <1>5 DEF ControlTypes
<1>10. NeverStarved'
  BY <1>5 DEF NeverStarved, NothingOutstanding
<1>11. StateInv'
  BY <1>5, <1>6, <1>7, <1>10
<1>12. ASSUME NotSubmitted(AllFree, 0, pipe) PROVE ~fIsRunning'
  BY <1>8, <1>9, <1>12 DEF NotSubmitted
<1>13. ASSUME NEW first \in Slots, NEW n \in 0 .. RX_RING_SIZE,
              Submitted(AllFree, 0, session + 1, pipe, first, n)
       PROVE  fIsRunning'
  BY <1>8, <1>13 DEF Submitted
<1> HIDE DEF StateInv
<1> QED
  BY <1>3, <1>11, <1>12, <1>13

(* So does StopIO, *)
LEMMA StopIOKeepsState ==
    ASSUME StateInv, StopIO
    PROVE  StateInv'
<1> USE DEF StateInv, StopIO
<1>1. ControlTypes'
  BY DEF ControlTypes
<1>2. SlotTypes'
  BY DEF SlotTypes, AllFree
<1>3. CountInv'
  <2>1. 0 <= Cardinality(Marked(AllFree))
    BY MarkedFinite
  <2> QED
    BY <2>1 DEF CountInv, InFlight
<1>4. QueueTypes'
  <2> DEFINE aborted == [i \in 1 .. Len(pipe) |->
             [session |-> pipe[i][1], first |-> pipe[i][2],
              kinds |-> <<"aborted">>]]
  <2>1. aborted \in Seq(Bundles) /\ Len(aborted) = Len(pipe)
    <3>1. ASSUME NEW i \in 1 .. Len(pipe) PROVE aborted[i] \in Bundles
      <4>1. pipe[i] \in (1 .. MaxSessions) \X Slots
        BY DEF QueueTypes
      <4>2. <<"aborted">> \in Seq(Kinds)
        BY DEF Kinds
      <4> QED
        BY <4>1, <4>2 DEF Bundles
    <3> QED
      BY <3>1 DEF QueueTypes
  <2>2. \A i \in DOMAIN aborted : aborted[i].kinds # <<>>
    OBVIOUS
  <2>3. completions' = completions \o aborted /\ pipe' = <<>>
    OBVIOUS
  <2>4. completions \in Seq(Bundles) /\ \A i \in DOMAIN completions : completions[i].kinds # <<>>
    BY DEF QueueTypes
  <2> HIDE DEF aborted, StopIO, StateInv
  <2>5. /\ completions' \in Seq(Bundles)
        /\ \A i \in DOMAIN completions' : completions'[i].kinds # <<>>
    <3>1. /\ Len(completions) \in Nat /\ DOMAIN completions = 1 .. Len(completions)
          /\ Len(aborted) \in Nat /\ DOMAIN aborted = 1 .. Len(aborted)
          /\ completions \o aborted \in Seq(Bundles)
          /\ DOMAIN (completions \o aborted) = 1 .. Len(completions) + Len(aborted)
          /\ \A i \in 1 .. Len(completions) : (completions \o aborted)[i] = completions[i]
          /\ \A i \in 1 .. Len(aborted) : (completions \o aborted)[Len(completions) + i] = aborted[i]
      <4>1. completions \in Seq(Bundles) /\ aborted \in Seq(Bundles)
        BY <2>1, <2>4
      <4> QED
        BY <4>1, Concatenation
    <3>2. ASSUME NEW i \in DOMAIN completions' PROVE completions'[i].kinds # <<>>
      <4>1. CASE i <= Len(completions)
        BY <2>3, <2>4, <3>1, <3>2, <4>1
      <4>2. CASE ~ (i <= Len(completions))
        <5>1. i - Len(completions) \in 1 .. Len(aborted)
              /\ Len(completions) + (i - Len(completions)) = i
          BY <2>3, <3>1, <3>2, <4>2
        <5> QED
          BY <2>2, <2>3, <3>1, <5>1
      <4> QED
        BY <4>1, <4>2
    <3> QED
      BY <2>3, <3>1, <3>2
  <2> QED
    BY <2>3, <2>5 DEF QueueTypes
<1>5. NeverStarved'
  BY DEF NeverStarved
<1> QED
  BY <1>1, <1>2, <1>3, <1>4, <1>5

(* the bus completing a read, *)
LEMMA CompleteKeepsState ==
    ASSUME StateInv, Complete
    PROVE  StateInv'
<1> USE DEF StateInv
<1>1. PICK n \in 1 .. Len(pipe) : \E kind \in {"whole", "part", "error"} :
        /\ completions' = Append(completions,
                  [session |-> pipe[1][1], first |-> pipe[1][2],
                   kinds |-> [k \in 1 .. n |-> kind]])
        /\ pipe' = SubSeq(pipe, n + 1, Len(pipe))
  BY DEF Complete
<1>2. PICK kind \in {"whole", "part", "error"} :
        /\ completions' = Append(completions,
                  [session |-> pipe[1][1], first |-> pipe[1][2],
                   kinds |-> [k \in 1 .. n |-> kind]])
        /\ pipe' = SubSeq(pipe, n + 1, Len(pipe))
  BY <1>1
<1>3. UNCHANGED <<partial, fIsRunning, fRxSlotState, fRxSlotsInFlight,
                   residue, session, failures, took>>
  BY DEF Complete
<1>4. ControlTypes' /\ SlotTypes' /\ CountInv'
  BY <1>3 DEF ControlTypes, SlotTypes, CountInv, InFlight
<1>5. QueueTypes'
  <2> DEFINE b == [session |-> pipe[1][1], first |-> pipe[1][2],
                   kinds |-> [k \in 1 .. n |-> kind]]
  <2>1. pipe[1] \in (1 .. MaxSessions) \X Slots
    BY <1>1 DEF QueueTypes
  <2>2. [k \in 1 .. n |-> kind] \in Seq(Kinds) /\ [k \in 1 .. n |-> kind] # <<>>
    BY DEF Kinds
  <2>3. b \in Bundles /\ b.kinds # <<>>
    BY <2>1, <2>2 DEF Bundles
  <2>4. pipe' \in Seq((1 .. MaxSessions) \X Slots)
    BY <1>2 DEF QueueTypes
  <2>5. completions' = Append(completions, b)
    BY <1>2
  <2> HIDE DEF b
  <2>6. /\ completions' \in Seq(Bundles)
        /\ \A i \in DOMAIN completions' : completions'[i].kinds # <<>>
    BY <2>3, <2>5 DEF QueueTypes
  <2> QED
    BY <2>4, <2>6 DEF QueueTypes
<1>6. NeverStarved'
  <2>1. completions' # <<>>
    <3>1. completions \in Seq(Bundles)
      BY DEF QueueTypes
    <3> HIDE DEF StateInv
    <3> QED
      BY <1>2, <3>1
  <2> QED
    BY <2>1 DEF NeverStarved, NothingOutstanding
<1> QED
  BY <1>4, <1>5, <1>6

(* and handling a completion. *)
LEMMA ReadCompleteKeepsState ==
    ASSUME StateInv, ReadCompleteBundled
    PROVE  StateInv'
<1> USE DEF StateInv
<1> DEFINE b == completions[1]
           n == Len(b.kinds)
<1>1. /\ completions # <<>> /\ completions' = Tail(completions)
      /\ b \in Bundles /\ n \in Nat \ {0}
      /\ UNCHANGED <<partial, fIsRunning, session>>
      /\ residue' \in BOOLEAN
  BY ReadCompleteCases, Zenon
<1>2. /\ Freed \in [Slots -> {"free", "inflight"}]
      /\ Cardinality(Marked(Freed)) >= Cardinality(Marked(fRxSlotState)) - n
  <2>1. b.first \in Slots /\ fRxSlotState \in [Slots -> {"free", "inflight"}]
    BY <1>1 DEF Bundles, SlotTypes
  <2>2. n \in Nat
    BY <1>1
  <2>3. Freed = Mark(fRxSlotState, Run(b.first, n), "free")
    BY DEF Freed, BundleRun
  <2> HIDE DEF b, n
  <2> QED
    BY <2>1, <2>2, <2>3, MarkFree
<1>3. CountAfter(n) \in Nat /\ CountAfter(n) <= Cardinality(Marked(Freed))
  <2>1. Cardinality(Marked(Freed)) \in Nat /\ Cardinality(Marked(fRxSlotState)) \in Nat
    BY MarkedFinite
  <2> HIDE DEF n
  <2> QED
    BY <1>1, <1>2, <2>1 DEF CountAfter, CountInv, SlotTypes, InFlight
<1>4. completions' \in Seq(Bundles) /\ \A i \in DOMAIN completions' : completions'[i].kinds # <<>>
  BY <1>1 DEF QueueTypes
<1>5. CASE /\ ~fIsRunning
           /\ fRxSlotState' = Freed /\ fRxSlotsInFlight' = CountAfter(n)
           /\ UNCHANGED <<pipe, failures, took>>
  <2>1. SlotTypes' /\ CountInv'
    BY <1>2, <1>3, <1>5 DEF SlotTypes, CountInv, InFlight
  <2> QED
    BY <1>1, <1>4, <1>5, <2>1 DEF ControlTypes, QueueTypes, NeverStarved
<1>6. CASE /\ fIsRunning
           /\ \/ NotSubmitted(Freed, CountAfter(n), pipe)
              \/ \E first \in Slots : \E m \in 0 .. RX_RING_SIZE :
                   /\ \A i \in Run(first, m) : Freed[i] = "free"
                   /\ Submitted(Freed, CountAfter(n), session, pipe, first, m)
  <2>1. session \in 1 .. MaxSessions /\ pipe \in Seq((1 .. MaxSessions) \X Slots)
    BY <1>6 DEF ControlTypes, QueueTypes
  <2>2. /\ SlotTypes' /\ CountInv'
        /\ failures' \in 0 .. MaxFailures
        /\ pipe' \in Seq((1 .. MaxSessions) \X Slots)
        /\ took' \in BOOLEAN /\ (took' => pipe' # <<>>)
    <3> HIDE DEF n
    <3> QED
      BY <1>2, <1>3, <1>6, <2>1, SubmissionTypes
  <2>3. ControlTypes' /\ QueueTypes'
    BY <1>1, <1>4, <2>2 DEF ControlTypes, QueueTypes
  <2>4. NeverStarved'
    BY <2>2 DEF NeverStarved, NothingOutstanding
  <2> QED
    BY <2>2, <2>3, <2>4
<1> QED
  <2> HIDE DEF n, StateInv
  <2>1. StateInv
    OBVIOUS
  <2> QED
    BY <1>5, <1>6, <2>1, ReadCompleteCases DEF n
-----------------------------------------------------------------------------
(* The places of the reads. *)

(* A read in the pipe is of a session and a slot. *)
LEMMA PipeTyped ==
    ASSUME QueueTypes, NEW i \in DOMAIN pipe
    PROVE  /\ Len(pipe) \in Nat /\ DOMAIN pipe = 1 .. Len(pipe)
           /\ i \in 1 .. Len(pipe)
           /\ pipe[i] \in (1 .. MaxSessions) \X Slots /\ pipe[i][2] \in Slots
<1>1. pipe \in Seq((1 .. MaxSessions) \X Slots)
  BY DEF QueueTypes
<1>2. Len(pipe) \in Nat /\ DOMAIN pipe = 1 .. Len(pipe)
  BY <1>1
<1>3. pipe[i] \in (1 .. MaxSessions) \X Slots
  BY <1>1, <1>2
<1> QED
  BY <1>2, <1>3

(* A completion is of a run of slots. *)
LEMMA BundleTyped ==
    ASSUME QueueTypes, NEW i \in DOMAIN completions
    PROVE  /\ completions[i] \in Bundles /\ completions[i].first \in Slots
           /\ Len(completions[i].kinds) \in Nat \ {0}
           /\ BundleRun(i) \subseteq Slots
<1>1. completions[i] \in Bundles /\ completions[i].kinds # <<>>
  BY DEF QueueTypes
<1>2. completions[i].first \in Slots /\ completions[i].kinds \in Seq(Kinds)
  BY <1>1 DEF Bundles
<1>3. Len(completions[i].kinds) \in Nat \ {0}
  BY <1>1, <1>2
<1>4. BundleRun(i) \subseteq Slots
  BY <1>2, <1>3, RunSize DEF BundleRun
<1> QED
  BY <1>1, <1>2, <1>3, <1>4

(* A submission gives the slots of the run a place at the pipe's end.      *)
LEMMA ReadsPlaced ==
    ASSUME QueueTypes, NEW s \in 1 .. MaxSessions,
           NEW first \in Slots, NEW n \in 0 .. RX_RING_SIZE,
           pipe' = pipe \o [k \in 1 .. n |-> <<s, Wrap(first + k - 1)>>]
    PROVE  /\ \A slot \in Slots :
                InPipe(slot)' <=> InPipe(slot) \/ slot \in Run(first, n)
           /\ (\A i \in DOMAIN pipe : pipe[i][1] = s)
                => (\A i \in DOMAIN pipe' : pipe'[i][1] = s)
           /\ PipeApart /\ (\A slot \in Run(first, n) : ~InPipe(slot))
                => PipeApart'
<1> DEFINE reads == [k \in 1 .. n |-> <<s, Wrap(first + k - 1)>>]
           S == (1 .. MaxSessions) \X Slots
<1>1. reads \in Seq(S) /\ Len(reads) = n
  <2>1. ASSUME NEW k \in 1 .. n PROVE reads[k] \in S
    <3>1. first + k - 1 \in Int
      OBVIOUS
    <3>2. Wrap(first + k - 1) \in Slots
      BY <3>1, WrapInSlots
    <3> QED
      BY <3>2
  <2> QED
    BY <2>1
<1>2. pipe \in Seq(S) /\ pipe' = pipe \o reads
  BY DEF QueueTypes
<1>3. /\ Len(pipe) \in Nat /\ DOMAIN pipe = 1 .. Len(pipe)
      /\ DOMAIN pipe' = 1 .. Len(pipe) + n
      /\ \A i \in 1 .. Len(pipe) : pipe'[i] = pipe[i]
      /\ \A k \in 1 .. n : pipe'[Len(pipe) + k] = reads[k]
  <2> HIDE DEF reads, S
  <2>1. /\ Len(pipe) \in Nat /\ DOMAIN pipe = 1 .. Len(pipe)
        /\ DOMAIN (pipe \o reads) = 1 .. Len(pipe) + Len(reads)
        /\ \A i \in 1 .. Len(pipe) : (pipe \o reads)[i] = pipe[i]
        /\ \A k \in 1 .. Len(reads) : (pipe \o reads)[Len(pipe) + k] = reads[k]
    <3>1. reads \in Seq(S) /\ pipe \in Seq(S)
      BY <1>1, <1>2
    <3> QED
      BY <3>1, Concatenation
  <2> QED
    BY <1>1, <1>2, <2>1
<1>4. \A k \in 1 .. n : pipe'[Len(pipe) + k][1] = s
                        /\ pipe'[Len(pipe) + k][2] = Wrap(first + (k - 1))
  <2>1. ASSUME NEW k \in 1 .. n
        PROVE  pipe'[Len(pipe) + k][1] = s
               /\ pipe'[Len(pipe) + k][2] = Wrap(first + (k - 1))
    <3>1. pipe'[Len(pipe) + k] = reads[k]
      BY <1>3
    <3>2. first + k - 1 = first + (k - 1)
      OBVIOUS
    <3>3. reads[k] = <<s, Wrap(first + (k - 1))>>
      BY <3>2
    <3> QED
      BY <3>1, <3>3
  <2> QED
    BY <2>1
<1>5. \A i \in DOMAIN pipe' :
        i \in 1 .. Len(pipe) \/ \E k \in 1 .. n : i = Len(pipe) + k
  <2>1. ASSUME NEW i \in DOMAIN pipe', i \notin 1 .. Len(pipe)
        PROVE  \E k \in 1 .. n : i = Len(pipe) + k
    <3>1. i - Len(pipe) \in 1 .. n /\ i = Len(pipe) + (i - Len(pipe))
      BY <1>3, <2>1
    <3> QED
      BY <3>1
  <2> QED
    BY <2>1
<1> HIDE DEF reads, S
<1>6. ASSUME NEW slot \in Slots
      PROVE  InPipe(slot)' <=> InPipe(slot) \/ slot \in Run(first, n)
  <2>1. ASSUME InPipe(slot)' PROVE InPipe(slot) \/ slot \in Run(first, n)
    <3>1. PICK i \in DOMAIN pipe' : pipe'[i][2] = slot
      BY <2>1 DEF InPipe
    <3>2. CASE i \in 1 .. Len(pipe)
      BY <1>3, <3>1, <3>2 DEF InPipe
    <3>3. ASSUME NEW k \in 1 .. n, i = Len(pipe) + k PROVE slot \in Run(first, n)
      <4>1. slot = Wrap(first + (k - 1)) /\ k - 1 \in 0 .. n - 1
        BY <1>4, <3>1, <3>3
      <4> QED
        BY <4>1 DEF Run
    <3> QED
      BY <1>5, <3>1, <3>2, <3>3
  <2>2. ASSUME InPipe(slot) PROVE InPipe(slot)'
    <3>1. PICK i \in DOMAIN pipe : pipe[i][2] = slot
      BY <2>2 DEF InPipe
    <3>2. i \in DOMAIN pipe' /\ pipe'[i][2] = slot
      BY <1>3, <3>1
    <3> QED
      BY <3>2 DEF InPipe
  <2>3. ASSUME slot \in Run(first, n) PROVE InPipe(slot)'
    <3>1. PICK j \in 0 .. n - 1 : slot = Wrap(first + j)
      BY <2>3 DEF Run
    <3>2. j + 1 \in 1 .. n /\ (j + 1) - 1 = j
      OBVIOUS
    <3>3. Len(pipe) + (j + 1) \in DOMAIN pipe'
      BY <1>3, <3>2
    <3>4. pipe'[Len(pipe) + (j + 1)][2] = slot
      BY <1>4, <3>1, <3>2
    <3> QED
      BY <3>3, <3>4 DEF InPipe
  <2> QED
    BY <2>1, <2>2, <2>3
<1>7. ASSUME \A i \in DOMAIN pipe : pipe[i][1] = s
      PROVE  \A i \in DOMAIN pipe' : pipe'[i][1] = s
  BY <1>3, <1>4, <1>5, <1>7
<1>8. ASSUME PipeApart, \A slot \in Run(first, n) : ~InPipe(slot)
      PROVE  PipeApart'
  <2>1. ASSUME NEW i \in 1 .. Len(pipe), NEW k \in 1 .. n,
               pipe'[i][2] = pipe'[Len(pipe) + k][2]
        PROVE  FALSE
    <3>1. pipe[i][2] = Wrap(first + (k - 1)) /\ k - 1 \in 0 .. n - 1
      BY <1>3, <1>4, <2>1
    <3>2. Wrap(first + (k - 1)) \in Run(first, n)
      BY <3>1 DEF Run
    <3> QED
      BY <1>3, <1>8, <3>1, <3>2 DEF InPipe
  <2>2. ASSUME NEW k \in 1 .. n, NEW m \in 1 .. n,
               pipe'[Len(pipe) + k][2] = pipe'[Len(pipe) + m][2]
        PROVE  k = m
    <3>1. Wrap(first + (k - 1)) = Wrap(first + (m - 1))
      BY <1>4, <2>2
    <3>2. k - 1 \in 0 .. RX_RING_SIZE - 1 /\ m - 1 \in 0 .. RX_RING_SIZE - 1
      OBVIOUS
    <3>3. k - 1 = m - 1
      BY <3>1, <3>2, StepsApart
    <3> QED
      BY <3>3
  <2>3. ASSUME NEW i \in DOMAIN pipe', NEW j \in DOMAIN pipe',
               pipe'[i][2] = pipe'[j][2]
        PROVE  i = j
    <3>1. CASE i \in 1 .. Len(pipe) /\ j \in 1 .. Len(pipe)
      BY <1>3, <1>8, <2>3, <3>1 DEF PipeApart
    <3>2. CASE i \in 1 .. Len(pipe) /\ j \notin 1 .. Len(pipe)
      BY <1>5, <2>1, <2>3, <3>2
    <3>3. CASE i \notin 1 .. Len(pipe) /\ j \in 1 .. Len(pipe)
      BY <1>5, <2>1, <2>3, <3>3
    <3>4. CASE i \notin 1 .. Len(pipe) /\ j \notin 1 .. Len(pipe)
      BY <1>5, <2>2, <2>3, <3>4
    <3> QED
      BY <3>1, <3>2, <3>3, <3>4
  <2> QED
    BY <2>3 DEF PipeApart
<1> QED
  BY <1>6, <1>7, <1>8
-----------------------------------------------------------------------------
(* Each handler keeps the places apart and the slot states exact. *)

(* A submission on slot states that are exact for what is left.            *)
LEMMA SubmissionKeepsReads ==
    ASSUME QueueTypes, session' \in 1 .. MaxSessions,
           NEW state \in [Slots -> {"free", "inflight"}], NEW count \in Nat,
           NEW first \in Slots, NEW n \in 0 .. RX_RING_SIZE,
           \A i \in Run(first, n) : state[i] = "free",
           Submitted(state, count, session', pipe, first, n),
           \A slot \in Slots :
             slot \in Marked(state) <=> InPipe(slot) \/ InBundle(slot)',
           count = Cardinality(Marked(state)),
           \A i \in DOMAIN pipe : pipe[i][1] = session',
           PipeApart, \A slot \in Slots : ~ (InPipe(slot) /\ InBundle(slot)')
    PROVE  /\ \A i \in DOMAIN pipe' : pipe'[i][1] = session'
           /\ PipeApart' /\ PlacesApart' /\ ExactInv'
<1> DEFINE new == Mark(state, Run(first, n), "inflight")
<1>1. /\ fRxSlotState' = new /\ fRxSlotsInFlight' = count + n
      /\ pipe' = pipe \o [k \in 1 .. n |-> <<session', Wrap(first + k - 1)>>]
  BY DEF Submitted
<1>2. /\ Marked(new) = Marked(state) \union Run(first, n)
      /\ Cardinality(Marked(new)) = Cardinality(Marked(state)) + n
  <2>1. n \in 0 .. RX_RING_SIZE
    OBVIOUS
  <2> QED
    BY <2>1, MarkInFlight
<1>3. /\ \A slot \in Slots :
           InPipe(slot)' <=> InPipe(slot) \/ slot \in Run(first, n)
      /\ (\A i \in DOMAIN pipe : pipe[i][1] = session')
           => (\A i \in DOMAIN pipe' : pipe'[i][1] = session')
      /\ PipeApart /\ (\A slot \in Run(first, n) : ~InPipe(slot))
           => PipeApart'
  BY <1>1, ReadsPlaced
<1>4. ASSUME NEW slot \in Run(first, n)
      PROVE  slot \in Slots /\ ~InPipe(slot) /\ ~InBundle(slot)'
  <2>1. slot \in Slots
    <3>1. n \in Nat
      OBVIOUS
    <3> QED
      BY <3>1, RunSize
  <2>2. slot \notin Marked(state)
    BY <1>4 DEF Marked
  <2> QED
    BY <2>1, <2>2
<1>5. PipeApart'
  BY <1>3, <1>4
<1>6. \A i \in DOMAIN pipe' : pipe'[i][1] = session'
  BY <1>3
<1>7. PlacesApart'
  <2>1. ASSUME NEW slot \in Slots, InPipe(slot)', InBundle(slot)' PROVE FALSE
    BY <1>3, <1>4, <2>1
  <2> QED
    BY <2>1 DEF PlacesApart
<1>8. ExactInv'
  <2>1. InFlight' = Marked(new)
    BY <1>1 DEF InFlight
  <2>2. \A slot \in Slots : slot \in InFlight' <=> InPipe(slot)' \/ InBundle(slot)'
    <3> HIDE DEF new
    <3> QED
      BY <1>2, <1>3, <2>1
  <2>3. fRxSlotsInFlight' = Cardinality(InFlight')
    BY <1>1, <1>2, <2>1
  <2> QED
    BY <2>2, <2>3 DEF ExactInv
<1> QED
  BY <1>5, <1>6, <1>7, <1>8

(* StartIO keeps reads apart, if aborted reads have been delivered, *)
LEMMA StartIOKeepsReads ==
    ASSUME StateInv, ReadInv, StartIO, AbortDelivers
    PROVE  ReadInv'
<1>1. /\ pipe = <<>> /\ completions = <<>> /\ completions' = <<>>
      /\ session' = session + 1
  BY DEF StartIO, NothingOutstanding
<1>2. /\ \A i \in DOMAIN completions' : completions'[i].session = session'
      /\ BundlesApart' /\ \A slot \in Slots : ~InBundle(slot)'
  BY <1>1 DEF BundlesApart, InBundle
<1>3. session' \in 1 .. MaxSessions
  BY DEF StartIO, StateInv, ControlTypes
<1>4. CASE NotSubmitted(AllFree, 0, pipe) /\ ~fIsRunning'
  BY <1>1, <1>2, <1>4
     DEF NotSubmitted, ReadInv, CurrentInv, ApartInv, PipeApart, PlacesApart,
         ExactInv, InPipe
<1>5. ASSUME fIsRunning', NEW first \in Slots, NEW n \in 0 .. RX_RING_SIZE,
             \A i \in Run(first, n) : AllFree[i] = "free",
             Submitted(AllFree, 0, session + 1, pipe, first, n)
      PROVE  ReadInv'
  <2>1. Marked(AllFree) = {} /\ AllFree \in [Slots -> {"free", "inflight"}]
    BY DEF Marked, AllFree
  <2>2. 0 \in Nat /\ 0 = Cardinality(Marked(AllFree))
    BY <2>1, FS_EmptySet
  <2>3. QueueTypes
    BY DEF StateInv
  <2>4. /\ \A i \in DOMAIN pipe : pipe[i][1] = session'
        /\ PipeApart /\ \A slot \in Slots : ~InPipe(slot)
    BY <1>1 DEF PipeApart, InPipe
  <2>5. Submitted(AllFree, 0, session', pipe, first, n)
    BY <1>1, <1>5
  <2>6. /\ \A i \in DOMAIN pipe' : pipe'[i][1] = session'
        /\ PipeApart' /\ PlacesApart' /\ ExactInv'
    BY <1>2, <1>3, <1>5, <2>1, <2>2, <2>3, <2>4, <2>5, SubmissionKeepsReads
  <2> QED
    BY <1>2, <1>5, <2>6 DEF ReadInv, CurrentInv, ApartInv
<1> QED
  BY <1>4, <1>5, StartIOKeepsState

(* The completion at the head leaves the others one position on.           *)
LEMMA BundleHandled ==
    ASSUME QueueTypes, BundlesApart,
           completions # <<>>, completions' = Tail(completions)
    PROVE  /\ BundlesApart'
           /\ \A slot \in Slots :
                /\ InBundle(slot) <=> slot \in BundleRun(1) \/ InBundle(slot)'
                /\ ~ (slot \in BundleRun(1) /\ InBundle(slot)')
           /\ (\A i \in DOMAIN completions : completions[i].session = session)
                => (\A i \in DOMAIN completions' : completions'[i].session = session)
<1>1. completions \in Seq(Bundles)
  BY DEF QueueTypes
<1>2. /\ Len(completions) \in Nat \ {0} /\ DOMAIN completions = 1 .. Len(completions)
      /\ DOMAIN completions' = 1 .. Len(completions) - 1
      /\ \A i \in DOMAIN completions' :
           i + 1 \in DOMAIN completions /\ completions'[i] = completions[i + 1]
  BY <1>1
<1>3. ASSUME NEW i \in DOMAIN completions'
      PROVE  /\ BundleRun(i)' = BundleRun(i + 1)
             /\ i \in 1 .. Len(completions) - 1 /\ i + 1 \in DOMAIN completions
             /\ i + 1 # 1
  <2>1. i \in 1 .. Len(completions) - 1 /\ i + 1 \in DOMAIN completions
        /\ completions'[i] = completions[i + 1]
    BY <1>2
  <2>2. i + 1 # 1
    BY <1>2, <2>1
  <2> QED
    BY <2>1, <2>2 DEF BundleRun
<1>4. BundlesApart'
  <2>1. ASSUME NEW i \in DOMAIN completions'
        PROVE  Len(completions'[i].kinds) <= RX_RING_SIZE
    BY <1>2, <2>1 DEF BundlesApart
  <2>2. ASSUME NEW i \in DOMAIN completions', NEW j \in DOMAIN completions',
               NEW s \in Slots, s \in BundleRun(i)', s \in BundleRun(j)'
        PROVE  i = j
    <3>1. i + 1 = j + 1
      BY <1>3, <2>2 DEF BundlesApart
    <3> QED
      BY <1>3, <3>1
  <2> QED
    BY <2>1, <2>2 DEF BundlesApart
<1>5. ASSUME NEW slot \in Slots
      PROVE  InBundle(slot) <=> slot \in BundleRun(1) \/ InBundle(slot)'
  <2>1. ASSUME InBundle(slot) PROVE slot \in BundleRun(1) \/ InBundle(slot)'
    <3>1. PICK i \in DOMAIN completions : slot \in BundleRun(i)
      BY <2>1 DEF InBundle
    <3>2. CASE i # 1
      <4>1. i - 1 \in DOMAIN completions' /\ (i - 1) + 1 = i
        BY <1>2, <3>2
      <4>2. slot \in BundleRun(i - 1)'
        BY <1>3, <3>1, <4>1
      <4> QED
        BY <4>1, <4>2 DEF InBundle
    <3> QED
      BY <3>1, <3>2
  <2>2. ASSUME slot \in BundleRun(1) PROVE InBundle(slot)
    BY <1>2, <2>2 DEF InBundle
  <2>3. ASSUME InBundle(slot)' PROVE InBundle(slot)
    BY <1>3, <2>3 DEF InBundle
  <2> QED
    BY <2>1, <2>2, <2>3
<1>6. ASSUME NEW slot \in Slots, slot \in BundleRun(1), InBundle(slot)'
      PROVE  FALSE
  <2>1. PICK i \in DOMAIN completions' : slot \in BundleRun(i)'
    BY <1>6 DEF InBundle
  <2>2. slot \in BundleRun(i + 1) /\ 1 \in DOMAIN completions
    BY <1>2, <1>3, <2>1
  <2> QED
    BY <1>3, <1>6, <2>1, <2>2 DEF BundlesApart
<1>7. (\A i \in DOMAIN completions : completions[i].session = session)
        => (\A i \in DOMAIN completions' : completions'[i].session = session)
  BY <1>2
<1> QED
  BY <1>4, <1>5, <1>6, <1>7

(* and so does handling a completion. *)
LEMMA ReadCompleteKeepsReads ==
    ASSUME StateInv, ReadInv, ReadCompleteBundled
    PROVE  ReadInv'
<1> DEFINE b == completions[1]
           n == Len(b.kinds)
<1>1. /\ completions # <<>> /\ completions' = Tail(completions)
      /\ b \in Bundles /\ n \in Nat \ {0}
      /\ UNCHANGED <<partial, fIsRunning, session>>
  BY ReadCompleteCases, Zenon
<1>2. /\ QueueTypes /\ SlotTypes /\ ControlTypes
      /\ CurrentInv /\ PipeApart /\ BundlesApart /\ PlacesApart /\ ExactInv
  BY DEF StateInv, ReadInv, ApartInv
<1>3. /\ BundlesApart'
      /\ \A slot \in Slots :
           /\ InBundle(slot) <=> slot \in BundleRun(1) \/ InBundle(slot)'
           /\ ~ (slot \in BundleRun(1) /\ InBundle(slot)')
      /\ (\A i \in DOMAIN completions : completions[i].session = session)
           => (\A i \in DOMAIN completions' : completions'[i].session = session)
  <2> HIDE DEF b, n
  <2> QED
    BY <1>1, <1>2, BundleHandled
<1>4. \A i \in DOMAIN completions' : completions'[i].session = session'
  BY <1>1, <1>2, <1>3 DEF CurrentInv
<1>5. CASE /\ ~fIsRunning
           /\ UNCHANGED <<pipe, failures, took>>
  <2>1. pipe' = <<>>
    BY <1>2, <1>5 DEF CurrentInv
  <2> QED
    BY <1>1, <1>3, <1>4, <1>5, <2>1
       DEF ReadInv, CurrentInv, ApartInv, PipeApart, PlacesApart, ExactInv, InPipe
<1>6. CASE fIsRunning
  <2>1. /\ b.first \in Slots /\ BundleRun(1) = Run(b.first, n)
        /\ n \in Nat /\ n <= RX_RING_SIZE
    <3>1. 1 \in DOMAIN completions
      BY <1>1, <1>2 DEF QueueTypes
    <3> QED
      BY <1>1, <1>2, <3>1 DEF Bundles, BundleRun, BundlesApart
  <2>2. BundleRun(1) \subseteq Marked(fRxSlotState)
    <3>1. \A slot \in BundleRun(1) : slot \in Slots
      <4> HIDE DEF b, n
      <4> QED
        BY <2>1, RunSize
    <3> QED
      BY <1>2, <1>3, <1>6, <3>1 DEF ExactInv, InFlight
  <2>3. /\ Freed \in [Slots -> {"free", "inflight"}]
        /\ Marked(Freed) = Marked(fRxSlotState) \ BundleRun(1)
        /\ Cardinality(Marked(Freed)) = Cardinality(Marked(fRxSlotState)) - n
    <3>1. fRxSlotState \in [Slots -> {"free", "inflight"}]
      BY <1>2 DEF SlotTypes
    <3> HIDE DEF b, n
    <3> QED
      BY <2>1, <2>2, <3>1, MarkFree DEF Freed
  <2>4. CountAfter(n) \in Nat /\ CountAfter(n) = Cardinality(Marked(Freed))
    <3>1. /\ fRxSlotsInFlight = Cardinality(Marked(fRxSlotState))
          /\ fRxSlotsInFlight \in Nat /\ Cardinality(Marked(Freed)) \in Nat
      BY <1>2, <1>6, MarkedFinite DEF ExactInv, InFlight, SlotTypes
    <3> HIDE DEF b, n
    <3> QED
      BY <2>1, <2>3, <3>1 DEF CountAfter
  <2>5. \A slot \in Slots :
          slot \in Marked(Freed) <=> InPipe(slot) \/ InBundle(slot)'
    <3>1. ASSUME NEW slot \in Slots
          PROVE  slot \in Marked(Freed) <=> InPipe(slot) \/ InBundle(slot)'
      <4>1. /\ slot \in Marked(fRxSlotState) <=> InPipe(slot) \/ InBundle(slot)
            /\ ~ (InPipe(slot) /\ InBundle(slot))
        BY <1>2, <1>6 DEF ExactInv, InFlight, PlacesApart
      <4>2. slot \in Marked(Freed) <=> slot \in Marked(fRxSlotState) /\ slot \notin BundleRun(1)
        BY <2>3
      <4>3. /\ InBundle(slot) <=> slot \in BundleRun(1) \/ InBundle(slot)'
            /\ ~ (slot \in BundleRun(1) /\ InBundle(slot)')
        BY <1>3
      <4> QED
        BY <4>1, <4>2, <4>3, Zenon
    <3> QED
      BY <3>1
  <2>6. \A slot \in Slots : ~ (InPipe(slot) /\ InBundle(slot)')
    BY <1>2, <1>3 DEF PlacesApart
  <2>7. /\ \A i \in DOMAIN pipe : pipe[i][1] = session'
        /\ session' \in 1 .. MaxSessions /\ session' = session
    BY <1>1, <1>2, <1>6 DEF CurrentInv, ControlTypes
  <2>8. CASE NotSubmitted(Freed, CountAfter(n), pipe)
    <3>1. /\ pipe' = pipe /\ InFlight' = Marked(Freed)
          /\ fRxSlotsInFlight' = CountAfter(n)
      BY <2>8 DEF NotSubmitted, InFlight
    <3>2. \A slot \in Slots : InPipe(slot)' <=> InPipe(slot)
      BY <3>1 DEF InPipe
    <3>3. PipeApart' /\ PlacesApart'
      BY <1>2, <2>6, <3>1, <3>2 DEF PipeApart, PlacesApart
    <3>4. ExactInv'
      <4> HIDE DEF b, n
      <4> QED
        BY <2>4, <2>5, <3>1, <3>2 DEF ExactInv
    <3>5. CurrentInv'
      BY <1>1, <1>4, <1>6, <2>7, <3>1 DEF CurrentInv
    <3> QED
      BY <1>3, <3>3, <3>4, <3>5 DEF ReadInv, ApartInv
  <2>9. ASSUME NEW first \in Slots, NEW m \in 0 .. RX_RING_SIZE,
               \A i \in Run(first, m) : Freed[i] = "free",
               Submitted(Freed, CountAfter(n), session, pipe, first, m)
        PROVE  ReadInv'
    <3>1. Submitted(Freed, CountAfter(n), session', pipe, first, m)
      BY <2>7, <2>9
    <3>2. /\ \A i \in DOMAIN pipe' : pipe'[i][1] = session'
          /\ PipeApart' /\ PlacesApart' /\ ExactInv'
      <4> HIDE DEF b, n
      <4> QED
        BY <1>2, <2>3, <2>4, <2>5, <2>6, <2>7, <2>9, <3>1, SubmissionKeepsReads
    <3> QED
      BY <1>1, <1>3, <1>4, <1>6, <3>2 DEF ReadInv, CurrentInv, ApartInv
  <2> QED
    BY <1>6, <2>8, <2>9, ReadCompleteCases
<1> QED
  BY <1>5, <1>6, ReadCompleteCases

(* StopIO turns each read of the pipe into a bundle of its own.            *)
LEMMA StopIOKeepsReads ==
    ASSUME StateInv, ReadInv, StopIO
    PROVE  ReadInv'
<1> DEFINE aborted == [i \in 1 .. Len(pipe) |->
             [session |-> pipe[i][1], first |-> pipe[i][2],
              kinds |-> <<"aborted">>]]
<1>1. /\ completions' = completions \o aborted /\ pipe' = <<>>
      /\ ~fIsRunning' /\ session' = session
  BY DEF StopIO
<1>2. /\ QueueTypes /\ CurrentInv /\ PipeApart /\ BundlesApart /\ PlacesApart
  BY DEF StateInv, ReadInv, ApartInv
<1>3. Len(pipe) \in Nat /\ DOMAIN pipe = 1 .. Len(pipe)
  BY <1>2 DEF QueueTypes
<1>4. ASSUME NEW i \in 1 .. Len(pipe)
      PROVE  /\ aborted[i] \in Bundles
             /\ aborted[i].first = pipe[i][2] /\ Len(aborted[i].kinds) = 1
             /\ aborted[i].session = session
  <2>1. pipe[i] \in (1 .. MaxSessions) \X Slots
    BY <1>2, <1>3 DEF QueueTypes
  <2>2. <<"aborted">> \in Seq(Kinds) /\ Len(<<"aborted">>) = 1
    BY DEF Kinds
  <2>3. pipe[i][1] = session
    BY <1>2, <1>3 DEF CurrentInv
  <2> QED
    BY <2>1, <2>2, <2>3 DEF Bundles
<1>5. aborted \in Seq(Bundles) /\ Len(aborted) = Len(pipe)
  BY <1>3, <1>4
<1>6. /\ Len(completions) \in Nat /\ DOMAIN completions = 1 .. Len(completions)
      /\ DOMAIN completions' = 1 .. Len(completions) + Len(pipe)
      /\ \A i \in 1 .. Len(completions) : completions'[i] = completions[i]
      /\ \A i \in 1 .. Len(pipe) : completions'[Len(completions) + i] = aborted[i]
  <2>1. completions \in Seq(Bundles)
    BY <1>2 DEF QueueTypes
  <2> HIDE DEF aborted
  <2>2. /\ Len(completions) \in Nat /\ DOMAIN completions = 1 .. Len(completions)
        /\ DOMAIN (completions \o aborted) = 1 .. Len(completions) + Len(aborted)
        /\ \A i \in 1 .. Len(completions) : (completions \o aborted)[i] = completions[i]
        /\ \A i \in 1 .. Len(aborted) : (completions \o aborted)[Len(completions) + i] = aborted[i]
    <3>1. aborted \in Seq(Bundles)
      BY <1>5
    <3> QED
      BY <2>1, <3>1, Concatenation
  <2> QED
    BY <1>1, <1>5, <2>2
<1>7. ASSUME NEW i \in 1 .. Len(completions)
      PROVE  BundleRun(i)' = BundleRun(i) /\ i \in DOMAIN completions
  BY <1>6 DEF BundleRun
<1>8. ASSUME NEW i \in 1 .. Len(pipe), NEW j, j = Len(completions) + i
      PROVE  BundleRun(j)' = {pipe[i][2]} /\ pipe[i][2] \in Slots
  <2>1. /\ completions'[j].first = pipe[i][2]
        /\ Len(completions'[j].kinds) = 1
    BY <1>4, <1>6, <1>8
  <2>2. pipe[i][2] \in Slots
    BY <1>2, <1>3, PipeTyped
  <2>3. Run(pipe[i][2], 1) = {pipe[i][2]}
    <3>1. Wrap(pipe[i][2] + 0) = pipe[i][2]
      BY <2>2, WrapOfSlot
    <3>2. 0 .. 1 - 1 = {0}
      OBVIOUS
    <3> QED
      BY <3>1, <3>2 DEF Run
  <2> QED
    BY <2>1, <2>2, <2>3 DEF BundleRun
<1>9. \A j \in DOMAIN completions' :
        \/ j \in 1 .. Len(completions)
        \/ \E i \in 1 .. Len(pipe) : j = Len(completions) + i
  <2>1. ASSUME NEW j \in DOMAIN completions', j \notin 1 .. Len(completions)
        PROVE  \E i \in 1 .. Len(pipe) : j = Len(completions) + i
    <3>1. j - Len(completions) \in 1 .. Len(pipe)
          /\ j = Len(completions) + (j - Len(completions))
      BY <1>3, <1>6, <2>1
    <3> QED
      BY <3>1
  <2> QED
    BY <2>1
<1> HIDE DEF aborted
<1>10. ASSUME NEW j \in DOMAIN completions'
       PROVE  /\ completions'[j].session = session'
              /\ Len(completions'[j].kinds) <= RX_RING_SIZE
  <2>1. CASE j \in 1 .. Len(completions)
    BY <1>1, <1>2, <1>6, <1>10, <2>1 DEF CurrentInv, BundlesApart
  <2>2. ASSUME NEW i \in 1 .. Len(pipe), j = Len(completions) + i
        PROVE  /\ completions'[j].session = session'
               /\ Len(completions'[j].kinds) <= RX_RING_SIZE
    <3>1. completions'[j] = aborted[i]
      BY <1>6, <2>2
    <3>2. aborted[i].session = session /\ Len(aborted[i].kinds) = 1
      BY <1>4
    <3>3. 1 <= RX_RING_SIZE
      OBVIOUS
    <3> QED
      BY <1>1, <3>1, <3>2, <3>3
  <2> QED
    BY <1>9, <1>10, <2>1, <2>2

(* A bundle made now has a slot of the pipe's, the others have theirs.     *)
<1>11. ASSUME NEW i \in DOMAIN completions', NEW j \in DOMAIN completions',
              NEW s \in Slots, s \in BundleRun(i)', s \in BundleRun(j)'
       PROVE  i = j
  <2>1. CASE i \in 1 .. Len(completions) /\ j \in 1 .. Len(completions)
    BY <1>2, <1>7, <1>11, <2>1 DEF BundlesApart
  <2>2. ASSUME NEW k \in 1 .. Len(completions), NEW m \in 1 .. Len(pipe),
               NEW l, l = Len(completions) + m,
               s \in BundleRun(k)', s \in BundleRun(l)'
        PROVE  FALSE
    <3>1. s \in BundleRun(k) /\ k \in DOMAIN completions
      BY <1>7, <2>2
    <3>2. s = pipe[m][2] /\ m \in DOMAIN pipe
      BY <1>3, <1>8, <2>2
    <3> QED
      BY <1>2, <3>1, <3>2 DEF PlacesApart, InPipe, InBundle
  <2>3. ASSUME NEW k \in 1 .. Len(pipe), NEW m \in 1 .. Len(pipe),
               i = Len(completions) + k, j = Len(completions) + m
        PROVE  k = m
    <3>1. s = pipe[k][2] /\ s = pipe[m][2]
      BY <1>8, <1>11, <2>3
    <3> QED
      BY <1>2, <1>3, <3>1 DEF PipeApart
  <2> QED
    BY <1>9, <1>11, <2>1, <2>2, <2>3
<1>12. CurrentInv'
  BY <1>1, <1>10 DEF CurrentInv
<1>13. BundlesApart'
  BY <1>10, <1>11 DEF BundlesApart
<1>14. PipeApart' /\ PlacesApart' /\ ExactInv'
  BY <1>1 DEF PipeApart, PlacesApart, InPipe, ExactInv
<1> QED
  BY <1>12, <1>13, <1>14 DEF ReadInv, ApartInv

(* Reads at the head of the pipe become a bundle with their slots.         *)
LEMMA CompleteKeepsReads ==
    ASSUME StateInv, ReadInv, Complete
    PROVE  ReadInv'
<1>1. PICK n \in 1 .. Len(pipe) :
        /\ Bundleable(n)
        /\ \E kind \in {"whole", "part", "error"} :
             completions' = Append(completions,
                  [session |-> pipe[1][1], first |-> pipe[1][2],
                   kinds |-> [k \in 1 .. n |-> kind]])
        /\ pipe' = SubSeq(pipe, n + 1, Len(pipe))
  BY DEF Complete
<1>2. PICK kind \in {"whole", "part", "error"} :
        completions' = Append(completions,
                  [session |-> pipe[1][1], first |-> pipe[1][2],
                   kinds |-> [k \in 1 .. n |-> kind]])
  BY <1>1
<1>3. UNCHANGED <<fIsRunning, fRxSlotState, fRxSlotsInFlight, session>> /\ pipe # <<>>
  BY DEF Complete
<1>4. /\ QueueTypes /\ CurrentInv /\ PipeApart /\ BundlesApart /\ PlacesApart /\ ExactInv
  BY DEF StateInv, ReadInv, ApartInv
<1>5. /\ Len(pipe) \in Nat /\ DOMAIN pipe = 1 .. Len(pipe)
      /\ n \in Nat \ {0} /\ n <= Len(pipe)
  BY <1>4 DEF QueueTypes
<1>6. \A i \in 1 .. Len(pipe) : pipe[i][2] \in Slots /\ pipe[i][1] = session
  BY <1>4, <1>5, PipeTyped DEF CurrentInv
<1>7. /\ DOMAIN pipe' = 1 .. Len(pipe) - n
      /\ \A i \in 1 .. Len(pipe) - n : pipe'[i] = pipe[n + i]
  <2>1. n \in 0 .. Len(pipe) /\ pipe \in Seq((1 .. MaxSessions) \X Slots)
    BY <1>4, <1>5 DEF QueueTypes
  <2>2. pipe' = SubSeq(pipe, n + 1, Len(pipe))
    BY <1>1
  <2> QED
    BY <2>1, <2>2, Dropped
<1> DEFINE c == [session |-> pipe[1][1], first |-> pipe[1][2],
                 kinds |-> [k \in 1 .. n |-> kind]]
           last == Len(completions) + 1
<1>8. c \in Bundles /\ c.session = session /\ c.first = pipe[1][2] /\ Len(c.kinds) = n
  <2>1. pipe[1] \in (1 .. MaxSessions) \X Slots /\ pipe[1][1] = session
    BY <1>4, <1>5, <1>6, PipeTyped
  <2>2. [k \in 1 .. n |-> kind] \in Seq(Kinds) /\ Len([k \in 1 .. n |-> kind]) = n
    BY <1>5 DEF Kinds
  <2> QED
    BY <2>1, <2>2 DEF Bundles
<1>9. /\ Len(completions) \in Nat /\ DOMAIN completions = 1 .. Len(completions)
      /\ DOMAIN completions' = 1 .. last
      /\ \A i \in 1 .. Len(completions) : completions'[i] = completions[i]
      /\ completions'[last] = c
  <2>1. completions \in Seq(Bundles) /\ completions' = Append(completions, c)
    BY <1>2, <1>4 DEF QueueTypes
  <2> HIDE DEF c
  <2> QED
    BY <1>8, <2>1

(* The bundle is no longer than a turn: no slot of the pipe comes twice.   *)
<1>10. n <= RX_RING_SIZE
  <2>1. ASSUME n > RX_RING_SIZE PROVE FALSE
    <3>1. RX_RING_SIZE + 1 \in 1 .. n /\ RX_RING_SIZE + 1 \in 1 .. Len(pipe)
          /\ 1 \in 1 .. Len(pipe)
      BY <1>5, <2>1
    <3>2. pipe[RX_RING_SIZE + 1][2] = Wrap(pipe[1][2] + (RX_RING_SIZE + 1) - 1)
      BY <1>1, <3>1 DEF Bundleable
    <3>3. pipe[1][2] \in Slots
      BY <1>6, <3>1
    <3>4. Wrap(pipe[1][2] + (RX_RING_SIZE + 1) - 1) = pipe[1][2]
      <4>1. pipe[1][2] + (RX_RING_SIZE + 1) - 1 = RX_RING_SIZE * 1 + pipe[1][2]
        BY <3>3
      <4>2. pipe[1][2] \in 0 .. RX_RING_SIZE - 1 /\ RX_RING_SIZE \in Nat \ {0}
        BY <3>3
      <4>3. ASSUME NEW q \in Int
            PROVE  (RX_RING_SIZE * q + pipe[1][2]) % RX_RING_SIZE = pipe[1][2]
        BY <4>2, ModUnique
      <4>4. (RX_RING_SIZE * 1 + pipe[1][2]) % RX_RING_SIZE = pipe[1][2]
        BY <4>3, 1 \in Int, Zenon
      <4>5. Wrap(pipe[1][2] + (RX_RING_SIZE + 1) - 1)
              = (RX_RING_SIZE * 1 + pipe[1][2]) % RX_RING_SIZE
        BY <4>1, Zenon
      <4> QED
        BY <4>4, <4>5, Zenon
    <3> QED
      BY <1>4, <1>5, <3>1, <3>2, <3>4 DEF PipeApart
  <2> QED
    BY <1>5, <2>1
<1>11. \A s \in Slots : s \in Run(pipe[1][2], n) <=> \E i \in 1 .. n : pipe[i][2] = s
  <2>1. ASSUME NEW i \in 1 .. n PROVE pipe[i][2] = Wrap(pipe[1][2] + (i - 1))
    <3>1. pipe[i][2] = Wrap(pipe[1][2] + i - 1)
      BY <1>1 DEF Bundleable
    <3>2. pipe[1][2] + i - 1 = pipe[1][2] + (i - 1)
      BY <1>5, <1>6
    <3> QED
      BY <3>1, <3>2
  <2>2. ASSUME NEW s \in Run(pipe[1][2], n) PROVE \E i \in 1 .. n : pipe[i][2] = s
    <3>1. PICK k \in 0 .. n - 1 : s = Wrap(pipe[1][2] + k)
      BY <2>2 DEF Run
    <3>2. k + 1 \in 1 .. n /\ (k + 1) - 1 = k
      BY <1>5
    <3> QED
      BY <2>1, <3>1, <3>2
  <2>3. ASSUME NEW i \in 1 .. n PROVE pipe[i][2] \in Run(pipe[1][2], n)
    <3>1. i - 1 \in 0 .. n - 1
      BY <1>5
    <3> QED
      BY <2>1, <3>1 DEF Run
  <2> QED
    BY <2>2, <2>3
<1> HIDE DEF c
<1>12. ASSUME NEW i \in 1 .. Len(completions)
       PROVE  BundleRun(i)' = BundleRun(i) /\ i \in DOMAIN completions
  BY <1>9 DEF BundleRun
<1>13. ASSUME NEW j, j = last
       PROVE  BundleRun(j)' = Run(pipe[1][2], n)
  BY <1>8, <1>9, <1>13 DEF BundleRun
<1>14. \A j \in DOMAIN completions' : j \in 1 .. Len(completions) \/ j = last
  BY <1>9
<1>15. CurrentInv'
  <2>1. \A i \in DOMAIN pipe' : pipe'[i][1] = session'
    <3>1. \A i \in 1 .. Len(pipe) - n : n + i \in 1 .. Len(pipe)
      BY <1>5
    <3> QED
      BY <1>3, <1>6, <1>7, <3>1, SMTT(60)
  <2>2. \A i \in DOMAIN completions' : completions'[i].session = session'
    BY <1>3, <1>4, <1>8, <1>9, <1>14 DEF CurrentInv
  <2>3. fIsRunning'
    BY <1>3, <1>4 DEF CurrentInv
  <2> QED
    BY <2>1, <2>2, <2>3 DEF CurrentInv
<1>16. PipeApart'
  <2>1. ASSUME NEW i \in 1 .. Len(pipe) - n, NEW j \in 1 .. Len(pipe) - n,
               pipe'[i][2] = pipe'[j][2]
        PROVE  i = j
    <3>1. n + i \in DOMAIN pipe /\ n + j \in DOMAIN pipe
      BY <1>5
    <3>2. n + i = n + j
      BY <1>4, <1>7, <2>1, <3>1 DEF PipeApart
    <3> QED
      BY <1>5, <3>2
  <2> QED
    BY <1>7, <2>1 DEF PipeApart

(* The slots of the pipe are divided: the first n to the bundle.           *)
<1>17. ASSUME NEW s \in Slots
       PROVE  /\ InPipe(s) <=> InPipe(s)' \/ s \in Run(pipe[1][2], n)
              /\ ~ (InPipe(s)' /\ s \in Run(pipe[1][2], n))
  <2>1. InPipe(s)' <=> \E i \in 1 .. Len(pipe) - n : pipe[n + i][2] = s
    BY <1>7 DEF InPipe
  <2>2. InPipe(s) <=> \E i \in 1 .. Len(pipe) : pipe[i][2] = s
    BY <1>5 DEF InPipe
  <2>3. ASSUME NEW i \in 1 .. Len(pipe), i \notin 1 .. n
        PROVE  i - n \in 1 .. Len(pipe) - n /\ n + (i - n) = i
    BY <1>5, <2>3
  <2>4. ASSUME NEW i \in 1 .. Len(pipe) - n
        PROVE  n + i \in 1 .. Len(pipe) /\ n + i \notin 1 .. n
    BY <1>5
  <2>5. ASSUME NEW i \in 1 .. n PROVE i \in 1 .. Len(pipe)
    BY <1>5
  <2>6. InPipe(s) <=> InPipe(s)' \/ s \in Run(pipe[1][2], n)
    <3>1. ASSUME NEW i \in 1 .. Len(pipe), pipe[i][2] = s, i \notin 1 .. n
          PROVE  InPipe(s)'
      BY <2>1, <2>3, <3>1
    <3> QED
      BY <1>11, <2>1, <2>2, <2>4, <2>5, <3>1
  <2>7. ASSUME InPipe(s)', s \in Run(pipe[1][2], n) PROVE FALSE
    <3>1. PICK i \in 1 .. Len(pipe) - n : pipe[n + i][2] = s
      BY <2>1, <2>7
    <3>2. PICK k \in 1 .. n : pipe[k][2] = s
      BY <1>11, <2>7
    <3>3. n + i = k
      BY <1>4, <1>5, <2>4, <2>5, <3>1, <3>2 DEF PipeApart
    <3> QED
      BY <2>4, <3>3
  <2> QED
    BY <2>6, <2>7
<1>18. ASSUME NEW s \in Slots
       PROVE  InBundle(s)' <=> InBundle(s) \/ s \in Run(pipe[1][2], n)
  <2>1. InBundle(s)' <=> \E j \in 1 .. last : s \in BundleRun(j)'
    BY <1>9 DEF InBundle
  <2>2. 1 .. last = 1 .. Len(completions) \union {last}
    BY <1>9
  <2>3. \A j : j = last => BundleRun(j)' = Run(pipe[1][2], n)
    BY <1>13
  <2>4. InBundle(s) <=> \E j \in 1 .. Len(completions) : s \in BundleRun(j)
    BY <1>9 DEF InBundle
  <2> QED
    BY <1>12, <2>1, <2>2, <2>3, <2>4
<1>19. PlacesApart'
  BY <1>4, <1>17, <1>18 DEF PlacesApart
<1>20. ExactInv'
  <2>1. InFlight' = InFlight
    BY <1>3 DEF InFlight
  <2> QED
    BY <1>3, <1>4, <1>17, <1>18, <2>1 DEF ExactInv
<1>21. BundlesApart'
  <2>1. ASSUME NEW i \in DOMAIN completions'
        PROVE  Len(completions'[i].kinds) <= RX_RING_SIZE
    BY <1>4, <1>8, <1>9, <1>10, <1>14 DEF BundlesApart
  <2>2. ASSUME NEW s \in Slots, NEW k \in 1 .. Len(completions),
               s \in BundleRun(k)', s \in Run(pipe[1][2], n)
        PROVE  FALSE
    BY <1>4, <1>12, <1>17, <2>2 DEF PlacesApart, InBundle
  <2>3. ASSUME NEW i \in DOMAIN completions', NEW j \in DOMAIN completions',
               NEW s \in Slots, s \in BundleRun(i)', s \in BundleRun(j)'
        PROVE  i = j
    <3>1. CASE i \in 1 .. Len(completions) /\ j \in 1 .. Len(completions)
      BY <1>4, <1>12, <2>3, <3>1 DEF BundlesApart
    <3>2. CASE i \in 1 .. Len(completions) /\ j = last
      BY <1>13, <2>2, <2>3, <3>2
    <3>3. CASE i = last /\ j \in 1 .. Len(completions)
      BY <1>13, <2>2, <2>3, <3>3
    <3> QED
      BY <1>14, <3>1, <3>2, <3>3
  <2> QED
    BY <2>1, <2>3 DEF BundlesApart
<1> QED
  BY <1>15, <1>16, <1>19, <1>20, <1>21 DEF ReadInv, ApartInv
-----------------------------------------------------------------------------
(* The theorems. *)

(* The driver starts with every slot free and nothing outstanding.         *)
LEMMA InitInv == Init => IInv
<1> SUFFICES ASSUME Init PROVE IInv
  OBVIOUS
<1>1. Marked(fRxSlotState) = {}
  BY DEF Init, Marked
<1>2. CountInv
  BY <1>1, FS_EmptySet DEF Init, CountInv, InFlight
<1>3. ControlTypes /\ SlotTypes /\ QueueTypes /\ NeverStarved
  <2>1. ControlTypes
    <3>1. /\ partial \in PartialAccept /\ fIsRunning = FALSE
          /\ residue = FALSE /\ session = 0 /\ failures = 0 /\ took = FALSE
      BY Zenon DEF Init
    <3>2. session \in 0 .. MaxSessions /\ failures \in 0 .. MaxFailures
      BY <3>1
    <3>3. /\ ~fIsRunning /\ fIsRunning \in BOOLEAN /\ residue \in BOOLEAN
          /\ took \in BOOLEAN
      BY <3>1, Zenon
    <3> QED
      BY <3>1, <3>2, <3>3, Zenon DEF ControlTypes
  <2>2. SlotTypes
    BY DEF Init, SlotTypes
  <2>3. QueueTypes
    BY DEF Init, QueueTypes
  <2>4. NeverStarved
    BY DEF Init, NeverStarved
  <2> QED
    BY <2>1, <2>2, <2>3, <2>4
<1>4. ReadInv
  BY DEF Init, ReadInv, CurrentInv, ApartInv, PipeApart, BundlesApart,
         PlacesApart, InPipe, ExactInv
<1> QED
  BY <1>2, <1>3, <1>4 DEF IInv, StateInv

(* Every handler and every step of the stack keeps the invariant.          *)
LEMMA NextInv == IInv /\ [Next]_vars => IInv'
<1> SUFFICES ASSUME IInv, [Next]_vars PROVE IInv'
  OBVIOUS
<1>1. CASE StartIO
  BY <1>1, StartIOKeepsState, StartIOKeepsReads DEF IInv
<1>2. CASE StopIO
  BY <1>2, StopIOKeepsState, StopIOKeepsReads DEF IInv
<1>3. CASE ReadCompleteBundled
  BY <1>3, ReadCompleteKeepsState, ReadCompleteKeepsReads DEF IInv
<1>4. CASE Complete
  BY <1>4, CompleteKeepsState, CompleteKeepsReads DEF IInv
<1>5. CASE UNCHANGED vars
  <2>1. StateInv'
    BY <1>5 DEF vars, IInv, StateInv, ControlTypes, SlotTypes, QueueTypes,
       CountInv, InFlight, NeverStarved, NothingOutstanding
  <2>2. ReadInv => ReadInv'
    BY <1>5 DEF vars, ReadInv, CurrentInv, ApartInv, PipeApart, BundlesApart,
       PlacesApart, ExactInv, InPipe, InBundle, BundleRun, InFlight
  <2> QED
    BY <2>1, <2>2 DEF IInv
<1> QED
  BY <1>1, <1>2, <1>3, <1>4, <1>5 DEF Next

(* The inductive invariant holds of every behaviour: the count stays       *)
(* behind the slots, and reception stops only at a submission that took no *)
(* read, whenever the aborted reads come back; the places of the reads are *)
(* apart if they come back before the next start.                          *)
THEOREM Invariance == Spec => []IInv
<1>1. Init => IInv
  BY InitInv
<1>2. IInv /\ [Next]_vars => IInv'
  BY NextInv
<1> QED
  BY <1>1, <1>2, PTL DEF Spec

(* The type invariant of the runs follows.                                 *)
LEMMA StateGivesTypes == StateInv => TypeOK
<1> SUFFICES ASSUME StateInv PROVE TypeOK
  OBVIOUS
<1>1. fRxSlotsInFlight \in 0 .. RX_RING_SIZE
  BY MarkedFinite DEF StateInv, CountInv, InFlight, SlotTypes
<1>2. \A i \in DOMAIN completions :
        completions[i].first \in Slots /\ completions[i].kinds \in Seq(Kinds)
  <2>1. ASSUME NEW i \in DOMAIN completions
        PROVE  completions[i].first \in Slots /\ completions[i].kinds \in Seq(Kinds)
    BY BundleTyped DEF StateInv, Bundles
  <2> QED
    BY <2>1
<1> QED
  BY <1>1, <1>2 DEF TypeOK, StateInv, ControlTypes, SlotTypes, QueueTypes

(* Type correctness and NeverStarved, whether or not the completions of    *)
(* aborted reads are handled before the next StartIO: as long as the last  *)
(* SubmitPendingReads took a read, one is outstanding.                     *)
THEOREM NeverStops == Spec => [](TypeOK /\ NeverStarved)
<1>1. IInv => TypeOK /\ NeverStarved
  BY StateGivesTypes DEF IInv, StateInv
<1> QED
  BY <1>1, Invariance, PTL

(* The slots a session has outstanding are those with a place.             *)
LEMMA OutstandingSlots ==
    ASSUME StateInv, ReadInv
    PROVE  /\ Outstanding(session) = {s \in Slots : InPipe(s) \/ InBundle(s)}
           /\ \A s \in 1 .. session - 1 : Outstanding(s) = {}
<1>1. QueueTypes /\ CurrentInv /\ ControlTypes
  BY DEF StateInv, ReadInv
<1>2. /\ {j \in DOMAIN pipe : pipe[j][1] = session} = DOMAIN pipe
      /\ {j \in DOMAIN completions : completions[j].session = session}
           = DOMAIN completions
  BY <1>1 DEF CurrentInv
<1>3. \A i \in DOMAIN completions :
        {Wrap(completions[i].first + k) :
            k \in 0 .. Len(completions[i].kinds) - 1} = BundleRun(i)
  BY DEF BundleRun, Run
<1>4. Outstanding(session) =
        {pipe[i][2] : i \in DOMAIN pipe}
          \union UNION {BundleRun(i) : i \in DOMAIN completions}
  BY <1>2, <1>3 DEF Outstanding
<1>5. ASSUME NEW s
      PROVE  s \in Outstanding(session) <=> InPipe(s) \/ InBundle(s)
  BY <1>4 DEF InPipe, InBundle
<1>6. ASSUME NEW s, InPipe(s) \/ InBundle(s) PROVE s \in Slots
  <2>1. CASE InPipe(s)
    BY <1>1, <2>1, PipeTyped DEF InPipe
  <2>2. CASE InBundle(s)
    BY <1>1, <2>2, BundleTyped DEF InBundle
  <2> QED
    BY <1>6, <2>1, <2>2
<1>7. Outstanding(session) = {s \in Slots : InPipe(s) \/ InBundle(s)}
  BY <1>5, <1>6
<1>8. ASSUME NEW s \in 1 .. session - 1 PROVE Outstanding(s) = {}
  <2>1. s # session
    BY <1>1 DEF ControlTypes
  <2>2. /\ {j \in DOMAIN pipe : pipe[j][1] = s} = {}
        /\ {j \in DOMAIN completions : completions[j].session = s} = {}
    BY <1>1, <2>1 DEF CurrentInv
  <2> QED
    BY <2>2 DEF Outstanding
<1> QED
  BY <1>7, <1>8

(* While the driver runs, the slots marked in flight are exactly those     *)
(* with a read not yet handled, and the count is theirs: a slot is never   *)
(* lost to reception, and none is submitted twice.                         *)
THEOREM SlotStatesExact == Spec => [](AbortDelivers => SlotsExact)
<1>1. IInv => (AbortDelivers => SlotsExact)
  <2> SUFFICES ASSUME IInv, AbortDelivers PROVE SlotsExact
    OBVIOUS
  <2>1. StateInv /\ ReadInv
    BY DEF IInv
  <2>2. TypeOK /\ NeverStarved
    BY <2>1, StateGivesTypes DEF StateInv
  <2>3. ASSUME fIsRunning
        PROVE  /\ {i \in Slots : fRxSlotState[i] = "inflight"} = Outstanding(session)
               /\ fRxSlotsInFlight = Cardinality(Outstanding(session))
    <3>1. {i \in Slots : fRxSlotState[i] = "inflight"} = InFlight
      BY DEF InFlight, Marked
    <3>2. /\ \A s \in Slots : s \in InFlight <=> InPipe(s) \/ InBundle(s)
          /\ fRxSlotsInFlight = Cardinality(InFlight)
      BY <2>1, <2>3 DEF ReadInv, ExactInv
    <3>3. InFlight \subseteq Slots
      BY DEF InFlight, Marked
    <3>4. InFlight = Outstanding(session)
      BY <2>1, <3>2, <3>3, OutstandingSlots
    <3> QED
      BY <3>1, <3>2, <3>4
  <2> QED
    BY <2>2, <2>3 DEF SlotsExact
<1> QED
  BY <1>1, Invariance, PTL

(* The reads of the pipe are as many as their slots.                       *)
LEMMA PipeCounted ==
    ASSUME StateInv, ReadInv
    PROVE  LET slots == {s \in Slots : InPipe(s)}
           IN  IsFiniteSet(slots) /\ Cardinality(slots) = Len(pipe)
<1> DEFINE slots == {s \in Slots : InPipe(s)}
           f == [i \in DOMAIN pipe |-> pipe[i][2]]
<1>1. QueueTypes /\ PipeApart
  BY DEF StateInv, ReadInv, ApartInv
<1>2. Len(pipe) \in Nat /\ DOMAIN pipe = 1 .. Len(pipe)
  BY <1>1 DEF QueueTypes
<1>3. \A i \in DOMAIN pipe : pipe[i][2] \in Slots
  BY <1>1, PipeTyped
<1>4. f \in Surjection(DOMAIN pipe, slots)
  <2>1. f \in [DOMAIN pipe -> slots]
    BY <1>3 DEF InPipe
  <2>2. \A s \in slots : \E i \in DOMAIN pipe : f[i] = s
    BY DEF InPipe
  <2> HIDE DEF f, slots
  <2> QED
    BY <2>1, <2>2 DEF Surjection
<1>5. f \in Injection(DOMAIN pipe, slots)
  <2>1. f \in [DOMAIN pipe -> slots]
    BY <1>3 DEF InPipe
  <2>2. \A i, j \in DOMAIN pipe : f[i] = f[j] => i = j
    BY <1>1 DEF PipeApart
  <2> HIDE DEF f, slots
  <2> QED
    BY <2>1, <2>2 DEF Injection, IsInjective
<1>6. IsFiniteSet(DOMAIN pipe) /\ Cardinality(DOMAIN pipe) = Len(pipe)
  BY <1>2, FS_Interval, SMTT(20)
<1> HIDE DEF f, slots
<1>7. IsFiniteSet(slots) /\ Cardinality(slots) = Cardinality(DOMAIN pipe)
  BY <1>4, <1>5, <1>6, FS_Surjection
<1> QED
  BY <1>6, <1>7 DEF slots

(* The reads of the bundles are as many as theirs.                         *)
LEMMA BundlesCounted ==
    ASSUME StateInv, ReadInv
    PROVE  LET slots == {s \in Slots : InBundle(s)}
           IN  IsFiniteSet(slots) /\ Cardinality(slots) = BundledReads
<1> DEFINE slots == {s \in Slots : InBundle(s)}
           reads == UNION {{i} \X DOMAIN completions[i].kinds :
                              i \in DOMAIN completions}
           f == [r \in reads |-> Wrap(completions[r[1]].first + (r[2] - 1))]
<1>1. QueueTypes /\ BundlesApart
  BY DEF StateInv, ReadInv, ApartInv
<1>2. ASSUME NEW i \in DOMAIN completions
      PROVE  /\ completions[i].first \in Slots
             /\ Len(completions[i].kinds) \in Nat
             /\ Len(completions[i].kinds) <= RX_RING_SIZE
             /\ DOMAIN completions[i].kinds = 1 .. Len(completions[i].kinds)
  BY <1>1, BundleTyped DEF BundlesApart, Bundles
<1>3. \A r \in reads : /\ r[1] \in DOMAIN completions
                       /\ r[2] \in 1 .. Len(completions[r[1]].kinds)
                       /\ r = <<r[1], r[2]>>
  BY <1>2
<1>4. \A i \in DOMAIN completions :
        \A k \in 1 .. Len(completions[i].kinds) : <<i, k>> \in reads
  BY <1>2
<1> HIDE DEF reads
<1>5. ASSUME NEW r \in reads
      PROVE  /\ f[r] \in Slots /\ f[r] \in BundleRun(r[1])
             /\ f[r] \in slots
             /\ r[2] - 1 \in 0 .. RX_RING_SIZE - 1
  <2>1. r[1] \in DOMAIN completions /\ r[2] - 1 \in 0 .. Len(completions[r[1]].kinds) - 1
    BY <1>2, <1>3
  <2>2. f[r] = Wrap(completions[r[1]].first + (r[2] - 1))
    OBVIOUS
  <2>3. f[r] \in BundleRun(r[1])
    BY <2>1, <2>2 DEF BundleRun, Run
  <2>4. f[r] \in Slots
    BY <1>1, <2>1, <2>3, BundleTyped
  <2> QED
    BY <1>2, <2>1, <2>3, <2>4 DEF InBundle
<1>6. f \in Surjection(reads, slots)
  <2>1. f \in [reads -> slots]
    BY <1>5
  <2>2. ASSUME NEW s \in slots PROVE \E r \in reads : f[r] = s
    <3>1. PICK i \in DOMAIN completions : s \in BundleRun(i)
      BY DEF InBundle
    <3>2. PICK k \in 0 .. Len(completions[i].kinds) - 1 : s = Wrap(completions[i].first + k)
      BY <3>1 DEF BundleRun, Run
    <3>3. k + 1 \in 1 .. Len(completions[i].kinds) /\ (k + 1) - 1 = k
      BY <1>2
    <3>4. <<i, k + 1>> \in reads
      BY <1>4, <3>3
    <3>5. f[<<i, k + 1>>] = s
      BY <3>2, <3>3, <3>4
    <3> QED
      BY <3>4, <3>5
  <2> HIDE DEF f, slots
  <2> QED
    BY <2>1, <2>2 DEF Surjection
<1>7. f \in Injection(reads, slots)
  <2>1. f \in [reads -> slots]
    BY <1>5
  <2>2. ASSUME NEW r \in reads, NEW q \in reads, f[r] = f[q] PROVE r = q
    <3>1. r[1] = q[1]
      BY <1>1, <1>3, <1>5, <2>2 DEF BundlesApart
    <3>2. /\ Wrap(completions[r[1]].first + (r[2] - 1))
               = Wrap(completions[r[1]].first + (q[2] - 1))
          /\ completions[r[1]].first \in Slots
      BY <1>2, <1>3, <2>2, <3>1
    <3>3. r[2] - 1 \in 0 .. RX_RING_SIZE - 1 /\ q[2] - 1 \in 0 .. RX_RING_SIZE - 1
      BY <1>5
    <3>4. r[2] - 1 = q[2] - 1
      BY <3>2, <3>3, StepsApart
    <3>5. r[2] = q[2]
      <4>1. r[2] \in Int /\ q[2] \in Int
        BY <1>2, <1>3
      <4> QED
        BY <3>4, <4>1
    <3> QED
      BY <1>3, <3>1, <3>5
  <2> HIDE DEF f, slots
  <2> QED
    BY <2>1, <2>2 DEF Injection, IsInjective
<1>8. IsFiniteSet(slots)
  <2>1. IsFiniteSet(Slots)
    BY FS_Interval
  <2>2. slots \in SUBSET Slots
    OBVIOUS
  <2> HIDE DEF slots
  <2> QED
    BY <2>1, <2>2, FS_Subset
<1>9. Cardinality(slots) = Cardinality(reads)
  <2> HIDE DEF f, slots
  <2>1. IsFiniteSet(reads)
    BY <1>7, <1>8, FS_Injection
  <2> QED
    BY <1>6, <1>7, <2>1, FS_Surjection
<1>10. BundledReads = Cardinality(reads)
  BY DEF BundledReads, reads
<1> HIDE DEF slots
<1> QED
  BY <1>8, <1>9, <1>10 DEF slots

(* No slot's buffer is given to the stack again while a read of it is with *)
(* the stack or completed and not yet decoded.                             *)
THEOREM OneReadPerBuffer == Spec => [](AbortDelivers => BufferUsedOnce)
<1>1. IInv => (AbortDelivers => BufferUsedOnce)
  <2> SUFFICES ASSUME IInv, AbortDelivers PROVE BufferUsedOnce
    OBVIOUS
  <2>1. StateInv /\ ReadInv
    BY DEF IInv
  <2> DEFINE P == {s \in Slots : InPipe(s)}
             B == {s \in Slots : InBundle(s)}
  <2>2. IsFiniteSet(P) /\ Cardinality(P) = Len(pipe)
    BY <2>1, PipeCounted
  <2>3. IsFiniteSet(B) /\ Cardinality(B) = BundledReads
    BY <2>1, BundlesCounted
  <2>4. P \cap B = {}
    BY <2>1 DEF ReadInv, ApartInv, PlacesApart
  <2>5. Outstanding(session) = P \union B
    <3>1. Outstanding(session) = {s \in Slots : InPipe(s) \/ InBundle(s)}
      BY <2>1, OutstandingSlots
    <3> QED
      BY <3>1
  <2>6. UNION {{s} \X Outstanding(s) : s \in 1 .. session - 1} = {}
    <3>1. \A s \in 1 .. session - 1 : Outstanding(s) = {}
      BY <2>1, OutstandingSlots
    <3> QED
      BY <3>1
  <2> HIDE DEF P, B
  <2>7. Cardinality(P \union B) = Cardinality(P) + Cardinality(B) - Cardinality({})
    BY <2>2, <2>3, <2>4, FS_Union
  <2>8. Cardinality(P) \in Nat /\ Cardinality(B) \in Nat /\ Cardinality({}) = 0
    BY <2>2, <2>3, FS_CardinalityType, FS_EmptySet
  <2>9. Len(pipe) + BundledReads = Cardinality(P \union B) + 0
    BY <2>2, <2>3, <2>7, <2>8
  <2> QED
    BY <2>5, <2>6, <2>8, <2>9 DEF BufferUsedOnce
<1> QED
  BY <1>1, Invariance, PTL
=============================================================================
