------------------------------- MODULE TxPath -------------------------------
(***************************************************************************)
(* The transmit path: the client's write (a frame into the channel's TX    *)
(* ring, then the SendData call), the driver's DrainTxRing with the        *)
(* codec's drainTx, SendRawBytes, and the completions WriteComplete and    *)
(* ReadCompleteBundled that drain again.                                   *)
(*                                                                         *)
(* The driver runs on dispatch queues: one handler of a queue at a time.   *)
(* The comments in the driver describe a second queue for WriteComplete;   *)
(* the code creates it and binds nothing to it.  config covers both.       *)
(*                                                                         *)
(* Frame n of ring r is <<r, n>>; head and tail count entries, all of one  *)
(* size (SharedRing has the bytes).  A transfer is the sequence of frames  *)
(* it carries; a codec command carries none.                               *)
(*                                                                         *)
(* I/O runs throughout.  Left out: StartIO (usb_can_driver.cpp:769-843)    *)
(* and StopIO (845-867), and with them the FALSE that StartIO stores to    *)
(* fTxInFlight and fTxInFlight2 (800, 817), the heads and tails it sets to *)
(* 0, the transfers StopIO aborts, and the tests of fIsRunning in the      *)
(* completions (1120, 1221, 1312).                                         *)
(***************************************************************************)
EXTENDS Integers, Sequences, FiniteSets

CONSTANTS Configs,     \* the configurations considered, one per behaviour:
                       \*   codec    "slcan", "gs_usb", "pcan" (EP 0x02 and
                       \*            0x03) or "pcan_single" (no EP 0x03)
                       \*   txQueue  WriteComplete has a queue of its own
                       \*   faults   which of "asyncio", "write",
                       \*            "lost_echo", "bundle" happen
                       \*   writers  the channels written to
                       \*   batch    SLCAN frames fitting in TX_BUFFER_SIZE
                       \*   frames   bound: frames written per channel
          MaxFrames,   \* the largest of these bounds
          RingCap,     \* entries a TX ring holds
          kMaxEchoInflight,
          MaxCommands, \* bound of the model: SLCAN commands sent
          MaxFaults,   \* bound of the model: faults
          None         \* no caller, no transfer

Rings == {0, 1}
Pipes == {0, 1}
Queues == {"default", "tx"}
FaultKinds == {"asyncio", "write", "lost_echo", "bundle"}

ASSUME TxAssumption ==
    /\ Configs \subseteq [codec : {"slcan", "gs_usb", "pcan", "pcan_single"},
                          txQueue : BOOLEAN, faults : SUBSET FaultKinds,
                          writers : SUBSET Rings, batch : Nat \ {0},
                          frames : 0 .. MaxFrames]
    /\ \A c \in Configs : c.codec \in {"slcan", "gs_usb"} => 1 \notin c.writers
    /\ RingCap \in Nat \ {0} /\ kMaxEchoInflight \in Nat \ {0}
    /\ MaxFrames \in Nat /\ MaxCommands \in Nat /\ MaxFaults \in Nat
    /\ None \notin Rings /\ None \notin {"ok", "error"}
    /\ None \notin Seq(Rings \X Nat)

VARIABLES
    config,            \* the configuration, fixed for the behaviour
    head, tail,        \* per ring: entries written, entries consumed
    skewed,            \* tx0's tail is no longer at the start of an entry
    wPc,               \* per writer: "idle", "call" (SendData sent), "served"
    inFlight,          \* per pipe: fTxInFlight, fTxInFlight2
    transfer,          \* per pipe: the frames the USB stack is sending
    completion,        \* per pipe: status of a completion not yet handled
    echoInflight,      \* gs_usb: frames sent and not echoed
    echoes,            \* gs_usb: echoes the adapter has yet to return
    pc, caller, pass,  \* per queue: where it is, whose SendData, drain 0 or 1
    newTail, batch,    \*   its local tail and the bytes encoded
    sent, failed,      \* history: frames transferred, in order; frames of
                       \*   transfers that failed
    commands, faults   \* commands sent, faults so far

ringVars  == <<head, tail, skewed>>
usbVars   == <<inFlight, transfer, completion>>
echoVars  == <<echoInflight, echoes>>
queueVars == <<pc, caller, pass, newTail, batch>>
histVars  == <<sent, failed, commands, faults>>
vars == <<config, ringVars, wPc, usbVars, echoVars, queueVars, histVars>>

Codec == config.codec
Writers == config.writers

Init ==
    /\ config \in Configs
    /\ head = [r \in Rings |-> 0] /\ tail = [r \in Rings |-> 0]
    /\ skewed = FALSE
    /\ wPc = [r \in Rings |-> "idle"]
    /\ inFlight = [p \in Pipes |-> FALSE]
    /\ transfer = [p \in Pipes |-> None]
    /\ completion = [p \in Pipes |-> None]
    /\ echoInflight = 0 /\ echoes = 0
    /\ pc = [q \in Queues |-> "idle"]
    /\ caller = [q \in Queues |-> None]
    /\ pass = [q \in Queues |-> 0]
    /\ newTail = [q \in Queues |-> 0] /\ batch = [q \in Queues |-> <<>>]
    /\ sent = [r \in Rings |-> <<>>] /\ failed = {}
    /\ commands = 0 /\ faults = 0

Fault(kind) == kind \in config.faults /\ faults < MaxFaults

-----------------------------------------------------------------------------
(* The client: writeTxFrame, then triggerTxDrain, a synchronous call.      *)

Write(r) ==
    /\ r \in Writers
    /\ wPc[r] = "idle"
    /\ head[r] < config.frames
    /\ head[r] - tail[r] < RingCap
    /\ head' = [head EXCEPT ![r] = @ + 1]
    /\ wPc' = [wPc EXCEPT ![r] = "call"]
    /\ UNCHANGED <<config, tail, skewed, usbVars, echoVars, queueVars,
                   histVars>>

-----------------------------------------------------------------------------
(* What the queues are given to run. *)

StartDrain(q, who) ==
    /\ pc' = [pc EXCEPT ![q] = "load"]
    /\ caller' = [caller EXCEPT ![q] = who]
    /\ pass' = [pass EXCEPT ![q] = 0]
    /\ UNCHANGED <<newTail, batch>>

SendData(r) ==
    /\ pc["default"] = "idle"
    /\ wPc[r] = "call"
    /\ wPc' = [wPc EXCEPT ![r] = "served"]
    /\ StartDrain("default", r)
    /\ UNCHANGED <<config, ringVars, usbVars, echoVars, histVars>>

TxQueue == IF config.txQueue THEN "tx" ELSE "default"

(* Mutant of WriteComplete: the flag stays set.                            *)
WriteCompleteKeepsFlag(p) ==
    /\ pc[TxQueue] = "idle"
    /\ completion[p] # None
    /\ completion' = [completion EXCEPT ![p] = None]
    /\ IF completion[p] = "ok"
       THEN StartDrain(TxQueue, None)
       ELSE UNCHANGED queueVars
    /\ UNCHANGED <<config, ringVars, wPc, inFlight, transfer, echoVars,
                   histVars>>

(* WriteComplete, WriteComplete2: after an error nothing is drained; that  *)
(* fIsRunning is TRUE (usb_can_driver.cpp:1312) is left out, see above.    *)
WriteComplete(p) ==
    /\ pc[TxQueue] = "idle"
    /\ completion[p] # None
    /\ inFlight' = [inFlight EXCEPT ![p] = FALSE]
    /\ completion' = [completion EXCEPT ![p] = None]
    /\ IF completion[p] = "ok"
       THEN StartDrain(TxQueue, None)
       ELSE UNCHANGED queueVars
    /\ UNCHANGED <<config, ringVars, wPc, transfer, echoVars, histVars>>

(* ReadCompleteBundled with an echo.  Each transfer of the bundle sets     *)
(* needsDrainTx_ anew: a received frame after the echo clears it.          *)
EchoReceived ==
    /\ pc["default"] = "idle"
    /\ echoes > 0
    /\ echoes' = echoes - 1
    /\ echoInflight' = IF echoInflight > 0 THEN echoInflight - 1 ELSE 0
    /\ \/ /\ StartDrain("default", None)
          /\ UNCHANGED faults
       \/ /\ Fault("bundle")
          /\ faults' = faults + 1
          /\ UNCHANGED queueVars
    /\ UNCHANGED <<config, ringVars, wPc, usbVars, sent, failed, commands>>

(* openChannel and closeChannel of SLCAN send a command the same way.      *)
SendCommand ==
    /\ Codec = "slcan"
    /\ pc["default"] = "idle"
    /\ commands < MaxCommands
    /\ commands' = commands + 1
    /\ pc' = [pc EXCEPT !["default"] = "claim"]
    /\ caller' = [caller EXCEPT !["default"] = None]
    /\ batch' = [batch EXCEPT !["default"] = <<>>]
    /\ UNCHANGED <<config, ringVars, wPc, usbVars, echoVars, pass, newTail,
                   sent, failed, faults>>

-----------------------------------------------------------------------------
(* DrainTxRing on queue q. *)

\* With EP 0x03 the second drain is tx1's; without, it is meant to be.
Ring(q) == IF Codec = "pcan" THEN pass[q] ELSE 0
Pipe(q) == IF Codec = "pcan" THEN pass[q] ELSE 0
LastPass == IF Codec \in {"pcan", "pcan_single"} THEN 1 ELSE 0

(* This drain is over: on to the next one, or return. *)
NextPass(q) ==
    IF pass[q] < LastPass
    THEN /\ pass' = [pass EXCEPT ![q] = @ + 1]
         /\ pc' = [pc EXCEPT ![q] = "load"]
         /\ UNCHANGED <<caller, wPc>>
    ELSE /\ pc' = [pc EXCEPT ![q] = "idle"]
         /\ caller' = [caller EXCEPT ![q] = None]
         /\ wPc' = IF caller[q] = None THEN wPc
                   ELSE [wPc EXCEPT ![caller[q]] = "idle"]
         /\ UNCHANGED pass

CanSend == Codec = "gs_usb" => echoInflight < kMaxEchoInflight

(* txInFlight is loaded for the call of drainTx, and the tail. *)
DrainLoad(q) ==
    /\ pc[q] = "load"
    /\ newTail' = [newTail EXCEPT ![q] = tail[Ring(q)]]
    /\ IF inFlight[Pipe(q)] \/ ~CanSend \/ skewed
       THEN NextPass(q)
       ELSE /\ pc' = [pc EXCEPT ![q] = "read"]
            /\ UNCHANGED <<caller, pass, wPc>>
    /\ UNCHANGED <<config, ringVars, usbVars, echoVars, batch, histVars>>

(* The entry of tx1 at the place of tx0's tail, 0 if none was written: the *)
(* second drain without EP 0x03 passes tx1's data, drainTx uses tx0's      *)
(* indices.                                                                *)
AtSamePlace(t) ==
    LET there == {m \in 1 .. head[1] : (m - 1) % RingCap = t % RingCap}
    IN  IF there = {} THEN 0 ELSE CHOOSE m \in there : \A k \in there : k <= m

WrongRing(q) == Codec = "pcan_single" /\ pass[q] = 1

Smaller(x, y) == IF x < y THEN x ELSE y

(* readTxFrame: one frame, or for SLCAN all there are, as many as fit in   *)
(* the batch; the first that does not fit has been passed over too.        *)
DrainRead(q) ==
    /\ pc[q] = "read"
    /\ LET r == Ring(q)
           t == newTail[q]
           available == head[r] - t
           n == IF Codec = "slcan" THEN Smaller(available, config.batch) ELSE 1
           passed == IF Codec = "slcan" /\ available > config.batch
                     THEN n + 1 ELSE n
       IN  IF available <= 0
           THEN /\ NextPass(q)
                /\ UNCHANGED <<newTail, batch, skewed>>
           ELSE IF WrongRing(q) /\ AtSamePlace(t) = 0
           THEN /\ skewed' = TRUE        \* size 0: dropped, tail moves by 2
                /\ NextPass(q)
                /\ UNCHANGED <<newTail, batch>>
           ELSE /\ batch' = [batch EXCEPT ![q] =
                      IF WrongRing(q) THEN << <<1, AtSamePlace(t)>> >>
                      ELSE [i \in 1 .. n |-> <<r, t + i>>]]
                /\ newTail' = [newTail EXCEPT ![q] = t + passed]
                /\ pc' = [pc EXCEPT ![q] = "claim"]
                /\ UNCHANGED <<caller, pass, wPc, skewed>>
    /\ UNCHANGED <<config, head, tail, usbVars, echoVars, histVars>>

(* SendRawBytes: a command is over when its send is, a drain goes on.      *)
SendFailed(q) ==
    IF batch[q] = <<>>
    THEN /\ pc' = [pc EXCEPT ![q] = "idle"]
         /\ UNCHANGED <<caller, pass, wPc>>
    ELSE NextPass(q)

(* Mutant of Claim: the flag is set without being compared. *)
ClaimBlindly(q) ==
    /\ pc[q] = "claim"
    /\ inFlight' = [inFlight EXCEPT ![Pipe(q)] = TRUE]
    /\ pc' = [pc EXCEPT ![q] = "submit"]
    /\ UNCHANGED <<config, ringVars, wPc, transfer, completion, echoVars,
                   caller, pass, newTail, batch, histVars>>

(* compare_exchange on fTxInFlight. *)
Claim(q) ==
    /\ pc[q] = "claim"
    /\ inFlight' = [inFlight EXCEPT ![Pipe(q)] = TRUE]
    /\ IF inFlight[Pipe(q)]
       THEN SendFailed(q)
       ELSE /\ pc' = [pc EXCEPT ![q] = "submit"]
            /\ UNCHANGED <<caller, pass, wPc>>
    /\ UNCHANGED <<config, ringVars, transfer, completion, echoVars, newTail,
                   batch, histVars>>

(* AsyncIO takes the buffer; *)
Submit(q) ==
    /\ pc[q] = "submit"
    /\ transfer' = [transfer EXCEPT ![Pipe(q)] = batch[q]]
    /\ pc' = [pc EXCEPT ![q] = IF batch[q] = <<>> THEN "idle" ELSE "store"]
    /\ UNCHANGED <<config, ringVars, wPc, inFlight, completion, echoVars,
                   caller, pass, newTail, batch, histVars>>

(* or it fails, and the frames stay in the ring. *)
SubmitFails(q) ==
    /\ pc[q] = "submit"
    /\ Fault("asyncio")
    /\ faults' = faults + 1
    /\ inFlight' = [inFlight EXCEPT ![Pipe(q)] = FALSE]
    /\ SendFailed(q)
    /\ UNCHANGED <<config, ringVars, transfer, completion, echoVars, newTail,
                   batch, sent, failed, commands>>

\* onTxSent of gs_usb: one more frame in flight, before the tail is stored.
CountEcho ==
    echoInflight' = IF Codec = "gs_usb" THEN echoInflight + 1 ELSE echoInflight

(* Mutant of StoreTail: the frame after those sent is consumed too. *)
StoreTailFurther(q) ==
    /\ pc[q] = "store"
    /\ LET r == Ring(q)
       IN  tail' = [tail EXCEPT ![r] = Smaller(newTail[q] + 1, head[r])]
    /\ CountEcho
    /\ NextPass(q)
    /\ UNCHANGED <<config, head, skewed, usbVars, echoes, newTail, batch,
                   histVars>>

(* Mutant of StoreTail: the tail is left, the frames are sent again. *)
StoreTailNever(q) ==
    /\ pc[q] = "store"
    /\ CountEcho
    /\ NextPass(q)
    /\ UNCHANGED <<config, ringVars, usbVars, echoes, newTail, batch,
                   histVars>>

(* The tail is advanced after a successful send only. *)
StoreTail(q) ==
    /\ pc[q] = "store"
    /\ tail' = [tail EXCEPT ![Ring(q)] = newTail[q]]
    /\ CountEcho
    /\ NextPass(q)
    /\ UNCHANGED <<config, head, skewed, usbVars, echoes, newTail, batch,
                   histVars>>

-----------------------------------------------------------------------------
(* The USB stack and the adapter. *)

\* The numbers of a transfer's frames when they are r's: all are of one ring.
OfRing(frames, r) ==
    IF frames # <<>> /\ frames[1][1] = r
    THEN [i \in DOMAIN frames |-> frames[i][2]] ELSE <<>>

TransferDone(p) ==
    /\ transfer[p] # None
    /\ transfer' = [transfer EXCEPT ![p] = None]
    /\ completion' = [completion EXCEPT ![p] = "ok"]
    /\ sent' = [r \in Rings |-> sent[r] \o OfRing(transfer[p], r)]
    /\ \/ /\ echoes' = IF Codec = "gs_usb" THEN echoes + 1 ELSE echoes
          /\ UNCHANGED faults
       \/ /\ Fault("lost_echo")
          /\ faults' = faults + 1
          /\ UNCHANGED echoes
    /\ UNCHANGED <<config, ringVars, wPc, inFlight, echoInflight, queueVars,
                   failed, commands>>

TransferFails(p) ==
    /\ transfer[p] # None
    /\ Fault("write")
    /\ faults' = faults + 1
    /\ transfer' = [transfer EXCEPT ![p] = None]
    /\ completion' = [completion EXCEPT ![p] = "error"]
    /\ failed' = failed \union {transfer[p][i] : i \in DOMAIN transfer[p]}
    /\ UNCHANGED <<config, ringVars, wPc, inFlight, echoVars, queueVars, sent,
                   commands>>

-----------------------------------------------------------------------------
DrainStep(q) ==
    DrainLoad(q) \/ DrainRead(q) \/ Claim(q) \/ Submit(q) \/ StoreTail(q)

Next ==
    \/ \E r \in Rings : Write(r) \/ SendData(r)
    \/ \E p \in Pipes : WriteComplete(p) \/ TransferDone(p) \/ TransferFails(p)
    \/ EchoReceived \/ SendCommand
    \/ \E q \in Queues : DrainStep(q) \/ SubmitFails(q)

Spec == Init /\ [][Next]_vars

(* A handler runs to its end; a queue gets to every handler it was given;  *)
(* a transfer completes.                                                   *)
Fairness ==
    /\ \A q \in Queues : WF_vars(DrainStep(q))
    /\ \A r \in Rings : SF_vars(SendData(r))
    /\ \A p \in Pipes : SF_vars(WriteComplete(p)) /\ WF_vars(TransferDone(p))
    /\ SF_vars(EchoReceived)

FairSpec == Spec /\ Fairness

-----------------------------------------------------------------------------
Frames == Rings \X (1 .. MaxFrames)

(* The values each variable takes in every reachable state.                *)
TypeOK ==
    /\ head \in [Rings -> 0 .. MaxFrames] /\ tail \in [Rings -> 0 .. MaxFrames]
    /\ config \in Configs
    /\ skewed \in BOOLEAN
    /\ wPc \in [Rings -> {"idle", "call", "served"}]
    /\ inFlight \in [Pipes -> BOOLEAN]
    /\ transfer \in [Pipes -> Seq(Frames) \union {None}]
    /\ completion \in [Pipes -> {None, "ok", "error"}]
    /\ echoInflight \in Nat /\ echoes \in Nat
    /\ ~config.txQueue => echoInflight <= kMaxEchoInflight
    /\ pc \in [Queues -> {"idle", "load", "read", "claim", "submit", "store"}]
    /\ caller \in [Queues -> Rings \union {None}]
    /\ pass \in [Queues -> 0 .. 1]
    /\ newTail \in [Queues -> 0 .. MaxFrames]
    /\ batch \in [Queues -> Seq(Frames)]
    /\ sent \in [Rings -> Seq(1 .. MaxFrames)] /\ failed \subseteq Frames
    /\ commands \in 0 .. MaxCommands /\ faults \in 0 .. MaxFaults

BufferOwners(p) ==
    Cardinality({q \in Queues : pc[q] = "submit" /\ Pipe(q) = p})
    + (IF transfer[p] # None THEN 1 ELSE 0)
    + (IF completion[p] # None THEN 1 ELSE 0)

(* The one TX buffer of a pipe is in one hand at a time: whoever has       *)
(* claimed it, the USB stack, or a completion not yet handled; and the     *)
(* flag says so.                                                           *)
BufferExclusive ==
    /\ TypeOK
    /\ \A p \in Pipes : BufferOwners(p) = IF inFlight[p] THEN 1 ELSE 0

(* A frame the driver has consumed from the ring was handed to the USB     *)
(* stack: it was sent, is being sent, or its transfer failed.              *)
NoSilentLoss ==
    /\ ~skewed
    /\ \A r \in Rings : \A n \in 1 .. tail[r] :
         \/ \E i \in DOMAIN sent[r] : sent[r][i] = n
         \/ <<r, n>> \in failed
         \/ \E p \in Pipes : transfer[p] # None
              /\ \E i \in DOMAIN transfer[p] : transfer[p][i] = <<r, n>>

(* Frames of a channel go out in the order written, each at most once,     *)
(* when all handlers share the default queue, as the code binds them.      *)
SentInOrderOnce ==
    ~config.txQueue =>
    \A r \in Rings : \A i, j \in DOMAIN sent[r] :
        i < j => sent[r][i] < sent[r][j]

(* When nothing fails, a ring that holds frames is emptied, with no        *)
(* further write needed to push them: every frame write accepted is taken. *)
EveryFrameDrained ==
    \A r \in Rings :
        head[r] > tail[r] /\ config.faults = {} /\ ~config.txQueue
            ~> head[r] = tail[r]
=============================================================================
