----------------------------- MODULE ReaderFifo -----------------------------
(***************************************************************************)
(* The reader slots of one CANClientImpl: registration, fan-out to the     *)
(* per-reader FIFOs, reading from them, and the resets by openChannel and  *)
(* close.                                                                  *)
(*                                                                         *)
(* readers_lock serialises registration and unregistration only; fan-out   *)
(* runs under drain_lock, reading under no lock, the resets under neither. *)
(* So each load and store of a slot's fields is a step of its own.         *)
(*                                                                         *)
(* Packets are numbered in the order they are fanned out; sentOn[n] is the *)
(* channel of packet n.                                                    *)
(***************************************************************************)
EXTENDS Integers, Sequences, FiniteSets

CONSTANTS Clients,     \* CANClient copies, each used by one thread
          Channels,    \* CAN channels
          ChannelOf,   \* [Clients -> Channels], _channel of each copy
          kMaxReaders, \* number of slots
          kFifoSize,   \* kFrameFifoSize, cells of a slot's FIFO
          Scenarios,   \* what may happen, one scenario per behaviour:
                       \*   overlap  FALSE: one thread makes all the calls
                       \*   readers  the clients that read
                       \*   ops      which of "unregister", "open", "close"
                       \*            are called
                       \*   packets  bound: packets fanned out
                       \*   regs     bound: registrations of one client
          MaxPackets,  \* the largest of the bounds on packets
          MaxRegs,     \* the largest of the bounds on registrations
          MaxResets,   \* bound of the model: calls of openChannel and close
          None         \* no client, no slot, no channel

ASSUME ReaderAssumption ==
    /\ IsFiniteSet(Clients) /\ None \notin Clients \union Channels \union Nat
    /\ ChannelOf \in [Clients -> Channels]
    /\ kMaxReaders \in Nat \ {0}
    /\ kFifoSize \in Nat \ {0, 1}
    /\ Scenarios \subseteq [overlap : BOOLEAN, readers : SUBSET Clients,
                            ops : SUBSET {"unregister", "open", "close"},
                            packets : 0 .. MaxPackets, regs : 0 .. MaxRegs]
    /\ MaxPackets \in Nat /\ MaxRegs \in Nat /\ MaxResets \in Nat

Slots == 0 .. kMaxReaders - 1
Cells == 0 .. kFifoSize - 1

VARIABLES
    scenario,              \* fixed for the behaviour
    active, channel, head, tail, fifo,   \* readers[i]
    readers_lock,          \* holder of the mutex
    fPc, fSlot, fHead,     \* fanOutPacket: where it is, slot, curHead
    readerId,              \* per client: _readerId
    rPc, rTail, out,       \* per client: where it is, curTail, *out
    ctlPc, ctlSlot, ctlOp, \* the reset loop: where it is, slot, whose it is
    resets,                \* number of resets begun
    sentOn,                \* history: channel of each packet
    regs,                  \* history: registrations, per client
    received, dropped,     \* history: packets read; not queued, FIFO full
    since, bound,          \* history: first packet the reader may get; the
                           \*   same when its read began
    complete               \* history: first packet the reader must get

slotVars == <<active, channel, head, tail, fifo>>
fanVars  == <<fPc, fSlot, fHead, sentOn>>
ctlVars  == <<ctlPc, ctlSlot, ctlOp, resets>>
cliVars  == <<readers_lock, readerId, rPc, rTail, out, regs>>
histVars == <<received, dropped, since, bound, complete>>
vars == <<scenario, slotVars, fanVars, ctlVars, cliVars, histVars>>

Init ==
    /\ scenario \in Scenarios
    /\ active = [i \in Slots |-> FALSE]
    /\ channel = [i \in Slots |-> None]
    /\ head = [i \in Slots |-> 0] /\ tail = [i \in Slots |-> 0]
    /\ fifo = [i \in Slots |-> [x \in Cells |-> 0]]
    /\ readers_lock = None
    /\ fPc = "idle" /\ fSlot = 0 /\ fHead = 0
    /\ readerId = [c \in Clients |-> None]
    /\ rPc = [c \in Clients |-> "idle"]
    /\ rTail = [c \in Clients |-> 0] /\ out = [c \in Clients |-> 0]
    /\ ctlPc = "idle" /\ ctlSlot = 0 /\ ctlOp = None /\ resets = 0
    /\ sentOn = <<>>
    /\ regs = [c \in Clients |-> 0]
    /\ received = [c \in Clients |-> {}] /\ dropped = [c \in Clients |-> {}]
    /\ since = [c \in Clients |-> 0] /\ bound = [c \in Clients |-> 0]
    /\ complete = [c \in Clients |-> 0]

(* A call may begin: always, or when no other call is under way. *)
MayBegin ==
    \/ scenario.overlap
    \/ /\ fPc = "idle" /\ ctlPc = "idle"
       /\ \A c \in Clients : rPc[c] = "idle"

Next1(x) == (x + 1) % kFifoSize
ReadersOf(i) == {c \in Clients : readerId[c] = i}
InProgress == IF fPc = "idle" THEN Len(sentOn) + 1 ELSE Len(sentOn)
Step(c, label) == rPc' = [rPc EXCEPT ![c] = label]

-----------------------------------------------------------------------------
(* fanOutPacket, in the drain loop under drain_lock. *)

FanBegin ==
    /\ fPc = "idle" /\ MayBegin
    /\ Len(sentOn) < scenario.packets
    /\ \E ch \in Channels : sentOn' = Append(sentOn, ch)
    /\ fPc' = "scan"
    /\ fSlot' = 0
    /\ UNCHANGED <<scenario, slotVars, fHead, ctlVars, cliVars, histVars>>

\* Mutant of Matches: the channel is not compared.
MatchesActive(i) == active[i]
Matches(i) == active[i] /\ channel[i] = sentOn[Len(sentOn)]

(* On to the next slot, or done. *)
NextSlot ==
    /\ fPc' = IF fSlot = kMaxReaders - 1 THEN "idle" ELSE "scan"
    /\ fSlot' = IF fSlot = kMaxReaders - 1 THEN 0 ELSE fSlot + 1

FanScan ==
    /\ fPc = "scan"
    /\ IF Matches(fSlot)
       THEN /\ fHead' = head[fSlot]
            /\ fPc' = "store"
            /\ UNCHANGED fSlot
       ELSE /\ NextSlot
            /\ UNCHANGED fHead
    /\ UNCHANGED <<scenario, slotVars, sentOn, ctlVars, cliVars, histVars>>

(* Mutant of FanStore: a full FIFO is not noticed. *)
FanStoreUnchecked ==
    /\ fPc = "store"
    /\ fifo' = [fifo EXCEPT ![fSlot][fHead] = Len(sentOn)]
    /\ fPc' = "publish"
    /\ UNCHANGED <<scenario, active, channel, head, tail, fSlot, fHead, sentOn,
                   ctlVars, cliVars, histVars>>

(* Write the cell, unless the FIFO is full. *)
FanStore ==
    /\ fPc = "store"
    /\ IF Next1(fHead) # tail[fSlot]
       THEN /\ fifo' = [fifo EXCEPT ![fSlot][fHead] = Len(sentOn)]
            /\ fPc' = "publish"
            /\ UNCHANGED <<fSlot, dropped>>
       ELSE /\ dropped' = [c \in Clients |->
                 IF c \in ReadersOf(fSlot)
                 THEN dropped[c] \union {Len(sentOn)} ELSE dropped[c]]
            /\ NextSlot
            /\ UNCHANGED fifo
    /\ UNCHANGED <<scenario, active, channel, head, tail, fHead, sentOn,
                   ctlVars, cliVars, received, since, bound, complete>>

FanPublish ==
    /\ fPc = "publish"
    /\ head' = [head EXCEPT ![fSlot] = Next1(fHead)]
    /\ NextSlot
    /\ UNCHANGED <<scenario, active, channel, tail, fifo, fHead, sentOn,
                   ctlVars, cliVars, histVars>>

-----------------------------------------------------------------------------
(* registerReader: the first read of a client claims the first free slot.  *)

Free == {i \in Slots : ~active[i]}

Register(c) ==
    /\ rPc[c] = "idle" /\ MayBegin
    /\ readerId[c] = None
    /\ readers_lock = None
    /\ c \in scenario.readers /\ regs[c] < scenario.regs
    /\ regs' = [regs EXCEPT ![c] = @ + 1]
    /\ IF Free = {}
       THEN UNCHANGED <<readers_lock, readerId, active, rPc, received, dropped,
                      since, complete>>
       ELSE LET i == CHOOSE j \in Free : \A k \in Free : j <= k
            IN  /\ readers_lock' = c
                /\ readerId' = [readerId EXCEPT ![c] = i]
                /\ active' = [active EXCEPT ![i] = TRUE]
                /\ Step(c, "channel")
                /\ received' = [received EXCEPT ![c] = {}]
                /\ dropped' = [dropped EXCEPT ![c] = {}]
                /\ since' = [since EXCEPT ![c] = InProgress]
                /\ complete' = [complete EXCEPT ![c] = 0]
    /\ UNCHANGED <<scenario, channel, head, tail, fifo, fanVars, ctlVars,
                   rTail, out, bound>>

RegisterChannel(c) ==
    /\ rPc[c] = "channel"
    /\ channel' = [channel EXCEPT ![readerId[c]] = ChannelOf[c]]
    /\ Step(c, "head")
    /\ UNCHANGED <<scenario, active, head, tail, fifo, fanVars, ctlVars,
                   readers_lock, readerId, rTail, out, regs, histVars>>

(* Mutant of RegisterHead: the index is left as the last reader left it. *)
RegisterKeepsHead(c) ==
    /\ rPc[c] = "head"
    /\ Step(c, "tail")
    /\ UNCHANGED <<scenario, slotVars, fanVars, ctlVars, readers_lock,
                   readerId, rTail, out, regs, histVars>>

RegisterHead(c) ==
    /\ rPc[c] = "head"
    /\ head' = [head EXCEPT ![readerId[c]] = 0]
    /\ Step(c, "tail")
    /\ UNCHANGED <<scenario, active, channel, tail, fifo, fanVars, ctlVars,
                   readers_lock, readerId, rTail, out, regs, histVars>>

RegisterTail(c) ==
    /\ rPc[c] = "tail"
    /\ tail' = [tail EXCEPT ![readerId[c]] = 0]
    /\ readers_lock' = None
    /\ complete' = [complete EXCEPT ![c] = Len(sentOn) + 1]
    /\ Step(c, "idle")
    /\ UNCHANGED <<scenario, active, channel, head, fifo, fanVars, ctlVars,
                   readerId, rTail, out, regs, received, dropped, since,
                   bound>>

(* unregisterReader, by the destructor or an assignment. *)
Unregister(c) ==
    /\ "unregister" \in scenario.ops
    /\ rPc[c] = "idle" /\ MayBegin
    /\ readerId[c] # None
    /\ readers_lock = None
    /\ readers_lock' = c
    /\ active' = [active EXCEPT ![readerId[c]] = FALSE]
    /\ Step(c, "unchannel")
    /\ UNCHANGED <<scenario, channel, head, tail, fifo, fanVars, ctlVars,
                   readerId, rTail, out, regs, histVars>>

UnregisterChannel(c) ==
    /\ rPc[c] = "unchannel"
    /\ channel' = [channel EXCEPT ![readerId[c]] = None]
    /\ readerId' = [readerId EXCEPT ![c] = None]
    /\ readers_lock' = None
    /\ received' = [received EXCEPT ![c] = {}]
    /\ Step(c, "idle")
    /\ UNCHANGED <<scenario, active, head, tail, fifo, fanVars, ctlVars, rTail,
                   out, regs, dropped, since, bound, complete>>

-----------------------------------------------------------------------------
(* readPacketFromReader *)

ReadBegin(c) ==
    /\ rPc[c] = "idle" /\ MayBegin
    /\ readerId[c] # None
    /\ tail[readerId[c]] # head[readerId[c]]
    /\ rTail' = [rTail EXCEPT ![c] = tail[readerId[c]]]
    /\ bound' = [bound EXCEPT ![c] = IF ctlPc = "idle" THEN since[c] ELSE 0]
    /\ Step(c, "copy")
    /\ UNCHANGED <<scenario, slotVars, fanVars, ctlVars, readers_lock,
                   readerId, out, regs, received, dropped, since, complete>>

ReadCopy(c) ==
    /\ rPc[c] = "copy"
    /\ out' = [out EXCEPT ![c] = fifo[readerId[c]][rTail[c]]]
    /\ Step(c, "advance")
    /\ UNCHANGED <<scenario, slotVars, fanVars, ctlVars, readers_lock,
                   readerId, rTail, regs, histVars>>

(* Mutant of ReadAdvance: the tail keeps its place. *)
ReadStays(c) ==
    /\ rPc[c] = "advance"
    /\ received' = [received EXCEPT ![c] = @ \union {out[c]}]
    /\ Step(c, "idle")
    /\ UNCHANGED <<scenario, slotVars, fanVars, ctlVars, readers_lock,
                   readerId, rTail, out, regs, dropped, since, bound,
                   complete>>

ReadAdvance(c) ==
    /\ rPc[c] = "advance"
    /\ tail' = [tail EXCEPT ![readerId[c]] = Next1(rTail[c])]
    /\ received' = [received EXCEPT ![c] = @ \union {out[c]}]
    /\ Step(c, "idle")
    /\ UNCHANGED <<scenario, active, channel, head, fifo, fanVars, ctlVars,
                   readers_lock, readerId, rTail, out, regs, dropped, since,
                   bound, complete>>

-----------------------------------------------------------------------------
(* The loops that reset FIFOs: openChannel those of the active readers of  *)
(* its channel, close all of them.                                         *)

Affected(i, op) == op = "close" \/ (active[i] /\ channel[i] = op)

ResetBegin ==
    /\ ctlPc = "idle" /\ MayBegin
    /\ resets < MaxResets
    /\ \E op \in (IF "open" \in scenario.ops THEN Channels ELSE {})
                  \union (scenario.ops \intersect {"close"}) :
         ctlOp' = op
    /\ resets' = resets + 1
    /\ ctlPc' = "head"
    /\ ctlSlot' = 0
    /\ UNCHANGED <<scenario, slotVars, fanVars, cliVars, histVars>>

ResetNext ==
    /\ ctlPc' = IF ctlSlot = kMaxReaders - 1 THEN "idle" ELSE "head"
    /\ ctlSlot' = IF ctlSlot = kMaxReaders - 1 THEN 0 ELSE ctlSlot + 1

ResetHead ==
    /\ ctlPc = "head"
    /\ IF Affected(ctlSlot, ctlOp)
       THEN /\ head' = [head EXCEPT ![ctlSlot] = 0]
            /\ since' = [c \in Clients |-> IF c \in ReadersOf(ctlSlot)
                                           THEN InProgress ELSE since[c]]
            /\ received' = [c \in Clients |-> IF c \in ReadersOf(ctlSlot)
                                              THEN {} ELSE received[c]]
            /\ ctlPc' = "tail"
            /\ UNCHANGED ctlSlot
       ELSE /\ ResetNext
            /\ UNCHANGED <<head, since, received>>
    /\ UNCHANGED <<scenario, active, channel, tail, fifo, fanVars, ctlOp,
                   resets, cliVars, dropped, bound, complete>>

ResetTail ==
    /\ ctlPc = "tail"
    /\ tail' = [tail EXCEPT ![ctlSlot] = 0]
    /\ complete' = [c \in Clients |-> IF c \in ReadersOf(ctlSlot)
                                      THEN Len(sentOn) + 1 ELSE complete[c]]
    /\ ResetNext
    /\ UNCHANGED <<scenario, active, channel, head, fifo, fanVars, ctlOp,
                   resets, cliVars, received, dropped, since, bound>>

-----------------------------------------------------------------------------
Fan == FanBegin \/ FanScan \/ FanStore \/ FanPublish
Control == ResetBegin \/ ResetHead \/ ResetTail
Client(c) ==
    \/ Register(c) \/ RegisterChannel(c) \/ RegisterHead(c) \/ RegisterTail(c)
    \/ Unregister(c) \/ UnregisterChannel(c)
    \/ ReadBegin(c) \/ ReadCopy(c) \/ ReadAdvance(c)

Next == Fan \/ Control \/ \E c \in Clients : Client(c)

Spec == Init /\ [][Next]_vars

-----------------------------------------------------------------------------
Numbers == 0 .. MaxPackets

(* The values each variable takes in every reachable state.                *)
TypeOK ==
    /\ scenario \in Scenarios
    /\ active \in [Slots -> BOOLEAN]
    /\ channel \in [Slots -> Channels \union {None}]
    /\ head \in [Slots -> Cells] /\ tail \in [Slots -> Cells]
    /\ fifo \in [Slots -> [Cells -> Numbers]]
    /\ readers_lock \in Clients \union {None}
    /\ fPc \in {"idle", "scan", "store", "publish"}
    /\ fSlot \in Slots /\ fHead \in Cells
    /\ readerId \in [Clients -> Slots \union {None}]
    /\ rPc \in [Clients -> {"idle", "channel", "head", "tail", "unchannel",
                            "copy", "advance"}]
    /\ rTail \in [Clients -> Cells] /\ out \in [Clients -> Numbers]
    /\ ctlPc \in {"idle", "head", "tail"} /\ ctlSlot \in Slots
    /\ ctlOp \in Channels \union {None, "close"}
    /\ resets \in 0 .. MaxResets /\ regs \in [Clients -> 0 .. MaxRegs]
    /\ sentOn \in Seq(Channels) /\ Len(sentOn) <= MaxPackets
    /\ received \in [Clients -> SUBSET Numbers]
    /\ dropped \in [Clients -> SUBSET Numbers]
    /\ since \in [Clients -> 0 .. MaxPackets + 1]
    /\ bound \in [Clients -> 0 .. MaxPackets + 1]
    /\ complete \in [Clients -> 0 .. MaxPackets + 1]

(* A reader is handed only packets fanned out on its own channel, never    *)
(* the packets of the previous owner of its slot.                          *)
MatchingChannelOnly ==
    /\ TypeOK
    /\ \A c \in Clients : rPc[c] = "advance" =>
           out[c] > 0 /\ sentOn[out[c]] = ChannelOf[c]

(* A reader is handed only packets fanned out since it registered, or      *)
(* since its FIFO was last cleared by an openChannel or close that had     *)
(* returned when the read began.                                           *)
NoStalePacket ==
    \A c \in Clients : rPc[c] = "advance" => out[c] >= bound[c]

(* A reader is handed its packets in order, none twice: a packet it reads  *)
(* is newer than all it has read since it registered or was cleared.       *)
InOrderOnce ==
    \A c \in Clients : rPc[c] = "advance" => \A n \in received[c] : n < out[c]

Queued(i) ==
    {fifo[i][(tail[i] + k) % kFifoSize] :
        k \in 0 .. ((head[i] - tail[i]) % kFifoSize) - 1}

(* A registered reader gets every packet of its channel fanned out since:  *)
(* each was read, is in its FIFO, or found the FIFO full.                  *)
EveryPacketCounted ==
    \A c \in Clients :
        /\ readerId[c] # None /\ active[readerId[c]]
        /\ complete[c] > 0 /\ ctlPc = "idle"
        => \A n \in complete[c] .. InProgress - 1 :
               sentOn[n] = ChannelOf[c] =>
                   n \in received[c] \union dropped[c]
                         \union Queued(readerId[c])
=============================================================================
