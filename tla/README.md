# Verification of iCAN's driver, client library and app state

iCAN reads and writes CAN buses from an iPad: a DriverKit extension drives a
USB CAN adapter, an app talks to it through a C++ client library and shared
memory. This directory holds TLA+ modules of the path frames take, of the
codecs they pass through and of the life of driver, connections, handles and
engines around it, TLC configurations that model-check them, and proofs about
them checked by TLAPS.

Paths below are relative to `src/`.

## The system

```
 app threads ── CANClient copies ── CANClientImpl (one per connection)
   │ read*/write                       │  reader FIFOs, drain_lock, drain_epoch
   │                                   │
   │        shared memory: SharedRingHeader, rx / tx0 / tx1 byte rings
   │                                   │
   └── IOKit calls: SendData, WaitForData, Open, Close … ── USBCANUserClient
                                                               │
                  codec (SLCAN, gs_usb, PCAN) ── USBCANDriver ─┘
                                                    │ AsyncIO, AsyncIOBundled
                                                USB adapter
```

| Part | State | Operations | Talks to |
|---|---|---|---|
| Shared rings (`can_client/shared_ring*.h`) | per ring `head`, `tail` (free-running `uint32_t`), data bytes, counters | `writeRxFrame`, `readTxFrame`, the client's `drainRxFrames`, `writeTxFrame` | driver on one side, client on the other, no lock |
| Client, reading (`can_client/can_client.cc`) | 8 reader slots with a FIFO each, `drain_lock`, `drainer_active`, `drain_epoch`, `waitPending`, `asyncPort` | `read`, `readMany`, `readManyBlocking`, `blockForData`, `registerReader`, `unregisterReader`, `fanOutPacket` | RX ring, `WaitForData` |
| Client, writing | TX write counters | `write`, `writeClassic`, `triggerTxDrain` | TX rings, `SendData` |
| Client, lifecycle | `connection`, `ringHeader`, `is_open`, copies of `CANClient` with channel and slot | `open`, `close`, `openChannel`, `closeChannel`, `setChannel`, copy, move | user client |
| User client (`usb_can_driver/usb_can_user_client.cpp`) | `fIsOpen`, `fPendingCompletion` | `Start`, `Stop`, `Open`, `Close`, `OpenChannel`, `CloseChannel`, `SendData`, `WaitForData`, `NotifyRxDataAvailable` | driver |
| Driver, lifecycle (`usb_can_driver/usb_can_driver.cpp`) | references to device, interfaces, pipes, buffers and actions; opened-flags; `fIsConfigured`, `fUserClient` | `Start`, `ConfigureDevice`, `FindInterfaces`, `ConfigurePipes`, `StartAsyncRead`, `Stop`, `free` | DriverKit, codec |
| Driver, transmit (`usb_can_driver/usb_can_driver.cpp`) | `fTxInFlight`, `fTxInFlight2`, one buffer per pipe | `DrainTxRing`, `SendRawBytes`, `WriteComplete` | codec, TX rings, USB pipes |
| Driver, receive | 16 read slots, their states and count, `fIsRunning` | `StartIO`, `StopIO`, `SubmitPendingReads`, `ReadCompleteBundled` | codec, RX ring, USB pipe |
| Codecs (`usb_can_driver/codecs/`) | SLCAN: part of a line; gs_usb: echoes in flight; PCAN: open channels | `drainTx`, `processRxData`, `openChannel`, … | called by the driver |
| Metrics and test engines (`ican/perf/`) | counters, delivery bitset, threads | `addSent`, `addReceived`, `onTxSent`, `onRxReceived`, `reap`, `start`, `stop` | client copies |
| App (`ican/app/`) | per adapter `isConnected`, `isConnecting`, `isCANOpen`, its `CANConnection`, its engine | `connect`, `connectShared`, `disconnect`, `openCANChannel`, `closeCANChannel`, `refreshPorts` | client, engines |

What is hard in it: lock-free rings between two processes; several reader
threads that drain one ring for each other and elect one to wait for the
driver; a completion handed back and forth between a check and a callback; one
transmit buffer claimed by calls and completions; reads submitted in runs and
completed in bundles; flow control by echoes that may not come; device set-up
that stops half-way and is tried again; tasks that come back to an adapter that
has changed meanwhile; reader threads of engines that are replaced; everything
above while channels are opened, closed and reopened. `PROJECT.json` lists the
hazards by line.

What makes each part correct: the rings deliver every frame whole, once and in
order and refuse one only when full; a reader gets all packets of its channel
since it registered, in order, unless its own FIFO was full; a blocking read
returns by its deadline and does not sleep while data waits; a frame taken
from a TX ring reaches the USB stack and a frame written is taken; a transmit
or receive buffer has one user at a time; reception does not stop by itself.
The driver's pointers and flags agree with what it holds and has open after
every failure; I/O runs for the client that opened it and stops when the app
has let go; a channel reported open is on the bus at the rate asked for; a
frame is encoded and decoded as itself, once; slots and writer counts follow
the handles; no thread of an engine is left behind or waited for in vain.

## The modules

### The ring: `FrameFifo`, `SharedRing`, `SharedRingProofs`

`FrameFifo` is the promise: a bounded FIFO of numbered frames. Taking a frame
and returning its room are two steps, since the client publishes `tail` once
per batch.

`SharedRing` is `writeRxFrame` and `drainRxFrames` with one step per byte
copied and per counter access. Counters are modulo `Modulus` (2^32 in the
code). Byte `o` of frame `k` is the pair `<<k, o>>`, so that the copy tells
which bytes it consists of. `FrameFifo` is instantiated with a refinement
mapping, `FifoSpec` being the abstract specification under it.

All entries have the size `writeRxFrame` gives them; the invalid-size branch of
the reader is therefore not reached, and `BatchReachesHead` says so.

### Readers: `BlockingRead`, `ReaderFifo`, `BlockingReadProofs`, `ReaderFifoProofs`

`BlockingRead` composes the client's blocking and polling reads, the
`WaitForData` handshake and the driver's notification. The ring is the FIFO
that `SharedRing` implements, a reader FIFO a sequence; program counters are
named after the steps of `readManyBlocking`, `drainRxFrames`, `blockForData`
and `WaitForData`. `seen[t]` stands for "`drain_epoch` is the value thread `t`
loaded". `WaitForData` and the notification run on queues that may interleave,
as `usb_can_user_client.cpp:190` asks for.

`ReaderFifo` has what `BlockingRead` leaves out: the slots, with one step per
field loaded or stored, their registration under `readers_lock`, fan-out and
reading without it, and the loops of `openChannel` and `close` that clear
FIFOs. `since`, `bound` and `complete` are history: from which packet on a
reader may, and must, be served. Each behaviour has a `scenario`, chosen in
`Init`: who reads, which operations are called, and whether calls overlap.

### Transmission: `TxPath`, `TxPathProofs`

The client's write and `SendData`, the drain of each codec, the claim of the
transmit buffer, `AsyncIO`, the completions and the echoes of gs_usb. Rings
count entries; bytes are not modelled again. Each behaviour has a `config`,
chosen in `Init`: the codec, whether completions have a dispatch queue of their
own (the code binds everything to the default queue; its comments describe a
second one), the faults that may happen, the channels written to. One run can
so cover the codecs side by side. `skewed` stops the model of a drain once
`tail` has left the entries: what is read from there on is arbitrary. Frames a
codec refuses to encode (counted in `txDropped`, skipped by the drain) are left
out. I/O runs throughout: `StartIO` and `StopIO` are not in this model, and so
neither are the heads and tails `StartIO` clears, the FALSE it stores to
`fTxInFlight` while an aborted transfer may still come back
(`usb_can_driver.cpp:800`), the transfers `StopIO` aborts, nor the tests of
`fIsRunning` in the completions (1120, 1221, 1312).

### Reception: `RxSlots`, `RxSlotsProofs`

Slot states, `fRxSlotsInFlight`, `SubmitPendingReads` with its search for a
run, and `ReadCompleteBundled`. The USB stack (`Complete`, and aborts in
`StopIO`) is external: it completes reads in the order submitted, in bundles
of consecutive slots, and may accept part of a submission or refuse it. Of the
data only "does it end inside a line" is kept. `partial`, chosen in `Init`,
says whether the stack may accept a submission in part, which includes success
with none accepted: the code tests for it (`usb_can_driver.cpp:1046`), marks
nothing and returns success. `took` is history: whether the last submission
had something accepted.

### Codecs: `FrameCodecs`, `CanWire`

`FrameCodecs` has the three wire formats and the bit timing as operators, each
beside the function it translates: SLCAN's `encode`, `decode` and line
accumulator on ASCII codes, since a digit can be taken for a command there;
gs_usb's host frame and PCAN's messages as records of their fields;
`processRxData`'s walk over a PCAN transfer with its sizes, end mark and
truncation; DLC tables; the search for a prescaler with its integer divisions,
as the set of prescalers the loop's tests pass (the code takes the first), and
the widths of PCAN's register fields.

`CanWire` is the state around them: two adapters on one bus, each with any of
the codecs. What one host writes is encoded, put on the bus by its device
(external: it takes the encoding at its word and refuses a malformed line),
heard by the other device, sent in transfers and decoded. SLCAN's transfers end
at any byte; those of gs_usb and PCAN hold whole messages, one or several. The
reading device also sends replies, echoes and status messages. A PCAN message is
sized by its payload, so it may be shorter than its DLC says; what the device
then puts on the bus behind its end is the constant `Unsent`. `previous` is
what a PCAN buffer still holds behind an end mark; `due` is what a host should
have seen, stated without the codecs' operators; `phantoms` are frames emitted
for a line whose start was lost.

### Driver, connection and app: `UsbDriver`, `CanConnection`, `AppSession`, `AppProofs`

`UsbDriver` has the driver's methods as operators from the state they find to
the state they leave and their return code: all of them run on one dispatch
queue, one at a time. `F` is the set of system calls that fail meanwhile. The
state is what counts for errors: references `held` on each object, the ivars
that are not null (`ptr`), what the USB stack has `open` for the driver and what
the `flags` say, the channels the codec marks open (`chan`) and those the
adapter has on its bus (`bus`), and the user clients with their phase. The
commands of gs_usb and PCAN wait for the adapter, so their call knows what became
of them. SLCAN's are one transfer queued by `SendRawBytes`: the call succeeds
when it is queued (`command`), and `WriteComplete` carries it out or loses it
later, after `StopIO` too, without anyone being told. `StartIO` clears
`fTxInFlight`: a command of the session before that is not back by then is taken
to be lost, since `StopIO` aborted it. PCAN without its command pipe sends two
commands this way, the second while the first is on its way: it never opens a
channel.
`CanConnection` puts `CANClientImpl`'s `open`, `close`, `openChannel` and
`closeChannel` on top, with the user-client calls each makes. `AppSession`
composes these with the app: `SerialAdapter`'s published state on the main
actor, the detached tasks of `connect()` and `openCANChannel()` with the
variables they captured, and `CANConnection` objects, which disconnect when
their last reference goes. The app may die (`AppDies`) and be started again, the
adapter may be unplugged. `profile`, chosen in `Init`, is the adapter: protocol,
match on device or interface, number of interfaces and whether the stack lets
the driver open them (`opens`; the model takes the answer of one interface's
`Open` to be the same each time), and how many calls may fail.

### Handles and engines: `ClientHandles`, `DashEngines`, `DashProofs`

`ClientHandles` has what copying, assigning, destroying and using a `CANClient`
does to its `CANClientImpl`: reader slots and writer counts. `DashEngines` uses
it for the dashboard: an adapter's handle, the engine's copy of it, and a test
engine's. The elements of `dashEngines` share their impl, and a temporary copy's
destructor is `stop()`; `main` is what is left to do of the main actor's current
action, so that `stop()` can wait for a thread (`Join`) in the middle of it.
`AppSession` and `DashEngines` share the adapters' actions by name only: in
`DashEngines` the results of connecting and opening are there at once.

### Measurement: `FlightWindow`, `BidirTest`, `FlightWindowProofs`

One direction of the bidirectional test (`ican/perf/TestEngines.cpp`): the TX
thread numbers the frames, the RX thread marks them in a bitmap, the UI thread
harvests the bitmap behind a grace period. Each load and store of
`FlightWindow.hpp` is a step. Frame `s` is its number, the bus a queue that
loses frames and delivers some twice; a dropped frame and one a codec refused
are the same to it. `acked` and `rejected` are history. The model assumes of
its surroundings

- that the reaper keeps up (`Write` waits otherwise): the comment in
  `FlightWindow_test.cpp:270` says the rate is off when it does not;
- that a frame later than the grace period (8000 frames) is not being recorded
  while a reap runs (`LateOverlaps`);
- that `startTest`'s two flushes leave nothing of the last test on the bus;
- that `base_seq_`, a plain `uint64_t` written by one thread and read by
  another, is loaded and stored whole.

`BidirTest` extends it with the `MetricsEngine` the same threads feed: bursts
counted by `addSent`, the sequence check of `addReceived`, the per-second
counters the UI takes, frames that overtake each other. Each call of
`addReceived` and each drain is one step: the exchanges and additions inside them
are not interleaved.

### Instances

`MCSharedRing`, `MCBlockingRead`, `MCReaderFifo`, `MCTxPath`, `MCRxSlots`,
`MCFlightWindow`, `MCCanWire`, `MCAppSession` and `MCDashEngines` give the
constants their values together with the `.cfg` files.

## What the runs show

Passing runs:

| Run | Question | Bounds |
|---|---|---|
| `shared_ring` | frames intact, exact use of room, refinement of the FIFO | 16 bytes, entries of 5, counters modulo 32, 9 frames: entries straddle the end and the counters wrap |
| `blocking_read` | one drainer, no lost or doubled notification, each frame once per reader | two readers of one channel, a second channel nobody reads, FIFO of one packet |
| `blocking_read_live` | nobody but a sleeper stays in a call, a waiting drainer drains and wakes | two readers |
| `reader_fifo` | every reader gets its channel's packets, none from before, in order, once, unless its FIFO was full | two readers at once, 4 packets; and three readers on two slots with unregistration, `openChannel` and `close`, calls one after the other; FIFOs of two packets, which fill and wrap |
| `tx_path` | loss, order, exclusive buffer, echo limit; without faults, every frame written is taken | ring of 3; PCAN with 2 frames per channel, and with a second queue 3 frames on one channel; SLCAN with batches as long as the ring and 1 command; gs_usb with limit 2; with up to 2 faults, and again without any (the second queue only with) |
| `rx_slots` | slots and count exact, one read per buffer, reception stops only behind a submission that took none, free slots submitted again | 4 slots, 2 sessions, 1 failure, submissions accepted whole or from none to all |
| `flight_window` | the delivery rate counts the frames whose reception was recorded, once each, and refuses only late ones; gaps shown are frames lost, none shown twice; metrics and tracker agree | bitmap of 4 bits harvested 2 at a time, grace period 1, 6 frames (the bitmap goes round), 1 frame received twice or overtaken, bursts of 2, 2 tests; the window for late frames is longer than the test, so the branch of `addReceived` that counts an older one as a gap is not reached |
| `codec_path` | the rate reported is the rate run, what goes onto the bus is what was written, each frame heard is emitted once | nine pairs of codecs; five frames (classic, remote, extended FD with flags, 9 bytes, data that reads as a line), and where the reader is not SLCAN one of 25 bytes (PCAN sends 28, the DLC says 32), 2 written; bit rates 500 000 and 5 000 000 (two of the six the app offers) and 300 000; 1 stop, 1 other message, 3 openings; SLCAN's transfers cut at every place, gs_usb's and PCAN's (of up to 64 bytes) of whole messages |
| `app_session` | pointers, flags and the USB stack agree; I/O runs for its client and stops without; marks, `isOpen` and bus agree; connections reachable; `connect()` ends | two adapter entries, one open task each at a time, two connections, two user clients; six adapters (PCAN by interface and by device, gs_usb, SLCAN with two interfaces); failing calls: 2 with gs_usb, 1 with SLCAN and with PCAN of one entry, none with two entries, and any of them may be the app's death; SLCAN commands may be lost besides; unplugging where there is one entry |
| `dash_engines` | slots and writer counts follow the handles, threads stay reachable, the main actor returns | two adapters of one connection, three engines, one test engine, two reader slots: fewer than readers |

Several invariants are conjunctions of parts that are named and commented in
their modules: `DriverConsistent` is `TypeOK`, `ReferencesHeld`,
`OpenedAsFlagged` and `ReadyWhenRunning`; `RunsForClients` is `LoneClientServed`
and `IdleWhenUnopened`; `ChannelsAgree` is `MarkedIsOnBus` and `OpenIsOnBus`;
`HandlesCounted` is `SlotsOwned` and `WritersCounted`; `CountersAgree` is
`SameTraffic` and `DrainedOnce`; `SlotsExact` has `NeverStarved` (while the
driver runs and its last submission had something accepted, a read is out or a
completion to come). The type
invariant of a module is the first conjunct of one of its invariants.

Violation runs, each a disagreement between the code and what it says of
itself; `findings` in `PROJECT.json` quotes the lines:

| Run | What happens |
|---|---|
| `blocking_read_hang` | a blocking read sleeps on `drain_epoch` after its last bump and never returns |
| `tx_slcan_overflow` | the frame that did not fit in the batch is consumed with it |

More disagreements, each with a configuration that makes TLC show it
(`tlc -config X.cfg M`):

| Configuration, module, property | What happens | What the code says |
|---|---|---|
| `ReaderFifoReuse.cfg`, `MCReaderFifo`, `MatchingChannelOnly` | a slot changes owner between the test and the store of `fanOutPacket`; a reader of the other channel gets the packet | `can_client.cc:204` "Push a packet to all active readers matching the given channel" |
| `TxFallback.cfg`, `MCTxPath`, `EveryFrameDrained` | without EP 0x03 the second drain reads tx1's data with tx0's indices: a frame in tx1 is never taken | `usb_can_driver.cpp:1272` "Drain both tx0 and tx1 to EP 0x02 in case ch1 frames were queued" |
| `RxSlotsStarved.cfg`, `MCRxSlots`, `SuccessIsReception` | `AsyncIOBundled` succeeds and accepts no read: `StartIO` runs with nothing outstanding, and no completion will submit again | `usb_can_driver.cpp:1046` tests `accepted > 0` and returns success; `StartIO` logs "StartIO complete" (841) |
| `AppSessionQueued.cfg`, `MCAppSession`, `ReportedIsOnBus` | SLCAN's open command was queued, `openChannel` succeeded, the transfer fails: `isOpen()` with nothing on the bus | `can_client.cc:809` sets `is_open` on the call's success; `WriteComplete_Impl` only logs the error (`usb_can_driver.cpp:1302`) |
| `CanWirePadding.cfg`, `MCCanWire`, `ZeroPadded` | PCAN's message for 25 bytes ends after 28, its DLC says 32: the last bytes on the bus are whatever the device finds | `pcan_codec.cc:214` "4-byte aligned", line 228 takes the next DLC |
| `RxSlotsRestart.cfg`, `MCRxSlots`, `CleanStart` | a completion handled after `StopIO` is decoded and leaves part of a line for the next session | `usb_can_driver.cpp:852` "Codec cleanup" |
| `SharedDisconnect.cfg`, `MCAppSession`, `SharedDisconnectKeeps` | `disconnect()` of a sharing adapter does not call `client.disconnect()`, but drops the last reference to its `CANConnection`, whose `deinit` closes the connection both share | `CANConnection.swift:71` "reuses an existing client's connection", and the test of `isSharedConnection` at `SerialAdapter.swift:119` |
| `EngineRefresh.cfg`, `MCDashEngines`, `PreservedRuns` | the old array's element is a copy of the engine that was kept, its destructor stops the engine; nothing starts it again | `CANDashboardViewModel.swift:187` "Preserve running engine for this adapter" |

What the other properties assume, and what happens without it. Each is seen
with the modules as they are, by changing the constants of a configuration:

- `CallReturns` of `BlockingRead` holds with a single reader thread.
- `NoStalePacket` is for calls that do not overlap. With an overlapping
  `openChannel`, which clears FIFOs without `drain_lock` (`can_client.cc:816`),
  a fan-out that had loaded the old head stores `head + 1` afterwards, and old
  packets can be read again. In the run the property so rests on the reset of
  `head` and `tail` at registration and in calls that do not overlap a fan-out.
- `SentInOrderOnce` is for one dispatch queue. With two, a drain that loaded
  the tail before the other's send was complete may send the frame again.
- `NoSilentLoss` with SLCAN is for batches that hold the ring
  (`tx_slcan_overflow` is the other case), and is for adapters with EP 0x03:
  without it, a frame written to tx0 between the two drains is looked up in
  tx1's data and tx0's tail moves off its entries (`usb_can_driver.cpp:1283`).
- `EveryFrameDrained` is for no fault. After a failed `AsyncIO` with no other
  transfer in flight no completion follows, though `pcan_codec.h:319` counts on
  one; after lost echoes gs_usb stays at its limit, since `checkStall` is
  reached from `onTimer` alone, which nothing calls; and an echo followed by a
  received frame in one bundle is forgotten, since `processRxData` sets
  `needsDrainTx_` anew for each transfer (`gsusb_codec.h:196`).
- `NeverStarved` leaves out a submission of which nothing was accepted, because
  it failed or because the stack reported success with none: behind it nothing
  is outstanding unless other reads are, whose completions then make it good.
- `FreeSlotResubmitted` is for whole acceptance. The free slots at the end of
  the ring are not submitted at once, as the check "Handle wrap" in
  `SubmitPendingReads` seems to intend: the search starts at the lowest free
  slot, so it never finds one before its start.
- `SlotsExact` and `BufferUsedOnce` are for aborted reads that come back before
  the next `StartIO` (`AbortDelivers`). `StopAsyncRead` does not wait for them.
- `WritersCounted` leaves out connections that a handle counted as a writer was
  assigned to or away from: `operator=` keeps `_isTxRegistered` and subtracts
  nothing (`can_client.cc:550`), so a handle assigned to a second connection is
  counted on the first for ever, and its destructor takes one from the second.
  The test engine's handles are used so.
- `LoneClientServed` leaves out user clients that had another beside them. Two
  adapters of one device that connect at the same moment each open a connection
  (`CANDashboardViewModel.swift:237` finds none to share yet): the first is not
  notified any more, and the first to close stops I/O for both. A `Stop` of the
  older one also clears the `fUserClient` of the newer.
- `OpenIsOnBus` is weaker for SLCAN: its queued open command may be on its way
  or lost. What it excludes there is that a close queued in an earlier session,
  or by another client, is carried out behind it.
- `MarkedIsOnBus` has no converse: PCAN clears its mark before it sends the
  command (`pcan_codec.h:262`), so after a failure the channel stays on the bus
  and a second `closeChannel` sends nothing and reports success; SLCAN and PCAN
  leave a channel on the bus at `StopIO`.
- `ReferencesHeld` is a lower bound, leaks are not excluded: `StartAsyncRead`
  overwrites the buffers and action of the session before, `free` does not
  release `fControlInterface` (Start that failed), `Stop` releases an interface
  used for control and data once though it was retained twice, and a retry of
  `ConfigurePipes` for PCAN drops the new command pipe (`usb_can_driver.cpp:701`).
- `OpenAtBitrate` is for the rates the app offers. PCAN opens a channel at a rate
  it has no timing for (300 000) and reports success, with a no-op in place of
  the timing (`pcan_codec.cc:149`); the channel keeps the rate it
  had.
- `EveryFrameOnce` allows frames nobody sent after a stop. `onStopIO` forgets
  the part of a line read; if the rest begins with a digit that is also a
  command (`D`, `d`), it decodes as a frame: seen with data 0xD0 0x12 0x34 0x56.
  A BEL reply without a CR spoils the line behind it (that frame is lost).
- `SentAsWritten` says what SLCAN loses: a remote frame goes out as a data
  frame, BRS and ESI are dropped, and an FD frame of a length between two DLC
  steps becomes a line whose length its adapter does not accept. For PCAN it
  speaks of the bytes that were sent, the payload rounded up to 4: of an FD frame
  of 33 bytes the message has 36 and the DLC says 48.
- `ConnectionReachable` is about connections. A channel may be closed on the
  driver and open for the app: `openCANChannel`'s task sets `isCANOpen` on
  whatever the adapter has become; the owner's `disconnect()` closes the
  connection of adapters that share it, which go on showing connected.
- `ThreadsReachable` is about dashboard engines. `disconnect()` of an adapter
  leaves its engine running, with a reader slot, until the next stop. The test
  engines' threads hold a raw pointer to their impl and their destructors are
  defaulted (`TestEngines.cpp:306`): they are safe only because the app keeps
  them while a test runs.
- `ConfirmedExact` is for `LateOverlaps = FALSE`. A call of `onRxReceived` for
  a frame of the chunk being reaped may pass the test of `base_seq_` before the
  reaper moves it and set its bit after the word was cleared
  (`FlightWindow.hpp:48` and 57): the bit is counted one round later. The grace
  period makes it unlikely; the test of `base_seq_` alone does not exclude it.

Why small instances say something: the rings, FIFOs and slots are uniform in
their size, and each bound is chosen so that the case at issue (full, wrapped,
overtaken, at the limit) occurs inside it; every property has a mutant of the
code that breaks it under the same bounds. Where there are proofs they replace the
bounds.

`CHECK_DEADLOCK` is off where a configuration bounds the frames, calls or
sessions: the model stops when they are used up, and the real system stops
when nobody calls and nothing arrives.

## Fairness

- `BlockingRead`: a thread inside a call keeps running and gets the mutex if it
  keeps asking; the driver's handler finishes; time passes (`Expire`). Nobody
  is made to call, and no frame to arrive.
- `TxPath`: a handler runs to its end, a dispatch queue gets to every handler
  it was given (strong fairness, since other handlers of the queue disable it
  meanwhile), a transfer completes. Faults and writes are not forced.
- `RxSlots`: the adapter keeps sending and completions are handled. Nothing
  forces `StartIO` or `StopIO`.
- `AppSession`: detached tasks run (they have threads of their own, and the
  driver's control requests have timeouts) and DriverKit stops a user client
  that was closed or whose program died. A task's fairness is stated on its
  control state: `ConnectMoves` strongly, since waiting for a free user client
  is a matter of the bound on them, `OpenMoves` weakly. Users, faults and
  unplugging are not forced.
- `DashEngines`: the main actor goes on with an action it has begun, and reader
  threads run; that `readManyBlocking` returns within its 10 ms is taken for
  granted here, and is what `BlockingRead` is about.

## What is proved

Each proof module has an inductive invariant, one lemma per action or per part
of the invariant that says the steps keep it, and the theorems that follow. The
invariants were checked by TLC on the runs' instances before they were proved.
All theorems are about every value of the constants that satisfies the
module's `ASSUME`; the bounds on calls, frames and faults are constants too, so
none of the results depends on how large they are.

### The ring: `SharedRingProofs`

`RingAssumption`: the capacity divides the range of the counters and is smaller
than it (262144 and 2^32 in the code), and an entry holds at least its size
field.

| Theorem | Says |
|---|---|
| `TypeCorrect` | `TypeOK` always |
| `FramesIntact` | what the client copies is the oldest undelivered frame, byte for byte |
| `UsedExact` | the wrapped difference of the counters is the room in use, at most the capacity |
| `BatchComplete` | the drain loop ends at the head it loaded |
| `DropsOnlyWhenFull` | a frame is dropped only when one more does not fit |
| `RingImplementsFifo` | `Spec => FifoSpec` |

The properties alone are not inductive: that the byte just read is right
depends on what every cell of the unread window holds. The invariant `IInv`
therefore places frame `k` at position `EntrySize * k` of an unbounded stream,
says that the counters are positions modulo `Modulus`, that the window from the
first byte not handed back to the end of the entry being written is at most
`Cap` long, and that each published or copied byte of the window is in the cell
of its position. Two positions less than `Cap` apart have different cells
(`WindowDisjoint`), so a write never touches what is still to be read; and
because `Cap` divides `Modulus`, the cell computed from a wrapped counter is
the cell of its position (`IndexOfPosition`). The refinement theorem uses the
invariant on both sides of a step.

The facts on `%` and `\div` these rest on come first in the module, from the
definition of division.

### Blocking reads: `BlockingReadProofs`

`ReadAssumption`: any finite set of threads, any channels and capacities.

| Theorem | Says |
|---|---|
| `OneDrainerAlways` | `OneDrainer`: the role has one holder, and `drainer_active` says whether it has one |
| `CompletionConserved` | `NotificationConserved`: the completion is stored or queued, never both, never neither |
| `NotificationNotMissed` | `NoMissedNotification`: none stays stored over a ring with frames unless it is about to be handed over |
| `FramesReachReadersOnce` | `EachReaderOnce`: a reader received, has queued or was counted out for the frames of its channel fanned out so far, in order |

`IInv` adds to these who may be in `WaitForData` (only the drainer, so
`waitPending` is not set while it is: `WaitInv`), that the holder of
`drain_lock` is the thread in the drain loop and its local tail stays inside
the batch (`LockInv`), and that the ring holds consecutive frames of each
channel up to the last one written (`RingNumbered`). Without the last, nothing
says that the frame about to be fanned out follows those before it.

### Reader slots: `ReaderFifoProofs`

`ReaderAssumption`: any finite set of clients, any channels, number of slots,
FIFO size of at least 2, and set of scenarios.

| Theorem | Says |
|---|---|
| `TypeCorrect` | `TypeOK`, and with `IInv` that a slot has at most one owner, in every scenario |
| `OwnChannelOnly` | `MatchingChannelOnly`, where `Orderly` holds |
| `NothingStale` | `NoStalePacket`, where `Orderly` holds |
| `HandedInOrder` | `InOrderOnce`, where `Orderly` holds |
| `AllAccountedFor` | `EveryPacketCounted`, where `Orderly` holds |

`Orderly` is a condition on the scenario: calls come one at a time, or they
overlap in any way but none unregisters a reader or clears a FIFO. Both
scenarios of `ReaderFifo.cfg` are of this kind. Outside it `MatchingChannelOnly`
fails, which `ReaderFifoReuse.cfg` shows.

The slot of a reader is its own because `readers_lock` is (`OwnInv`), and fan-out
stores only into a slot that shows its channel (`FanInv`). What a FIFO holds is
a sequence, `Queue`, its cells from the tail up to the head: fan-out appends to
it (`HeldStore`, `HeldNext`) and a read takes its first (`HeldRest`), wherever
the cells wrap. Where a registration stores `head = 0` while a fan-out holds the
head it loaded, the one loaded is what will be published, so `Front` takes that
one; `HeadInv` says when the two differ. `QueueInv` then says that the queue
holds, in order and newer than what was read, packets of the reader's channel
since it registered, and that no packet it must get is missing from what was
read, dropped or queued. `ResetInv` is about the slots whose indices are being
set, which have no such queue yet.

### Transmission: `TxPathProofs`

`TxAssumption`: any set of configurations (codec, faults, number of dispatch
queues, batch and channels), ring capacity, echo limit.

| Theorem | Says |
|---|---|
| `BufferInOneHand` | `BufferExclusive`, for one and for two dispatch queues |
| `NothingLostSilently` | `NoSilentLoss`, where `Sound` holds |
| `InOrderAndOnce` | `SentInOrderOnce`, where `OwnRing` holds |

The buffer of a pipe goes from the drain that claimed it to the USB stack to a
completion, and `fTxInFlight` is set for exactly as long (`OwnerInv`). A tail in
a local variable is never past the head it was loaded under (`RingInv`). These
and the types are `SafeInv`, proved in `Safety`. On top of it `PlacedInv` says
that a batch holds the frames between the tail it started from and the one it
has reached, `HandInv` that all frames behind a tail to be stored which the
batch does not hold were handed over, and `OrderInv` that the numbers sent on a
ring increase and stay below those in transfer, these below the next to be
read.

`OwnRing` (the codec is not PCAN without EP 0x03) and `Sound` (also: an SLCAN
batch holds the ring, one queue) are conditions on the configuration. Where they
fail the property fails, which `TxFallback.cfg` and `tx_slcan_overflow` show.

### Reception: `RxSlotsProofs`

`SlotsAssumption`: any number of slots, sessions and failures, and any acceptance
of a submission from none to all.

| Theorem | Says |
|---|---|
| `NeverStops` | `TypeOK` and `NeverStarved`: while the driver runs and its last submission had something accepted, a read is out or a completion to come, whenever aborted reads come back |
| `SlotStatesExact` | `SlotsExact`, given `AbortDelivers` |
| `OneReadPerBuffer` | `BufferUsedOnce`, given `AbortDelivers` |

A read has a place, in the pipe or in a bundle. `ApartInv` says that no slot has
two; it holds because a submission takes a run of slots that are free, and
while the driver runs those are the slots without a place (`ExactInv`). A
completion handled after the next `StartIO` frees a slot that is no longer its
own, hence `AbortDelivers`. `NeverStarved` says what keeps reception going: each
completion submits again, and one that handles the last read outstanding leaves
nothing out only if its own submission took nothing (`took`).

### Measurement: `FlightWindowProofs`

`WindowAssumption`: any bitmap, chunk, grace period and number of frames (at
least one). The theorems are about `BidirSpec`, the delivery tracker with the
metrics beside it.

| Theorem | Says |
|---|---|
| `RejectedLateOnly` | `RejectedOnlyLate` |
| `DeliveryExact` | `ConfirmedExact`, unless `LateOverlaps` |
| `CountersAddUp` | `CountersAgree` |
| `GapsAreTheLosses` | `GapsAreLosses`, where no frame comes later than the window for frames out of order (`InWindow`) |

`RejectedOnlyLate` needs that what a thread loaded of `head_seq_` and
`base_seq_` is at most what they are now. For `ConfirmedExact`, `GraceInv` says
that an `onRxReceived` between its test and its store is outside the chunk
being reaped, and `BitsInv` that a bit is set exactly for the recorded frames
of the window, and that what was harvested is counted. `MetricInv` counts the
frames of the bus once (`TrafficInv`), and keeps the numbers on the bus and
those already seen apart (`OrderInv`), from which the gaps seen by
`addReceived` are the numbers not seen between those that were.

### Driver, connection and app: `AppProofs`

`DriverAssumption`, `ConnectionAssumption` and `SessionAssumption`: any sets of
user clients, connections, adapters and profiles, a profile being any
combination of protocol, match, number of interfaces, channels in use and
number of faults. The cap on reference counts (`MaxHeld`) is at least 2, since
an interface can serve for control and data.

| Theorem | Says |
|---|---|
| `DriverConsistentAlways` | `DriverConsistent` |
| `RunsForClientsOnly` | `RunsForClients` |
| `ChannelsAgreeAlways` | `ChannelsAgree` |
| `NoClientOrphaned` | `ConnectionReachable` |

The driver's methods are operators, so each has a lemma on what it makes of a
state. The parts of the invariant that are about the driver alone are `Sound`
(an ivar that is not null is held, once more if it is the data interface too;
what is flagged as opened is open, and the reverse; a channel marked open is on
the bus; only SLCAN has commands under way, and marks nothing) and `Equipped`
(what I/O uses is there), which a method may miss only between two steps of its
own: `StartIO` that fails has stopped again, `free` finds nothing open.
`Served` says that a user client alone on the driver is its `fUserClient` and
has I/O running. A client's `Stop` takes both from the driver; that it takes
them from nobody who is alone needs that two clients alive at the same time
know of each other (`peers`). On top of these, `Linked` says that a connection
is on a user client of its own, alive while the driver is started, and that
every open user client not cut off has a connection; `OnBus` that if one alone
is open, the adapter is on the bus with no close still to be carried out, or
SLCAN's open command is on its way or lost (`Reaching`). That a close queued
before cannot come behind the open needs two facts: `SendRawBytes` refuses a
command while one is on its way, and `StartIO` finds none left of the session
before. For the app, `HoldInv` says that an adapter and its tasks hold objects
with an impl, and no two adapters the same object, so that letting go of one
takes nobody else's; `Orderly`, that an adapter's tasks are those it shows
(`isConnecting`); `ImplInv`, that an impl in use is shared by an object, and
that the impl a connect task works on is its own. An open user client so has an
object through which it can be closed.

### Handles and engines: `DashProofs`

`HandlesAssumption` and `DashAssumption`: any number of adapters, engines,
connections, channels and reader slots.

| Theorem | Says |
|---|---|
| `HandlesCountedAlways` | `HandlesCounted` |
| `ThreadsReachableAlways` | `ThreadsReachable` |

Each call on a handle takes a world (connections and handles) to another. There
is one lemma per call, that it keeps the world `Sound`: a slot in use has one
reader, a count is the cardinality of the set of handles that write, and the
connections in `reassigned`, where the count may be wrong, are still shared by
some handle. The last is needed because an impl that nobody shares any more is
used for another connection, with counts that must be right again. `HandleInv`
adds that the engines' handles never write, so that `start()`, which assigns to
one, cannot make a count wrong; only the test engine's assignments can.

`ThreadInv` has what `ThreadsReachable` lacks to be inductive: an engine runs
exactly while its thread is in the loop, and a thread that has been told to
stop, or has stopped, is the one the main actor is about to join, so that no
other action can drop its engine meanwhile. `MainInv` says that the engine the
main actor will start is in the array. `Refresh` puts every engine of the old
array among the commands left (`Sequenced`).

### Only model-checked

- Liveness, and everything under fairness: out of the provers' reach. That is
  `BlockingRead`'s, `TxPath`'s, `RxSlots`'s, `AppSession`'s and `DashEngines`'s
  leads-to properties.
- `CanWire` and the codecs of `FrameCodecs`: what their folds over bytes and
  messages compute is induction over data.
- `ReaderFifo` with overlapping calls that give up or clear a slot: there the
  properties fail.
- What only a violation run or a further configuration is about (`CallReturns`,
  `PreservedRuns`, `CleanStart` …): the code does not have it.

## Not modelled

Listed with reasons under `components` in `PROJECT.json`: views, examples,
build rules and scripts. Of what is modelled, the parts left out are

- device discovery in the IORegistry, protocol detection, firmware information
  and line coding requests: calls whose results are only looked at once;
- moves of `CANClient` (the app makes none), `setChannel` after the first use,
  the fallback without async notification;
- readers that run while `close` unmaps the ring: the result is undefined;
- CAN FD data-phase timing, error frames, classic frames that say more than 8
  bytes or remote frames with data, gs_usb transfers that are not whole frames;
- arithmetic past the inputs of the app: at 5 Mbit/s `bitrate * brp` wraps from
  a prescaler of 859 on, where no result is accepted any more; a gs_usb device
  that reports `brp_inc` 0 would keep the search from ending;
- the dashboard's ID table, snapshots, timers and message log; test engines
  other than the bidirectional one. `buildFrame` with fewer than 8 bytes sends
  only the top bytes of the counter; such tests have no delivery tracking.

Memory ordering is taken at its word: acquire and release on the ring counters
and FIFO indices make interleavings in program order adequate. Where a field is
accessed without any ordering (`active` and `channel` of a slot), the
interleavings of single accesses are what the model explores.

## What is left

Every safety property of the runs is a theorem, but for `CanWire`'s three. For
those the next step would be to restate the codecs' walks as recursive
functions and their invariants as facts about one byte or one message at a
time. Of the code, what a further module could add is listed under "Not
modelled"; the nearest are readers during `close` and the echo and bandwidth
test engines.
