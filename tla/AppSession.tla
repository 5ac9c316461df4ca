------------------------------ MODULE AppSession ------------------------------
(***************************************************************************)
(* The app's adapters (SerialAdapter.swift, CANConnection.swift and        *)
(* connectAdapter of CANDashboardViewModel.swift) on the connections and   *)
(* the driver below them.  The main actor runs one action at a time;       *)
(* connecting and opening a channel block, so each runs in a detached task *)
(* that comes back to the main actor with its result.  A CANConnection is  *)
(* counted by its references and disconnects when the last one goes.       *)
(***************************************************************************)
EXTENDS CanConnection

CONSTANTS Adapters, ChannelOf

ASSUME SessionAssumption == ChannelOf \in [Adapters -> {0, 1}]

VARIABLES adapter,    \* SerialAdapter's published state and its client
          object,     \* CANConnection objects: the impl each shares, its channel
          connecting, \* the detached task of connect(), if any
          opening     \* the detached task of openCANChannel(), if any

appVars == <<adapter, object, connecting, opening>>
vars == <<driverVars, impl, appVars>>

NoAdapter == [isConnected |-> FALSE, isCANOpen |-> FALSE, isConnecting |-> FALSE,
              shared |-> FALSE, client |-> None]
NoObject == [impl |-> None, channel |-> 0]
Idle == [pc |-> "idle", object |-> None, ok |-> FALSE]

\* The channels of the adapter that have an entry in the app: PCAN's two, or one.
Present == {a \in Adapters : ChannelOf[a] \in profile.entries}

Init == /\ DriverInit
        /\ impl = [i \in Conns |-> NoImpl]
        /\ adapter = [a \in Adapters |-> NoAdapter]
        /\ object = [k \in Conns |-> NoObject]
        /\ connecting = [a \in Adapters |-> Idle]
        /\ opening = [a \in Adapters |-> Idle]

Unused == {k \in Conns : object[k].impl = None /\ \A j \in Conns : object[j].impl # k}
Fresh == CHOOSE k \in Unused : \A j \in Unused : k <= j
FreshClient == CHOOSE u \in FreeClients : TRUE

Becomes(w, F) == drv' = Spend(w.drv, F) /\ impl' = w.impl
Disposed(k) == [object EXCEPT ![k] = NoObject]
\* disconnect of object k, which is also what its deinit does
Disconnects(w, k, F) == Close(w, object[k].impl, object[k].channel, F)
-----------------------------------------------------------------------------
(* connectAdapter: on the connection of another adapter of this device, if *)
(* one is connected, otherwise by a connection of its own.                 *)
Sharable(a) == {b \in Present \ {a} : adapter[b].isConnected /\ adapter[b].client # None}

ConnectShared(a) ==
    /\ a \in Present /\ ~adapter[a].isConnected /\ ~adapter[a].isConnecting
    /\ Unused # {}
    /\ \E b \in Sharable(a) :
        /\ object' = [object EXCEPT ![Fresh] = [impl |-> object[adapter[b].client].impl,
                                                channel |-> ChannelOf[a]]]
        /\ adapter' = [adapter EXCEPT ![a] = [@ EXCEPT !.isConnected = TRUE, !.shared = TRUE,
                                                       !.client = Fresh]]
    /\ UNCHANGED <<driverVars, impl, connecting, opening>>

Connect(a) ==
    /\ a \in Present /\ ~adapter[a].isConnected /\ ~adapter[a].isConnecting
    /\ Sharable(a) = {}
    /\ Unused # {}
    /\ adapter' = [adapter EXCEPT ![a].isConnecting = TRUE]
    /\ object' = [object EXCEPT ![Fresh] = [impl |-> Fresh, channel |-> ChannelOf[a]]]
    /\ connecting' = [connecting EXCEPT ![a] = [pc |-> "open", object |-> Fresh, ok |-> FALSE]]
    /\ UNCHANGED <<driverVars, impl, opening>>

ConnectOpens(a) ==        \* the task: client.open, setChannel, openSerial
    /\ connecting[a].pc = "open"
    /\ FreeClients # {}
    /\ \E F \in Faults(StartCalls \cup {"map"}) :
        LET r == Open(World, connecting[a].object, FreshClient, F)
        IN  /\ Becomes(r, F)
            /\ connecting' = [connecting EXCEPT ![a].pc = "done", ![a].ok = r.ok]
    /\ UNCHANGED <<life, profile, adapter, object, opening>>

ConnectSucceeds(a) ==     \* back on the main actor
    /\ connecting[a].pc = "done" /\ connecting[a].ok
    /\ adapter' = [adapter EXCEPT ![a] = [@ EXCEPT !.client = connecting[a].object,
                                                   !.isConnected = TRUE, !.isConnecting = FALSE]]
    /\ connecting' = [connecting EXCEPT ![a] = Idle]
    /\ UNCHANGED <<driverVars, impl, object, opening>>

\* Mutant: a failed connection leaves isConnecting set.
ConnectFailsQuietly(a) ==
    /\ connecting[a].pc = "done" /\ ~connecting[a].ok
    /\ \E F \in Faults(CommandCalls) : Becomes(Disconnects(World, connecting[a].object, F), F)
    /\ object' = Disposed(connecting[a].object)
    /\ connecting' = [connecting EXCEPT ![a] = Idle]
    /\ UNCHANGED <<life, profile, adapter, opening>>

ConnectFails(a) ==
    /\ connecting[a].pc = "done" /\ ~connecting[a].ok
    /\ adapter' = [adapter EXCEPT ![a].isConnecting = FALSE]
    /\ \E F \in Faults(CommandCalls) : Becomes(Disconnects(World, connecting[a].object, F), F)
    /\ object' = Disposed(connecting[a].object)
    /\ connecting' = [connecting EXCEPT ![a] = Idle]
    /\ UNCHANGED <<life, profile, opening>>

(* disconnect: an adapter that shares its connection leaves it open; but   *)
(* its CANConnection goes with the last reference, and deinit closes.      *)
Disconnect(a) ==
    LET k == adapter[a].client
        used == opening[a].object = k
    IN  /\ adapter[a].isConnected /\ ~adapter[a].isCANOpen      \* the button is there
        /\ k # None
        /\ \E F \in Faults(CommandCalls) :
             LET w == IF adapter[a].shared THEN World ELSE Disconnects(World, k, F)
             IN  Becomes(IF used THEN w ELSE Disconnects(w, k, F), F)
        /\ object' = IF used THEN object ELSE Disposed(k)
        /\ adapter' = [adapter EXCEPT ![a] = NoAdapter]
        /\ UNCHANGED <<life, profile, connecting, opening>>

(* openCANChannel: the guard on the main actor, the call in the task, its  *)
(* result on the main actor, whatever the adapter has become meanwhile.    *)
OpenCAN(a) ==
    /\ adapter[a].isConnected /\ ~adapter[a].isCANOpen
    /\ opening[a].pc = "idle"      \* bound: one such task of an adapter at a time
    /\ opening' = [opening EXCEPT ![a].pc = "start"]
    /\ UNCHANGED <<driverVars, impl, adapter, object, connecting>>

OpenTakesClient(a) ==
    /\ opening[a].pc = "start"
    /\ opening' = [opening EXCEPT ![a].pc = "call", ![a].object = adapter[a].client]
    /\ UNCHANGED <<driverVars, impl, adapter, object, connecting>>

OpenCalls(a) ==
    LET k == opening[a].object
    IN  /\ opening[a].pc = "call"
        /\ \E F \in Faults(CommandCalls) :
             LET r == IF k = None THEN Result(drv, impl, FALSE)
                      ELSE ChannelOpen(World, object[k].impl, object[k].channel, F)
             IN  /\ Becomes(r, F)
                 /\ opening' = [opening EXCEPT ![a].pc = "done", ![a].ok = r.ok]
        /\ UNCHANGED <<life, profile, adapter, object, connecting>>

OpenReturns(a) ==
    LET k == opening[a].object
        last == k # None /\ adapter[a].client # k        \* the task held the last reference
    IN  /\ opening[a].pc = "done"
        /\ adapter' = [adapter EXCEPT ![a].isCANOpen = @ \/ opening[a].ok]
        /\ \E F \in Faults(CommandCalls) : Becomes(IF last THEN Disconnects(World, k, F) ELSE World, F)
        /\ object' = IF last THEN Disposed(k) ELSE object
        /\ opening' = [opening EXCEPT ![a] = Idle]
        /\ UNCHANGED <<life, profile, connecting>>

CloseCAN(a) ==
    LET k == adapter[a].client
    IN  /\ adapter[a].isCANOpen /\ adapter[a].isConnected /\ k # None
        /\ \E F \in Faults(CommandCalls) :
              Becomes(ChannelClose(World, object[k].impl, object[k].channel, F), F)
        /\ adapter' = [adapter EXCEPT ![a].isCANOpen = FALSE]
        /\ UNCHANGED <<life, profile, object, connecting, opening>>

(* The app dies: the kernel closes its connections, the user clients' Stop *)
(* does what close() did not.  The app may be started again.               *)
AppDies ==
    /\ drv.faults > 0
    /\ \E u \in Clients : Alive(drv, u)
    /\ drv' = [drv EXCEPT !.faults = @ - 1,
                          !.uc = [u \in Clients |-> IF Alive(drv, u) THEN [@[u] EXCEPT !.cut = TRUE]
                                                    ELSE @[u]]]
    /\ impl' = [i \in Conns |-> NoImpl]
    /\ adapter' = [a \in Adapters |-> NoAdapter]
    /\ object' = [k \in Conns |-> NoObject]
    /\ connecting' = [a \in Adapters |-> Idle]
    /\ opening' = [a \in Adapters |-> Idle]
    /\ UNCHANGED <<life, profile>>
-----------------------------------------------------------------------------
Task(a) == ConnectOpens(a) \/ ConnectSucceeds(a) \/ ConnectFails(a)
           \/ OpenTakesClient(a) \/ OpenCalls(a) \/ OpenReturns(a)
User(a) == ConnectShared(a) \/ Connect(a) \/ Disconnect(a) \/ OpenCAN(a) \/ CloseCAN(a)
DriverSide == Start \/ Unplug \/ Stop \/ FreeDriver \/ WriteComplete
              \/ \E u \in Clients : ClientStops(u)

Next == \/ \E a \in Adapters : Task(a) \/ User(a)
        \/ DriverSide /\ UNCHANGED <<impl, appVars>>
        \/ AppDies

Spec == Init /\ [][Next]_vars

\* Detached tasks run on a pool of threads, calls into the driver come back
\* (their requests have timeouts), and DriverKit stops a client that is cut off.
\* The fairness of a task is stated on its control alone; a wait for a free user
\* client is one of the bound on Clients and always ends (strong fairness).
ConnectMoves(a) ==
    /\ connecting[a].pc = "done" \/ (connecting[a].pc = "open" /\ FreeClients # {})
    /\ connecting' \in {[connecting EXCEPT ![a] = Idle]}
                        \cup {[connecting EXCEPT ![a].pc = "done", ![a].ok = b] : b \in BOOLEAN}
OpenMoves(a) ==
    /\ opening[a].pc # "idle"
    /\ opening' \in {[opening EXCEPT ![a] = Idle], [opening EXCEPT ![a].pc = "call", ![a].object = adapter[a].client]}
                     \cup {[opening EXCEPT ![a].pc = "done", ![a].ok = b] : b \in BOOLEAN}
Fairness == /\ \A a \in Adapters : SF_connecting(ConnectMoves(a)) /\ WF_opening(OpenMoves(a))
            /\ \A u \in Clients : WF_vars(ClientStops(u) /\ UNCHANGED <<impl, appVars>>)
FairSpec == Spec /\ Fairness
-----------------------------------------------------------------------------
(* The values each variable takes in every reachable state.                *)
TypeOK ==
    /\ life \in {"new", "started", "failed", "leaving", "stopped", "freed"}
    /\ profile \in Profiles
    /\ drv.ptr \subseteq Objects /\ drv.held \in [Objects -> 0 .. MaxHeld] /\ drv.data \in {None, "if0", "if1"}
    /\ drv.open \subseteq {"device", "if0", "if1"} /\ drv.flags \subseteq {"device", "control", "data"}
    /\ drv.chan \cup drv.bus \subseteq {0, 1} /\ drv.command \in {"none", "open", "close", "lost"}
    /\ drv.user \in Clients \cup {None}
    /\ drv.faults \in 0 .. profile.faults
    /\ \A i \in Conns : impl[i].connection \in Clients \cup {None}
    /\ \A a \in Adapters : adapter[a].client \in Conns \cup {None}
    /\ \A k \in Conns : object[k].impl \in Conns \cup {None}

\* Whatever failed and was tried again before: every ivar that is not null
\* refers to an object the driver still holds a reference to.
ReferencesHeld ==
    \A o \in Objects : drv.held[o] >= (IF o \in drv.ptr THEN 1 ELSE 0) + (IF drv.data = o THEN 1 ELSE 0)

\* The opened-flags say what the USB stack has open for the driver, and when
\* the driver has stopped that is nothing.
OpenedAsFlagged ==
    /\ drv.open = (drv.flags \cap {"device"}) \cup (IF "control" \in drv.flags THEN {"if0"} ELSE {})
                   \cup (IF "data" \in drv.flags THEN {drv.data} ELSE {})
    /\ life \in {"stopped", "freed"} => drv.open = {}

\* While I/O runs the driver has all that reading and sending use.
ReadyWhenRunning ==
    drv.running => /\ drv.configured
                   /\ {"device", "ring", "out", "in", "tx", "write", "read", "slot0", "slot1"} \subseteq drv.ptr

\* The driver's own state agrees with itself and with what the USB stack holds.
DriverConsistent == TypeOK /\ ReferencesHeld /\ OpenedAsFlagged /\ ReadyWhenRunning

\* A program that has opened the driver, with no second user client beside it
\* since, is served: I/O runs and its client is the one notified.
LoneClientServed ==
    \A u \in Clients \ drv.peers : drv.uc[u].phase = "open" => drv.running /\ drv.user = u

\* I/O does not run on when no client has the driver open.
IdleWhenUnopened == drv.running => \E u \in Clients : drv.uc[u].phase = "open"

\* I/O runs for the client that opened the driver, and for nobody else.
RunsForClients == LoneClientServed /\ IdleWhenUnopened

\* No user client stays open that no CANConnection of the app could close.
ConnectionReachable ==
    \A u \in Clients : drv.uc[u].phase = "open" /\ ~drv.uc[u].cut =>
        \E k \in Conns : object[k].impl # None /\ impl[object[k].impl].connection = u

\* A channel the codec marks open is on the bus: failed commands, lost answers,
\* closing and stopping never leave the mark behind.  (SLCAN's codec marks none.)
MarkedIsOnBus == drv.chan \subseteq drv.bus

AloneAndOpen(i) == impl[i].is_open /\ Alive(drv, impl[i].connection)
                   /\ impl[i].connection \notin drv.peers

\* isOpen() of a connection that is alone on its driver: some channel is on the
\* bus.  SLCAN's may be still to come, or lost unreported: openChannel returned
\* when its command was queued.  No command of a session before takes it back.
OpenIsOnBus ==
    \A i \in Conns : AloneAndOpen(i) =>
        drv.bus # {} \/ (profile.protocol = "slcan" /\ drv.command \in {"open", "lost"})

\* The bus, the codec's marks and the client's flag never say more than is open.
ChannelsAgree == MarkedIsOnBus /\ OpenIsOnBus

\* What isOpen() tells the app, with no command on its way, of an SLCAN adapter
\* too.  The code does not have it: a transfer that fails later is only logged.
ReportedIsOnBus ==
    \A i \in Conns : AloneAndOpen(i) /\ drv.command # "open" => drv.bus # {}

\* connect() ends, with a connection or without: isConnecting, which disables
\* the button and every other connect, does not stay set.
ConnectEnds == \A a \in Adapters : adapter[a].isConnecting ~> ~adapter[a].isConnecting

HeldByApp == \E k \in Conns : object[k] # NoObject

\* When the app holds no connection any more, because it let go of them in
\* whatever order or died, the driver stops its I/O.
AbandonedStops == ~HeldByApp ~> (~drv.running \/ HeldByApp)

\* An adapter that shares another's connection does not close it by
\* disconnecting (CANConnection.swift, shareConnection).
SharedDisconnectKeeps ==
    [][\A a, b \in Adapters :
          adapter[a].shared /\ ~adapter'[a].isConnected
          /\ adapter[b].isConnected /\ adapter'[b].isConnected /\ adapter[b].client # None =>
             LET i == object[adapter[b].client].impl
             IN  impl[i].is_connected => impl'[i].is_connected]_vars
=============================================================================
