------------------------------ MODULE UsbDriver ------------------------------
(***************************************************************************)
(* One USBCANDriver (usb_can_driver.cpp), the adapter it drives and the    *)
(* user clients (usb_can_user_client.cpp) opened on it: what is acquired,  *)
(* opened and started, in which order, and what is left when a step in the *)
(* middle fails.                                                           *)
(*                                                                         *)
(* The driver's methods and those of its user clients run on one dispatch  *)
(* queue, one at a time, so each is an operator from the state it finds to *)
(* the state it leaves and its return code; the modules that extend this   *)
(* one make them actions.  F is the set of calls to the system that fail   *)
(* during the method.                                                      *)
(***************************************************************************)
EXTENDS Integers, FiniteSets

CONSTANTS Profiles,   \* adapters: [protocol, onInterface, interfaces, opens,
                      \* entries], and the bounds faults and unplugs
          Clients,    \* user client objects
          None,
          MaxHeld     \* bound: references counted to one object

VARIABLES life,     \* of the driver object: new, started, failed, leaving, stopped, freed
          profile,  \* the adapter, how many system calls fail, whether it is unplugged
          drv       \* ivars of driver and user clients, and what they refer to

driverVars == <<life, profile, drv>>

\* What the ivars of the driver refer to.  "if0" is fControlInterface; two
\* slots stand for the RX_RING_SIZE buffers.
Objects == {"device", "if0", "if1", "txQueue", "ring", "out", "in", "cmdOut", "cmdIn", "out2",
            "tx", "tx2", "write", "write2", "slot0", "slot1", "read"}
\* MaxHeld: two ivars may refer to one interface.
ASSUME DriverAssumption ==
    /\ None \notin Clients \cup Objects /\ MaxHeld \in Nat \ {0, 1}
    /\ Profiles \subseteq [protocol : {"slcan", "gsusb", "pcan"}, onInterface : BOOLEAN,
                           interfaces : Nat, opens : BOOLEAN, entries : SUBSET {0, 1},
                           faults : Nat, unplugs : BOOLEAN]

Closed == [phase |-> "none", cut |-> FALSE]

\* held: references taken and not released; ptr: ivars that are not null; data:
\* what fDataInterface points to; open: what the USB stack has open for the
\* driver; flags: fDeviceOpened, fControlInterfaceOpened, fDataInterfaceOpened;
\* chan: channels the codec marks open; bus: channels the adapter has on the
\* bus; command: SLCAN's command on its way to the adapter, or that the last
\* one was lost; user: fUserClient; peers: clients that had another beside them.
Blank ==
    [held |-> [o \in Objects |-> 0], ptr |-> {}, data |-> None, open |-> {}, flags |-> {},
     configured |-> FALSE, running |-> FALSE, chan |-> {}, bus |-> {}, command |-> "none",
     user |-> None, uc |-> [u \in Clients |-> Closed], peers |-> {}, faults |-> profile.faults]

Ret(d, ok) == [drv |-> d, ok |-> ok]

\* References are counted up to MaxHeld: those leaked beyond it are not told apart.
Held(n) == IF n > MaxHeld THEN MaxHeld ELSE n
Take(d, S) == [d EXCEPT !.held = [o \in Objects |-> IF o \in S THEN Held(@[o] + 1) ELSE @[o]],
                        !.ptr = @ \cup S]
Release(d, S) == [d EXCEPT !.held = [o \in Objects |-> @[o] - IF o \in S \cap d.ptr THEN 1 ELSE 0],
                           !.ptr = @ \ S]
-----------------------------------------------------------------------------
(* Start_Impl: the device, and for a match on an interface that interface  *)
(* too; what was taken is released where a later step fails.               *)
StartImpl(p, F) ==
    LET d == Take(Blank, {"device"} \cup IF p.onInterface THEN {"if0"} ELSE {})
    IN  IF F \cap {"txQueue", "ring"} # {} THEN Ret(Release(d, {"device"}), FALSE)
        ELSE Ret(Take(d, {"txQueue", "ring"}), TRUE)

(* FindInterfaces                                                          *)
UseInterface(d, i, flag) ==      \* iface->Open, which may fail and is then ignored
    IF profile.opens THEN [d EXCEPT !.open = @ \cup {i}, !.flags = @ \cup {flag}] ELSE d
ControlAsData(d) ==
    [d EXCEPT !.data = "if0", !.held["if0"] = Held(@ + 1),
              !.flags = IF "control" \in @ THEN @ \cup {"data"} ELSE @ \ {"data"}]
DataInterface(d) ==              \* interface 1, unless it is PCAN's LIN interface
    IF profile.interfaces > 1 /\ profile.protocol # "pcan"
    THEN UseInterface([d EXCEPT !.data = "if1", !.held["if1"] = Held(@ + 1)], "if1", "data") ELSE d
FindInterfaces(d, F) ==
    IF profile.onInterface
    THEN IF "interface" \in F THEN Ret(d, FALSE)
         ELSE Ret(ControlAsData([d EXCEPT !.open = @ \cup {"if0"}, !.flags = @ \cup {"control"}]), TRUE)
    ELSE IF "interface" \in F THEN Ret(d, FALSE)
         ELSE LET e == DataInterface(UseInterface(Take(d, {"if0"}), "if0", "control"))
              IN  Ret(IF e.data = None THEN ControlAsData(e) ELSE e, TRUE)

(* ConfigurePipes: an endpoint that cannot be copied is passed over; one   *)
(* the driver has from an earlier attempt is kept or overwritten, as the   *)
(* branches for the three protocols do.                                    *)
Wanted == IF profile.protocol = "pcan" THEN {"cmdOut", "out", "out2", "cmdIn", "in"}
          ELSE {"out", "in"}
Kept(d) == CASE profile.protocol = "slcan" -> d.ptr \cap {"out", "in"}
             [] profile.protocol = "gsusb" -> d.ptr \cap {"out"}
             [] OTHER -> IF "out" \in d.ptr THEN {"cmdOut"} ELSE {}
ConfigurePipes(d, F) == LET e == Take(d, (Wanted \ F) \ Kept(d))
                        IN  Ret(e, {"out", "in"} \subseteq e.ptr)

(* ConfigureDevice: a failure after fDevice->Open closes the device again; *)
(* a failing Open is fatal only where the match was on the device.         *)
OpenDevice(d, F) ==
    IF "open" \in F THEN Ret(d, profile.onInterface)
    ELSE Ret([d EXCEPT !.open = @ \cup {"device"}, !.flags = @ \cup {"device"}], TRUE)
CloseDevice(d) == IF "device" \notin d.flags THEN d
                  ELSE [d EXCEPT !.open = @ \ {"device"}, !.flags = @ \ {"device"}]
ConfigureDevice(d, F) ==
    LET a == OpenDevice(d, F)
        b == FindInterfaces([a.drv EXCEPT !.chan = {}], F)    \* emplace makes a new codec
        c == ConfigurePipes(b.drv, F)
    IN  CASE ~a.ok -> a
          [] a.ok /\ ~b.ok -> Ret(CloseDevice(b.drv), FALSE)
          [] a.ok /\ b.ok /\ (~c.ok \/ "tx" \in F) -> Ret(CloseDevice(c.drv), FALSE)
          [] OTHER -> Ret([Take(c.drv, {"tx"}) EXCEPT !.configured = TRUE], TRUE)

(* StartAsyncRead: the buffers and the action of a session before are      *)
(* overwritten, not released; a failure releases what this session made.   *)
\* Mutant: released and not set to null.
UnreadDangling(d) == [Release(d, {"slot0", "slot1"}) EXCEPT !.ptr = d.ptr]
Unread(d) == Release(d, {"slot0", "slot1"})
StartAsyncRead(d, F) ==
    CASE F \cap {"descriptors", "slot0"} # {} -> Ret(d, FALSE)
      [] F \cap {"descriptors", "slot0"} = {} /\ "slot1" \in F ->
            Ret(Release(Take(d, {"slot0"}), {"slot0"}), FALSE)
      [] F \cap {"descriptors", "slot0", "slot1"} = {} /\ "read" \in F ->
            Ret(Unread(Take(d, {"slot0", "slot1"})), FALSE)
      [] F \cap {"descriptors", "slot0", "slot1", "read"} = {} /\ "submit" \in F ->
            Ret(Unread(Release(Take(d, {"slot0", "slot1", "read"}), {"read"})), FALSE)
      [] OTHER -> Ret(Take(d, {"slot0", "slot1", "read"}), TRUE)

(* StartIO                                                                 *)
SecondWriter(d, F) ==            \* buffer and action for EP 0x03, not fatal
    IF "out2" \in d.ptr /\ "write2" \notin d.ptr /\ "write2" \notin F
    THEN Take(d, {"tx2", "write2"}) ELSE d
\* fTxInFlight is cleared: what StopIO aborted and has not come back is lost.
Idled(d) == [d EXCEPT !.command = IF @ = "none" THEN "none" ELSE "lost"]
RunIO(d, F) ==
    IF "write" \notin d.ptr /\ "write" \in F THEN Ret(d, FALSE)
    ELSE LET w == Idled(IF "write" \in d.ptr THEN d ELSE Take(d, {"write"}))
             r == StartAsyncRead(SecondWriter(w, F), F)
         IN  Ret([r.drv EXCEPT !.running = r.ok], r.ok)
StartIO(d, F) ==
    LET c == IF ~d.configured /\ "device" \in d.ptr THEN ConfigureDevice(d, F)
             ELSE Ret(d, d.configured)
    IN  IF d.running THEN Ret(d, TRUE) ELSE IF ~c.ok THEN c ELSE RunIO(c.drv, F)

(* The codecs' openChannel and closeChannel.  SLCAN's command is one       *)
(* transfer, queued by SendRawBytes: success says that it is on its way.   *)
(* gs_usb and PCAN wait for the adapter; "command": it did not carry the   *)
(* command out; "answer": it did and an error was reported.                *)
Line(c) == IF profile.protocol = "pcan" THEN c ELSE 0
Ready(d) == d.configured /\ "out" \in d.ptr
\* SendRawBytes: refused while fTxInFlight is set, by a command or by a frame.
SendRaw(d, what, F) ==
    IF d.command \in {"open", "close"} \/ F # {} THEN Ret(d, FALSE)
    ELSE Ret([d EXCEPT !.command = what], TRUE)
\* PCAN without its command pipe sends its two commands by SendRawBytes, the
\* second while the first is on its way: it never opens a channel.
Refused(d) == ~Ready(d) \/ (profile.protocol = "pcan" /\ "cmdOut" \notin d.ptr)
OpenChannel(d, c, F) ==
    LET flag == IF F = {} THEN {Line(c)} ELSE {}
        on   == IF "command" \notin F THEN {Line(c)} ELSE {}
    IN  IF Refused(d) THEN Ret(d, FALSE)
        ELSE IF profile.protocol = "slcan" THEN SendRaw(d, "open", F)
        ELSE Ret([d EXCEPT !.chan = @ \cup flag, !.bus = @ \cup on], F = {})
\* Mutant: the mark is cleared only when the command succeeded.
CloseThenUnmark(d, c, F) ==
    LET told == profile.protocol = "gsusb" \/ c \in d.chan
    IN  IF ~Ready(d) THEN Ret(d, FALSE)
        ELSE IF profile.protocol = "slcan" THEN SendRaw(d, "close", F)
        ELSE Ret([d EXCEPT !.chan = IF F = {} THEN @ \ {Line(c)} ELSE @,
                           !.bus = IF told /\ "command" \notin F THEN @ \ {Line(c)} ELSE @], F = {})
CloseChannel(d, c, F) ==
    LET told == profile.protocol = "gsusb" \/ c \in d.chan  \* PCAN resets a channel it marks open
        off  == IF told /\ "command" \notin F THEN {Line(c)} ELSE {}
    IN  IF ~Ready(d) THEN Ret(d, FALSE)
        ELSE IF profile.protocol = "slcan" THEN SendRaw(d, "close", F)
        ELSE Ret([d EXCEPT !.chan = @ \ {Line(c)}, !.bus = @ \ off], F = {})

(* StopIO; the codec's onStopIO resets a gs_usb channel, unmarks PCAN's.   *)
(* A queued command is aborted, which may come too late (WriteComplete).   *)
OnStopIO(d, F) == IF profile.protocol = "gsusb" /\ d.chan # {} THEN CloseChannel(d, 0, F).drv
                  ELSE [d EXCEPT !.chan = {}]
StopIO(d, F) == IF d.running THEN [OnStopIO(d, F) EXCEPT !.running = FALSE] ELSE d

(* Stop_Impl and free                                                      *)
DropData(d) ==
    IF d.data = None THEN d
    ELSE [d EXCEPT !.held[d.data] = @ - 1, !.data = None, !.flags = @ \ {"data"},
                   !.open = IF "data" \in d.flags THEN @ \ {d.data} ELSE @]
DropControl(d) ==
    LET e == [Release(d, {"if0"}) EXCEPT !.open = IF "control" \in d.flags THEN @ \ {"if0"} ELSE @]
    IN  [e EXCEPT !.flags = @ \ {"control"}]
ForgetControl(d) == [d EXCEPT !.ptr = @ \ {"if0"}, !.flags = @ \ {"control"}]
StopImpl(d, F) ==
    LET s == Release(StopIO(d, F), {"out", "in", "cmdOut", "cmdIn", "out2"})
        i == IF s.data = "if0" THEN ForgetControl(DropData(s)) ELSE DropControl(DropData(s))
    IN  Release(CloseDevice(i), {"device", "tx", "tx2", "txQueue", "ring"})
Free(d) == Release(d, {"read", "slot0", "slot1", "write", "tx", "write2", "tx2", "ring",
                       "device", "txQueue"})
-----------------------------------------------------------------------------
(* The user client.  cut: the program has closed its connection, or has    *)
(* died, and Stop is still to come.  The pending completion that Close      *)
(* cancels is in BlockingRead.                                             *)
Alive(d, u) == u \in Clients /\ d.uc[u].phase # "none"
Callable(d, u) == Alive(d, u) /\ ~d.uc[u].cut
Others(d, u) == {v \in Clients \ {u} : Alive(d, v)}

UcStart(d, u) ==
    [d EXCEPT !.uc[u] = [Closed EXCEPT !.phase = "started"], !.user = u,
              !.peers = @ \cup (IF Others(d, u) = {} THEN {} ELSE Others(d, u) \cup {u})]
\* Mutant: StartIO's result is not looked at.
UcOpenBlind(d, u, F) ==
    Ret([StartIO(d, F).drv EXCEPT !.uc[u].phase = "open"], TRUE)
UcOpen(d, u, F) ==
    IF d.uc[u].phase = "open" THEN Ret(d, FALSE)
    ELSE LET r == StartIO(d, F)
         IN  Ret(IF r.ok THEN [r.drv EXCEPT !.uc[u].phase = "open"] ELSE r.drv, r.ok)
UcClose(d, u, F) ==
    IF d.uc[u].phase # "open" THEN Ret(d, FALSE)
    ELSE Ret([StopIO(d, F) EXCEPT !.uc[u].phase = "started"], TRUE)
UcStop(d, u, F) ==
    [UcClose(d, u, F).drv EXCEPT !.user = None, !.uc[u] = Closed, !.peers = @ \ {u}]
UcOpenChannel(d, u, c, F) == IF d.uc[u].phase = "open" THEN OpenChannel(d, c, F) ELSE Ret(d, FALSE)
UcCloseChannel(d, u, c, F) == IF d.uc[u].phase = "open" THEN CloseChannel(d, c, F) ELSE Ret(d, FALSE)
-----------------------------------------------------------------------------
(* Faults(C): the sets of at most two calls of C that may fail together    *)
(* now.                                                                    *)
Faults(C) == {F \in {{}} \cup {{c, d} : c, d \in C} : Cardinality(F) <= drv.faults}
Spend(d, F) == [d EXCEPT !.faults = @ - Cardinality(F)]
ConfigureCalls == {"open", "interface", "out", "in", "cmdOut", "tx"}
ReadCalls == {"descriptors", "slot0", "slot1", "read", "submit"}
StartCalls == (IF drv.configured THEN {} ELSE ConfigureCalls) \cup ReadCalls
              \cup (IF "write" \in drv.ptr THEN {} ELSE {"write"}) \cup {"write2"}
CommandCalls == IF profile.protocol = "slcan" THEN {"command"} ELSE {"command", "answer"}

DriverInit == /\ life = "new"
              /\ profile \in Profiles
              /\ drv = Blank

Start == \E F \in Faults({"txQueue", "ring"}) :
            LET r == StartImpl(profile, F)
            IN  /\ life = "new"
                /\ life' = IF r.ok THEN "started" ELSE "failed"
                /\ drv' = Spend(r.drv, F)
                /\ UNCHANGED profile

\* The adapter is unplugged: DriverKit stops the user clients, then the driver.
Unplug == life = "started" /\ profile.unplugs /\ life' = "leaving" /\ UNCHANGED <<profile, drv>>
Stop == \E F \in Faults(CommandCalls) :
            /\ life = "leaving"
            /\ \A u \in Clients : ~Alive(drv, u)
            /\ life' = "stopped"
            /\ drv' = Spend([StopImpl(drv, F) EXCEPT !.user = None], F)
            /\ UNCHANGED profile
FreeDriver == /\ life \in {"failed", "stopped"}
              /\ life' = "freed"
              /\ drv' = Free(drv)
              /\ UNCHANGED profile
(* WriteComplete for a queued command: the adapter has carried it out, or  *)
(* the transfer failed or was aborted, of which nobody hears.              *)
WriteComplete ==
    /\ drv.command \in {"open", "close"} /\ "out" \in drv.ptr
    /\ drv' \in {[drv EXCEPT !.command = "lost"],
                 [drv EXCEPT !.command = "none",
                             !.bus = IF drv.command = "open" THEN @ \cup {0} ELSE @ \ {0}]}
    /\ UNCHANGED <<life, profile>>
ClientStops(u) == \E F \in Faults(CommandCalls) :
            /\ Alive(drv, u)
            /\ drv.uc[u].cut \/ life = "leaving"
            /\ drv' = Spend(UcStop(drv, u, F), F)
            /\ UNCHANGED <<life, profile>>
=============================================================================
