------------------------------ MODULE AppProofs ------------------------------
(***************************************************************************)
(* Proofs about the app's connections, the user clients they open and the  *)
(* driver below (AppSession, CanConnection, UsbDriver), for any number of  *)
(* clients, connections and adapters, and any set of profiles: protocol,   *)
(* interfaces, channels, faults.                                           *)
(*                                                                         *)
(* The argument.  Each method of the driver keeps Sound: an ivar that is   *)
(* not null is held, once more if it is the data interface as well; what   *)
(* is open is flagged; a channel the codec marks is on the bus.  While it  *)
(* runs or is configured the driver is also Equipped.  Two user clients    *)
(* that are alive know of each other (peers), so what one takes from the   *)
(* driver as it closes it takes from no client that is alone (Served).  A  *)
(* connection is on a user client that is alive or cut off, its own        *)
(* (Linked); if it is alone and open the adapter is on the bus, or SLCAN's *)
(* open command is on its way there or lost, and no close of a session     *)
(* before is still to be carried out, for StartIO drops it (OnBus).  In    *)
(* the app, what an adapter or a task holds is an object with an impl, and *)
(* nobody else's (HoldInv), so that letting go of one takes no other's;    *)
(* and a connection in use has an object (ImplInv).                        *)
(***************************************************************************)
EXTENDS AppSession, FiniteSetTheorems, TLAPS

(* Channels a codec may mark open, and commands it may queue.  SLCAN's     *)
(* marks none and queues them, the others wait for the adapter.            *)
Marks == IF profile.protocol = "slcan" THEN {} ELSE {0, 1}
Commands == IF profile.protocol = "slcan" THEN {"none", "open", "close", "lost"} ELSE {"none"}

(* The driver's state, one part at a time.                                 *)
DrvTypes ==
    [held : [Objects -> 0 .. MaxHeld], ptr : SUBSET Objects, data : {None, "if0", "if1"},
     open : SUBSET {"device", "if0", "if1"}, flags : SUBSET {"device", "control", "data"},
     configured : BOOLEAN, running : BOOLEAN, chan : SUBSET Marks, bus : SUBSET {0, 1},
     command : Commands, user : Clients \cup {None}, uc : [Clients -> [phase : {"none", "started", "open"}, cut : BOOLEAN]],
     peers : SUBSET Clients, faults : 0 .. profile.faults]

(* ReferencesHeld and OpenedAsFlagged of d. *)
Referenced(d) ==
    \A o \in Objects : d.held[o] >= (IF o \in d.ptr THEN 1 ELSE 0) + (IF d.data = o THEN 1 ELSE 0)

OpenAsFlagged(d) ==
    d.open = (d.flags \cap {"device"}) \cup (IF "control" \in d.flags THEN {"if0"} ELSE {})
             \cup (IF "data" \in d.flags THEN {d.data} ELSE {})

(* Which interface the data interface is does not change between attempts. *)
TwoInterfaces == ~profile.onInterface /\ profile.interfaces > 1 /\ profile.protocol # "pcan"
DataSettled(d) ==
    /\ "data" \in d.flags => d.data # None
    /\ "control" \in d.flags => profile.onInterface \/ profile.opens
    /\ d.data = "if1" => TwoInterfaces
    /\ d.data = "if0" => /\ ~TwoInterfaces
                         /\ "data" \in d.flags <=> "control" \in d.flags
                         /\ "control" \in d.flags <=> profile.onInterface \/ profile.opens

(* What a driver that is started, configured or running has. *)
Equipped(d) ==
    /\ {"device", "txQueue", "ring"} \subseteq d.ptr
    /\ d.configured => {"out", "in", "tx"} \subseteq d.ptr
    /\ d.running => d.configured /\ {"write", "read", "slot0", "slot1"} \subseteq d.ptr

(* What the driver's methods keep. *)
Sound(d) == /\ d \in DrvTypes /\ Referenced(d) /\ OpenAsFlagged(d) /\ DataSettled(d)
            /\ d.chan \subseteq d.bus

Serving == life \in {"started", "leaving"}
DriverInv(d) ==
    /\ Sound(d)
    /\ Serving => Equipped(d)
    /\ ~Serving => ~d.running /\ d.open = {} /\ \A u \in Clients : ~Alive(d, u)

(* The user clients. *)
Served(d) ==
    /\ \A u, v \in Clients : u # v /\ Alive(d, u) /\ Alive(d, v) => u \in d.peers
    /\ \A u \in Clients \ d.peers : d.uc[u].phase = "open" => d.running /\ d.user = u
    /\ d.running => \E u \in Clients : d.uc[u].phase = "open"

(* The connections on them. *)
Linked(d, im) ==
    /\ im \in [Conns -> [connection : Clients \cup {None}, is_connected : BOOLEAN,
                         is_open : BOOLEAN, mapped : BOOLEAN]]
    /\ life = "new" => \A i \in Conns : im[i].connection = None
    /\ \A i \in Conns : im[i].connection # None /\ life = "started" =>
           Alive(d, im[i].connection) /\ ~d.uc[im[i].connection].cut
    /\ \A i, j \in Conns : im[i].connection # None /\ im[i].connection = im[j].connection => i = j
    /\ \A u \in Clients : d.uc[u].phase = "open" /\ ~d.uc[u].cut =>
           \E i \in Conns : im[i].connection = u
(* On the bus with no command that takes it off on its way, or on its way  *)
(* there; or SLCAN's command was lost.                                     *)
Reaching(d) == \/ d.bus # {} /\ d.command # "close"
               \/ profile.protocol = "slcan" /\ d.command \in {"open", "lost"}
OnBus(d, im) ==
    \A i \in Conns : im[i].is_open /\ Alive(d, im[i].connection)
                       /\ im[i].connection \notin d.peers => Reaching(d)

WorldInv(d, im) == DriverInv(d) /\ Served(d) /\ Linked(d, im) /\ OnBus(d, im)

(* The app. *)
ObjectType == [impl : Conns \cup {None}, channel : {0, 1}]
AdapterType == [isConnected : BOOLEAN, isCANOpen : BOOLEAN, isConnecting : BOOLEAN,
                shared : BOOLEAN, client : Conns \cup {None}]
ConnectType == [pc : {"idle", "open", "done"}, object : Conns \cup {None}, ok : BOOLEAN]
OpenType == [pc : {"idle", "start", "call", "done"}, object : Conns \cup {None}, ok : BOOLEAN]
AppTypes == /\ object \in [Conns -> ObjectType] /\ adapter \in [Adapters -> AdapterType]
            /\ connecting \in [Adapters -> ConnectType] /\ opening \in [Adapters -> OpenType]

(* The references an adapter and its tasks hold, and what they say of it.  *)
Holds(a) == {adapter[a].client, connecting[a].object, opening[a].object} \ {None}
Orderly(a) ==
    /\ connecting[a].object # None =>
           connecting[a].object \notin {adapter[a].client, opening[a].object}
    /\ adapter[a].isConnected <=> adapter[a].client # None
    /\ adapter[a].isConnecting <=> connecting[a].pc # "idle"
    /\ connecting[a].pc # "idle" <=> connecting[a].object # None
    /\ connecting[a].pc # "idle" => ~adapter[a].isConnected
    /\ opening[a].pc \in {"idle", "start"} => opening[a].object = None
HoldInv ==
    /\ \A a \in Adapters : \A k \in Holds(a) : object[k].impl # None
    /\ \A a, b \in Adapters : a # b => Holds(a) \cap Holds(b) = {}
    /\ \A a \in Adapters : Orderly(a)
ImplInv ==
    /\ \A i \in Conns : impl[i] # NoImpl => \E k \in Conns : object[k].impl = i
    /\ \A a \in Adapters : connecting[a].pc = "open" =>
         LET k == connecting[a].object
         IN  /\ object[k].impl = k /\ impl[k] = NoImpl
             /\ \A j \in Conns \ {k} : object[j].impl # k
AppInv == AppTypes /\ HoldInv /\ ImplInv

IInv == /\ life \in {"new", "started", "failed", "leaving", "stopped", "freed"}
        /\ profile \in Profiles
        /\ WorldInv(drv, impl) /\ AppInv
-----------------------------------------------------------------------------
(* The constants, in the form the proofs use them.                         *)
LEMMA Constants ==
    ASSUME profile \in Profiles
    PROVE  /\ MaxHeld \in Nat /\ MaxHeld >= 2
           /\ None \notin Clients /\ None \notin Objects /\ None # "if0" /\ None # "if1"
           /\ profile.onInterface \in BOOLEAN /\ profile.opens \in BOOLEAN
           /\ profile.interfaces \in Nat /\ profile.faults \in Nat
           /\ profile.protocol \in {"slcan", "gsusb", "pcan"}
           /\ profile.entries \subseteq {0, 1}
  BY DriverAssumption DEF Objects

(* What an operator of the driver leaves alone.                            *)
SameClients(d, e) == /\ e.uc = d.uc /\ e.user = d.user /\ e.peers = d.peers
                     /\ e.faults = d.faults
SameBus(d, e) == e.bus = d.bus /\ e.command = d.command
SameMarks(d, e) == e.chan = d.chan /\ e.bus = d.bus /\ e.command = d.command
Reaches(d, e) == Reaching(d) => Reaching(e)
SameOpen(d, e) == e.data = d.data /\ e.open = d.open /\ e.flags = d.flags
SameState(d, e) == e.configured = d.configured /\ e.running = d.running

(* References. *)

(* A retained ivar that is null before is one more object held. *)
LEMMA TakeKeeps ==
    ASSUME profile \in Profiles, NEW d, Sound(d), NEW S \in SUBSET Objects
    PROVE  LET e == Take(d, S)
           IN  /\ Sound(e) /\ e.ptr = d.ptr \cup S
               /\ SameClients(d, e) /\ SameMarks(d, e) /\ SameOpen(d, e) /\ SameState(d, e)
<1> DEFINE e == Take(d, S)
<1>1. MaxHeld \in Nat /\ MaxHeld >= 2
  BY Constants
<1>2. d \in DrvTypes
  BY DEF Sound
<1>3. /\ e.ptr = d.ptr \cup S
      /\ e.held = [o \in Objects |-> IF o \in S THEN Held(d.held[o] + 1) ELSE d.held[o]]
      /\ SameClients(d, e) /\ SameMarks(d, e) /\ SameOpen(d, e) /\ SameState(d, e)
  BY <1>2 DEF Take, DrvTypes, SameClients, SameMarks, SameOpen, SameState
<1>4. e \in DrvTypes
  <2>1. e.held \in [Objects -> 0 .. MaxHeld]
    BY <1>1, <1>2, <1>3 DEF DrvTypes, Held
  <2>2. e = [d EXCEPT !.held = e.held, !.ptr = d.ptr \cup S]
    BY <1>2, <1>3 DEF Take, DrvTypes
  <2>3. ASSUME NEW h \in [Objects -> 0 .. MaxHeld], NEW p \in SUBSET Objects
        PROVE  [d EXCEPT !.held = h, !.ptr = p] \in DrvTypes
    BY <1>2 DEF DrvTypes
  <2>4. e.held \in [Objects -> 0 .. MaxHeld] /\ d.ptr \cup S \in SUBSET Objects
    BY <2>1, <1>2 DEF DrvTypes
  <2> QED
    BY <2>2, <2>3, <2>4
<1>5. Referenced(e)
  BY <1>1, <1>2, <1>3 DEF Sound, Referenced, DrvTypes, Held, SameOpen
<1> QED
  BY <1>3, <1>4, <1>5 DEF Sound, OpenAsFlagged, DataSettled, SameOpen, SameMarks

(* OSSafeReleaseNULL takes one reference and clears the ivar. *)
LEMMA ReleaseKeeps ==
    ASSUME profile \in Profiles, NEW d, Sound(d), NEW S \in SUBSET Objects
    PROVE  LET e == Release(d, S)
           IN  /\ Sound(e) /\ e.ptr = d.ptr \ S
               /\ SameClients(d, e) /\ SameMarks(d, e) /\ SameOpen(d, e) /\ SameState(d, e)
<1> DEFINE e == Release(d, S)
<1>1. MaxHeld \in Nat /\ MaxHeld >= 2
  BY Constants
<1>2. d \in DrvTypes
  BY DEF Sound
<1>3. /\ e.ptr = d.ptr \ S
      /\ e.held = [o \in Objects |-> d.held[o] - IF o \in S \cap d.ptr THEN 1 ELSE 0]
      /\ SameClients(d, e) /\ SameMarks(d, e) /\ SameOpen(d, e) /\ SameState(d, e)
  BY <1>2 DEF Release, DrvTypes, SameClients, SameMarks, SameOpen, SameState
<1>4. e \in DrvTypes
  <2>1. e.held \in [Objects -> 0 .. MaxHeld]
    <3>1. \A o \in Objects : d.held[o] \in 0 .. MaxHeld /\ (o \in d.ptr => d.held[o] >= 1)
      BY <1>1, <1>2 DEF Sound, Referenced, DrvTypes
    <3>2. \A o \in Objects : (d.held[o] - IF o \in S \cap d.ptr THEN 1 ELSE 0) \in 0 .. MaxHeld
      BY <1>1, <3>1
    <3> QED
      BY <1>3, <3>2
  <2>2. e = [d EXCEPT !.held = e.held, !.ptr = d.ptr \ S]
    BY <1>2, <1>3 DEF Release, DrvTypes
  <2>3. ASSUME NEW h \in [Objects -> 0 .. MaxHeld], NEW p \in SUBSET Objects
        PROVE  [d EXCEPT !.held = h, !.ptr = p] \in DrvTypes
    BY <1>2 DEF DrvTypes
  <2>4. d.ptr \ S \in SUBSET Objects
    BY <1>2 DEF DrvTypes
  <2> QED
    BY <2>1, <2>2, <2>3, <2>4
<1>5. Referenced(e)
  BY <1>1, <1>2, <1>3 DEF Sound, Referenced, DrvTypes, SameOpen
<1> QED
  BY <1>3, <1>4, <1>5 DEF Sound, OpenAsFlagged, DataSettled, SameOpen, SameMarks

(* Start_Impl                                                              *)
LEMMA BlankSound ==
    ASSUME profile \in Profiles
    PROVE  /\ Sound(Blank) /\ Blank.ptr = {} /\ ~Blank.running /\ ~Blank.configured
           /\ Blank.open = {} /\ Blank.faults = profile.faults
           /\ Blank.uc = [u \in Clients |-> Closed]
<1>1. /\ MaxHeld \in Nat /\ None \notin Objects /\ None # "if0" /\ None # "if1"
      /\ profile.faults \in Nat
  BY Constants
<1>2. Blank \in DrvTypes
  BY <1>1 DEF Blank, DrvTypes, Closed, Commands
<1> QED
  BY <1>1, <1>2 DEF Blank, Sound, Referenced, OpenAsFlagged, DataSettled

(* Start_Impl succeeds with everything I/O needs allocated, and fails      *)
(* without.                                                                *)
LEMMA StartImplKeeps ==
    ASSUME profile \in Profiles, NEW F
    PROVE  LET r == StartImpl(profile, F)
               e == r.drv
           IN  /\ Sound(e) /\ r.ok \in BOOLEAN /\ (r.ok => Equipped(e))
               /\ ~e.running /\ e.open = {} /\ e.faults = profile.faults
               /\ e.uc = [u \in Clients |-> Closed]
<1> DEFINE S == {"device"} \cup IF profile.onInterface THEN {"if0"} ELSE {}
           d == Take(Blank, S)
<1>1. S \in SUBSET Objects /\ {"device"} \in SUBSET Objects /\ {"txQueue", "ring"} \in SUBSET Objects
  BY DEF Objects
<1>2. Sound(d) /\ d.ptr = S /\ ~d.running /\ d.open = {} /\ d.faults = profile.faults
      /\ ~d.configured /\ d.uc = [u \in Clients |-> Closed]
  BY <1>1, BlankSound, TakeKeeps DEF SameClients, SameOpen, SameState
<1> HIDE DEF d
<1>3. CASE F \cap {"txQueue", "ring"} # {}
  <2>1. StartImpl(profile, F) = Ret(Release(d, {"device"}), FALSE)
    BY <1>3 DEF StartImpl, d
  <2> QED
    BY <1>1, <1>2, <2>1, ReleaseKeeps DEF Ret, SameClients, SameOpen, SameState
<1>4. CASE F \cap {"txQueue", "ring"} = {}
  <2>1. StartImpl(profile, F) = Ret(Take(d, {"txQueue", "ring"}), TRUE)
    BY <1>4 DEF StartImpl, d
  <2> QED
    BY <1>1, <1>2, <2>1, TakeKeeps DEF Ret, SameClients, SameOpen, SameState, Equipped
<1> QED
  BY <1>3, <1>4

(* FindInterfaces                                                          *)
Opened(d, i, flag) == [d EXCEPT !.open = @ \cup {i}, !.flags = @ \cup {flag}]

(* What is opened is flagged in the same step. *)
LEMMA FlagOpened ==
    ASSUME profile \in Profiles, NEW d, Sound(d),
           NEW i, NEW flag,
           \/ i = "device" /\ flag = "device"
           \/ i = "if0" /\ flag = "control" /\ (profile.onInterface \/ profile.opens)
           \/ i = "if1" /\ flag = "data" /\ d.data = "if1"
    PROVE  LET e == Opened(d, i, flag)
           IN  /\ Sound(e) /\ e.ptr = d.ptr /\ e.data = d.data /\ e.flags = d.flags \cup {flag}
               /\ SameClients(d, e) /\ SameMarks(d, e) /\ SameState(d, e)
<1> DEFINE e == Opened(d, i, flag)
<1>1. d \in DrvTypes /\ None # "if0" /\ None # "if1"
  BY Constants DEF Sound
<1>2. /\ e.open = d.open \cup {i} /\ e.flags = d.flags \cup {flag}
      /\ e.ptr = d.ptr /\ e.data = d.data /\ e.held = d.held
      /\ SameClients(d, e) /\ SameMarks(d, e) /\ SameState(d, e)
  BY <1>1 DEF Opened, DrvTypes, SameClients, SameMarks, SameState
<1>3. e \in DrvTypes
  <2>1. ASSUME NEW o \in SUBSET {"device", "if0", "if1"},
               NEW f \in SUBSET {"device", "control", "data"}
        PROVE  [d EXCEPT !.open = o, !.flags = f] \in DrvTypes
    BY <1>1 DEF DrvTypes
  <2>2. /\ d.open \cup {i} \in SUBSET {"device", "if0", "if1"}
        /\ d.flags \cup {flag} \in SUBSET {"device", "control", "data"}
    BY <1>1 DEF DrvTypes
  <2> QED
    BY <2>1, <2>2 DEF Opened
<1>4. OpenAsFlagged(e)
  BY <1>1, <1>2 DEF Sound, OpenAsFlagged, DataSettled
<1>5. DataSettled(e)
  BY <1>1, <1>2 DEF Sound, DataSettled
<1> QED
  BY <1>2, <1>3, <1>4, <1>5 DEF Sound, Referenced, SameMarks

(* A single interface is the data interface too, with a reference of its   *)
(* own.                                                                    *)
LEMMA ControlAsDataKeeps ==
    ASSUME profile \in Profiles, NEW d, Sound(d), ~TwoInterfaces,
           "control" \in d.flags <=> profile.onInterface \/ profile.opens
    PROVE  LET e == ControlAsData(d)
           IN  /\ Sound(e) /\ e.ptr = d.ptr
               /\ SameClients(d, e) /\ SameMarks(d, e) /\ SameState(d, e)
<1> DEFINE e == ControlAsData(d)
           flags == IF "control" \in d.flags THEN d.flags \cup {"data"} ELSE d.flags \ {"data"}
           held == [d.held EXCEPT !["if0"] = Held(@ + 1)]
<1>1. /\ d \in DrvTypes /\ None # "if0" /\ None # "if1" /\ None \notin Objects
      /\ MaxHeld \in Nat /\ MaxHeld >= 2 /\ "if0" \in Objects
  BY Constants DEF Sound, Objects
<1>2. /\ e.data = "if0" /\ e.flags = flags /\ e.held = held
      /\ e.ptr = d.ptr /\ e.open = d.open
      /\ SameClients(d, e) /\ SameMarks(d, e) /\ SameState(d, e)
  BY <1>1 DEF DrvTypes, ControlAsData, SameClients, SameMarks, SameState
<1>3. e \in DrvTypes
  <2>1. ASSUME NEW f \in SUBSET {"device", "control", "data"}, NEW h \in [Objects -> 0 .. MaxHeld]
        PROVE  [d EXCEPT !.data = "if0", !.held = h, !.flags = f] \in DrvTypes
    BY <1>1 DEF DrvTypes
  <2>2. flags \in SUBSET {"device", "control", "data"} /\ held \in [Objects -> 0 .. MaxHeld]
    BY <1>1 DEF DrvTypes, Held
  <2>3. e = [d EXCEPT !.data = "if0", !.held = held, !.flags = flags]
    BY <1>1 DEF ControlAsData, DrvTypes
  <2> HIDE DEF flags, held, e
  <2> QED
    BY <2>1, <2>2, <2>3
<1>4. d.data # "if1"
  BY DEF Sound, DataSettled
<1>5. OpenAsFlagged(e) /\ DataSettled(e)
  BY <1>1, <1>2, <1>4 DEF Sound, OpenAsFlagged, DataSettled, DrvTypes
<1>6. Referenced(e)
  BY <1>1, <1>2, <1>4 DEF Sound, Referenced, DrvTypes, Held
<1> QED
  BY <1>2, <1>3, <1>5, <1>6 DEF Sound, SameMarks

(* A second interface, where there is one, becomes the data interface. *)
LEMMA DataInterfaceKeeps ==
    ASSUME profile \in Profiles, NEW d, Sound(d), ~profile.onInterface
    PROVE  LET e == DataInterface(d)
           IN  /\ Sound(e) /\ e.ptr = d.ptr
               /\ TwoInterfaces \/ e = d
               /\ TwoInterfaces => e.data = "if1"
               /\ SameClients(d, e) /\ SameMarks(d, e) /\ SameState(d, e)
<1>1. CASE ~TwoInterfaces
  BY <1>1 DEF DataInterface, TwoInterfaces, SameClients, SameMarks, SameState
<1>2. CASE TwoInterfaces
  <2> DEFINE held == [d.held EXCEPT !["if1"] = Held(@ + 1)]
             e == [d EXCEPT !.data = "if1", !.held["if1"] = Held(@ + 1)]
  <2>1. /\ d \in DrvTypes /\ None # "if0" /\ None # "if1" /\ None \notin Objects
        /\ MaxHeld \in Nat /\ MaxHeld >= 2 /\ "if1" \in Objects
    BY Constants DEF Sound, Objects
  <2>2. /\ e.data = "if1" /\ e.flags = d.flags /\ e.held = held
        /\ e.ptr = d.ptr /\ e.open = d.open
        /\ SameClients(d, e) /\ SameMarks(d, e) /\ SameState(d, e)
    BY <2>1 DEF DrvTypes, SameClients, SameMarks, SameState
  <2>3. e \in DrvTypes
    <3>1. ASSUME NEW h \in [Objects -> 0 .. MaxHeld]
          PROVE  [d EXCEPT !.data = "if1", !.held = h] \in DrvTypes
      BY <2>1 DEF DrvTypes
    <3>2. held \in [Objects -> 0 .. MaxHeld]
      BY <2>1 DEF DrvTypes, Held
    <3>3. e = [d EXCEPT !.data = "if1", !.held = held]
      BY <2>1 DEF DrvTypes
    <3> QED
      BY <3>1, <3>2, <3>3
  <2>4. d.data # "if0"
    BY <1>2 DEF Sound, DataSettled
  <2>5. OpenAsFlagged(e) /\ DataSettled(e)
    BY <1>2, <2>1, <2>2, <2>4 DEF Sound, OpenAsFlagged, DataSettled, DrvTypes
  <2>6. Referenced(e)
    BY <2>1, <2>2, <2>4 DEF Sound, Referenced, DrvTypes, Held
  <2>7. Sound(e)
    BY <2>2, <2>3, <2>5, <2>6 DEF Sound, SameMarks
  <2>8. DataInterface(d) = IF profile.opens
                           THEN Opened(e, "if1", "data") ELSE e
    BY <1>2 DEF DataInterface, UseInterface, Opened, TwoInterfaces
  <2> HIDE DEF e
  <2> QED
    BY <1>2, <2>2, <2>7, <2>8, FlagOpened DEF SameClients, SameMarks, SameState
<1> QED
  BY <1>1, <1>2

(* FindInterfaces, wherever it gives up, leaves references and flags       *)
(* right.                                                                  *)
LEMMA FindInterfacesKeeps ==
    ASSUME profile \in Profiles, NEW d, Sound(d), NEW F
    PROVE  LET r == FindInterfaces(d, F)
               e == r.drv
           IN  /\ r.ok \in BOOLEAN
               /\ Sound(e) /\ d.ptr \subseteq e.ptr
               /\ SameClients(d, e) /\ SameMarks(d, e) /\ SameState(d, e)
<1>1. CASE "interface" \in F
  BY <1>1 DEF FindInterfaces, Ret, SameClients, SameMarks, SameState
<1>2. CASE "interface" \notin F /\ profile.onInterface
  <2> DEFINE c == Opened(d, "if0", "control")
  <2>1. FindInterfaces(d, F) = Ret(ControlAsData(c), TRUE)
    BY <1>2 DEF FindInterfaces, Opened
  <2>2. /\ Sound(c) /\ c.ptr = d.ptr /\ c.flags = d.flags \cup {"control"}
        /\ SameClients(d, c) /\ SameMarks(d, c) /\ SameState(d, c)
    BY <1>2, FlagOpened
  <2> HIDE DEF c
  <2>3. ~TwoInterfaces
    BY <1>2 DEF TwoInterfaces
  <2> QED
    BY <1>2, <2>1, <2>2, <2>3, ControlAsDataKeeps DEF Ret, SameClients, SameMarks, SameState
<1>3. CASE "interface" \notin F /\ ~profile.onInterface
  <2> DEFINE t == Take(d, {"if0"})
             c == UseInterface(t, "if0", "control")
             e == DataInterface(c)
  <2>1. FindInterfaces(d, F) = Ret(IF e.data = None THEN ControlAsData(e) ELSE e, TRUE)
    BY <1>3 DEF FindInterfaces
  <2>2. /\ Sound(t) /\ t.ptr = d.ptr \cup {"if0"} /\ t.flags = d.flags /\ t.data = d.data
        /\ SameClients(d, t) /\ SameMarks(d, t) /\ SameState(d, t)
    <3>1. {"if0"} \in SUBSET Objects
      BY DEF Objects
    <3> QED
      BY <3>1, TakeKeeps DEF SameOpen
  <2> HIDE DEF t
  <2>3. /\ Sound(c) /\ c.ptr = t.ptr /\ c.data = t.data
        /\ profile.opens => "control" \in c.flags
        /\ ~profile.opens => c = t
        /\ SameClients(t, c) /\ SameMarks(t, c) /\ SameState(t, c)
    <3>1. c = IF profile.opens THEN Opened(t, "if0", "control") ELSE t
      BY DEF UseInterface, Opened
    <3> QED
      BY <2>2, <3>1, FlagOpened DEF SameClients, SameMarks, SameState
  <2> HIDE DEF c
  <2>4. /\ Sound(e) /\ e.ptr = c.ptr
        /\ TwoInterfaces \/ e = c
        /\ TwoInterfaces => e.data = "if1"
        /\ SameClients(c, e) /\ SameMarks(c, e) /\ SameState(c, e)
    BY <1>3, <2>3, DataInterfaceKeeps
  <2> HIDE DEF e
  <2>5. CASE e.data # None
    BY <2>1, <2>2, <2>3, <2>4, <2>5 DEF Ret, SameClients, SameMarks, SameState
  <2>6. CASE e.data = None
    <3>1. ~TwoInterfaces /\ e = c
      BY <2>4, <2>6, Constants
    <3>2. "control" \in e.flags <=> profile.opens
      BY <1>3, <2>3, <3>1 DEF Sound, DataSettled
    <3> QED
      BY <1>3, <2>1, <2>2, <2>3, <2>4, <2>6, <3>1, <3>2, ControlAsDataKeeps
      DEF Ret, SameClients, SameMarks, SameState
  <2> QED
    BY <2>5, <2>6
<1> QED
  BY <1>1, <1>2, <1>3, Constants

(* ConfigurePipes and ConfigureDevice                                      *)
LEMMA ConfigurePipesKeeps ==
    ASSUME profile \in Profiles, NEW d, Sound(d), NEW F
    PROVE  LET r == ConfigurePipes(d, F)
               e == r.drv
           IN  /\ Sound(e) /\ d.ptr \subseteq e.ptr
               /\ r.ok \in BOOLEAN /\ (r.ok => {"out", "in"} \subseteq e.ptr)
               /\ SameClients(d, e) /\ SameMarks(d, e) /\ SameState(d, e)
<1> DEFINE S == (Wanted \ F) \ Kept(d)
<1>1. S \in SUBSET Objects
  BY DEF Wanted, Objects
<1> DEFINE e == Take(d, S)
<1>2. ConfigurePipes(d, F) = Ret(e, {"out", "in"} \subseteq e.ptr)
  BY DEF ConfigurePipes
<1> HIDE DEF S
<1>3. /\ Sound(e) /\ e.ptr = d.ptr \cup S
      /\ SameClients(d, e) /\ SameMarks(d, e) /\ SameState(d, e)
  BY <1>1, TakeKeeps
<1> HIDE DEF e
<1>4. CASE {"out", "in"} \subseteq e.ptr
  <2>1. ConfigurePipes(d, F) = Ret(e, TRUE)
    BY <1>2, <1>4
  <2> QED
    BY <1>3, <1>4, <2>1 DEF Ret
<1>5. CASE ~({"out", "in"} \subseteq e.ptr)
  <2>1. ConfigurePipes(d, F) = Ret(e, FALSE)
    BY <1>2, <1>5
  <2> QED
    BY <1>3, <1>5, <2>1 DEF Ret
<1> QED
  BY <1>4, <1>5

(* Closing the device clears its flag with it. *)
LEMMA CloseDeviceKeeps ==
    ASSUME profile \in Profiles, NEW d, Sound(d)
    PROVE  LET e == CloseDevice(d)
           IN  /\ Sound(e) /\ e.ptr = d.ptr /\ e.data = d.data
               /\ e.flags = d.flags \ {"device"}
               /\ SameClients(d, e) /\ SameMarks(d, e) /\ SameState(d, e)
<1>1. CASE "device" \notin d.flags
  BY <1>1 DEF CloseDevice, SameClients, SameMarks, SameState
<1>2. CASE "device" \in d.flags
  <2> DEFINE open == d.open \ {"device"}
             flags == d.flags \ {"device"}
             e == [d EXCEPT !.open = open, !.flags = flags]
  <2>1. d \in DrvTypes /\ None # "if0" /\ None # "if1" /\ None # "device"
    BY Constants DEF Sound, Objects
  <2>2. CloseDevice(d) = e
    BY <1>2 DEF CloseDevice
  <2>3. /\ e.open = open /\ e.flags = flags
        /\ e.ptr = d.ptr /\ e.data = d.data /\ e.held = d.held
        /\ SameClients(d, e) /\ SameMarks(d, e) /\ SameState(d, e)
    BY <2>1 DEF DrvTypes, SameClients, SameMarks, SameState
  <2>4. e \in DrvTypes
    <3>1. ASSUME NEW o \in SUBSET {"device", "if0", "if1"},
                 NEW f \in SUBSET {"device", "control", "data"}
          PROVE  [d EXCEPT !.open = o, !.flags = f] \in DrvTypes
      BY <2>1 DEF DrvTypes
    <3>2. open \in SUBSET {"device", "if0", "if1"} /\ flags \in SUBSET {"device", "control", "data"}
      BY <2>1 DEF DrvTypes
    <3> HIDE DEF open, flags
    <3> QED
      BY <3>1, <3>2
  <2>5. OpenAsFlagged(e)
    BY <2>1, <2>3 DEF Sound, OpenAsFlagged, DrvTypes
  <2>6. DataSettled(e) /\ Referenced(e)
    BY <2>1, <2>3 DEF Sound, DataSettled, Referenced
  <2> QED
    BY <2>2, <2>3, <2>4, <2>5, <2>6 DEF Sound, SameMarks
<1> QED
  BY <1>1, <1>2

(* Opening the device, or the failure to, leaves references alone. *)
LEMMA OpenDeviceKeeps ==
    ASSUME profile \in Profiles, NEW d, Sound(d), NEW F
    PROVE  LET r == OpenDevice(d, F)
               e == r.drv
           IN  /\ Sound(e) /\ e.ptr = d.ptr /\ r.ok \in BOOLEAN
               /\ SameClients(d, e) /\ SameMarks(d, e) /\ SameState(d, e)
<1>1. CASE "open" \in F
  BY <1>1, Constants DEF OpenDevice, Ret, SameClients, SameMarks, SameState
<1>2. CASE "open" \notin F
  <2>1. OpenDevice(d, F) = Ret(Opened(d, "device", "device"), TRUE)
    BY <1>2 DEF OpenDevice, Opened
  <2> QED
    BY <2>1, FlagOpened DEF Ret
<1> QED
  BY <1>1, <1>2

(* Marks and state set, all else kept. *)
Marked(d, c, b) == [d EXCEPT !.chan = c, !.bus = b]
Stated(d, c, r) == [d EXCEPT !.configured = c, !.running = r]

(* A codec's marks are on the bus: setting both keeps the driver sound. *)
LEMMA MarkedKeeps ==
    ASSUME profile \in Profiles, NEW d, Sound(d),
           NEW c \in SUBSET Marks, NEW b \in SUBSET {0, 1}, c \subseteq b
    PROVE  LET e == Marked(d, c, b)
           IN  /\ Sound(e) /\ e.ptr = d.ptr /\ e.chan = c /\ e.bus = b
               /\ e.command = d.command
               /\ SameClients(d, e) /\ SameOpen(d, e) /\ SameState(d, e)
<1> DEFINE e == Marked(d, c, b)
<1>1. d \in DrvTypes
  BY DEF Sound
<1>2. /\ e.ptr = d.ptr /\ e.held = d.held /\ e.chan = c /\ e.bus = b
      /\ e.command = d.command
      /\ SameClients(d, e) /\ SameOpen(d, e) /\ SameState(d, e)
  BY <1>1 DEF Marked, Stated, DrvTypes, SameClients, SameOpen, SameState
<1>3. e \in DrvTypes
  BY <1>1 DEF Marked, Stated, DrvTypes
<1>4. OpenAsFlagged(e) /\ DataSettled(e) /\ Referenced(e)
  BY <1>2 DEF Sound, OpenAsFlagged, DataSettled, Referenced, SameOpen
<1> QED
  BY <1>2, <1>3, <1>4 DEF Sound

(* A queued command disturbs neither marks nor bus. *)
Commanded(d, k) == [d EXCEPT !.command = k]

(* SendRawBytes and StartIO keep the driver sound. *)
LEMMA CommandedKeeps ==
    ASSUME NEW d, Sound(d), NEW k \in Commands
    PROVE  LET e == Commanded(d, k)
           IN  /\ Sound(e) /\ e.ptr = d.ptr /\ e.chan = d.chan /\ e.bus = d.bus /\ e.command = k
               /\ SameClients(d, e) /\ SameOpen(d, e) /\ SameState(d, e)
<1> DEFINE e == Commanded(d, k)
<1>1. d \in DrvTypes
  BY DEF Sound
<1>2. /\ e.ptr = d.ptr /\ e.held = d.held /\ e.chan = d.chan /\ e.bus = d.bus
      /\ e.command = k
      /\ SameClients(d, e) /\ SameOpen(d, e) /\ SameState(d, e)
  BY <1>1 DEF Commanded, DrvTypes, SameClients, SameOpen, SameState
<1>3. e \in DrvTypes
  BY <1>1 DEF Commanded, DrvTypes
<1>4. OpenAsFlagged(e) /\ DataSettled(e) /\ Referenced(e)
  BY <1>2 DEF Sound, OpenAsFlagged, DataSettled, Referenced, SameOpen
<1> QED
  BY <1>2, <1>3, <1>4 DEF Sound

(* configured and running disturb no reference and no flag. *)
LEMMA StatedKeeps ==
    ASSUME profile \in Profiles, NEW d, Sound(d), NEW c \in BOOLEAN, NEW r \in BOOLEAN
    PROVE  LET e == Stated(d, c, r)
           IN  /\ Sound(e) /\ e.ptr = d.ptr /\ e.configured = c /\ e.running = r
               /\ SameClients(d, e) /\ SameOpen(d, e) /\ SameMarks(d, e)
<1> DEFINE e == Stated(d, c, r)
<1>1. d \in DrvTypes
  BY DEF Sound
<1>2. /\ e.ptr = d.ptr /\ e.held = d.held /\ e.configured = c /\ e.running = r
      /\ SameClients(d, e) /\ SameOpen(d, e) /\ SameMarks(d, e)
  BY <1>1 DEF Marked, Stated, DrvTypes, SameClients, SameOpen, SameMarks
<1>3. e \in DrvTypes
  BY <1>1 DEF Marked, Stated, DrvTypes
<1>4. OpenAsFlagged(e) /\ DataSettled(e) /\ Referenced(e)
  BY <1>2 DEF Sound, OpenAsFlagged, DataSettled, Referenced, SameOpen
<1> QED
  BY <1>2, <1>3, <1>4 DEF Sound, SameMarks

(* ConfigureDevice either configures the device or says that it failed. *)
LEMMA ConfigureDeviceKeeps ==
    ASSUME profile \in Profiles, NEW d, Sound(d), Equipped(d), ~d.running, ~d.configured, NEW F
    PROVE  LET r == ConfigureDevice(d, F)
               e == r.drv
           IN  /\ Sound(e) /\ Equipped(e) /\ ~e.running
               /\ r.ok \in BOOLEAN /\ (r.ok => e.configured)
               /\ SameClients(d, e) /\ SameBus(d, e)
<1> DEFINE a == OpenDevice(d, F)
           n == [a.drv EXCEPT !.chan = {}]
           b == FindInterfaces(n, F)
           c == ConfigurePipes(b.drv, F)
<1>1. /\ Sound(a.drv) /\ a.drv.ptr = d.ptr /\ a.ok \in BOOLEAN
      /\ SameClients(d, a.drv) /\ SameMarks(d, a.drv) /\ SameState(d, a.drv)
  BY OpenDeviceKeeps
<1>2. ConfigureDevice(d, F) =
         CASE ~a.ok -> a
           [] a.ok /\ ~b.ok -> Ret(CloseDevice(b.drv), FALSE)
           [] a.ok /\ b.ok /\ (~c.ok \/ "tx" \in F) -> Ret(CloseDevice(c.drv), FALSE)
           [] OTHER -> Ret([Take(c.drv, {"tx"}) EXCEPT !.configured = TRUE], TRUE)
  BY DEF ConfigureDevice
<1> HIDE DEF a
<1>3. /\ Sound(n) /\ n.ptr = d.ptr /\ SameBus(d, n)
      /\ SameClients(d, n) /\ SameState(d, n)
  <2>1. a.drv \in DrvTypes
    BY <1>1 DEF Sound
  <2>2. n = Marked(a.drv, {}, d.bus)
    BY <2>1, <1>1 DEF Marked, DrvTypes, SameMarks
  <2>3. d.bus \in SUBSET {0, 1} /\ {} \in SUBSET Marks
    BY DEF Sound, DrvTypes
  <2> HIDE DEF n
  <2> QED
    BY <1>1, <2>2, <2>3, MarkedKeeps DEF SameClients, SameState, SameMarks, SameBus
<1> HIDE DEF n
<1>4. /\ b.ok \in BOOLEAN /\ Sound(b.drv) /\ d.ptr \subseteq b.drv.ptr /\ SameBus(d, b.drv)
      /\ SameClients(d, b.drv) /\ SameState(d, b.drv)
  BY <1>3, FindInterfacesKeeps DEF SameClients, SameState, SameMarks, SameBus
<1> HIDE DEF b
<1>5. /\ c.ok \in BOOLEAN /\ Sound(c.drv) /\ d.ptr \subseteq c.drv.ptr /\ SameBus(d, c.drv)
      /\ c.ok => {"out", "in"} \subseteq c.drv.ptr
      /\ SameClients(d, c.drv) /\ SameState(d, c.drv)
  BY <1>4, ConfigurePipesKeeps DEF SameClients, SameState, SameMarks, SameBus
<1> HIDE DEF c
<1>6. CASE ~a.ok
  BY <1>1, <1>2, <1>6 DEF SameClients, SameState, SameMarks, SameBus, Equipped
<1>7. CASE a.ok /\ ~b.ok
  <2>1. ConfigureDevice(d, F) = Ret(CloseDevice(b.drv), FALSE)
    BY <1>1, <1>2, <1>7
  <2> QED
    BY <1>4, <2>1, CloseDeviceKeeps DEF Ret, SameClients, SameState, SameMarks, SameBus, Equipped
<1>8. CASE a.ok /\ b.ok /\ (~c.ok \/ "tx" \in F)
  <2>1. ConfigureDevice(d, F) = Ret(CloseDevice(c.drv), FALSE)
    BY <1>1, <1>2, <1>8
  <2> QED
    BY <1>5, <2>1, CloseDeviceKeeps DEF Ret, SameClients, SameState, SameMarks, SameBus, Equipped
<1>9. CASE a.ok /\ b.ok /\ c.ok /\ "tx" \notin F
  <2> DEFINE t == Take(c.drv, {"tx"})
             e == [t EXCEPT !.configured = TRUE]
  <2>1. ConfigureDevice(d, F) = Ret(e, TRUE)
    BY <1>2, <1>9
  <2>2. {"tx"} \in SUBSET Objects
    BY DEF Objects
  <2>3. /\ Sound(t) /\ t.ptr = c.drv.ptr \cup {"tx"}
        /\ SameClients(c.drv, t) /\ SameMarks(c.drv, t) /\ SameState(c.drv, t)
    BY <1>5, <2>2, TakeKeeps
  <2> HIDE DEF t
  <2>4. e = Stated(t, TRUE, FALSE)
    <3>1. t \in DrvTypes /\ t.running = FALSE
      BY <1>5, <2>3 DEF Sound, SameState, DrvTypes
    <3> QED
      BY <3>1 DEF Stated, DrvTypes
  <2> HIDE DEF e
  <2>5. /\ Sound(e) /\ e.ptr = t.ptr /\ e.configured /\ ~e.running
        /\ SameClients(t, e) /\ SameOpen(t, e) /\ SameMarks(t, e)
    BY <2>3, <2>4, StatedKeeps
  <2> QED
    BY <1>5, <1>9, <2>1, <2>3, <2>5 DEF Ret, SameClients, SameState, SameMarks, SameBus, Equipped
<1> QED
  BY <1>1, <1>4, <1>5, <1>6, <1>7, <1>8, <1>9

(* StartAsyncRead and StartIO                                              *)
LEMMA StartAsyncReadKeeps ==
    ASSUME profile \in Profiles, NEW d, Sound(d), NEW F
    PROVE  LET r == StartAsyncRead(d, F)
               e == r.drv
           IN  /\ Sound(e) /\ r.ok \in BOOLEAN
               /\ d.ptr \ {"slot0", "slot1", "read"} \subseteq e.ptr
               /\ r.ok => d.ptr \cup {"slot0", "slot1", "read"} \subseteq e.ptr
               /\ SameClients(d, e) /\ SameMarks(d, e) /\ SameOpen(d, e) /\ SameState(d, e)
<1>1. /\ {"slot0"} \in SUBSET Objects /\ {"read"} \in SUBSET Objects
      /\ {"slot0", "slot1"} \in SUBSET Objects
      /\ {"slot0", "slot1", "read"} \in SUBSET Objects
  BY DEF Objects
<1>2. CASE F \cap {"descriptors", "slot0"} # {}
  BY <1>2 DEF StartAsyncRead, Ret, SameClients, SameMarks, SameOpen, SameState
<1>3. CASE F \cap {"descriptors", "slot0"} = {} /\ "slot1" \in F
  <2> DEFINE t == Take(d, {"slot0"})
  <2>1. StartAsyncRead(d, F) = Ret(Release(t, {"slot0"}), FALSE)
    BY <1>3 DEF StartAsyncRead
  <2>2. /\ Sound(t) /\ t.ptr = d.ptr \cup {"slot0"}
        /\ SameClients(d, t) /\ SameMarks(d, t) /\ SameOpen(d, t) /\ SameState(d, t)
    BY <1>1, TakeKeeps
  <2> HIDE DEF t
  <2> QED
    BY <1>1, <2>1, <2>2, ReleaseKeeps DEF Ret, SameClients, SameMarks, SameOpen, SameState
<1>4. CASE F \cap {"descriptors", "slot0", "slot1"} = {} /\ "read" \in F
  <2> DEFINE t == Take(d, {"slot0", "slot1"})
  <2>1. StartAsyncRead(d, F) = Ret(Release(t, {"slot0", "slot1"}), FALSE)
    BY <1>4 DEF StartAsyncRead, Unread
  <2>2. /\ Sound(t) /\ t.ptr = d.ptr \cup {"slot0", "slot1"}
        /\ SameClients(d, t) /\ SameMarks(d, t) /\ SameOpen(d, t) /\ SameState(d, t)
    BY <1>1, TakeKeeps
  <2> HIDE DEF t
  <2> QED
    BY <1>1, <2>1, <2>2, ReleaseKeeps DEF Ret, SameClients, SameMarks, SameOpen, SameState
<1>5. CASE F \cap {"descriptors", "slot0", "slot1", "read"} = {} /\ "submit" \in F
  <2> DEFINE t == Take(d, {"slot0", "slot1", "read"})
             u == Release(t, {"read"})
  <2>1. StartAsyncRead(d, F) = Ret(Release(u, {"slot0", "slot1"}), FALSE)
    BY <1>5 DEF StartAsyncRead, Unread
  <2>2. /\ Sound(t) /\ t.ptr = d.ptr \cup {"slot0", "slot1", "read"}
        /\ SameClients(d, t) /\ SameMarks(d, t) /\ SameOpen(d, t) /\ SameState(d, t)
    BY <1>1, TakeKeeps
  <2> HIDE DEF t
  <2>3. /\ Sound(u) /\ u.ptr = t.ptr \ {"read"}
        /\ SameClients(t, u) /\ SameMarks(t, u) /\ SameOpen(t, u) /\ SameState(t, u)
    BY <1>1, <2>2, ReleaseKeeps
  <2> HIDE DEF u
  <2> QED
    BY <1>1, <2>1, <2>2, <2>3, ReleaseKeeps DEF Ret, SameClients, SameMarks, SameOpen, SameState
<1>6. CASE F \cap {"descriptors", "slot0", "slot1", "read"} = {} /\ "submit" \notin F
  <2>1. StartAsyncRead(d, F) = Ret(Take(d, {"slot0", "slot1", "read"}), TRUE)
    BY <1>6 DEF StartAsyncRead
  <2> QED
    BY <1>1, <2>1, TakeKeeps DEF Ret
<1> QED
  BY <1>2, <1>3, <1>4, <1>5, <1>6

(* fTxInFlight cleared: no command of a session before is carried out in   *)
(* this one.                                                               *)
LEMMA IdledKeeps ==
    ASSUME profile \in Profiles, NEW d, Sound(d)
    PROVE  LET e == Idled(d)
           IN  /\ Sound(e) /\ e.ptr = d.ptr
               /\ SameClients(d, e) /\ SameState(d, e) /\ Reaches(d, e)
<1> DEFINE k == IF d.command = "none" THEN "none" ELSE "lost"
           e == Idled(d)
<1>1. e = Commanded(d, k)
  BY DEF Idled, Commanded
<1>2. /\ k \in Commands
      /\ d.command \in {"open", "lost"} => k = "lost"
      /\ k # "close"
  BY DEF Sound, DrvTypes, Commands
<1> HIDE DEF k, e
<1>3. /\ Sound(e) /\ e.ptr = d.ptr /\ e.bus = d.bus /\ e.command = k
      /\ SameClients(d, e) /\ SameState(d, e)
  BY <1>1, <1>2, CommandedKeeps
<1>4. Reaches(d, e)
  BY <1>2, <1>3 DEF Reaches, Reaching
<1> QED
  BY <1>3, <1>4 DEF e

(* StartIO either runs or says that it failed, and keeps what was set up. *)
LEMMA RunIOKeeps ==
    ASSUME profile \in Profiles, NEW d, Sound(d), Equipped(d), ~d.running, d.configured, NEW F
    PROVE  LET r == RunIO(d, F)
               e == r.drv
           IN  /\ Sound(e) /\ Equipped(e) /\ r.ok \in BOOLEAN /\ e.running = r.ok
               /\ SameClients(d, e) /\ Reaches(d, e)
<1>1. CASE "write" \notin d.ptr /\ "write" \in F
  <2>1. d \in DrvTypes
    BY DEF Sound
  <2> QED
    BY <1>1, <2>1 DEF RunIO, Ret, SameClients, Reaches, DrvTypes
<1>2. CASE "write" \in d.ptr \/ "write" \notin F
  <2> DEFINE t == IF "write" \in d.ptr THEN d ELSE Take(d, {"write"})
             w == Idled(t)
             s == SecondWriter(w, F)
             r == StartAsyncRead(s, F)
             e == [r.drv EXCEPT !.running = r.ok]
  <2>1. RunIO(d, F) = Ret(e, r.ok)
    BY <1>2 DEF RunIO
  <2>2. {"write"} \in SUBSET Objects /\ {"tx2", "write2"} \in SUBSET Objects
    BY DEF Objects
  <2>3. /\ Sound(t) /\ t.ptr = d.ptr \cup {"write"}
        /\ SameClients(d, t) /\ SameMarks(d, t) /\ SameState(d, t)
    <3>1. CASE "write" \in d.ptr
      BY <3>1 DEF SameClients, SameMarks, SameState
    <3>2. CASE "write" \notin d.ptr
      BY <2>2, <3>2, TakeKeeps
    <3> QED
      BY <3>1, <3>2
  <2> HIDE DEF t
  <2>4. /\ Sound(w) /\ w.ptr = t.ptr
        /\ SameClients(t, w) /\ SameState(t, w) /\ Reaches(t, w)
    BY <2>3, IdledKeeps
  <2> HIDE DEF w
  <2>5. /\ Sound(s) /\ w.ptr \subseteq s.ptr
        /\ SameClients(w, s) /\ SameMarks(w, s) /\ SameState(w, s)
    <3>1. CASE "out2" \in w.ptr /\ "write2" \notin w.ptr /\ "write2" \notin F
      BY <2>2, <2>4, <3>1, TakeKeeps DEF SecondWriter
    <3>2. CASE ~("out2" \in w.ptr /\ "write2" \notin w.ptr /\ "write2" \notin F)
      BY <2>4, <3>2 DEF SecondWriter, SameClients, SameMarks, SameState
    <3> QED
      BY <3>1, <3>2
  <2> HIDE DEF s
  <2>6. /\ Sound(r.drv) /\ r.ok \in BOOLEAN
        /\ s.ptr \ {"slot0", "slot1", "read"} \subseteq r.drv.ptr
        /\ r.ok => s.ptr \cup {"slot0", "slot1", "read"} \subseteq r.drv.ptr
        /\ SameClients(s, r.drv) /\ SameMarks(s, r.drv) /\ SameState(s, r.drv)
    BY <2>5, StartAsyncReadKeeps
  <2> HIDE DEF r
  <2>7. e = Stated(r.drv, TRUE, r.ok)
    <3>1. r.drv \in DrvTypes /\ r.drv.configured = TRUE
      BY <2>3, <2>4, <2>5, <2>6 DEF Sound, SameState, DrvTypes
    <3> QED
      BY <3>1 DEF Stated, DrvTypes
  <2> HIDE DEF e
  <2>8. /\ Sound(e) /\ e.ptr = r.drv.ptr /\ e.configured = TRUE /\ e.running = r.ok
        /\ SameClients(r.drv, e) /\ SameMarks(r.drv, e)
    BY <2>6, <2>7, StatedKeeps
  <2>9. Equipped(e)
    BY <2>3, <2>4, <2>5, <2>6, <2>8 DEF Equipped
  <2>10. Reaches(d, e)
    BY <2>3, <2>4, <2>5, <2>6, <2>8 DEF Reaches, Reaching, SameMarks
  <2> QED
    BY <2>1, <2>3, <2>4, <2>5, <2>6, <2>8, <2>9, <2>10 DEF Ret, SameClients
<1> QED
  BY <1>1, <1>2

(* StartIO runs I/O or fails, and leaves the clients alone.                *)
LEMMA StartIOKeeps ==
    ASSUME profile \in Profiles, NEW d, Sound(d), Equipped(d), NEW F
    PROVE  LET r == StartIO(d, F)
               e == r.drv
           IN  /\ Sound(e) /\ Equipped(e) /\ r.ok \in BOOLEAN /\ e.running = r.ok
               /\ SameClients(d, e) /\ Reaches(d, e)
<1> DEFINE c == IF ~d.configured /\ "device" \in d.ptr THEN ConfigureDevice(d, F)
                ELSE Ret(d, d.configured)
<1>1. StartIO(d, F) = IF d.running THEN Ret(d, TRUE) ELSE IF ~c.ok THEN c ELSE RunIO(c.drv, F)
  BY DEF StartIO
<1>2. d.configured \in BOOLEAN /\ d.running \in BOOLEAN
  BY DEF Sound, DrvTypes
<1>3. CASE d.running
  <2>1. d.running = TRUE /\ StartIO(d, F) = Ret(d, TRUE)
    BY <1>1, <1>2, <1>3
  <2>2. StartIO(d, F).drv = d /\ StartIO(d, F).ok = TRUE
    BY <2>1 DEF Ret
  <2> QED
    BY <2>1, <2>2 DEF SameClients, Reaches
<1>4. CASE ~d.running
  <2>1. /\ Sound(c.drv) /\ Equipped(c.drv) /\ ~c.drv.running /\ c.ok \in BOOLEAN
        /\ c.ok => c.drv.configured
        /\ SameClients(d, c.drv) /\ SameBus(d, c.drv)
    <3>1. CASE d.configured
      BY <1>4, <3>1 DEF Ret, SameClients, SameBus
    <3>2. CASE ~d.configured
      <4>1. c = ConfigureDevice(d, F)
        BY <3>2 DEF Equipped
      <4> HIDE DEF c
      <4> QED
        BY <1>4, <3>2, <4>1, ConfigureDeviceKeeps
    <3> QED
      BY <3>1, <3>2
  <2> HIDE DEF c
  <2>2. CASE ~c.ok
    <3>1. c.drv.running \in BOOLEAN
      BY <2>1 DEF Sound, DrvTypes
    <3> QED
      BY <1>1, <1>4, <2>1, <2>2, <3>1 DEF Reaches, Reaching, SameBus
  <2>3. CASE c.ok
    <3>1. StartIO(d, F) = RunIO(c.drv, F)
      BY <1>1, <1>4, <2>3
    <3> QED
      BY <2>1, <2>3, <3>1, RunIOKeeps DEF SameClients, Reaches, Reaching, SameBus
  <2> QED
    BY <2>1, <2>2, <2>3
<1> QED
  BY <1>2, <1>3, <1>4

(* The codecs' commands                                                    *)
(* SendRawBytes: refused, or the command is on its way. *)
LEMMA SendRawKeeps ==
    ASSUME profile \in Profiles, profile.protocol = "slcan", NEW d, Sound(d),
           NEW k \in {"open", "close"}, NEW F
    PROVE  LET r == SendRaw(d, k, F)
               e == r.drv
           IN  /\ Sound(e) /\ e.ptr = d.ptr /\ r.ok \in BOOLEAN
               /\ r.ok => e.command = k
               /\ ~r.ok => e = d
               /\ SameClients(d, e) /\ SameOpen(d, e) /\ SameState(d, e)
<1>1. CASE d.command \in {"open", "close"} \/ F # {}
  BY <1>1 DEF SendRaw, Ret, SameClients, SameOpen, SameState
<1>2. CASE ~(d.command \in {"open", "close"} \/ F # {})
  <2>1. SendRaw(d, k, F) = Ret(Commanded(d, k), TRUE)
    BY <1>2 DEF SendRaw, Commanded
  <2>2. k \in Commands
    BY DEF Commands
  <2> QED
    BY <2>1, <2>2, CommandedKeeps DEF Ret
<1> QED
  BY <1>1, <1>2

(* The codecs' openChannel: a channel reported open is on the bus, SLCAN's *)
(* on its way there.                                                       *)
LEMMA OpenChannelKeeps ==
    ASSUME profile \in Profiles, NEW d, Sound(d), NEW c \in {0, 1}, NEW F
    PROVE  LET r == OpenChannel(d, c, F)
               e == r.drv
           IN  /\ Sound(e) /\ e.ptr = d.ptr /\ r.ok \in BOOLEAN
               /\ Reaches(d, e) /\ (r.ok => Reaching(e))
               /\ SameClients(d, e) /\ SameOpen(d, e) /\ SameState(d, e)
<1>1. Line(c) \in {0, 1} /\ d \in DrvTypes /\ d.chan \subseteq d.bus
  BY DEF Line, Sound
<1>2. CASE Refused(d)
  BY <1>1, <1>2 DEF OpenChannel, Ret, Reaches, SameClients, SameOpen, SameState
<1>3. CASE ~Refused(d) /\ profile.protocol = "slcan"
  <2> DEFINE r == OpenChannel(d, c, F)
  <2>1. r = SendRaw(d, "open", F)
    BY <1>3 DEF OpenChannel
  <2> HIDE DEF r
  <2>2. /\ Sound(r.drv) /\ r.drv.ptr = d.ptr /\ r.ok \in BOOLEAN
        /\ r.ok => r.drv.command = "open"
        /\ ~r.ok => r.drv = d
        /\ SameClients(d, r.drv) /\ SameOpen(d, r.drv) /\ SameState(d, r.drv)
    BY <1>3, <2>1, SendRawKeeps
  <2>3. Reaches(d, r.drv) /\ (r.ok => Reaching(r.drv))
    BY <1>3, <2>2 DEF Reaches, Reaching
  <2> QED
    BY <2>2, <2>3 DEF r
<1>4. CASE ~Refused(d) /\ profile.protocol # "slcan"
  <2> DEFINE flag == IF F = {} THEN {Line(c)} ELSE {}
             on == IF "command" \notin F THEN {Line(c)} ELSE {}
             e == [d EXCEPT !.chan = @ \cup flag, !.bus = @ \cup on]
  <2>1. OpenChannel(d, c, F) = Ret(e, F = {})
    BY <1>4 DEF OpenChannel
  <2>2. /\ d.chan \cup flag \in SUBSET Marks /\ d.bus \cup on \in SUBSET {0, 1}
        /\ d.chan \cup flag \subseteq d.bus \cup on
        /\ F = {} => d.bus \cup on # {}
    BY <1>1, <1>4 DEF DrvTypes, Marks
  <2>3. e = Marked(d, d.chan \cup flag, d.bus \cup on)
    BY DEF Marked
  <2> HIDE DEF flag, on, e
  <2>4. /\ Sound(e) /\ e.ptr = d.ptr /\ e.bus = d.bus \cup on /\ e.command = d.command
        /\ SameClients(d, e) /\ SameOpen(d, e) /\ SameState(d, e)
    BY <2>2, <2>3, MarkedKeeps
  <2>5. Reaches(d, e) /\ (F = {} => Reaching(e))
    BY <1>1, <1>4, <2>2, <2>4 DEF Reaches, Reaching, DrvTypes, Commands
  <2>6. CASE F = {}
    <3>1. OpenChannel(d, c, F) = Ret(e, TRUE)
      BY <2>1, <2>6
    <3> QED
      <4>1. Reaching(e)
        BY <2>5, <2>6
      <4> QED
        BY <2>4, <2>5, <3>1, <4>1 DEF Ret
  <2>7. CASE F # {}
    <3>1. OpenChannel(d, c, F) = Ret(e, FALSE)
      BY <2>1, <2>7
    <3> QED
      BY <2>4, <2>5, <3>1 DEF Ret
  <2> QED
    BY <2>6, <2>7
<1> QED
  BY <1>2, <1>3, <1>4

(* Closing a channel takes it out of the marks, whether the command        *)
(* arrives.                                                                *)
LEMMA CloseChannelKeeps ==
    ASSUME profile \in Profiles, NEW d, Sound(d), NEW c \in {0, 1}, NEW F
    PROVE  LET e == CloseChannel(d, c, F).drv
           IN  /\ Sound(e) /\ e.ptr = d.ptr
               /\ SameClients(d, e) /\ SameOpen(d, e) /\ SameState(d, e)
<1>1. Line(c) \in {0, 1} /\ d \in DrvTypes /\ d.chan \subseteq d.bus
  BY DEF Line, Sound
<1>2. CASE ~Ready(d)
  BY <1>1, <1>2 DEF CloseChannel, Ret, SameClients, SameOpen, SameState
<1>3. CASE Ready(d) /\ profile.protocol = "slcan"
  <2>1. CloseChannel(d, c, F) = SendRaw(d, "close", F)
    BY <1>3 DEF CloseChannel
  <2> QED
    BY <1>3, <2>1, SendRawKeeps
<1>4. CASE Ready(d) /\ profile.protocol # "slcan"
  <2> DEFINE told == profile.protocol = "gsusb" \/ c \in d.chan
             off == IF told /\ "command" \notin F THEN {Line(c)} ELSE {}
             e == [d EXCEPT !.chan = @ \ {Line(c)}, !.bus = @ \ off]
  <2>1. CloseChannel(d, c, F).drv = e
    BY <1>4 DEF CloseChannel, Ret
  <2>2. /\ d.chan \ {Line(c)} \in SUBSET Marks /\ d.bus \ off \in SUBSET {0, 1}
        /\ d.chan \ {Line(c)} \subseteq d.bus \ off
    BY <1>1 DEF DrvTypes
  <2>3. e = Marked(d, d.chan \ {Line(c)}, d.bus \ off)
    BY DEF Marked
  <2> HIDE DEF off, e
  <2> QED
    BY <2>1, <2>2, <2>3, MarkedKeeps
<1> QED
  BY <1>2, <1>3, <1>4

(* StopIO                                                                  *)
LEMMA StopIOKeeps ==
    ASSUME profile \in Profiles, NEW d, Sound(d), NEW F
    PROVE  LET e == StopIO(d, F)
           IN  /\ Sound(e) /\ e.ptr = d.ptr /\ ~e.running /\ e.configured = d.configured
               /\ SameClients(d, e) /\ SameOpen(d, e)
<1>1. d \in DrvTypes /\ d.chan \subseteq d.bus
  BY DEF Sound
<1>2. CASE ~d.running
  BY <1>2 DEF StopIO, SameClients, SameOpen
<1>3. CASE d.running
  <2> DEFINE s == OnStopIO(d, F)
             e == [s EXCEPT !.running = FALSE]
  <2>1. StopIO(d, F) = e
    BY <1>3 DEF StopIO
  <2>2. /\ Sound(s) /\ s.ptr = d.ptr
        /\ SameClients(d, s) /\ SameOpen(d, s) /\ SameState(d, s)
    <3>1. CASE profile.protocol = "gsusb" /\ d.chan # {}
      BY <3>1, CloseChannelKeeps DEF OnStopIO
    <3>2. CASE ~(profile.protocol = "gsusb" /\ d.chan # {})
      <4>1. s = Marked(d, {}, d.bus)
        BY <1>1, <3>2 DEF OnStopIO, Marked, DrvTypes
      <4>2. {} \in SUBSET Marks /\ d.bus \in SUBSET {0, 1}
        BY <1>1 DEF DrvTypes
      <4> HIDE DEF s
      <4> QED
        BY <4>1, <4>2, MarkedKeeps
    <3> QED
      BY <3>1, <3>2
  <2> HIDE DEF s
  <2>3. e = Stated(s, s.configured, FALSE) /\ s.configured \in BOOLEAN
    BY <2>2 DEF Sound, Stated, DrvTypes
  <2> HIDE DEF e
  <2>4. /\ Sound(e) /\ e.ptr = s.ptr /\ ~e.running /\ e.configured = s.configured
        /\ SameClients(s, e) /\ SameOpen(s, e)
    BY <2>2, <2>3, StatedKeeps
  <2> QED
    BY <2>1, <2>2, <2>4 DEF SameClients, SameOpen, SameState
<1> QED
  BY <1>2, <1>3

(* Stop_Impl and free                                                      *)

(* References, interfaces and flags set, all else kept. *)
Rewired(d, held, ptr, data, open, flags) ==
    [d EXCEPT !.held = held, !.ptr = ptr, !.data = data, !.open = open, !.flags = flags]
Fits(held, ptr, data, open, flags) ==
    /\ held \in [Objects -> 0 .. MaxHeld] /\ ptr \in SUBSET Objects /\ data \in {None, "if0", "if1"}
    /\ open \in SUBSET {"device", "if0", "if1"} /\ flags \in SUBSET {"device", "control", "data"}

(* References and flags that fit are all there is to check of a new driver *)
(* state.                                                                  *)
LEMMA RewiredKeeps ==
    ASSUME NEW d, d \in DrvTypes, NEW h, NEW p, NEW x, NEW o, NEW f, Fits(h, p, x, o, f)
    PROVE  LET e == Rewired(d, h, p, x, o, f)
           IN  /\ e \in DrvTypes /\ e.held = h /\ e.ptr = p /\ e.data = x /\ e.open = o /\ e.flags = f
               /\ SameClients(d, e) /\ SameMarks(d, e) /\ SameState(d, e)
  BY DEF Fits, Rewired, DrvTypes, SameClients, SameMarks, SameState

(* Stop_Impl closes and releases the data interface. *)
LEMMA DropDataKeeps ==
    ASSUME profile \in Profiles, NEW d, Sound(d), d.data # "if0"
    PROVE  LET e == DropData(d)
           IN  /\ Sound(e) /\ e.ptr = d.ptr /\ e.data = None
               /\ SameClients(d, e) /\ SameMarks(d, e) /\ SameState(d, e)
<1>1. /\ d \in DrvTypes /\ None \notin Objects /\ MaxHeld \in Nat
      /\ None # "if0" /\ None # "if1" /\ "if1" \in Objects
  BY Constants DEF Sound, Objects
<1>2. CASE d.data = None
  BY <1>2 DEF DropData, SameClients, SameMarks, SameState
<1>3. CASE d.data = "if1"
  <2> DEFINE h == [d.held EXCEPT !["if1"] = @ - 1]
             f == d.flags \ {"data"}
             o == IF "data" \in d.flags THEN d.open \ {"if1"} ELSE d.open
             e == DropData(d)
  <2>1. e = Rewired(d, h, d.ptr, None, o, f)
    BY <1>1, <1>3 DEF DropData, Rewired, DrvTypes
  <2>2. d.held["if1"] >= 1
    BY <1>1, <1>3 DEF Sound, Referenced, DrvTypes
  <2>3. Fits(h, d.ptr, None, o, f)
    BY <1>1, <2>2 DEF Fits, DrvTypes
  <2> HIDE DEF h, o, f, e
  <2>4. /\ e \in DrvTypes /\ e.held = h /\ e.ptr = d.ptr /\ e.data = None /\ e.open = o /\ e.flags = f
        /\ SameClients(d, e) /\ SameMarks(d, e) /\ SameState(d, e)
    BY <1>1, <2>1, <2>3, RewiredKeeps
  <2>5. Referenced(e)
    BY <1>1, <1>3, <2>4 DEF Sound, Referenced, DrvTypes, h
  <2>6. OpenAsFlagged(e)
    BY <1>1, <1>3, <2>4 DEF Sound, OpenAsFlagged, DrvTypes, o, f
  <2>7. DataSettled(e)
    BY <1>1, <1>3, <2>4 DEF Sound, DataSettled, f
  <2> QED
    BY <2>4, <2>5, <2>6, <2>7 DEF Sound, SameMarks, e
<1> QED
  BY <1>1, <1>2, <1>3 DEF DrvTypes

(* Stop_Impl closes and releases the control interface, after the data     *)
(* interface.                                                              *)
LEMMA DropControlKeeps ==
    ASSUME profile \in Profiles, NEW d, Sound(d), d.data = None
    PROVE  LET e == DropControl(d)
           IN  /\ Sound(e) /\ e.ptr = d.ptr \ {"if0"} /\ e.flags \subseteq {"device"}
               /\ SameClients(d, e) /\ SameMarks(d, e) /\ SameState(d, e)
<1> DEFINE r == Release(d, {"if0"})
           o == IF "control" \in d.flags THEN r.open \ {"if0"} ELSE r.open
           f == r.flags \ {"control"}
           e == DropControl(d)
<1>1. /\ d \in DrvTypes /\ None \notin Objects /\ None # "if0" /\ None # "if1"
      /\ {"if0"} \in SUBSET Objects
  BY Constants DEF Sound, Objects
<1>2. /\ Sound(r) /\ r.ptr = d.ptr \ {"if0"}
      /\ SameClients(d, r) /\ SameMarks(d, r) /\ SameOpen(d, r) /\ SameState(d, r)
  BY <1>1, ReleaseKeeps
<1>3. r \in DrvTypes
  BY <1>2 DEF Sound
<1>4. e = [[r EXCEPT !.open = IF "control" \in d.flags THEN @ \ {"if0"} ELSE @]
             EXCEPT !.flags = @ \ {"control"}]
  BY DEF DropControl
<1> HIDE DEF r, e
<1>5. e = Rewired(r, r.held, r.ptr, r.data, o, f)
  BY <1>3, <1>4 DEF Rewired, DrvTypes
<1>6. Fits(r.held, r.ptr, r.data, o, f)
  BY <1>3 DEF Fits, DrvTypes
<1> HIDE DEF o, f
<1>7. /\ e \in DrvTypes /\ e.held = r.held /\ e.ptr = r.ptr /\ e.data = r.data /\ e.open = o /\ e.flags = f
      /\ SameClients(r, e) /\ SameMarks(r, e) /\ SameState(r, e)
  BY <1>3, <1>5, <1>6, RewiredKeeps
<1>8. Referenced(e)
  BY <1>2, <1>7 DEF Sound, Referenced
<1>9. OpenAsFlagged(e) /\ e.flags \subseteq {"device"}
  BY <1>1, <1>2, <1>3, <1>7 DEF Sound, OpenAsFlagged, DataSettled, DrvTypes, SameOpen, o, f
<1>10. DataSettled(e)
  BY <1>1, <1>2, <1>7, <1>9 DEF Sound, DataSettled, SameOpen
<1> QED
  BY <1>2, <1>7, <1>8, <1>9, <1>10 DEF Sound, SameClients, SameMarks, SameState, e

(* Where the control interface is the data interface too. *)
LEMMA DropBothKeeps ==
    ASSUME profile \in Profiles, NEW d, Sound(d), d.data = "if0"
    PROVE  LET e == ForgetControl(DropData(d))
           IN  /\ Sound(e) /\ e.ptr = d.ptr \ {"if0"} /\ e.flags \subseteq {"device"}
               /\ SameClients(d, e) /\ SameMarks(d, e) /\ SameState(d, e)
<1> DEFINE h == [d.held EXCEPT !["if0"] = @ - 1]
           f == d.flags \ {"data", "control"}
           o == IF "data" \in d.flags THEN d.open \ {"if0"} ELSE d.open
           p == d.ptr \ {"if0"}
           e == ForgetControl(DropData(d))
<1>1. /\ d \in DrvTypes /\ None \notin Objects /\ MaxHeld \in Nat
      /\ None # "if0" /\ None # "if1" /\ "if0" \in Objects
  BY Constants DEF Sound, Objects
<1>2. e = Rewired(d, h, p, None, o, f)
  <2>1. DropData(d) = Rewired(d, h, d.ptr, None, o, d.flags \ {"data"})
    BY <1>1 DEF DropData, Rewired, DrvTypes
  <2>2. f = (d.flags \ {"data"}) \ {"control"}
    OBVIOUS
  <2> QED
    BY <1>1, <2>1, <2>2 DEF ForgetControl, Rewired, DrvTypes
<1>3. d.held["if0"] >= 1
  BY <1>1 DEF Sound, Referenced, DrvTypes
<1>4. Fits(h, p, None, o, f)
  BY <1>1, <1>3 DEF Fits, DrvTypes
<1> HIDE DEF h, o, f, p, e
<1>5. /\ e \in DrvTypes /\ e.held = h /\ e.ptr = p /\ e.data = None /\ e.open = o /\ e.flags = f
      /\ SameClients(d, e) /\ SameMarks(d, e) /\ SameState(d, e)
  BY <1>1, <1>2, <1>4, RewiredKeeps
<1>6. Referenced(e)
  BY <1>1, <1>5 DEF Sound, Referenced, DrvTypes, h, p
<1>7. e.flags \subseteq {"device"}
  BY <1>1, <1>5 DEF DrvTypes, f
<1>8. OpenAsFlagged(e)
  BY <1>1, <1>5 DEF Sound, OpenAsFlagged, DataSettled, DrvTypes, o, f
<1>9. DataSettled(e)
  BY <1>1, <1>5, <1>7 DEF DataSettled
<1> QED
  BY <1>5, <1>6, <1>7, <1>8, <1>9 DEF Sound, SameMarks, e, p

(* Stop_Impl leaves nothing open and nothing running. *)
LEMMA StopImplKeeps ==
    ASSUME profile \in Profiles, NEW d, Sound(d), NEW F
    PROVE  LET e == StopImpl(d, F)
           IN  Sound(e) /\ ~e.running /\ e.open = {} /\ SameClients(d, e)
<1> DEFINE P == {"out", "in", "cmdOut", "cmdIn", "out2"}
           D == {"device", "tx", "tx2", "txQueue", "ring"}
           t == StopIO(d, F)
           s == Release(t, P)
           i == IF s.data = "if0" THEN ForgetControl(DropData(s)) ELSE DropControl(DropData(s))
           c == CloseDevice(i)
<1>1. StopImpl(d, F) = Release(c, D)
  BY DEF StopImpl
<1>2. P \in SUBSET Objects /\ D \in SUBSET Objects
  BY DEF Objects
<1>3. Sound(t) /\ ~t.running /\ SameClients(d, t)
  BY StopIOKeeps
<1> HIDE DEF t, P, D
<1>4. Sound(s) /\ ~s.running /\ SameClients(d, s)
  BY <1>2, <1>3, ReleaseKeeps DEF SameClients, SameState
<1> HIDE DEF s
<1>5. Sound(i) /\ ~i.running /\ SameClients(d, i) /\ i.flags \subseteq {"device"}
  <2>1. CASE s.data = "if0"
    BY <1>4, <2>1, DropBothKeeps DEF SameClients, SameState
  <2>2. CASE s.data # "if0"
    <3> DEFINE x == DropData(s)
    <3>1. Sound(x) /\ x.data = None /\ SameClients(s, x) /\ SameState(s, x)
      BY <1>4, <2>2, DropDataKeeps
    <3> HIDE DEF x
    <3>2. i = DropControl(x)
      BY <2>2 DEF x
    <3> QED
      BY <1>4, <3>1, <3>2, DropControlKeeps DEF SameClients, SameState
  <2> QED
    BY <2>1, <2>2
<1> HIDE DEF i
<1>6. Sound(c) /\ ~c.running /\ SameClients(d, c) /\ c.flags = {}
  BY <1>5, CloseDeviceKeeps DEF SameClients, SameState
<1> HIDE DEF c
<1>7. c.open = {}
  BY <1>6 DEF Sound, OpenAsFlagged
<1> QED
  BY <1>1, <1>2, <1>6, <1>7, ReleaseKeeps DEF SameClients, SameOpen, SameState

(* free releases what is left and reopens nothing. *)
LEMMA FreeKeeps ==
    ASSUME profile \in Profiles, NEW d, Sound(d)
    PROVE  LET e == Free(d)
           IN  /\ Sound(e) /\ e.running = d.running /\ e.open = d.open /\ e.bus = d.bus
               /\ SameClients(d, e)
<1> DEFINE S == {"read", "slot0", "slot1", "write", "tx", "write2", "tx2", "ring", "device", "txQueue"}
<1>1. S \in SUBSET Objects /\ Free(d) = Release(d, S)
  BY DEF Objects, Free
<1> HIDE DEF S
<1> QED
  BY <1>1, ReleaseKeeps DEF SameOpen, SameMarks, SameState

-----------------------------------------------------------------------------
(* The user clients.                                                       *)
Clientele(d, uc, user, peers) == [d EXCEPT !.uc = uc, !.user = user, !.peers = peers]
FitsClients(uc, user, peers) ==
    /\ uc \in [Clients -> [phase : {"none", "started", "open"}, cut : BOOLEAN]]
    /\ user \in Clients \cup {None} /\ peers \in SUBSET Clients

(* New values for the clients disturb nothing of the device. *)
LEMMA ClienteleKeeps ==
    ASSUME NEW d, Sound(d), NEW uc, NEW user, NEW peers, FitsClients(uc, user, peers)
    PROVE  LET e == Clientele(d, uc, user, peers)
           IN  /\ Sound(e) /\ e.ptr = d.ptr /\ e.uc = uc /\ e.user = user /\ e.peers = peers
               /\ e.faults = d.faults
               /\ SameMarks(d, e) /\ SameOpen(d, e) /\ SameState(d, e)
<1> DEFINE e == Clientele(d, uc, user, peers)
<1>1. d \in DrvTypes
  BY DEF Sound
<1>2. /\ e.ptr = d.ptr /\ e.held = d.held /\ e.uc = uc /\ e.user = user /\ e.peers = peers
      /\ e.faults = d.faults
      /\ SameMarks(d, e) /\ SameOpen(d, e) /\ SameState(d, e)
  BY <1>1 DEF Clientele, DrvTypes, SameMarks, SameOpen, SameState
<1>3. e \in DrvTypes
  BY <1>1 DEF Clientele, FitsClients, DrvTypes
<1>4. OpenAsFlagged(e) /\ DataSettled(e) /\ Referenced(e)
  BY <1>2 DEF Sound, OpenAsFlagged, DataSettled, Referenced, SameOpen
<1> QED
  BY <1>2, <1>3, <1>4 DEF Sound, SameMarks

(* The types of what the user clients' methods touch. *)
LEMMA ClientsTyped ==
    ASSUME NEW d, Sound(d)
    PROVE  /\ d \in DrvTypes /\ FitsClients(d.uc, d.user, d.peers)
           /\ d.running \in BOOLEAN
  BY DEF Sound, DrvTypes, FitsClients

(* What Start of a user client leaves: it is the one notified, and whoever *)
(* was there is a peer.                                                    *)
LEMMA UcStartIs ==
    ASSUME profile \in Profiles, NEW d, Sound(d), NEW u \in Clients
    PROVE  LET e == UcStart(d, u)
           IN  /\ Sound(e) /\ e.ptr = d.ptr /\ e.faults = d.faults
               /\ e.uc = [d.uc EXCEPT ![u] = [phase |-> "started", cut |-> FALSE]]
               /\ e.user = u
               /\ e.peers = d.peers \cup (IF Others(d, u) = {} THEN {} ELSE Others(d, u) \cup {u})
               /\ SameMarks(d, e) /\ SameOpen(d, e) /\ SameState(d, e)
<1> DEFINE uc == [d.uc EXCEPT ![u] = [phase |-> "started", cut |-> FALSE]]
           peers == d.peers \cup (IF Others(d, u) = {} THEN {} ELSE Others(d, u) \cup {u})
           e == UcStart(d, u)
<1>1. d \in DrvTypes /\ FitsClients(d.uc, d.user, d.peers)
  BY ClientsTyped
<1>2. [Closed EXCEPT !.phase = "started"] = [phase |-> "started", cut |-> FALSE]
  <2>1. /\ Closed \in [phase : {"none", "started", "open"}, cut : BOOLEAN]
        /\ Closed.cut = FALSE
    BY DEF Closed
  <2>2. \A c \in [phase : {"none", "started", "open"}, cut : BOOLEAN] :
            [c EXCEPT !.phase = "started"] = [phase |-> "started", cut |-> c.cut]
    OBVIOUS
  <2> QED
    BY <2>1, <2>2
<1>3. e = Clientele(d, uc, u, peers)
  BY <1>1, <1>2 DEF UcStart, Clientele, DrvTypes
<1>4. FitsClients(uc, u, peers)
  BY <1>1 DEF FitsClients, Others
<1> HIDE DEF uc, peers, e
<1>5. /\ Sound(e) /\ e.ptr = d.ptr /\ e.uc = uc /\ e.user = u /\ e.peers = peers
      /\ e.faults = d.faults
      /\ SameMarks(d, e) /\ SameOpen(d, e) /\ SameState(d, e)
  BY <1>3, <1>4, ClienteleKeeps
<1> QED
  BY <1>5 DEF uc, peers, e

(* A new user client opens the driver, or fails to. *)
SameRest(d, e) == e.faults = d.faults /\ Reaches(d, e)

(* A new user client opens the driver without taking it from one that is   *)
(* alone.                                                                  *)
LEMMA ClientOpens ==
    ASSUME profile \in Profiles, life = "started", NEW d, DriverInv(d), Served(d),
           NEW u \in Clients, ~Alive(d, u), NEW F
    PROVE  LET r == UcOpen(UcStart(d, u), u, F)
               e == r.drv
           IN  /\ DriverInv(e) /\ Served(e) /\ r.ok \in BOOLEAN
               /\ e.uc = [d.uc EXCEPT ![u] = [phase |-> IF r.ok THEN "open" ELSE "started",
                                              cut |-> FALSE]]
               /\ \A v \in Clients : Alive(e, v) /\ v \notin e.peers => v = u
               /\ SameRest(d, e)
<1> DEFINE s == UcStart(d, u)
           r == StartIO(s, F)
           e == IF r.ok THEN [r.drv EXCEPT !.uc[u].phase = "open"] ELSE r.drv
           more == IF Others(d, u) = {} THEN {} ELSE Others(d, u) \cup {u}
<1>1. Sound(d) /\ Equipped(d) /\ Serving
  BY DEF DriverInv, Serving
<1>2. /\ Sound(s) /\ s.ptr = d.ptr /\ s.faults = d.faults
      /\ s.uc = [d.uc EXCEPT ![u] = [phase |-> "started", cut |-> FALSE]]
      /\ s.user = u
      /\ s.peers = d.peers \cup more
      /\ SameMarks(d, s) /\ SameState(d, s)
  BY <1>1, UcStartIs
<1>3. d.uc \in [Clients -> [phase : {"none", "started", "open"}, cut : BOOLEAN]]
  BY <1>1, ClientsTyped DEF FitsClients
<1>4. s.uc[u].phase # "open" /\ Equipped(s)
  BY <1>1, <1>2, <1>3 DEF Equipped, SameState
<1>5. UcOpen(s, u, F) = Ret(e, r.ok)
  BY <1>4 DEF UcOpen
<1> HIDE DEF s, more
<1>6. /\ Sound(r.drv) /\ Equipped(r.drv) /\ r.ok \in BOOLEAN /\ r.drv.running = r.ok
      /\ SameClients(s, r.drv) /\ Reaches(s, r.drv)
  BY <1>2, <1>4, StartIOKeeps
<1> HIDE DEF r
<1> DEFINE uc == [d.uc EXCEPT ![u] = [phase |-> IF r.ok THEN "open" ELSE "started", cut |-> FALSE]]
<1>7. /\ Sound(e) /\ Equipped(e) /\ e.running = r.ok /\ Reaches(d, e) /\ e.faults = d.faults
      /\ e.uc = uc /\ e.user = u /\ e.peers = d.peers \cup more
  <2>1. CASE ~r.ok
    <3>1. e = r.drv /\ uc = s.uc
      BY <1>2, <2>1
    <3> HIDE DEF e, uc
    <3> QED
      BY <1>2, <1>6, <3>1 DEF SameClients, SameMarks, Reaches, Reaching
  <2>2. CASE r.ok
    <3>1. e = Clientele(r.drv, uc, r.drv.user, r.drv.peers)
      <4>1. r.drv \in DrvTypes /\ r.drv.uc = s.uc
        BY <1>6, ClientsTyped DEF SameClients
      <4>2. [s.uc EXCEPT ![u].phase = "open"] = uc
        BY <1>2, <1>3, <2>2
      <4> QED
        BY <2>2, <4>1, <4>2 DEF Clientele, DrvTypes
    <3>2. FitsClients(uc, r.drv.user, r.drv.peers)
      BY <1>3, <1>6, ClientsTyped DEF FitsClients
    <3> HIDE DEF e, uc
    <3>3. /\ Sound(e) /\ e.ptr = r.drv.ptr /\ e.uc = uc /\ e.user = r.drv.user /\ e.peers = r.drv.peers
          /\ e.faults = r.drv.faults
          /\ SameMarks(r.drv, e) /\ SameState(r.drv, e)
      BY <1>6, <3>1, <3>2, ClienteleKeeps
    <3> QED
      <4>1. Equipped(e) /\ e.running = r.ok /\ e.faults = d.faults
        BY <1>2, <1>6, <3>3 DEF SameClients, SameState, Equipped
      <4>2. Reaches(d, e)
        BY <1>2, <1>6, <3>3 DEF Reaches, Reaching, SameMarks
      <4> QED
        BY <1>2, <1>6, <3>3, <4>1, <4>2 DEF SameClients
  <2> QED
    BY <1>6, <2>1, <2>2
<1> HIDE DEF e
<1>8. DriverInv(e)
  BY <1>1, <1>7 DEF DriverInv
<1>9. \A v \in Clients : v # u => e.uc[v] = d.uc[v]
  BY <1>3, <1>7
<1>10. e.uc[u] = [phase |-> IF r.ok THEN "open" ELSE "started", cut |-> FALSE]
  BY <1>3, <1>7
<1>11. \A v \in Clients : v # u /\ Alive(e, v) => v \in e.peers /\ u \in e.peers
  BY <1>7, <1>9 DEF Alive, Others, more
<1>12. Served(e)
  <2>1. ASSUME NEW v \in Clients, NEW w \in Clients, v # w, Alive(e, v), Alive(e, w)
        PROVE  v \in e.peers
    BY <1>11, <2>1
  <2>2. ASSUME NEW v \in Clients \ e.peers, e.uc[v].phase = "open"
        PROVE  e.running /\ e.user = v
    <3>1. v = u
      BY <1>11, <2>2 DEF Alive
    <3> QED
      BY <1>6, <1>7, <1>10, <2>2, <3>1
  <2>3. ASSUME e.running
        PROVE  \E v \in Clients : e.uc[v].phase = "open"
    BY <1>7, <1>10, <2>3
  <2> QED
    BY <2>1, <2>2, <2>3 DEF Served
<1>13. \A v \in Clients : Alive(e, v) /\ v \notin e.peers => v = u
  BY <1>11
<1>14. UcOpen(UcStart(d, u), u, F).drv = e /\ UcOpen(UcStart(d, u), u, F).ok = r.ok
  BY <1>5 DEF Ret, s
<1> QED
  BY <1>6, <1>7, <1>8, <1>12, <1>13, <1>14 DEF SameRest

(* Closing stops I/O, so no client may have been left in need of it. *)
LEMMA ClientCloses ==
    ASSUME profile \in Profiles, NEW d, DriverInv(d), Served(d), NEW u \in Clients, NEW F
    PROVE  LET e == UcClose(d, u, F).drv
           IN  /\ DriverInv(e) /\ Served(e)
               /\ e.uc = IF d.uc[u].phase = "open" THEN [d.uc EXCEPT ![u].phase = "started"] ELSE d.uc
               /\ d.uc[u].phase = "open" => ~e.running
               /\ d.uc[u].phase # "open" => e = d
               /\ e.peers = d.peers /\ e.faults = d.faults
<1>1. Sound(d) /\ d.uc \in [Clients -> [phase : {"none", "started", "open"}, cut : BOOLEAN]]
  BY ClientsTyped DEF DriverInv, FitsClients
<1>2. CASE d.uc[u].phase # "open"
  BY <1>2 DEF UcClose, Ret
<1>3. CASE d.uc[u].phase = "open"
  <2> DEFINE s == StopIO(d, F)
             uc == [d.uc EXCEPT ![u].phase = "started"]
             e == [s EXCEPT !.uc[u].phase = "started"]
  <2>1. UcClose(d, u, F).drv = e
    BY <1>3 DEF UcClose, Ret
  <2>2. /\ Sound(s) /\ s.ptr = d.ptr /\ ~s.running /\ s.configured = d.configured
        /\ SameClients(d, s) /\ SameOpen(d, s)
    BY <1>1, StopIOKeeps
  <2> HIDE DEF s
  <2>3. e = Clientele(s, uc, s.user, s.peers)
    <3>1. s \in DrvTypes /\ s.uc = d.uc
      BY <2>2, ClientsTyped DEF SameClients
    <3> QED
      BY <3>1 DEF Clientele, DrvTypes
  <2>4. FitsClients(uc, s.user, s.peers)
    BY <1>1, <2>2, ClientsTyped DEF FitsClients
  <2> HIDE DEF uc, e
  <2>5. /\ Sound(e) /\ e.ptr = s.ptr /\ e.uc = uc /\ e.user = s.user /\ e.peers = s.peers
        /\ e.faults = s.faults
        /\ SameOpen(s, e) /\ SameState(s, e)
    BY <2>2, <2>3, <2>4, ClienteleKeeps
  <2>6. /\ e.uc = uc /\ ~e.running /\ e.open = d.open /\ e.ptr = d.ptr /\ e.configured = d.configured
        /\ e.peers = d.peers /\ e.faults = d.faults /\ e.user = d.user
    BY <2>2, <2>5 DEF SameClients, SameOpen, SameState
  <2>7. \A v \in Clients : (Alive(e, v) <=> Alive(d, v)) /\ (v # u => e.uc[v] = d.uc[v])
    BY <1>1, <1>3, <2>6 DEF Alive, uc
  <2>8. DriverInv(e)
    BY <2>5, <2>6, <2>7 DEF DriverInv, Equipped
  <2>9. e.uc[u].phase = "started" /\ Alive(d, u)
    BY <1>1, <1>3, <2>6 DEF Alive, uc
  <2>10. Served(e)
    <3>1. ASSUME NEW v \in Clients \ e.peers, e.uc[v].phase = "open"
          PROVE  FALSE
      <4>1. v # u /\ Alive(e, v)
        BY <2>9, <3>1 DEF Alive
      <4>2. v \in d.peers
        BY <2>7, <2>9, <4>1 DEF Served
      <4> QED
        BY <2>6, <3>1, <4>2
    <3> QED
      BY <2>6, <2>7, <3>1 DEF Served
  <2> QED
    BY <1>3, <2>1, <2>6, <2>8, <2>10 DEF uc
<1> QED
  BY <1>2, <1>3

(* The connection is closed; Stop is still to come. *)
LEMMA ClientCut ==
    ASSUME profile \in Profiles, NEW d, DriverInv(d), Served(d), NEW u \in Clients
    PROVE  LET e == IOServiceClose(d, u)
           IN  /\ DriverInv(e) /\ Served(e)
               /\ e.uc = IF Alive(d, u) THEN [d.uc EXCEPT ![u].cut = TRUE] ELSE d.uc
               /\ e.peers = d.peers /\ e.faults = d.faults /\ SameBus(d, e)
<1>1. Sound(d) /\ d.uc \in [Clients -> [phase : {"none", "started", "open"}, cut : BOOLEAN]]
  BY ClientsTyped DEF DriverInv, FitsClients
<1>2. CASE ~Alive(d, u)
  BY <1>2 DEF IOServiceClose, SameBus
<1>3. CASE Alive(d, u)
  <2> DEFINE uc == [d.uc EXCEPT ![u].cut = TRUE]
             e == IOServiceClose(d, u)
  <2>1. e = Clientele(d, uc, d.user, d.peers)
    <3>1. d \in DrvTypes
      BY <1>1, ClientsTyped
    <3> QED
      BY <1>3, <3>1 DEF IOServiceClose, Clientele, DrvTypes
  <2>2. FitsClients(uc, d.user, d.peers)
    BY <1>1, ClientsTyped DEF FitsClients
  <2> HIDE DEF uc, e
  <2>3. /\ Sound(e) /\ e.ptr = d.ptr /\ e.uc = uc /\ e.user = d.user /\ e.peers = d.peers
        /\ e.faults = d.faults
        /\ SameMarks(d, e) /\ SameOpen(d, e) /\ SameState(d, e)
    BY <1>1, <2>1, <2>2, ClienteleKeeps
  <2>4. \A v \in Clients : e.uc[v].phase = d.uc[v].phase
    BY <1>1, <2>3 DEF uc
  <2>5. \A v \in Clients : Alive(e, v) <=> Alive(d, v)
    BY <2>4 DEF Alive
  <2>6. DriverInv(e) /\ Served(e)
    BY <2>3, <2>4, <2>5 DEF DriverInv, Served, Equipped, SameOpen, SameState
  <2> QED
    BY <1>3, <2>3, <2>6 DEF uc, e, SameMarks, SameBus
<1> QED
  BY <1>2, <1>3

(* Stop closes what is open and forgets the client. *)
LEMMA ClientStopped ==
    ASSUME profile \in Profiles, NEW d, DriverInv(d), Served(d),
           NEW u \in Clients, Alive(d, u), NEW F
    PROVE  LET e == UcStop(d, u, F)
           IN  /\ DriverInv(e) /\ Served(e)
               /\ e.uc = [d.uc EXCEPT ![u] = Closed]
               /\ e.peers = d.peers \ {u} /\ e.faults = d.faults
<1> DEFINE c == UcClose(d, u, F).drv
           uc == [d.uc EXCEPT ![u] = Closed]
           peers == c.peers \ {u}
           e == UcStop(d, u, F)
<1>1. Sound(d) /\ d.uc \in [Clients -> [phase : {"none", "started", "open"}, cut : BOOLEAN]]
  BY ClientsTyped DEF DriverInv, FitsClients
<1>2. /\ DriverInv(c) /\ Served(c)
      /\ c.uc = IF d.uc[u].phase = "open" THEN [d.uc EXCEPT ![u].phase = "started"] ELSE d.uc
      /\ d.uc[u].phase = "open" => ~c.running
      /\ c.peers = d.peers /\ c.faults = d.faults
  BY ClientCloses
<1>3. /\ Sound(c) /\ [c.uc EXCEPT ![u] = Closed] = uc
      /\ \A v \in Clients : v # u => c.uc[v] = d.uc[v]
      /\ c.uc[u].phase # "open"
      /\ Alive(c, u)
  BY <1>1, <1>2 DEF DriverInv, Alive
<1>4. e = Clientele(c, uc, None, peers)
  <2> HIDE DEF c
  <2>1. c \in DrvTypes
    BY <1>3, ClientsTyped
  <2>2. e = [c EXCEPT !.user = None, !.uc[u] = Closed, !.peers = @ \ {u}]
    BY DEF UcStop, c
  <2> QED
    BY <1>3, <2>1, <2>2 DEF Clientele, DrvTypes
<1>5. FitsClients(uc, None, peers)
  <2>1. Closed \in [phase : {"none", "started", "open"}, cut : BOOLEAN]
    BY DEF Closed
  <2>2. c.peers \in SUBSET Clients
    BY <1>3, ClientsTyped DEF FitsClients
  <2> QED
    BY <1>1, <2>1, <2>2 DEF FitsClients
<1> HIDE DEF c, e, uc, peers
<1>6. /\ Sound(e) /\ e.ptr = c.ptr /\ e.uc = uc /\ e.user = None /\ e.peers = peers
      /\ e.faults = c.faults
      /\ SameMarks(c, e) /\ SameOpen(c, e) /\ SameState(c, e)
  BY <1>3, <1>4, <1>5, ClienteleKeeps
<1>7. e.peers = c.peers \ {u}
  BY <1>6 DEF peers
<1>8. /\ \A v \in Clients : v # u => e.uc[v] = c.uc[v]
      /\ ~Alive(e, u) /\ e.uc[u].phase = "none"
  BY <1>1, <1>3, <1>6 DEF uc, Closed, Alive
<1>9. \A v \in Clients : Alive(e, v) => v # u /\ Alive(c, v)
  BY <1>8 DEF Alive
<1>10. DriverInv(e)
  BY <1>2, <1>6, <1>9 DEF DriverInv, Equipped, SameOpen, SameState
<1>11. Served(e)
  <2>1. ASSUME NEW v \in Clients, NEW w \in Clients, v # w, Alive(e, v), Alive(e, w)
        PROVE  v \in e.peers
    BY <1>2, <1>7, <1>9, <2>1 DEF Served
  <2>2. ASSUME NEW v \in Clients \ e.peers, e.uc[v].phase = "open"
        PROVE  FALSE
    <3>1. Alive(e, v) /\ v # u /\ Alive(c, v)
      BY <1>8, <2>2 DEF Alive
    <3>2. v \in c.peers
      BY <1>2, <1>3, <3>1 DEF Served
    <3> QED
      BY <1>7, <2>2, <3>1, <3>2
  <2>3. ASSUME e.running
        PROVE  \E v \in Clients : e.uc[v].phase = "open"
    <3>1. PICK v \in Clients : c.uc[v].phase = "open"
      BY <1>2, <1>6, <2>3 DEF Served, SameState
    <3>2. v # u
      BY <1>3, <3>1
    <3> QED
      BY <1>8, <3>1, <3>2
  <2> QED
    BY <2>1, <2>2, <2>3 DEF Served
<1> QED
  BY <1>2, <1>6, <1>10, <1>11, <1>7 DEF uc, e

(* A user client's channel methods, for which nothing but the bus changes. *)
LEMMA ClientOpensChannel ==
    ASSUME profile \in Profiles, NEW d, DriverInv(d), Served(d),
           NEW u \in Clients, NEW c \in {0, 1}, NEW F
    PROVE  LET r == UcOpenChannel(d, u, c, F)
           IN  /\ DriverInv(r.drv) /\ Served(r.drv) /\ r.ok \in BOOLEAN
               /\ SameClients(d, r.drv) /\ Reaches(d, r.drv)
               /\ r.ok => Reaching(r.drv)
<1>1. CASE d.uc[u].phase # "open"
  BY <1>1 DEF UcOpenChannel, Ret, SameClients, Reaches
<1>2. CASE d.uc[u].phase = "open"
  <2> DEFINE r == OpenChannel(d, c, F)
  <2>1. UcOpenChannel(d, u, c, F) = r
    BY <1>2 DEF UcOpenChannel
  <2>2. Sound(d)
    BY DEF DriverInv
  <2>3. /\ Sound(r.drv) /\ r.drv.ptr = d.ptr /\ r.ok \in BOOLEAN
        /\ Reaches(d, r.drv) /\ (r.ok => Reaching(r.drv))
        /\ SameClients(d, r.drv) /\ SameOpen(d, r.drv) /\ SameState(d, r.drv)
    BY <2>2, OpenChannelKeeps
  <2> HIDE DEF r
  <2>4. DriverInv(r.drv) /\ Served(r.drv)
    BY <2>3 DEF DriverInv, Served, Equipped, Alive, SameClients, SameOpen, SameState
  <2> QED
    BY <2>1, <2>3, <2>4
<1> QED
  BY <1>1, <1>2

(* CloseChannel of one client keeps what holds of the driver and all       *)
(* clients.                                                                *)
LEMMA ClientClosesChannel ==
    ASSUME profile \in Profiles, NEW d, DriverInv(d), Served(d),
           NEW u \in Clients, NEW c \in {0, 1}, NEW F
    PROVE  LET e == UcCloseChannel(d, u, c, F).drv
           IN  DriverInv(e) /\ Served(e) /\ SameClients(d, e)
<1>1. CASE d.uc[u].phase # "open"
  BY <1>1 DEF UcCloseChannel, Ret, SameClients
<1>2. CASE d.uc[u].phase = "open"
  <2> DEFINE e == CloseChannel(d, c, F).drv
  <2>1. UcCloseChannel(d, u, c, F).drv = e
    BY <1>2 DEF UcCloseChannel
  <2>2. Sound(d)
    BY DEF DriverInv
  <2>3. /\ Sound(e) /\ e.ptr = d.ptr
        /\ SameClients(d, e) /\ SameOpen(d, e) /\ SameState(d, e)
    BY <2>2, CloseChannelKeeps
  <2> HIDE DEF e
  <2>4. DriverInv(e) /\ Served(e)
    BY <2>3 DEF DriverInv, Served, Equipped, Alive, SameClients, SameOpen, SameState
  <2> QED
    BY <2>1, <2>3, <2>4
<1> QED
  BY <1>1, <1>2
-----------------------------------------------------------------------------
(* The connections.                                                        *)
W(d, im) == [drv |-> d, impl |-> im]
Impls == [Conns -> [connection : Clients \cup {None}, is_connected : BOOLEAN,
                    is_open : BOOLEAN, mapped : BOOLEAN]]

(* What a call leaves is compared with what it found.                      *)
LEMMA OnlyOneAlone ==
    ASSUME NEW d, Served(d), NEW u, Alive(d, u), NEW v, Alive(d, v), u # v
    PROVE  v \in d.peers
  BY DEF Served, Alive

(* The connections have their types, and one on a client that is alive has *)
(* a client.                                                               *)
LEMMA ImplsTyped ==
    ASSUME NEW d, NEW im, Linked(d, im)
    PROVE  im \in Impls /\ (None \notin Clients =>
             \A i \in Conns : Alive(d, im[i].connection) => im[i].connection # None)
  BY DEF Linked, Impls, Alive

(* CANClient::open *)
LEMMA ConnectionOpens ==
    ASSUME profile \in Profiles, NEW d, NEW im, WorldInv(d, im),
           NEW i \in Conns, im[i] = NoImpl, NEW u \in Clients, ~Alive(d, u), NEW F
    PROVE  LET r == Open(W(d, im), i, u, F)
           IN  /\ WorldInv(r.drv, r.impl) /\ r.ok \in BOOLEAN /\ r.drv.faults = d.faults
               /\ \A j \in Conns : j # i => r.impl[j] = im[j]
<1>1. /\ DriverInv(d) /\ Served(d) /\ Linked(d, im) /\ OnBus(d, im) /\ im \in Impls
      /\ None \notin Clients
  BY ImplsTyped, Constants DEF WorldInv
<1>2. CASE life # "started"
  BY <1>2 DEF Open, Result, W
<1>3. CASE life = "started"
  <2> DEFINE r == UcOpen(UcStart(d, u), u, F)
             e == r.drv
             uc == [d.uc EXCEPT ![u] = [phase |-> IF r.ok THEN "open" ELSE "started", cut |-> FALSE]]
  <2>1. /\ DriverInv(e) /\ Served(e) /\ r.ok \in BOOLEAN /\ e.uc = uc
        /\ \A v \in Clients : Alive(e, v) /\ v \notin e.peers => v = u
        /\ e.faults = d.faults
    <3>1. DriverInv(e) /\ Served(e) /\ r.ok \in BOOLEAN
      BY <1>1, <1>3, ClientOpens
    <3>2. e.uc = uc
      BY <1>1, <1>3, ClientOpens
    <3>3. \A v \in Clients : Alive(e, v) /\ v \notin e.peers => v = u
      BY <1>1, <1>3, ClientOpens
    <3>4. SameRest(d, e)
      BY <1>1, <1>3, ClientOpens
    <3> QED
      BY <3>1, <3>2, <3>3, <3>4 DEF SameRest
  <2>2. d.uc \in [Clients -> [phase : {"none", "started", "open"}, cut : BOOLEAN]]
    BY <1>1, ClientsTyped DEF DriverInv, FitsClients
  <2>3. /\ \A v \in Clients : v # u => uc[v] = d.uc[v]
        /\ uc[u] = [phase |-> IF r.ok THEN "open" ELSE "started", cut |-> FALSE]
    BY <2>2
  <2>4. \A j \in Conns : im[j].connection # u
    BY <1>1, <1>3 DEF Linked
  <2>5. im[i].connection = None /\ im[i].is_open = FALSE
    BY DEF NoImpl
  <2>6. CASE ~r.ok
    <3> DEFINE k == IOServiceClose(e, u)
    <3>1. Open(W(d, im), i, u, F) = Result(k, [im EXCEPT ![i].connection = None], FALSE)
      BY <1>3, <2>6 DEF Open, W
    <3>2. [im EXCEPT ![i].connection = None] = im
      BY <1>1, <2>5 DEF Impls
    <3> HIDE DEF r, uc
    <3>3. Alive(e, u)
      BY <2>1, <2>3, <2>6 DEF Alive
    <3>4. /\ DriverInv(k) /\ Served(k) /\ k.uc = [e.uc EXCEPT ![u].cut = TRUE]
          /\ k.peers = e.peers /\ k.faults = e.faults
      BY <2>1, <3>3, ClientCut
    <3> HIDE DEF k
    <3>5. e.uc \in [Clients -> [phase : {"none", "started", "open"}, cut : BOOLEAN]]
      BY <2>1, ClientsTyped DEF DriverInv, FitsClients
    <3>6. /\ \A v \in Clients : v # u => k.uc[v] = d.uc[v]
          /\ k.uc[u].phase = "started"
      BY <2>1, <2>3, <2>6, <3>4, <3>5
    <3>7. Linked(k, im)
      BY <1>1, <2>4, <3>6 DEF Linked, Alive
    <3>8. OnBus(k, im)
      <4>1. \A v : Alive(k, v) => Alive(e, v)
        BY <3>4, <3>5 DEF Alive
      <4> QED
        BY <2>1, <2>4, <3>4, <4>1 DEF OnBus, Alive
    <3>9. Open(W(d, im), i, u, F) = [drv |-> k, impl |-> im, ok |-> FALSE]
      BY <3>1, <3>2 DEF Result
    <3> QED
      BY <2>1, <3>4, <3>7, <3>8, <3>9 DEF WorldInv
  <2>7. CASE r.ok
    <3> DEFINE mapped == "map" \notin F /\ "ring" \in e.ptr
               x == [im EXCEPT ![i].connection = u, ![i].is_connected = TRUE, ![i].mapped = mapped]
    <3>1. Open(W(d, im), i, u, F) = Result(e, x, TRUE)
      BY <1>3, <2>7 DEF Open, W
    <3>2. x \in Impls /\ x[i].connection = u /\ ~x[i].is_open
          /\ \A j \in Conns : j # i => x[j] = im[j]
      <4>0. mapped \in BOOLEAN
        OBVIOUS
      <4> HIDE DEF mapped
      <4> DEFINE y == [im[i] EXCEPT !.connection = u, !.is_connected = TRUE, !.mapped = mapped]
      <4>1. x = [im EXCEPT ![i] = y]
        BY <1>1 DEF Impls
      <4>2. im[i] \in [connection : Clients \cup {None}, is_connected : BOOLEAN,
                       is_open : BOOLEAN, mapped : BOOLEAN] /\ ~im[i].is_open
        BY <1>1, <2>5 DEF Impls, NoImpl
      <4>3. y \in [connection : Clients \cup {None}, is_connected : BOOLEAN,
                   is_open : BOOLEAN, mapped : BOOLEAN]
            /\ y.connection = u /\ ~y.is_open
        BY <1>1, <2>5, <4>0, <4>2
      <4> HIDE DEF x, y
      <4> QED
        BY <1>1, <4>1, <4>3 DEF Impls
    <3> HIDE DEF r, uc, x
    <3>3. Linked(e, x)
      <4>1. \A j \in Conns : x[j].connection # None =>
               Alive(e, x[j].connection) /\ ~e.uc[x[j].connection].cut
        BY <1>1, <1>3, <2>1, <2>3, <2>4, <2>7, <3>2 DEF Linked, Alive
      <4>2. \A j, k \in Conns : x[j].connection # None /\ x[j].connection = x[k].connection => j = k
        BY <1>1, <2>4, <3>2 DEF Linked
      <4>3. \A v \in Clients : e.uc[v].phase = "open" /\ ~e.uc[v].cut =>
               \E j \in Conns : x[j].connection = v
        <5> SUFFICES ASSUME NEW v \in Clients, v # u, d.uc[v].phase = "open", ~d.uc[v].cut
                     PROVE  \E j \in Conns : x[j].connection = v
          BY <2>1, <2>3, <3>2
        <5>1. PICK j \in Conns : im[j].connection = v
          BY <1>1 DEF Linked
        <5>2. j # i
          BY <1>1, <2>5, <5>1
        <5> QED
          BY <3>2, <5>1, <5>2
      <4> QED
        BY <1>3, <3>2, <4>1, <4>2, <4>3 DEF Linked, Impls
    <3>4. OnBus(e, x)
      BY <2>1, <2>4, <3>2 DEF OnBus, Alive
    <3> QED
      BY <2>1, <3>1, <3>2, <3>3, <3>4 DEF WorldInv, Result
  <2> QED
    BY <2>1, <2>6, <2>7
<1> QED
  BY <1>2, <1>3

(* CANClient::openChannel *)
LEMMA ConnectionOpensChannel ==
    ASSUME profile \in Profiles, NEW d, NEW im, WorldInv(d, im),
           NEW i \in Conns, NEW c \in {0, 1}, NEW F
    PROVE  LET r == ChannelOpen(W(d, im), i, c, F)
           IN  /\ WorldInv(r.drv, r.impl) /\ r.ok \in BOOLEAN /\ r.drv.faults = d.faults
               /\ \A j \in Conns : j # i \/ im[j] = NoImpl => r.impl[j] = im[j]
<1> DEFINE u == im[i].connection
           r == UcOpenChannel(d, u, c, F)
           e == r.drv
           x == IF r.ok THEN [im EXCEPT ![i].is_open = TRUE] ELSE im
<1>1. DriverInv(d) /\ Served(d) /\ Linked(d, im) /\ OnBus(d, im) /\ im \in Impls
  BY ImplsTyped DEF WorldInv
<1>2. CASE ~im[i].is_connected \/ ~Callable(d, u)
  <2>1. ChannelOpen(W(d, im), i, c, F) = [drv |-> d, impl |-> im, ok |-> FALSE]
    BY <1>2 DEF ChannelOpen, Result, W
  <2> QED
    BY <2>1
<1>3. CASE im[i].is_connected /\ Callable(d, u)
  <2>1. ChannelOpen(W(d, im), i, c, F) = [drv |-> e, impl |-> x, ok |-> r.ok]
    BY <1>3 DEF ChannelOpen, Result, W
  <2>2. u \in Clients /\ im[i] # NoImpl
    BY <1>3 DEF Callable, Alive, NoImpl
  <2>3. /\ DriverInv(e) /\ Served(e) /\ r.ok \in BOOLEAN
        /\ SameClients(d, e) /\ Reaches(d, e) /\ (r.ok => Reaching(e))
    BY <1>1, <2>2, ClientOpensChannel
  <2> HIDE DEF r
  <2>4. /\ x \in Impls /\ \A j \in Conns : x[j].connection = im[j].connection
        /\ \A j \in Conns : j # i => x[j] = im[j]
    BY <1>1 DEF Impls
  <2>5. ~r.ok => x = im
    OBVIOUS
  <2> HIDE DEF x
  <2>6. Linked(e, x)
    BY <1>1, <2>3, <2>4 DEF Linked, SameClients, Alive, Impls
  <2>7. OnBus(e, x)
    BY <1>1, <2>3, <2>4, <2>5 DEF OnBus, Reaches, SameClients, Alive
  <2>8. e.faults = d.faults
    BY <2>3 DEF SameClients
  <2>9. \A j \in Conns : j # i \/ im[j] = NoImpl => x[j] = im[j]
    BY <2>2, <2>4
  <2> HIDE DEF e, u
  <2> QED
    BY <2>1, <2>3, <2>6, <2>7, <2>8, <2>9 DEF WorldInv
<1> QED
  BY <1>2, <1>3

(* CANClient::closeChannel: another client that is alone does not lose the *)
(* bus, for there is none beside this one.                                 *)
LEMMA ConnectionClosesChannel ==
    ASSUME profile \in Profiles, NEW d, NEW im, WorldInv(d, im),
           NEW i \in Conns, NEW c \in {0, 1}, NEW F
    PROVE  LET r == ChannelClose(W(d, im), i, c, F)
           IN  /\ WorldInv(r.drv, r.impl) /\ r.drv.faults = d.faults
               /\ r.impl = [im EXCEPT ![i].is_open = FALSE]
<1> DEFINE u == im[i].connection
           e == IF Callable(d, u) THEN UcCloseChannel(d, u, c, F).drv ELSE d
           x == [im EXCEPT ![i].is_open = FALSE]
<1>1. /\ DriverInv(d) /\ Served(d) /\ Linked(d, im) /\ OnBus(d, im) /\ im \in Impls
      /\ None \notin Clients
  BY ImplsTyped, Constants DEF WorldInv
<1>2. ChannelClose(W(d, im), i, c, F) = [drv |-> e, impl |-> x, ok |-> TRUE]
  BY DEF ChannelClose, Result, W
<1>3. /\ x \in Impls /\ \A j \in Conns : x[j].connection = im[j].connection
      /\ \A j \in Conns : j # i => x[j] = im[j]
      /\ ~x[i].is_open
  BY <1>1 DEF Impls
<1>4. DriverInv(e) /\ Served(e) /\ SameClients(d, e)
  <2>1. CASE Callable(d, u)
    BY <1>1, <2>1, ClientClosesChannel DEF Callable, Alive
  <2>2. CASE ~Callable(d, u)
    BY <1>1, <2>2 DEF SameClients
  <2> QED
    BY <2>1, <2>2
<1>5. ~Callable(d, u) => e = d
  OBVIOUS
<1> HIDE DEF e, x
<1>6. Linked(e, x)
  BY <1>1, <1>3, <1>4 DEF Linked, SameClients, Alive, Impls
<1>7. OnBus(e, x)
  <2> SUFFICES ASSUME NEW j \in Conns, x[j].is_open, Alive(e, x[j].connection),
                      x[j].connection \notin e.peers
               PROVE  Reaching(e)
    BY DEF OnBus
  <2>1. /\ j # i /\ x[j] = im[j] /\ Alive(d, im[j].connection)
        /\ im[j].connection \notin d.peers
    BY <1>3, <1>4 DEF SameClients, Alive
  <2>2. ~Callable(d, u)
    <3> SUFFICES ASSUME Callable(d, u) PROVE FALSE
      OBVIOUS
    <3>1. Alive(d, u) /\ im[j].connection # u
      BY <1>1, <2>1 DEF Callable, Alive, Linked
    <3> QED
      BY <1>1, <2>1, <3>1, OnlyOneAlone
  <2> QED
    BY <1>1, <1>5, <2>1, <2>2 DEF OnBus
<1> QED
  BY <1>2, <1>4, <1>6, <1>7 DEF WorldInv, SameClients, x

(* CANClient::close: nothing of connection i is left, whatever it was.     *)
LEMMA ConnectionCloses ==
    ASSUME profile \in Profiles, NEW d, NEW im, WorldInv(d, im),
           NEW i \in Conns, NEW c \in {0, 1}, NEW F
    PROVE  LET r == Close(W(d, im), i, c, F)
           IN  /\ WorldInv(r.drv, r.impl) /\ r.drv.faults = d.faults
               /\ r.impl = [im EXCEPT ![i] = NoImpl]
<1> DEFINE u == im[i].connection
           s == IF im[i].is_open THEN ChannelClose(W(d, im), i, c, F).drv ELSE d
           y == [im EXCEPT ![i].is_open = FALSE]
           x == [im EXCEPT ![i] = NoImpl]
           k == UcClose(s, u, F).drv
           e == IF Callable(s, u) THEN IOServiceClose(k, u) ELSE s
<1>1. im \in Impls /\ None \notin Clients
  BY ImplsTyped, Constants DEF WorldInv
<1>2. Close(W(d, im), i, c, F) = [drv |-> e, impl |-> x, ok |-> TRUE]
  BY DEF Close, Result, W
<1>3. WorldInv(s, y) /\ s.faults = d.faults
  <2>1. CASE im[i].is_open
    BY <2>1, ConnectionClosesChannel
  <2>2. CASE ~im[i].is_open
    <3>1. y = im
      BY <1>1, <2>2 DEF Impls
    <3> QED
      BY <2>2, <3>1
  <2> QED
    BY <2>1, <2>2
<1> HIDE DEF s
<1>4. DriverInv(s) /\ Served(s) /\ Linked(s, y) /\ OnBus(s, y)
  BY <1>3 DEF WorldInv
<1>5. /\ y \in Impls /\ y[i].connection = u /\ \A j \in Conns : j # i => y[j] = im[j]
  BY <1>1 DEF Impls
<1>6. /\ x \in Impls /\ x[i].connection = None /\ ~x[i].is_open
      /\ \A j \in Conns : j # i => x[j] = y[j]
  BY <1>1 DEF Impls, NoImpl
<1> HIDE DEF x, y
<1>7. s.uc \in [Clients -> [phase : {"none", "started", "open"}, cut : BOOLEAN]]
  BY <1>4, ClientsTyped DEF DriverInv, FitsClients
<1>8. CASE ~Callable(s, u)
  <2>1. e = s
    BY <1>8
  <2>2. Linked(s, x)
    <3>1. \A v \in Clients : s.uc[v].phase = "open" /\ ~s.uc[v].cut =>
             \E j \in Conns : x[j].connection = v
      <4> SUFFICES ASSUME NEW v \in Clients, s.uc[v].phase = "open", ~s.uc[v].cut
                   PROVE  \E j \in Conns : x[j].connection = v
        OBVIOUS
      <4>1. PICK j \in Conns : y[j].connection = v
        BY <1>4 DEF Linked
      <4>2. Callable(s, v)
        BY DEF Callable, Alive
      <4>3. j # i
        BY <1>5, <1>8, <4>1, <4>2
      <4> QED
        BY <1>6, <4>1, <4>3
    <3>2. \A j \in Conns : x[j].connection # None => x[j] = y[j]
      BY <1>6
    <3> QED
      BY <1>4, <1>6, <3>1, <3>2 DEF Linked, Impls
  <2>3. OnBus(s, x)
    BY <1>4, <1>6 DEF OnBus
  <2> QED
    BY <1>2, <1>3, <1>4, <2>1, <2>2, <2>3 DEF WorldInv, x
<1>9. CASE Callable(s, u)
  <2>1. u \in Clients /\ Alive(s, u)
    BY <1>9 DEF Callable, Alive
  <2>2. /\ DriverInv(k) /\ Served(k)
        /\ k.uc = IF s.uc[u].phase = "open" THEN [s.uc EXCEPT ![u].phase = "started"] ELSE s.uc
        /\ k.peers = s.peers /\ k.faults = s.faults
    BY <1>4, <2>1, ClientCloses
  <2> HIDE DEF k
  <2>3. /\ k.uc \in [Clients -> [phase : {"none", "started", "open"}, cut : BOOLEAN]]
        /\ \A v \in Clients : v # u => k.uc[v] = s.uc[v]
        /\ Alive(k, u)
    BY <1>7, <2>1, <2>2 DEF Alive
  <2>4. /\ DriverInv(e) /\ Served(e)
        /\ e.uc = IF Alive(k, u) THEN [k.uc EXCEPT ![u].cut = TRUE] ELSE k.uc
        /\ e.peers = k.peers /\ e.faults = k.faults
    BY <1>9, <2>1, <2>2, ClientCut
  <2> HIDE DEF e
  <2>5. /\ \A v \in Clients : v # u => e.uc[v] = s.uc[v]
        /\ e.uc[u].cut = TRUE
    BY <2>1, <2>3, <2>4
  <2>6. Linked(e, x)
    <3>1. \A v \in Clients : e.uc[v].phase = "open" /\ ~e.uc[v].cut =>
             \E j \in Conns : x[j].connection = v
      <4> SUFFICES ASSUME NEW v \in Clients, e.uc[v].phase = "open", ~e.uc[v].cut
                   PROVE  \E j \in Conns : x[j].connection = v
        OBVIOUS
      <4>1. v # u /\ s.uc[v].phase = "open" /\ ~s.uc[v].cut
        BY <2>5
      <4>2. PICK j \in Conns : y[j].connection = v
        BY <1>4, <4>1 DEF Linked
      <4> QED
        BY <1>5, <1>6, <4>1, <4>2
    <3>2. \A j \in Conns : x[j].connection # None => x[j] = y[j] /\ x[j].connection # u
      BY <1>1, <1>4, <1>5, <1>6, <2>1 DEF Linked
    <3> QED
      BY <1>4, <1>6, <2>5, <3>1, <3>2 DEF Linked, Impls, Alive
  <2>7. OnBus(e, x)
    <3> SUFFICES ASSUME NEW j \in Conns, x[j].is_open, Alive(e, x[j].connection)
                 PROVE  x[j].connection \in e.peers
      BY DEF OnBus
    <3>1. j # i /\ x[j] = y[j] /\ x[j].connection \in Clients
      BY <1>6 DEF Alive
    <3>2. x[j].connection # u
      BY <1>1, <1>4, <1>5, <3>1, <2>1 DEF Linked
    <3>3. Alive(s, x[j].connection)
      BY <2>5, <3>1, <3>2 DEF Alive
    <3>4. x[j].connection \in s.peers
      BY <1>4, <2>1, <3>2, <3>3, OnlyOneAlone
    <3> QED
      BY <2>2, <2>4, <3>4
  <2> QED
    <3>1. WorldInv(e, x) /\ e.faults = d.faults
      BY <1>3, <2>2, <2>4, <2>6, <2>7 DEF WorldInv
    <3> QED
      BY <1>2, <3>1 DEF x
<1> QED
  BY <1>8, <1>9

-----------------------------------------------------------------------------
(* The steps of the driver.                                                *)

(* Where life and profile stay, the next state is what a call left. *)
LEMMA WorldCarries ==
    ASSUME UNCHANGED <<life, profile>>
    PROVE  WorldInv(drv, impl)' <=> WorldInv(drv', impl')
  BY DEF WorldInv, DriverInv, Sound, DrvTypes, Referenced, OpenAsFlagged, DataSettled,
         TwoInterfaces, Marks, Commands, Serving, Equipped, Served, Alive, Linked, OnBus, Reaching

(* Sound speaks of profile, which no step after the first changes. *)
LEMMA SoundCarries ==
    ASSUME UNCHANGED profile
    PROVE  Sound(drv)' <=> Sound(drv')
  BY DEF Sound, DrvTypes, Referenced, OpenAsFlagged, DataSettled, TwoInterfaces,
         Marks, Commands

(* A driver without clients serves them all, and no connection is on it.   *)
LEMMA Deserted ==
    ASSUME NEW d, ~d.running, \A u \in Clients : ~Alive(d, u), NEW im
    PROVE  Served(d) /\ OnBus(d, im) /\ \A u \in Clients : d.uc[u].phase # "open"
  BY DEF Served, OnBus, Alive

(* A call that fails at some of its steps leaves the driver sound and its  *)
(* clients alone.                                                          *)
LEMMA FaultsSpent ==
    ASSUME profile \in Profiles, NEW d, Sound(d), d.faults >= drv.faults,
           drv.faults \in 0 .. profile.faults, NEW C, NEW F \in Faults(C)
    PROVE  LET e == Spend(d, F)
           IN  /\ Sound(e) /\ e.ptr = d.ptr /\ e.open = d.open
               /\ e.uc = d.uc /\ e.user = d.user /\ e.peers = d.peers /\ SameState(d, e)
               /\ SameBus(d, e)
<1> DEFINE n == d.faults - Cardinality(F)
           e == [d EXCEPT !.faults = n]
<1>1. profile.faults \in Nat
  BY Constants
<1>2. n \in 0 .. profile.faults
  <2>0. d.faults \in 0 .. profile.faults
    BY DEF Sound, DrvTypes
  <2>1. F = {} \/ \E c, f \in C : F = {c, f}
    BY DEF Faults
  <2>2. IsFiniteSet(F)
    <3>1. ASSUME NEW c, NEW f
          PROVE  IsFiniteSet({c, f})
      <4>1. {c, f} = {c} \cup {f} /\ IsFiniteSet({c})
        BY FS_Singleton
      <4> QED
        BY <4>1, FS_AddElement
    <3>2. CASE F = {}
      BY <3>2, FS_EmptySet
    <3>3. CASE \E c, f \in C : F = {c, f}
      <4>1. PICK c, f : F = {c, f}
        BY <3>3
      <4>2. IsFiniteSet({c, f})
        BY <3>1
      <4> QED
        BY <4>1, <4>2
    <3> QED
      BY <2>1, <3>2, <3>3
  <2>3. Cardinality(F) \in Nat
    BY <2>2, FS_CardinalityType
  <2>4. Cardinality(F) <= drv.faults
    BY DEF Faults
  <2> QED
    BY <1>1, <2>0, <2>3, <2>4
<1> HIDE DEF n
<1>3. Spend(d, F) = e
  BY DEF Spend, n
<1>4. d \in DrvTypes
  BY DEF Sound
<1>5. /\ e \in DrvTypes /\ e.held = d.held /\ e.ptr = d.ptr
      /\ e.uc = d.uc /\ e.user = d.user /\ e.peers = d.peers
      /\ SameMarks(d, e) /\ SameOpen(d, e) /\ SameState(d, e)
  BY <1>2, <1>4 DEF DrvTypes, SameMarks, SameOpen, SameState
<1> HIDE DEF e
<1>6. Sound(e)
  BY <1>5 DEF Sound, Referenced, OpenAsFlagged, DataSettled, SameMarks, SameOpen
<1> QED
  BY <1>3, <1>5, <1>6 DEF SameMarks, SameBus, SameOpen

(* Where a call spends some faults, all else of what it left stays.        *)
LEMMA SpendKeeps ==
    ASSUME profile \in Profiles, NEW d, NEW im, WorldInv(d, im), d.faults >= drv.faults,
           drv.faults \in 0 .. profile.faults, NEW C, NEW F \in Faults(C)
    PROVE  WorldInv(Spend(d, F), im)
<1> DEFINE e == Spend(d, F)
<1>1. Sound(d)
  BY DEF WorldInv, DriverInv
<1>2. /\ Sound(e) /\ e.ptr = d.ptr /\ e.open = d.open
      /\ e.uc = d.uc /\ e.user = d.user /\ e.peers = d.peers /\ SameState(d, e)
      /\ SameBus(d, e)
  BY <1>1, FaultsSpent
<1> HIDE DEF e
<1>3. DriverInv(e) /\ Served(e)
  BY <1>2 DEF WorldInv, DriverInv, Served, Equipped, Alive, SameState
<1>4. Linked(e, im) /\ OnBus(e, im)
  BY <1>2 DEF WorldInv, Linked, OnBus, Reaching, SameBus, Alive
<1> QED
  BY <1>3, <1>4 DEF WorldInv, e

(* The faults left are never more than the profile has. *)
LEMMA FaultsLeft ==
    ASSUME profile \in Profiles, WorldInv(drv, impl)
    PROVE  drv.faults \in 0 .. profile.faults /\ Sound(drv)
  BY DEF WorldInv, DriverInv, Sound, DrvTypes

(* The state at first. *)
LEMMA InitWorld ==
    ASSUME Init
    PROVE  WorldInv(drv, impl) /\ profile \in Profiles
<1>1. profile \in Profiles /\ life = "new" /\ drv = Blank
      /\ impl = [i \in Conns |-> NoImpl]
  BY DEF Init, DriverInit
<1>2. /\ Sound(drv) /\ ~drv.running /\ drv.open = {} /\ drv.uc = [u \in Clients |-> Closed]
  BY <1>1, BlankSound
<1>3. \A u \in Clients : ~Alive(drv, u)
  BY <1>2 DEF Alive, Closed
<1>4. impl \in Impls /\ \A i \in Conns : impl[i].connection = None
  BY <1>1 DEF Impls, NoImpl
<1>5. DriverInv(drv)
  BY <1>1, <1>2, <1>3 DEF DriverInv, Serving
<1>6. Linked(drv, impl)
  BY <1>2, <1>3, <1>4, Deserted DEF Linked, Impls
<1> QED
  BY <1>1, <1>2, <1>3, <1>5, <1>6, Deserted DEF WorldInv

(* USBCANDriver::Start *)
LEMMA StartWorld ==
    ASSUME IInv, Start, UNCHANGED impl
    PROVE  WorldInv(drv, impl)'
<1>1. PICK F \in Faults({"txQueue", "ring"}) :
        LET r == StartImpl(profile, F)
        IN  /\ life = "new"
            /\ life' = IF r.ok THEN "started" ELSE "failed"
            /\ drv' = Spend(r.drv, F)
            /\ UNCHANGED profile
  BY DEF Start
<1> DEFINE r == StartImpl(profile, F)
           d == r.drv
<1>2. /\ profile \in Profiles /\ drv.faults \in 0 .. profile.faults
      /\ profile.faults \in Nat
  BY FaultsLeft, Constants DEF IInv
<1>3. /\ Sound(d) /\ r.ok \in BOOLEAN /\ (r.ok => Equipped(d))
      /\ ~d.running /\ d.open = {} /\ d.faults = profile.faults
      /\ d.uc = [u \in Clients |-> Closed]
  BY <1>2, StartImplKeeps
<1>4. life = "new" /\ life' = (IF r.ok THEN "started" ELSE "failed") /\ drv' = Spend(d, F)
      /\ UNCHANGED profile
  BY <1>1
<1> HIDE DEF r, d
<1>5. /\ Sound(drv') /\ drv'.ptr = d.ptr /\ drv'.open = {} /\ drv'.uc = d.uc
      /\ SameState(d, drv')
  <2>1. d.faults >= drv.faults
    BY <1>2, <1>3
  <2> QED
    BY <1>2, <1>3, <1>4, <2>1, FaultsSpent
<1>6. ~drv'.running /\ (r.ok => Equipped(drv')) /\ \A u \in Clients : ~Alive(drv', u)
  BY <1>3, <1>5 DEF Equipped, SameState, Alive, Closed
<1>7. DriverInv(drv)'
  <2>1. Sound(drv)'
    BY <1>4, <1>5, SoundCarries
  <2> QED
    BY <1>3, <1>4, <1>5, <1>6, <2>1 DEF DriverInv, Serving, Equipped, Alive
<1>8. Served(drv') /\ OnBus(drv', impl) /\ \A u \in Clients : drv'.uc[u].phase # "open"
  BY <1>6, Deserted
<1>9. Linked(drv, impl)'
  <2>1. \A i \in Conns : impl[i].connection = None
    BY <1>4 DEF IInv, WorldInv, Linked
  <2> QED
    BY <1>4, <1>8, <2>1 DEF IInv, WorldInv, Linked
<1> QED
  BY <1>4, <1>7, <1>8, <1>9 DEF WorldInv, Served, OnBus, Reaching, Alive

(* The adapter is unplugged, which disturbs no call. *)
LEMMA UnplugWorld ==
    ASSUME IInv, Unplug, UNCHANGED impl
    PROVE  WorldInv(drv, impl)'
<1>1. life = "started" /\ life' = "leaving" /\ UNCHANGED <<profile, drv, impl>>
  BY DEF Unplug
<1>2. Sound(drv)'
  BY <1>1, SoundCarries DEF IInv, WorldInv, DriverInv
<1>3. DriverInv(drv)'
  BY <1>1, <1>2 DEF IInv, WorldInv, DriverInv, Serving, Equipped
<1>4. Linked(drv, impl)'
  BY <1>1 DEF IInv, WorldInv, Linked
<1> QED
  BY <1>1, <1>3, <1>4 DEF IInv, WorldInv, Served, OnBus, Reaching, Alive

(* The links once no user client is left and none can be made. *)
LEMMA LinkedDeserted ==
    ASSUME Linked(drv, impl), life' \in {"stopped", "freed"}, UNCHANGED impl,
           \A u \in Clients : drv'.uc[u].phase # "open"
    PROVE  Linked(drv, impl)'
  BY DEF Linked

(* USBCANDriver::Stop *)
LEMMA StopWorld ==
    ASSUME IInv, Stop, UNCHANGED impl
    PROVE  WorldInv(drv, impl)'
<1>1. PICK F \in Faults(CommandCalls) :
            /\ life = "leaving"
            /\ \A u \in Clients : ~Alive(drv, u)
            /\ life' = "stopped"
            /\ drv' = Spend([StopImpl(drv, F) EXCEPT !.user = None], F)
            /\ UNCHANGED profile
  BY DEF Stop
<1> DEFINE s == StopImpl(drv, F)
           d == [s EXCEPT !.user = None]
<1>2. /\ profile \in Profiles /\ drv.faults \in 0 .. profile.faults
      /\ Sound(drv) /\ Linked(drv, impl)
  BY FaultsLeft DEF IInv, WorldInv
<1>3. Sound(s) /\ ~s.running /\ s.open = {} /\ SameClients(drv, s)
  BY <1>2, StopImplKeeps
<1>4. drv' = Spend(d, F) /\ life' = "stopped" /\ UNCHANGED profile
  BY <1>1
<1> HIDE DEF s
<1>5. /\ Sound(d) /\ ~d.running /\ d.open = {} /\ d.uc = drv.uc /\ d.faults = drv.faults
  <2>1. d = Clientele(s, s.uc, None, s.peers)
    <3>1. s \in DrvTypes
      BY <1>3, ClientsTyped
    <3> QED
      BY <3>1 DEF Clientele, DrvTypes
  <2>2. FitsClients(s.uc, None, s.peers)
    BY <1>3, ClientsTyped DEF FitsClients
  <2> HIDE DEF d
  <2> QED
    BY <1>3, <2>1, <2>2, ClienteleKeeps DEF SameClients, SameOpen, SameState
<1> HIDE DEF d
<1>6. /\ Sound(drv') /\ drv'.open = {} /\ drv'.uc = drv.uc /\ ~drv'.running
  <2>1. d.faults >= drv.faults
    BY <1>2, <1>5
  <2> QED
    BY <1>2, <1>4, <1>5, <2>1, FaultsSpent DEF SameState
<1>7. \A u \in Clients : ~Alive(drv', u)
  BY <1>1, <1>6 DEF Alive
<1>8. DriverInv(drv)'
  <2>1. Sound(drv)'
    BY <1>4, <1>6, SoundCarries
  <2> QED
    BY <1>4, <1>6, <1>7, <2>1 DEF DriverInv, Serving, Alive
<1>9. Served(drv') /\ OnBus(drv', impl) /\ \A u \in Clients : drv'.uc[u].phase # "open"
  BY <1>6, <1>7, Deserted
<1>10. Linked(drv, impl)'
  BY <1>2, <1>4, <1>9, LinkedDeserted
<1> QED
  BY <1>4, <1>8, <1>9, <1>10 DEF WorldInv, Served, OnBus, Reaching, Alive

(* USBCANDriver::free *)
LEMMA FreeWorld ==
    ASSUME IInv, FreeDriver, UNCHANGED impl
    PROVE  WorldInv(drv, impl)'
<1>1. /\ life \in {"failed", "stopped"} /\ life' = "freed" /\ drv' = Free(drv)
      /\ UNCHANGED profile
  BY DEF FreeDriver
<1>2. /\ profile \in Profiles /\ Sound(drv) /\ Linked(drv, impl)
      /\ ~drv.running /\ drv.open = {} /\ \A u \in Clients : ~Alive(drv, u)
  BY <1>1 DEF IInv, WorldInv, DriverInv, Serving
<1>3. /\ Sound(drv') /\ ~drv'.running /\ drv'.open = {} /\ drv'.uc = drv.uc
  BY <1>1, <1>2, FreeKeeps DEF SameClients
<1>4. \A u \in Clients : ~Alive(drv', u)
  BY <1>2, <1>3 DEF Alive
<1>5. DriverInv(drv)'
  <2>1. Sound(drv)'
    BY <1>1, <1>3, SoundCarries
  <2> QED
    BY <1>1, <1>3, <1>4, <2>1 DEF DriverInv, Serving, Alive
<1>6. Served(drv') /\ OnBus(drv', impl) /\ \A u \in Clients : drv'.uc[u].phase # "open"
  BY <1>3, <1>4, Deserted
<1>7. Linked(drv, impl)'
  BY <1>1, <1>2, <1>6, LinkedDeserted
<1> QED
  BY <1>1, <1>5, <1>6, <1>7 DEF WorldInv, Served, OnBus, Reaching, Alive

(* A queued command comes back: it was an open one if a connection alone   *)
(* on the driver is open, and the bus has it or it is lost.                *)
LEMMA WriteCompleteWorld ==
    ASSUME IInv, WriteComplete, UNCHANGED impl
    PROVE  WorldInv(drv, impl)'
<1>1. /\ profile \in Profiles /\ DriverInv(drv) /\ Served(drv) /\ Linked(drv, impl)
      /\ OnBus(drv, impl) /\ Sound(drv) /\ drv \in DrvTypes
  BY DEF IInv, WorldInv, DriverInv, Sound
<1>2. /\ drv.command \in {"open", "close"} /\ profile.protocol = "slcan" /\ drv.chan = {}
  BY <1>1 DEF WriteComplete, DrvTypes, Commands, Marks
<1> DEFINE bus == IF drv.command = "open" THEN drv.bus \cup {0} ELSE drv.bus \ {0}
<1>3. \/ drv' = Commanded(drv, "lost")
      \/ drv' = Commanded(Marked(drv, {}, bus), "none")
  <2>1. [drv EXCEPT !.command = "none", !.bus = bus] = Commanded(Marked(drv, {}, bus), "none")
    BY <1>1, <1>2 DEF Commanded, Marked, DrvTypes
  <2> QED
    BY <2>1 DEF WriteComplete, Commanded
<1>4. /\ Sound(drv') /\ drv'.ptr = drv.ptr
      /\ SameClients(drv, drv') /\ SameOpen(drv, drv') /\ SameState(drv, drv')
      /\ Reaches(drv, drv')
  <2>1. "lost" \in Commands /\ "none" \in Commands
    BY <1>2 DEF Commands
  <2>2. CASE drv' = Commanded(drv, "lost")
    <3>1. /\ Sound(drv') /\ drv'.ptr = drv.ptr /\ drv'.command = "lost"
          /\ SameClients(drv, drv') /\ SameOpen(drv, drv') /\ SameState(drv, drv')
      BY <1>1, <2>1, <2>2, CommandedKeeps
    <3> QED
      BY <1>2, <3>1 DEF Reaches, Reaching
  <2>3. CASE drv' = Commanded(Marked(drv, {}, bus), "none")
    <3> DEFINE m == Marked(drv, {}, bus)
    <3>1. {} \in SUBSET Marks /\ bus \in SUBSET {0, 1} /\ (drv.command = "open" => bus # {})
      BY <1>1 DEF DrvTypes
    <3> HIDE DEF bus
    <3>2. /\ Sound(m) /\ m.ptr = drv.ptr /\ m.bus = bus
          /\ SameClients(drv, m) /\ SameOpen(drv, m) /\ SameState(drv, m)
      <4>1. profile \in Profiles /\ Sound(drv)
        BY <1>1
      <4>2. ASSUME NEW c \in SUBSET Marks, NEW b \in SUBSET {0, 1}, c \subseteq b
            PROVE  LET e == Marked(drv, c, b)
                   IN  /\ Sound(e) /\ e.ptr = drv.ptr /\ e.bus = b
                       /\ SameClients(drv, e) /\ SameOpen(drv, e) /\ SameState(drv, e)
        BY <4>1, <4>2, MarkedKeeps
      <4>3. {} \subseteq bus
        OBVIOUS
      <4> QED
        BY <3>1, <4>2, <4>3
    <3> HIDE DEF m
    <3>3. /\ Sound(drv') /\ drv'.ptr = m.ptr /\ drv'.bus = bus /\ drv'.command = "none"
          /\ SameClients(m, drv') /\ SameOpen(m, drv') /\ SameState(m, drv')
      <4>1. drv' = Commanded(m, "none")
        BY <2>3 DEF m
      <4> QED
        BY <2>1, <3>2, <4>1, CommandedKeeps
    <3>4. Reaches(drv, drv')
      BY <1>2, <3>1, <3>3 DEF Reaches, Reaching
    <3> QED
      BY <3>2, <3>3, <3>4 DEF SameClients, SameOpen, SameState
  <2> QED
    BY <1>3, <2>2, <2>3
<1> HIDE DEF bus
<1>5. DriverInv(drv') /\ Served(drv')
  BY <1>1, <1>4 DEF DriverInv, Served, Equipped, Alive, SameClients, SameOpen, SameState
<1>6. Linked(drv', impl) /\ OnBus(drv', impl)
  BY <1>1, <1>4 DEF Linked, OnBus, Reaches, Alive, SameClients
<1>7. UNCHANGED <<life, profile>>
  BY DEF WriteComplete
<1> QED
  BY <1>5, <1>6, <1>7, WorldCarries DEF WorldInv

(* A user client's Stop: none that stays loses the driver, the bus or its  *)
(* connection by it.                                                       *)
LEMMA ClientStopsWorld ==
    ASSUME IInv, NEW u \in Clients, ClientStops(u), UNCHANGED impl
    PROVE  WorldInv(drv, impl)'
<1>1. PICK F \in Faults(CommandCalls) :
            /\ Alive(drv, u)
            /\ drv.uc[u].cut \/ life = "leaving"
            /\ drv' = Spend(UcStop(drv, u, F), F)
            /\ UNCHANGED <<life, profile>>
  BY DEF ClientStops
<1> DEFINE d == UcStop(drv, u, F)
<1>2. /\ profile \in Profiles /\ drv.faults \in 0 .. profile.faults
      /\ DriverInv(drv) /\ Served(drv) /\ Linked(drv, impl) /\ OnBus(drv, impl)
      /\ drv.uc \in [Clients -> [phase : {"none", "started", "open"}, cut : BOOLEAN]]
  BY FaultsLeft, ClientsTyped DEF IInv, WorldInv, FitsClients
<1>3. /\ DriverInv(d) /\ Served(d) /\ d.uc = [drv.uc EXCEPT ![u] = Closed]
      /\ d.peers = drv.peers \ {u} /\ d.faults = drv.faults
  BY <1>1, <1>2, ClientStopped
<1>4. drv' = Spend(d, F)
  BY <1>1
<1> HIDE DEF d
<1>5. /\ \A v \in Clients : v # u => d.uc[v] = drv.uc[v]
      /\ ~Alive(d, u) /\ d.uc[u].phase # "open"
  BY <1>2, <1>3 DEF Closed, Alive
<1>6. Linked(d, impl)
  <2>1. \A i \in Conns : impl[i].connection # None /\ life = "started" =>
          Alive(d, impl[i].connection) /\ ~d.uc[impl[i].connection].cut
    BY <1>1, <1>2, <1>5 DEF Linked, Alive
  <2>2. \A v \in Clients : d.uc[v].phase = "open" /\ ~d.uc[v].cut =>
          \E i \in Conns : impl[i].connection = v
    BY <1>2, <1>5 DEF Linked
  <2> QED
    BY <1>2, <2>1, <2>2 DEF Linked
<1>7. OnBus(d, impl)
  <2> SUFFICES ASSUME NEW i \in Conns, Alive(d, impl[i].connection)
               PROVE  impl[i].connection \in d.peers
    BY DEF OnBus
  <2>1. impl[i].connection \in Clients /\ impl[i].connection # u
    BY <1>5 DEF Alive
  <2>2. Alive(drv, impl[i].connection)
    BY <1>5, <2>1 DEF Alive
  <2>3. impl[i].connection \in drv.peers
    BY <1>1, <1>2, <2>1, <2>2, OnlyOneAlone
  <2> QED
    BY <1>3, <2>1, <2>3
<1>8. WorldInv(d, impl)
  BY <1>3, <1>6, <1>7 DEF WorldInv
<1>9. WorldInv(drv', impl')
  <2>1. d.faults >= drv.faults
    BY <1>2, <1>3
  <2> QED
    BY <1>2, <1>4, <1>8, <2>1, SpendKeeps
<1> QED
  BY <1>1, <1>9, WorldCarries

-----------------------------------------------------------------------------
(* The steps of the app.                                                   *)

(* The call of a task or a button spends its faults and is all there is.   *)
LEMMA CallWorld ==
    ASSUME IInv, NEW r, WorldInv(r.drv, r.impl), r.drv.faults = drv.faults,
           NEW C, NEW F \in Faults(C), Becomes(r, F), UNCHANGED <<life, profile>>
    PROVE  WorldInv(drv, impl)' /\ impl' = r.impl
<1>1. profile \in Profiles /\ drv.faults \in 0 .. profile.faults
  BY FaultsLeft DEF IInv
<1>2. drv' = Spend(r.drv, F) /\ impl' = r.impl
  BY DEF Becomes
<1>3. r.drv.faults >= drv.faults
  BY <1>1
<1>4. WorldInv(drv', impl')
  BY <1>1, <1>2, <1>3, SpendKeeps
<1> QED
  BY <1>2, <1>4, WorldCarries

(* Where no call is made the world stays. *)
LEMMA QuietWorld ==
    ASSUME IInv, UNCHANGED <<driverVars, impl>>
    PROVE  WorldInv(drv, impl)'
<1>1. UNCHANGED <<life, profile>> /\ drv' = drv /\ impl' = impl
  BY DEF driverVars
<1> QED
  BY <1>1, WorldCarries DEF IInv

Cleared(im, i) == [im EXCEPT ![i] = NoImpl]

(* Disconnecting object k closes the connection it stands for.             *)
LEMMA DisconnectsWorld ==
    ASSUME IInv, NEW w, WorldInv(w.drv, w.impl), NEW k \in Conns, object[k].impl # None, NEW F
    PROVE  LET r == Disconnects(w, k, F)
           IN  /\ WorldInv(r.drv, r.impl) /\ r.drv.faults = w.drv.faults
               /\ r.impl = Cleared(w.impl, object[k].impl)
<1> DEFINE i == object[k].impl
           c == object[k].channel
<1>1. i \in Conns /\ c \in {0, 1} /\ profile \in Profiles
  BY DEF IInv, AppInv, AppTypes, ObjectType
<1>2. Disconnects(w, k, F) = Close(W(w.drv, w.impl), i, c, F)
  BY DEF Disconnects, Close, ChannelClose, W
<1> HIDE DEF i, c
<1>3. LET r == Close(W(w.drv, w.impl), i, c, F)
      IN  /\ WorldInv(r.drv, r.impl) /\ r.drv.faults = w.drv.faults
          /\ r.impl = [w.impl EXCEPT ![i] = NoImpl]
  BY <1>1, ConnectionCloses
<1> QED
  BY <1>2, <1>3 DEF i, Cleared

(* The driver and the connections as one record, which the calls take and  *)
(* return.                                                                 *)
LEMMA WorldIs ==
    ASSUME IInv
    PROVE  /\ World = W(drv, impl) /\ World.drv = drv /\ World.impl = impl
           /\ WorldInv(World.drv, World.impl) /\ impl \in Impls
<1>1. World = W(drv, impl) /\ World.drv = drv /\ World.impl = impl
  BY DEF World, W
<1> QED
  BY <1>1, ImplsTyped DEF IInv, WorldInv

(* The object taken is used by nobody. *)
LEMMA FreshUnused ==
    ASSUME IInv, Unused # {}
    PROVE  /\ Fresh \in Conns /\ Fresh # None /\ object[Fresh].impl = None
           /\ \A j \in Conns : object[j].impl # Fresh
           /\ \A a \in Adapters : Fresh \notin Holds(a)
           /\ impl[Fresh] = NoImpl
<1>1. Unused \subseteq Nat
  BY ConnectionAssumption DEF Unused, Conns
<1>2. \E k \in Unused : \A j \in Unused : k <= j
  <2>1. PICK k \in Unused : \A j \in Unused : ~ (<<j, k>> \in OpToRel(<, Nat))
    BY <1>1, WFMin, NatLessThanWellFounded, Zenon
  <2>2. \A j \in Unused : ~ (j < k)
    BY <1>1, <2>1 DEF OpToRel
  <2> QED
    BY <1>1, <2>2
<1>3. Fresh \in Unused
  BY <1>2 DEF Fresh
<1>4. Fresh # None
  BY <1>1, <1>3, ConnectionAssumption
<1>5. Fresh \in Conns /\ object[Fresh].impl = None /\ \A j \in Conns : object[j].impl # Fresh
  BY <1>3 DEF Unused
<1> QED
  BY <1>4, <1>5 DEF IInv, AppInv, HoldInv, ImplInv

(* Connections that are gone stay gone, while the app's objects stay.      *)
LEMMA ImplsStay ==
    ASSUME AppInv, UNCHANGED object,
           \A i \in Conns : impl[i] = NoImpl => impl'[i] = NoImpl,
           \A a \in Adapters : connecting'[a].pc = "open" =>
               connecting[a].pc = "open" /\ connecting'[a].object = connecting[a].object
    PROVE  ImplInv'
<1>1. ASSUME NEW a \in Adapters, connecting[a].pc = "open"
      PROVE  connecting[a].object \in Conns
  BY <1>1 DEF AppInv, AppTypes, ConnectType, HoldInv, Orderly
<1> QED
  BY <1>1 DEF AppInv, ImplInv

(* An object that is let go of, with its connection closed.                *)
LEMMA ImplsDisposed ==
    ASSUME AppInv, NEW a \in Adapters, NEW k \in Holds(a), object' = Disposed(k),
           impl' = Cleared(impl, object[k].impl), impl \in Impls,
           connecting[a].pc = "open" => connecting[a].object # k,
           \A b \in Adapters : connecting'[b].pc = "open" =>
               connecting[b].pc = "open" /\ connecting'[b].object = connecting[b].object
    PROVE  ImplInv'
<1>1. /\ k \in Conns /\ object \in [Conns -> [impl : Conns \cup {None}, channel : {0, 1}]]
      /\ None \notin Conns /\ object[k].impl \in Conns
  BY ConnectionAssumption DEF AppInv, AppTypes, ObjectType, AdapterType, ConnectType, OpenType, HoldInv, Holds, Conns
<1>2. /\ \A j \in Conns : j # k => object'[j] = object[j]
      /\ object'[k].impl = None
  BY <1>1 DEF Disposed, NoObject
<1>3. \A i \in Conns : impl'[i] = IF i = object[k].impl THEN NoImpl ELSE impl[i]
  BY DEF Impls, Cleared
<1>4. ASSUME NEW i \in Conns, impl'[i] # NoImpl
      PROVE  \E j \in Conns : object'[j].impl = i
  <2>1. PICK j \in Conns : object[j].impl = i
    BY <1>3, <1>4 DEF AppInv, ImplInv
  <2>2. j # k
    BY <1>3, <1>4, <2>1
  <2> QED
    BY <1>2, <2>1, <2>2
<1>5. ASSUME NEW b \in Adapters, connecting'[b].pc = "open"
      PROVE  LET m == connecting'[b].object
             IN  /\ object'[m].impl = m /\ impl'[m] = NoImpl
                 /\ \A j \in Conns \ {m} : object'[j].impl # m
  <2> DEFINE m == connecting[b].object
  <2>1. /\ connecting'[b].object = m /\ connecting[b].pc = "open"
        /\ m \in Holds(b) /\ m \in Conns
        /\ object[m].impl = m /\ impl[m] = NoImpl
        /\ \A j \in Conns \ {m} : object[j].impl # m
    BY <1>1, <1>5 DEF AppInv, AppTypes, ConnectType, HoldInv, ImplInv, Holds, Orderly
  <2>2. m # k /\ m # None
    BY <1>1, <2>1 DEF AppInv, HoldInv
  <2> HIDE DEF m
  <2>3. object'[m].impl = m /\ impl'[m] = NoImpl
    BY <1>2, <1>3, <2>1, <2>2
  <2>4. \A j \in Conns \ {m} : object'[j].impl # m
    BY <1>2, <2>1, <2>2
  <2> QED
    BY <2>1, <2>3, <2>4
<1> QED
  BY <1>4, <1>5 DEF ImplInv

(* One adapter changes what it holds: it keeps references, lets go of some *)
(* or takes one nobody had.                                                *)
LEMMA HoldsKept ==
    ASSUME HoldInv, NEW a \in Adapters, Orderly(a)',
           \A c \in Adapters : c # a =>
               /\ adapter'[c] = adapter[c] /\ connecting'[c] = connecting[c]
               /\ opening'[c] = opening[c],
           \A k \in Holds(a)' :
               object'[k].impl # None /\ (k \in Holds(a) \/ \A c \in Adapters : k \notin Holds(c)),
           \A c \in Adapters : \A k \in Holds(c) : c # a => object'[k].impl # None
    PROVE  HoldInv'
<1>1. ASSUME NEW c \in Adapters, c # a
      PROVE  Holds(c)' = Holds(c) /\ Orderly(c)'
  BY <1>1 DEF HoldInv, Holds, Orderly
<1>2. \A c \in Adapters : \A k \in Holds(c)' : object'[k].impl # None
  BY <1>1
<1>3. ASSUME NEW b \in Adapters, NEW c \in Adapters, b # c, NEW k, k \in Holds(b)', k \in Holds(c)'
      PROVE  FALSE
  <2>1. CASE b # a /\ c # a
    BY <1>1, <1>3, <2>1 DEF HoldInv
  <2>2. CASE b = a
    BY <1>1, <1>3, <2>2 DEF HoldInv
  <2>3. CASE c = a
    BY <1>1, <1>3, <2>3 DEF HoldInv
  <2> QED
    BY <2>1, <2>2, <2>3
<1>4. \A c \in Adapters : Orderly(c)'
  BY <1>1
<1> QED
  BY <1>2, <1>3, <1>4 DEF HoldInv

(* The values of one adapter, object or task in the place of others.       *)
LEMMA Updated ==
    ASSUME NEW S, NEW T, NEW f \in [S -> T], NEW a \in S, NEW x \in T
    PROVE  /\ [f EXCEPT ![a] = x] \in [S -> T] /\ [f EXCEPT ![a] = x][a] = x
           /\ \A c \in S : c # a => [f EXCEPT ![a] = x][c] = f[c]
  OBVIOUS

(* connectAdapter on the connection of another adapter *)
LEMMA ConnectSharedKeeps ==
    ASSUME IInv, NEW a \in Adapters, ConnectShared(a)
    PROVE  IInv'
<1>1. PICK b \in Sharable(a) :
        /\ object' = [object EXCEPT ![Fresh] = [impl |-> object[adapter[b].client].impl,
                                                channel |-> ChannelOf[a]]]
        /\ adapter' = [adapter EXCEPT ![a] = [@ EXCEPT !.isConnected = TRUE, !.shared = TRUE,
                                                       !.client = Fresh]]
  BY DEF ConnectShared
<1> DEFINE m == adapter[b].client
           i == object[m].impl
           x == [impl |-> i, channel |-> ChannelOf[a]]
           y == [adapter[a] EXCEPT !.isConnected = TRUE, !.shared = TRUE, !.client = Fresh]
<1>2. /\ ~adapter[a].isConnected /\ ~adapter[a].isConnecting /\ Unused # {}
      /\ UNCHANGED <<driverVars, impl, connecting, opening>>
  BY DEF ConnectShared
<1>3. /\ Fresh \in Conns /\ Fresh # None /\ object[Fresh].impl = None
      /\ \A j \in Conns : object[j].impl # Fresh
      /\ \A c \in Adapters : Fresh \notin Holds(c)
      /\ impl[Fresh] = NoImpl
  BY <1>2, FreshUnused
<1>4. AppTypes /\ HoldInv /\ ImplInv
  BY DEF IInv, AppInv
<1>5. /\ b \in Adapters /\ b # a /\ m \in Conns /\ m \in Holds(b)
      /\ i \in Conns /\ i # None /\ ChannelOf[a] \in {0, 1} /\ None \notin Conns
  BY <1>4, ConnectionAssumption, SessionAssumption
     DEF Sharable, Present, AppTypes, AdapterType, ObjectType, HoldInv, Holds, Conns
<1> HIDE DEF m, i
<1>6. object' = [object EXCEPT ![Fresh] = x] /\ adapter' = [adapter EXCEPT ![a] = y]
  BY <1>1 DEF m, i
<1> HIDE DEF Fresh
<1>7. /\ y \in AdapterType /\ y.client = Fresh /\ y.isConnected
      /\ y.isConnecting = adapter[a].isConnecting
      /\ x \in ObjectType /\ x.impl = i
  <2>1. adapter[a] \in AdapterType
    BY <1>4 DEF AppTypes
  <2>2. /\ y \in AdapterType /\ y.client = Fresh /\ y.isConnected
        /\ y.isConnecting = adapter[a].isConnecting
    BY <1>3, <2>1 DEF AdapterType
  <2>3. x \in ObjectType /\ x.impl = i
    BY <1>5 DEF ObjectType
  <2> QED
    BY <2>2, <2>3
<1> HIDE DEF x, y
<1>8. /\ adapter' \in [Adapters -> AdapterType] /\ adapter'[a] = y
      /\ \A c \in Adapters : c # a => adapter'[c] = adapter[c]
  BY <1>4, <1>6, <1>7, Updated DEF AppTypes
<1>9. /\ object' \in [Conns -> ObjectType] /\ object'[Fresh] = x
      /\ \A j \in Conns : j # Fresh => object'[j] = object[j]
  BY <1>3, <1>4, <1>6, <1>7, Updated DEF AppTypes
<1>10. AppTypes'
  BY <1>2, <1>4, <1>8, <1>9 DEF AppTypes
<1>11. HoldInv'
  <2>1. Orderly(a)'
    BY <1>2, <1>3, <1>4, <1>7, <1>8 DEF HoldInv, Orderly, Holds
  <2>2. ASSUME NEW c \in Adapters, NEW k \in Holds(c)
        PROVE  object'[k].impl # None
    <3>1. k \in Conns /\ k # Fresh /\ object[k].impl # None
      BY <1>3, <1>4, <2>2 DEF AppTypes, AdapterType, ConnectType, OpenType, HoldInv, Holds
    <3> QED
      BY <1>9, <3>1
  <2>3. ASSUME NEW k \in Holds(a)'
        PROVE  k \in Holds(a) \/ k = Fresh
    BY <1>2, <1>7, <1>8, <2>3 DEF Holds
  <2>4. object'[Fresh].impl # None
    BY <1>5, <1>7, <1>9
  <2> QED
    BY <1>2, <1>3, <1>4, <1>8, <2>1, <2>2, <2>3, <2>4, HoldsKept
<1>12. ImplInv'
  <2>1. ASSUME NEW j \in Conns, impl'[j] # NoImpl
        PROVE  \E n \in Conns : object'[n].impl = j
    <3>1. PICK n \in Conns : object[n].impl = j
      BY <1>2, <1>4, <2>1 DEF ImplInv
    <3>2. n # Fresh
      BY <1>3, <1>5, <3>1
    <3> QED
      BY <1>9, <3>1, <3>2
  <2>2. ASSUME NEW c \in Adapters, connecting[c].pc = "open"
        PROVE  LET k == connecting[c].object
               IN  /\ object'[k].impl = k /\ impl[k] = NoImpl
                   /\ \A j \in Conns \ {k} : object'[j].impl # k
    <3> DEFINE k == connecting[c].object
    <3>1. /\ k \in Conns /\ k \in Holds(c) /\ k # adapter[c].client
          /\ object[k].impl = k /\ impl[k] = NoImpl
          /\ \A j \in Conns \ {k} : object[j].impl # k
      BY <1>4, <2>2 DEF AppTypes, ConnectType, HoldInv, ImplInv, Holds, Orderly
    <3> HIDE DEF k
    <3>2. k # Fresh
      BY <1>3, <3>1
    <3>3. m # k
      <4>1. CASE c = b
        BY <3>1, <4>1 DEF m
      <4>2. CASE c # b
        BY <1>4, <1>5, <3>1, <4>2 DEF HoldInv
      <4> QED
        BY <4>1, <4>2
    <3>4. i # k
      BY <1>5, <3>1, <3>3 DEF i
    <3> QED
      BY <1>7, <1>9, <3>1, <3>2, <3>4 DEF k
  <2> QED
    BY <1>2, <2>1, <2>2 DEF ImplInv
<1> QED
  BY <1>2, <1>10, <1>11, <1>12, QuietWorld DEF IInv, AppInv, driverVars

(* What an adapter or a task holds is an object. *)
LEMMA HeldTyped ==
    ASSUME AppTypes, NEW a \in Adapters, NEW k \in Holds(a)
    PROVE  k \in Conns
  BY DEF AppTypes, AdapterType, ConnectType, OpenType, Holds

(* connectAdapter with a connection of its own *)
LEMMA ConnectKeeps ==
    ASSUME IInv, NEW a \in Adapters, Connect(a)
    PROVE  IInv'
<1> DEFINE x == [impl |-> Fresh, channel |-> ChannelOf[a]]
           y == [pc |-> "open", object |-> Fresh, ok |-> FALSE]
<1>1. /\ ~adapter[a].isConnected /\ ~adapter[a].isConnecting /\ Unused # {}
      /\ adapter' = [adapter EXCEPT ![a].isConnecting = TRUE]
      /\ object' = [object EXCEPT ![Fresh] = x]
      /\ connecting' = [connecting EXCEPT ![a] = y]
      /\ UNCHANGED <<driverVars, impl, opening>>
  BY DEF Connect
<1>2. /\ Fresh \in Conns /\ Fresh # None /\ object[Fresh].impl = None
      /\ \A j \in Conns : object[j].impl # Fresh
      /\ \A c \in Adapters : Fresh \notin Holds(c)
      /\ impl[Fresh] = NoImpl
  BY <1>1, FreshUnused
<1>3. AppTypes /\ HoldInv /\ ImplInv
  BY DEF IInv, AppInv
<1>4. ChannelOf[a] \in {0, 1} /\ None \notin Conns
  BY ConnectionAssumption, SessionAssumption DEF Conns
<1> HIDE DEF Fresh
<1>5. /\ x \in ObjectType /\ x.impl = Fresh
      /\ y \in ConnectType /\ y.pc = "open" /\ y.object = Fresh
  BY <1>2, <1>4 DEF ObjectType, ConnectType
<1> HIDE DEF x, y
<1>6. /\ adapter' \in [Adapters -> AdapterType] /\ \A c \in Adapters : c # a => adapter'[c] = adapter[c]
      /\ adapter'[a].isConnecting = TRUE /\ adapter'[a].isConnected = adapter[a].isConnected
      /\ adapter'[a].client = adapter[a].client
  BY <1>1, <1>3 DEF AppTypes, AdapterType
<1>7. /\ object' \in [Conns -> ObjectType] /\ object'[Fresh] = x
      /\ \A j \in Conns : j # Fresh => object'[j] = object[j]
  BY <1>1, <1>2, <1>3, <1>5, Updated DEF AppTypes
<1>8. /\ connecting' \in [Adapters -> ConnectType] /\ connecting'[a] = y
      /\ \A c \in Adapters : c # a => connecting'[c] = connecting[c]
  BY <1>1, <1>3, <1>5, Updated DEF AppTypes
<1>9. AppTypes'
  BY <1>1, <1>3, <1>6, <1>7, <1>8 DEF AppTypes
<1>10. HoldInv'
  <2>1. Orderly(a)'
    BY <1>1, <1>2, <1>3, <1>5, <1>6, <1>8 DEF HoldInv, Orderly, Holds
  <2>2. ASSUME NEW c \in Adapters, NEW k \in Holds(c)
        PROVE  object'[k].impl # None
    <3>1. k \in Conns /\ k # Fresh /\ object[k].impl # None
      BY <1>2, <1>3, <2>2, HeldTyped DEF HoldInv
    <3> QED
      BY <1>7, <3>1
  <2>3. ASSUME NEW k \in Holds(a)'
        PROVE  k \in Holds(a) \/ k = Fresh
    BY <1>1, <1>5, <1>6, <1>8, <2>3 DEF Holds
  <2>4. object'[Fresh].impl # None
    BY <1>2, <1>5, <1>7
  <2> QED
    BY <1>1, <1>2, <1>3, <1>6, <1>8, <2>1, <2>2, <2>3, <2>4, HoldsKept
<1>11. ImplInv'
  <2>1. ASSUME NEW j \in Conns, impl'[j] # NoImpl
        PROVE  \E n \in Conns : object'[n].impl = j
    <3>1. PICK n \in Conns : object[n].impl = j
      BY <1>1, <1>3, <2>1 DEF ImplInv
    <3>2. n # Fresh
      BY <1>2, <1>4, <3>1
    <3> QED
      BY <1>7, <3>1, <3>2
  <2>2. ASSUME NEW c \in Adapters, connecting'[c].pc = "open"
        PROVE  LET k == connecting'[c].object
               IN  /\ object'[k].impl = k /\ impl[k] = NoImpl
                   /\ \A j \in Conns \ {k} : object'[j].impl # k
    <3>1. CASE c = a
      BY <1>2, <1>5, <1>7, <1>8, <3>1
    <3>2. CASE c # a
      <4> DEFINE k == connecting[c].object
      <4>1. connecting'[c] = connecting[c]
        BY <1>8, <3>2
      <4>2. /\ k \in Conns /\ k \in Holds(c)
            /\ object[k].impl = k /\ impl[k] = NoImpl
            /\ \A j \in Conns \ {k} : object[j].impl # k
        BY <1>3, <2>2, <4>1 DEF AppTypes, ConnectType, HoldInv, ImplInv, Holds, Orderly
      <4> HIDE DEF k
      <4>3. k # Fresh
        BY <1>2, <4>2
      <4>4. connecting'[c].object = k
        BY <4>1 DEF k
      <4> QED
        BY <1>5, <1>7, <4>2, <4>3, <4>4
    <3> QED
      BY <3>1, <3>2
  <2> QED
    BY <1>1, <2>1, <2>2 DEF ImplInv
<1> QED
  BY <1>1, <1>9, <1>10, <1>11, QuietWorld DEF IInv, AppInv, driverVars

(* The task of connect() *)
LEMMA ConnectOpensKeeps ==
    ASSUME IInv, NEW a \in Adapters, ConnectOpens(a)
    PROVE  IInv'
<1> DEFINE k == connecting[a].object
           u == FreshClient
           C == StartCalls \cup {"map"}
<1>1. PICK F \in Faults(C) :
        LET r == Open(World, k, u, F)
        IN  /\ Becomes(r, F)
            /\ connecting' = [connecting EXCEPT ![a].pc = "done", ![a].ok = r.ok]
  BY DEF ConnectOpens
<1>2. /\ connecting[a].pc = "open" /\ FreeClients # {}
      /\ UNCHANGED <<life, profile, adapter, object, opening>>
  BY DEF ConnectOpens
<1>3. u \in Clients /\ ~Alive(drv, u)
  BY <1>2 DEF FreshClient, FreeClients
<1>4. AppTypes /\ HoldInv /\ ImplInv /\ profile \in Profiles
  BY DEF IInv, AppInv
<1>5. k \in Conns /\ k \in Holds(a) /\ object[k].impl = k /\ impl[k] = NoImpl
  BY <1>2, <1>4 DEF AppTypes, ConnectType, HoldInv, ImplInv, Holds, Orderly
<1> HIDE DEF u, C
<1> DEFINE r == Open(W(drv, impl), k, u, F)
<1>6. /\ WorldInv(r.drv, r.impl) /\ r.ok \in BOOLEAN /\ r.drv.faults = drv.faults
      /\ \A j \in Conns : j # k => r.impl[j] = impl[j]
  BY <1>3, <1>4, <1>5, ConnectionOpens DEF IInv
<1>7. Becomes(r, F) /\ connecting' = [connecting EXCEPT ![a].pc = "done", ![a].ok = r.ok]
  BY <1>1, WorldIs
<1> HIDE DEF r, k
<1>8. WorldInv(drv, impl)' /\ impl' = r.impl
  BY <1>2, <1>6, <1>7, CallWorld
<1>9. /\ \A c \in Adapters : c # a => connecting'[c] = connecting[c]
      /\ connecting'[a].pc = "done" /\ connecting'[a].object = k
      /\ connecting' \in [Adapters -> ConnectType]
  <2> DEFINE t == [connecting[a] EXCEPT !.pc = "done", !.ok = r.ok]
  <2>1. connecting \in [Adapters -> ConnectType] /\ connecting[a] \in ConnectType
    BY <1>4 DEF AppTypes
  <2>2. connecting' = [connecting EXCEPT ![a] = t]
    BY <1>7, <2>1
  <2>3. t \in ConnectType /\ t.pc = "done" /\ t.object = k
    BY <1>6, <2>1 DEF ConnectType, k
  <2> HIDE DEF t
  <2> QED
    BY <2>1, <2>2, <2>3
<1>10. AppTypes'
  BY <1>2, <1>4, <1>9 DEF AppTypes
<1>11. HoldInv'
  <2>1. Orderly(a)'
    BY <1>2, <1>4, <1>9 DEF HoldInv, Orderly, k
  <2>2. Holds(a)' = Holds(a)
    BY <1>2, <1>9 DEF Holds, k
  <2>3. \A c \in Adapters : \A j \in Holds(c) : object'[j].impl # None
    BY <1>2, <1>4 DEF HoldInv
  <2> QED
    BY <1>2, <1>4, <1>9, <2>1, <2>2, <2>3, HoldsKept
<1>12. ImplInv'
  <2>1. ASSUME NEW c \in Adapters, connecting'[c].pc = "open"
        PROVE  /\ c # a /\ connecting'[c] = connecting[c] /\ connecting[c].pc = "open"
               /\ connecting[c].object # k /\ connecting[c].object \in Conns
    <3>1. c # a /\ connecting'[c] = connecting[c] /\ connecting[c].pc = "open"
      BY <1>9, <2>1
    <3>2. connecting[c].object \in Holds(c) /\ connecting[c].object \in Conns
      BY <1>4, <3>1 DEF AppTypes, ConnectType, HoldInv, Holds, Orderly
    <3> QED
      BY <1>4, <1>5, <3>1, <3>2 DEF HoldInv
  <2>2. \A i \in Conns : impl'[i] # NoImpl => \E j \in Conns : object[j].impl = i
    BY <1>4, <1>5, <1>6, <1>8 DEF ImplInv
  <2> QED
    BY <1>2, <1>4, <1>6, <1>8, <2>1, <2>2 DEF ImplInv
<1> QED
  BY <1>2, <1>8, <1>10, <1>11, <1>12 DEF IInv, AppInv

(* connect() succeeded: the adapter takes what the task held. *)
LEMMA ConnectSucceedsKeeps ==
    ASSUME IInv, NEW a \in Adapters, ConnectSucceeds(a)
    PROVE  IInv'
<1>1. /\ connecting[a].pc = "done"
      /\ adapter' = [adapter EXCEPT ![a] = [@ EXCEPT !.client = connecting[a].object,
                                                     !.isConnected = TRUE, !.isConnecting = FALSE]]
      /\ connecting' = [connecting EXCEPT ![a] = Idle]
      /\ UNCHANGED <<driverVars, impl, object, opening>>
  BY DEF ConnectSucceeds
<1>2. AppTypes /\ HoldInv /\ ImplInv
  BY DEF IInv, AppInv
<1>3. /\ connecting[a].object \in Conns /\ connecting[a].object # None
      /\ adapter[a].client = None
  BY <1>1, <1>2 DEF AppTypes, ConnectType, HoldInv, Orderly
<1>4. /\ Idle \in ConnectType /\ Idle.pc = "idle" /\ Idle.object = None
  BY DEF Idle, ConnectType
<1>5. /\ connecting' \in [Adapters -> ConnectType] /\ connecting'[a] = Idle
      /\ \A c \in Adapters : c # a => connecting'[c] = connecting[c]
  BY <1>1, <1>2, <1>4, Updated DEF AppTypes
<1>6. /\ adapter'[a].client = connecting[a].object /\ adapter'[a].isConnected = TRUE
      /\ adapter'[a].isConnecting = FALSE
      /\ adapter' \in [Adapters -> AdapterType]
      /\ \A c \in Adapters : c # a => adapter'[c] = adapter[c]
  BY <1>1, <1>2, <1>3 DEF AppTypes, AdapterType
<1>7. AppTypes'
  BY <1>1, <1>2, <1>5, <1>6 DEF AppTypes
<1>8. HoldInv'
  <2>1. Orderly(a)'
    BY <1>1, <1>2, <1>3, <1>4, <1>5, <1>6 DEF HoldInv, Orderly
  <2>2. Holds(a)' \subseteq Holds(a)
    BY <1>1, <1>3, <1>4, <1>5, <1>6 DEF Holds
  <2>3. \A c \in Adapters : \A j \in Holds(c) : object'[j].impl # None
    BY <1>1, <1>2 DEF HoldInv
  <2> QED
    BY <1>1, <1>2, <1>5, <1>6, <2>1, <2>2, <2>3, HoldsKept
<1>9. ImplInv'
  <2>1. /\ UNCHANGED <<object, impl>>
        /\ \A c \in Adapters : connecting'[c].pc = "open" =>
               connecting[c].pc = "open" /\ connecting'[c].object = connecting[c].object
    BY <1>1, <1>4, <1>5
  <2> QED
    BY <1>2, <2>1, ImplsStay DEF AppInv
<1> QED
  BY <1>1, <1>7, <1>8, <1>9, QuietWorld DEF IInv, AppInv, driverVars

(* An object let go of *)
LEMMA DisposedTyped ==
    ASSUME AppTypes, NEW k \in Conns, object' = Disposed(k)
    PROVE  /\ object' \in [Conns -> ObjectType]
           /\ \A j \in Conns : j # k => object'[j] = object[j]
<1>1. NoObject \in ObjectType
  BY DEF NoObject, ObjectType
<1> QED
  BY <1>1, Updated DEF Disposed, AppTypes

(* connect() failed: its object goes. *)
LEMMA ConnectFailsKeeps ==
    ASSUME IInv, NEW a \in Adapters, ConnectFails(a)
    PROVE  IInv'
<1> DEFINE k == connecting[a].object
<1>1. PICK F \in Faults(CommandCalls) : Becomes(Disconnects(World, k, F), F)
  BY DEF ConnectFails
<1>2. /\ connecting[a].pc = "done"
      /\ adapter' = [adapter EXCEPT ![a].isConnecting = FALSE]
      /\ object' = Disposed(k)
      /\ connecting' = [connecting EXCEPT ![a] = Idle]
      /\ UNCHANGED <<life, profile, opening>>
  BY DEF ConnectFails
<1>3. AppTypes /\ HoldInv /\ ImplInv /\ AppInv
  BY DEF IInv, AppInv
<1>4. /\ k \in Conns /\ k \in Holds(a) /\ object[k].impl # None
      /\ k \notin {adapter[a].client, opening[a].object}
  BY <1>2, <1>3 DEF AppTypes, ConnectType, HoldInv, Holds, Orderly
<1>5. /\ Idle \in ConnectType /\ Idle.pc = "idle" /\ Idle.object = None
  BY DEF Idle, ConnectType
<1> HIDE DEF k
<1> DEFINE r == Disconnects(World, k, F)
<1>6. /\ WorldInv(r.drv, r.impl) /\ r.drv.faults = drv.faults
      /\ r.impl = Cleared(impl, object[k].impl)
  BY <1>4, WorldIs, DisconnectsWorld
<1> HIDE DEF r
<1>7. WorldInv(drv, impl)' /\ impl' = Cleared(impl, object[k].impl)
  BY <1>1, <1>2, <1>6, CallWorld DEF r
<1>8. /\ connecting' \in [Adapters -> ConnectType] /\ connecting'[a] = Idle
      /\ \A c \in Adapters : c # a => connecting'[c] = connecting[c]
  BY <1>2, <1>3, <1>5, Updated DEF AppTypes
<1>9. /\ adapter'[a].client = adapter[a].client /\ adapter'[a].isConnected = adapter[a].isConnected
      /\ adapter'[a].isConnecting = FALSE
      /\ adapter' \in [Adapters -> AdapterType]
      /\ \A c \in Adapters : c # a => adapter'[c] = adapter[c]
  BY <1>2, <1>3 DEF AppTypes, AdapterType
<1>10. /\ object' \in [Conns -> ObjectType]
       /\ \A j \in Conns : j # k => object'[j] = object[j]
  BY <1>2, <1>3, <1>4, DisposedTyped
<1>11. AppTypes'
  BY <1>2, <1>3, <1>8, <1>9, <1>10 DEF AppTypes
<1>12. HoldInv'
  <2>1. Orderly(a)'
    BY <1>2, <1>3, <1>4, <1>5, <1>8, <1>9 DEF HoldInv, Orderly
  <2>2. ASSUME NEW j \in Holds(a)'
        PROVE  j \in Holds(a) /\ j # k
    BY <1>2, <1>4, <1>5, <1>8, <1>9, <2>2 DEF Holds
  <2>3. ASSUME NEW c \in Adapters, NEW j \in Holds(c), c # a \/ j # k
        PROVE  object'[j].impl # None
    <3>1. j \in Conns /\ j # k /\ object[j].impl # None
      BY <1>3, <1>4, <2>3, HeldTyped DEF HoldInv
    <3> QED
      BY <1>10, <3>1
  <2> QED
    BY <1>2, <1>3, <1>8, <1>9, <2>1, <2>2, <2>3, HoldsKept
<1>13. ImplInv'
  <2>1. /\ impl \in Impls /\ connecting[a].pc # "open"
        /\ \A c \in Adapters : connecting'[c].pc = "open" =>
               connecting[c].pc = "open" /\ connecting'[c].object = connecting[c].object
    BY <1>2, <1>5, <1>8, WorldIs
  <2> QED
    BY <1>2, <1>3, <1>4, <1>7, <2>1, ImplsDisposed
<1> QED
  BY <1>2, <1>7, <1>11, <1>12, <1>13 DEF IInv, AppInv

(* disconnect: once by the adapter, once as the object goes, or either.    *)
LEMMA DisconnectKeeps ==
    ASSUME IInv, NEW a \in Adapters, Disconnect(a)
    PROVE  IInv'
<1> DEFINE k == adapter[a].client
           used == opening[a].object = k
           i == object[k].impl
<1>1. PICK F \in Faults(CommandCalls) :
        LET w == IF adapter[a].shared THEN World ELSE Disconnects(World, k, F)
        IN  Becomes(IF used THEN w ELSE Disconnects(w, k, F), F)
  BY DEF Disconnect
<1>2. /\ adapter[a].isConnected /\ k # None
      /\ object' = IF used THEN object ELSE Disposed(k)
      /\ adapter' = [adapter EXCEPT ![a] = NoAdapter]
      /\ UNCHANGED <<life, profile, connecting, opening>>
  BY DEF Disconnect
<1>3. AppTypes /\ HoldInv /\ ImplInv /\ AppInv
  BY DEF IInv, AppInv
<1>4. /\ k \in Conns /\ k \in Holds(a) /\ object[k].impl # None
      /\ connecting[a].pc = "idle" /\ connecting[a].object = None
  BY <1>2, <1>3 DEF AppTypes, AdapterType, ConnectType, HoldInv, Holds, Orderly
<1>5. /\ NoAdapter \in AdapterType /\ NoAdapter.client = None
      /\ ~NoAdapter.isConnected /\ ~NoAdapter.isConnecting
  BY DEF NoAdapter, AdapterType
<1>6. /\ adapter' \in [Adapters -> AdapterType] /\ adapter'[a] = NoAdapter
      /\ \A c \in Adapters : c # a => adapter'[c] = adapter[c]
  BY <1>2, <1>3, <1>5, Updated DEF AppTypes
<1>7. i \in Conns
  BY <1>3, <1>4 DEF AppTypes, ObjectType
<1> DEFINE w == IF adapter[a].shared THEN World ELSE Disconnects(World, k, F)
           r == IF used THEN w ELSE Disconnects(w, k, F)
<1> HIDE DEF k
<1>8. /\ WorldInv(w.drv, w.impl) /\ w.drv.faults = drv.faults
      /\ w.impl = impl \/ w.impl = Cleared(impl, i)
  <2>1. CASE adapter[a].shared
    BY <2>1, WorldIs
  <2>2. CASE ~adapter[a].shared
    <3>1. w = Disconnects(World, k, F)
      BY <2>2
    <3> HIDE DEF w
    <3> QED
      BY <1>4, <3>1, WorldIs, DisconnectsWorld
  <2> QED
    BY <2>1, <2>2
<1>9. Becomes(r, F)
  BY <1>1 DEF k
<1> HIDE DEF w, i
<1>10. /\ WorldInv(r.drv, r.impl) /\ r.drv.faults = drv.faults
       /\ r.impl = impl \/ r.impl = Cleared(impl, i)
       /\ ~used => r.impl = Cleared(impl, i)
  <2>1. CASE used
    BY <1>8, <2>1
  <2>2. CASE ~used
    <3>1. /\ WorldInv(r.drv, r.impl) /\ r.drv.faults = w.drv.faults
          /\ r.impl = Cleared(w.impl, i)
      <4>1. r = Disconnects(w, k, F)
        BY <2>2
      <4> HIDE DEF r
      <4> QED
        BY <1>4, <1>8, <4>1, DisconnectsWorld DEF i
    <3>2. Cleared(Cleared(impl, i), i) = Cleared(impl, i)
      BY <1>7, WorldIs DEF Impls, Cleared
    <3> HIDE DEF r
    <3>3. r.impl = Cleared(impl, i)
      BY <1>8, <3>1, <3>2
    <3> QED
      BY <1>8, <3>1, <3>3
  <2> QED
    BY <2>1, <2>2
<1> HIDE DEF r
<1>11. WorldInv(drv, impl)' /\ impl' = r.impl
  BY <1>2, <1>9, <1>10, CallWorld
<1>12. /\ object' \in [Conns -> ObjectType]
       /\ \A j \in Conns : j # k \/ used => object'[j] = object[j]
  <2>1. CASE used
    BY <1>2, <1>3, <2>1 DEF AppTypes, k
  <2>2. CASE ~used
    BY <1>2, <1>3, <1>4, <2>2, DisposedTyped DEF k
  <2> QED
    BY <2>1, <2>2
<1>13. AppTypes'
  BY <1>2, <1>3, <1>6, <1>12 DEF AppTypes
<1>14. HoldInv'
  <2>1. Orderly(a)'
    BY <1>2, <1>3, <1>4, <1>5, <1>6 DEF HoldInv, Orderly
  <2>2. ASSUME NEW j \in Holds(a)'
        PROVE  j \in Holds(a) /\ (j # k \/ used)
    BY <1>2, <1>4, <1>5, <1>6, <2>2 DEF Holds
  <2>3. ASSUME NEW c \in Adapters, NEW j \in Holds(c), c # a \/ j # k \/ used
        PROVE  object'[j].impl # None
    <3>1. j \in Conns /\ (j # k \/ used) /\ object[j].impl # None
      BY <1>3, <1>4, <2>3, HeldTyped DEF HoldInv
    <3> QED
      BY <1>12, <3>1
  <2> QED
    BY <1>2, <1>3, <1>6, <2>1, <2>2, <2>3, HoldsKept
<1>15. ImplInv'
  <2>1. /\ impl \in Impls /\ connecting[a].pc # "open"
        /\ \A c \in Adapters : connecting'[c].pc = "open" =>
               connecting[c].pc = "open" /\ connecting'[c].object = connecting[c].object
    BY <1>2, <1>4, WorldIs
  <2>2. CASE used
    <3>1. UNCHANGED object
      BY <1>2, <2>2 DEF k
    <3>2. \A j \in Conns : impl[j] = NoImpl => impl'[j] = NoImpl
      BY <1>7, <1>10, <1>11, <2>1 DEF Impls, Cleared
    <3> QED
      BY <1>3, <2>1, <3>1, <3>2, ImplsStay
  <2>3. CASE ~used
    BY <1>2, <1>3, <1>4, <1>10, <1>11, <2>1, <2>3, ImplsDisposed DEF k, i
  <2> QED
    BY <2>2, <2>3
<1> QED
  BY <1>2, <1>11, <1>13, <1>14, <1>15 DEF IInv, AppInv

(* openCANChannel, on the main actor *)
LEMMA OpenCANKeeps ==
    ASSUME IInv, NEW a \in Adapters, OpenCAN(a) \/ OpenTakesClient(a)
    PROVE  IInv'
<1>1. /\ opening[a].pc \in {"idle", "start"}
      /\ UNCHANGED <<driverVars, impl, adapter, object, connecting>>
      /\ \/ opening' = [opening EXCEPT ![a].pc = "start"]
         \/ opening' = [opening EXCEPT ![a].pc = "call", ![a].object = adapter[a].client]
  BY DEF OpenCAN, OpenTakesClient
<1>2. AppTypes /\ HoldInv /\ ImplInv /\ AppInv
  BY DEF IInv, AppInv
<1>3. opening[a].object = None /\ adapter[a].client \in Conns \cup {None}
  BY <1>1, <1>2 DEF AppTypes, AdapterType, HoldInv, Orderly
<1>4. /\ opening' \in [Adapters -> OpenType]
      /\ opening'[a].object = None \/ opening'[a].object = adapter[a].client
      /\ opening'[a].pc = "start" => opening'[a].object = None
      /\ opening'[a].pc \in {"start", "call"}
      /\ \A c \in Adapters : c # a => opening'[c] = opening[c]
  BY <1>1, <1>2, <1>3 DEF AppTypes, OpenType
<1>5. AppTypes'
  BY <1>1, <1>2, <1>4 DEF AppTypes
<1>6. HoldInv'
  <2>1. Orderly(a)'
    BY <1>1, <1>2, <1>3, <1>4 DEF HoldInv, Orderly
  <2>2. Holds(a)' \subseteq Holds(a)
    BY <1>1, <1>3, <1>4 DEF Holds
  <2>3. \A c \in Adapters : \A j \in Holds(c) : object'[j].impl # None
    BY <1>1, <1>2 DEF HoldInv
  <2> QED
    BY <1>1, <1>2, <1>4, <2>1, <2>2, <2>3, HoldsKept
<1>7. ImplInv'
  <2>1. UNCHANGED <<object, impl, connecting>>
    BY <1>1
  <2> QED
    BY <1>2, <2>1, ImplsStay
<1> QED
  BY <1>1, <1>5, <1>6, <1>7, QuietWorld DEF IInv, AppInv, driverVars

(* openCANChannel, in its task *)
LEMMA OpenCallsKeeps ==
    ASSUME IInv, NEW a \in Adapters, OpenCalls(a)
    PROVE  IInv'
<1> DEFINE k == opening[a].object
           r(F) == IF k = None THEN Result(drv, impl, FALSE)
                   ELSE ChannelOpen(World, object[k].impl, object[k].channel, F)
<1>1. PICK F \in Faults(CommandCalls) :
        Becomes(r(F), F) /\ opening' = [opening EXCEPT ![a].pc = "done", ![a].ok = r(F).ok]
  BY DEF OpenCalls
<1>2. opening[a].pc = "call" /\ UNCHANGED <<life, profile, adapter, object, connecting>>
  BY DEF OpenCalls
<1>3. AppTypes /\ HoldInv /\ ImplInv /\ AppInv /\ profile \in Profiles
  BY DEF IInv, AppInv
<1>4. /\ WorldInv(r(F).drv, r(F).impl) /\ r(F).drv.faults = drv.faults /\ r(F).ok \in BOOLEAN
      /\ \A j \in Conns : impl[j] = NoImpl => r(F).impl[j] = NoImpl
  <2>1. CASE k = None
    BY <2>1 DEF Result, IInv
  <2>2. CASE k # None
    <3> DEFINE i == object[k].impl
               c == object[k].channel
               q == ChannelOpen(W(drv, impl), i, c, F)
    <3>1. k \in Holds(a) /\ k \in Conns
      BY <1>3, <2>2 DEF Holds, AppTypes, OpenType
    <3>2. i \in Conns /\ c \in {0, 1}
      BY <1>3, <3>1 DEF AppTypes, ObjectType, HoldInv
    <3>3. r(F) = q
      BY <2>2, WorldIs
    <3> HIDE DEF i, c, k
    <3>4. /\ WorldInv(q.drv, q.impl) /\ q.ok \in BOOLEAN /\ q.drv.faults = drv.faults
          /\ \A j \in Conns : j # i \/ impl[j] = NoImpl => q.impl[j] = impl[j]
      BY <1>3, <3>2, ConnectionOpensChannel DEF IInv
    <3> HIDE DEF q, r
    <3> QED
      BY <3>3, <3>4
  <2> QED
    BY <2>1, <2>2
<1> DEFINE x == r(F)
<1>5. /\ WorldInv(x.drv, x.impl) /\ x.drv.faults = drv.faults /\ x.ok \in BOOLEAN
      /\ \A j \in Conns : impl[j] = NoImpl => x.impl[j] = NoImpl
      /\ Becomes(x, F) /\ opening' = [opening EXCEPT ![a].pc = "done", ![a].ok = x.ok]
  BY <1>1, <1>4
<1> HIDE DEF x
<1>6. WorldInv(drv, impl)' /\ impl' = x.impl
  BY <1>2, <1>5, CallWorld
<1>7. /\ opening' \in [Adapters -> OpenType] /\ opening'[a].pc = "done"
      /\ opening'[a].object = opening[a].object
      /\ \A c \in Adapters : c # a => opening'[c] = opening[c]
  BY <1>3, <1>5 DEF AppTypes, OpenType
<1>8. AppTypes'
  BY <1>2, <1>3, <1>7 DEF AppTypes
<1>9. HoldInv'
  <2>1. Orderly(a)'
    BY <1>2, <1>3, <1>7 DEF HoldInv, Orderly
  <2>2. Holds(a)' = Holds(a)
    BY <1>2, <1>7 DEF Holds
  <2>3. \A c \in Adapters : \A j \in Holds(c) : object'[j].impl # None
    BY <1>2, <1>3 DEF HoldInv
  <2> QED
    BY <1>2, <1>3, <1>7, <2>1, <2>2, <2>3, HoldsKept
<1>10. ImplInv'
  BY <1>2, <1>3, <1>5, <1>6, ImplsStay
<1> QED
  BY <1>2, <1>6, <1>8, <1>9, <1>10 DEF IInv, AppInv

(* openCANChannel, its result: with the last reference the object goes.    *)
LEMMA OpenReturnsKeeps ==
    ASSUME IInv, NEW a \in Adapters, OpenReturns(a)
    PROVE  IInv'
<1> DEFINE k == opening[a].object
           last == k # None /\ adapter[a].client # k
           i == object[k].impl
           r(F) == IF last THEN Disconnects(World, k, F) ELSE World
<1>1. PICK F \in Faults(CommandCalls) : Becomes(r(F), F)
  BY DEF OpenReturns
<1>2. /\ adapter' = [adapter EXCEPT ![a].isCANOpen = @ \/ opening[a].ok]
      /\ object' = IF last THEN Disposed(k) ELSE object
      /\ opening' = [opening EXCEPT ![a] = Idle]
      /\ UNCHANGED <<life, profile, connecting>>
  BY DEF OpenReturns
<1>3. AppTypes /\ HoldInv /\ ImplInv /\ AppInv
  BY DEF IInv, AppInv
<1>4. last => /\ k \in Conns /\ k \in Holds(a) /\ object[k].impl # None
              /\ k \notin {adapter[a].client, connecting[a].object}
  BY <1>3 DEF AppTypes, OpenType, HoldInv, Holds, Orderly
<1>5. /\ Idle \in OpenType /\ Idle.pc = "idle" /\ Idle.object = None
  BY DEF Idle, OpenType
<1>6. /\ opening' \in [Adapters -> OpenType] /\ opening'[a] = Idle
      /\ \A c \in Adapters : c # a => opening'[c] = opening[c]
  BY <1>2, <1>3, <1>5, Updated DEF AppTypes
<1>7. /\ adapter' \in [Adapters -> AdapterType]
      /\ \A c \in Adapters : c # a => adapter'[c] = adapter[c]
      /\ adapter'[a].client = adapter[a].client /\ adapter'[a].isConnected = adapter[a].isConnected
      /\ adapter'[a].isConnecting = adapter[a].isConnecting
  <2>1. (adapter[a].isCANOpen \/ opening[a].ok) \in BOOLEAN
    OBVIOUS
  <2>2. ASSUME NEW b \in BOOLEAN, adapter' = [adapter EXCEPT ![a].isCANOpen = b]
        PROVE  /\ adapter' \in [Adapters -> AdapterType]
               /\ \A c \in Adapters : c # a => adapter'[c] = adapter[c]
               /\ adapter'[a].client = adapter[a].client
               /\ adapter'[a].isConnected = adapter[a].isConnected
               /\ adapter'[a].isConnecting = adapter[a].isConnecting
    BY <1>3, <2>2 DEF AppTypes, AdapterType
  <2> QED
    BY <1>2, <2>1, <2>2
<1> DEFINE x == r(F)
<1>8. /\ WorldInv(x.drv, x.impl) /\ x.drv.faults = drv.faults
      /\ x.impl = IF last THEN Cleared(impl, i) ELSE impl
  <2>1. CASE last
    <3>1. x = Disconnects(World, k, F)
      BY <2>1
    <3> HIDE DEF x, k
    <3> QED
      BY <1>4, <2>1, <3>1, WorldIs, DisconnectsWorld
  <2>2. CASE ~last
    BY <2>2, WorldIs
  <2> QED
    BY <2>1, <2>2
<1>9. Becomes(x, F)
  BY <1>1
<1> HIDE DEF x, r, i
<1>10. WorldInv(drv, impl)' /\ impl' = x.impl
  BY <1>2, <1>8, <1>9, CallWorld
<1>11. /\ object' \in [Conns -> ObjectType]
       /\ \A j \in Conns : j # k \/ ~last => object'[j] = object[j]
  <2>1. CASE ~last
    BY <1>2, <1>3, <2>1 DEF AppTypes
  <2>2. CASE last
    BY <1>2, <1>3, <1>4, <2>2, DisposedTyped
  <2> QED
    BY <2>1, <2>2
<1>12. AppTypes'
  BY <1>2, <1>3, <1>6, <1>7, <1>11 DEF AppTypes
<1>13. HoldInv'
  <2>1. Orderly(a)'
    BY <1>2, <1>3, <1>5, <1>6, <1>7 DEF HoldInv, Orderly
  <2>2. ASSUME NEW j \in Holds(a)'
        PROVE  j \in Holds(a) /\ (j # k \/ ~last)
    BY <1>2, <1>4, <1>5, <1>6, <1>7, <2>2 DEF Holds
  <2>3. ASSUME NEW c \in Adapters, NEW j \in Holds(c), c # a \/ j # k \/ ~last
        PROVE  object'[j].impl # None
    <3>1. j \in Conns /\ (j # k \/ ~last) /\ object[j].impl # None
      BY <1>3, <1>4, <2>3, HeldTyped DEF HoldInv
    <3> QED
      BY <1>11, <3>1
  <2> QED
    BY <1>2, <1>3, <1>6, <1>7, <2>1, <2>2, <2>3, HoldsKept
<1>14. ImplInv'
  <2>1. impl \in Impls /\ UNCHANGED connecting
    BY <1>2, WorldIs
  <2>2. CASE ~last
    <3>1. UNCHANGED <<object, impl, connecting>>
      BY <1>2, <1>8, <1>10, <2>2
    <3> QED
      BY <1>3, <3>1, ImplsStay
  <2>3. CASE last
    BY <1>2, <1>3, <1>4, <1>8, <1>10, <2>1, <2>3, ImplsDisposed DEF i
  <2> QED
    BY <2>2, <2>3
<1> QED
  BY <1>2, <1>10, <1>12, <1>13, <1>14 DEF IInv, AppInv

(* closeCANChannel *)
LEMMA CloseCANKeeps ==
    ASSUME IInv, NEW a \in Adapters, CloseCAN(a)
    PROVE  IInv'
<1> DEFINE k == adapter[a].client
           i == object[k].impl
           c == object[k].channel
<1>1. PICK F \in Faults(CommandCalls) : Becomes(ChannelClose(World, i, c, F), F)
  BY DEF CloseCAN
<1>2. /\ k # None /\ adapter' = [adapter EXCEPT ![a].isCANOpen = FALSE]
      /\ UNCHANGED <<life, profile, object, connecting, opening>>
  BY DEF CloseCAN
<1>3. AppTypes /\ HoldInv /\ ImplInv /\ AppInv /\ profile \in Profiles
  BY DEF IInv, AppInv
<1>4. k \in Holds(a) /\ k \in Conns
  BY <1>2, <1>3 DEF AppTypes, AdapterType, Holds
<1>5. i \in Conns /\ c \in {0, 1}
  BY <1>3, <1>4 DEF AppTypes, ObjectType, HoldInv
<1> HIDE DEF i, c
<1> DEFINE r == ChannelClose(W(drv, impl), i, c, F)
<1>6. /\ WorldInv(r.drv, r.impl) /\ r.drv.faults = drv.faults
      /\ r.impl = [impl EXCEPT ![i].is_open = FALSE]
  BY <1>3, <1>5, ConnectionClosesChannel DEF IInv
<1>7. Becomes(r, F)
  BY <1>1, WorldIs
<1> HIDE DEF r
<1>8. WorldInv(drv, impl)' /\ impl' = [impl EXCEPT ![i].is_open = FALSE]
  BY <1>2, <1>6, <1>7, CallWorld
<1>9. /\ adapter' \in [Adapters -> AdapterType]
      /\ \A b \in Adapters : b # a => adapter'[b] = adapter[b]
      /\ adapter'[a].client = adapter[a].client /\ adapter'[a].isConnected = adapter[a].isConnected
      /\ adapter'[a].isConnecting = adapter[a].isConnecting
  BY <1>2, <1>3 DEF AppTypes, AdapterType
<1>10. AppTypes'
  BY <1>2, <1>3, <1>9 DEF AppTypes
<1>11. HoldInv'
  <2>1. Orderly(a)'
    BY <1>2, <1>3, <1>9 DEF HoldInv, Orderly
  <2>2. Holds(a)' = Holds(a)
    BY <1>2, <1>9 DEF Holds
  <2>3. \A b \in Adapters : \A j \in Holds(b) : object'[j].impl # None
    BY <1>2, <1>3 DEF HoldInv
  <2> QED
    BY <1>2, <1>3, <1>9, <2>1, <2>2, <2>3, HoldsKept
<1>12. ImplInv'
  <2>1. impl \in Impls
    BY WorldIs
  <2>2. \A j \in Conns : impl[j] = NoImpl => impl'[j] = NoImpl
    <3>1. NoImpl.is_open = FALSE
      BY DEF NoImpl
    <3>2. \A j \in Conns : impl[j].is_open = FALSE => impl'[j] = impl[j]
      BY <1>8, <2>1 DEF Impls
    <3> QED
      BY <3>1, <3>2
  <2> QED
    BY <1>2, <1>3, <2>2, ImplsStay
<1> QED
  BY <1>2, <1>8, <1>10, <1>11, <1>12 DEF IInv, AppInv

(* The app at first, and again after it died. *)
Untouched ==
    /\ impl = [i \in Conns |-> NoImpl]
    /\ adapter = [a \in Adapters |-> NoAdapter]
    /\ object = [k \in Conns |-> NoObject]
    /\ connecting = [a \in Adapters |-> Idle]
    /\ opening = [a \in Adapters |-> Idle]

(* An app in which nothing was done yet satisfies its part of the          *)
(* invariant.                                                              *)
LEMMA UntouchedApp ==
    ASSUME Untouched
    PROVE  AppInv
<1>1. /\ NoObject \in ObjectType /\ NoAdapter \in AdapterType
      /\ Idle \in ConnectType /\ Idle \in OpenType
  BY DEF NoObject, NoAdapter, Idle, ObjectType, AdapterType, ConnectType, OpenType
<1>2. AppTypes
  BY <1>1 DEF Untouched, AppTypes
<1>3. /\ \A a \in Adapters : Holds(a) = {} /\ Orderly(a)
      /\ \A a \in Adapters : connecting[a].pc = "idle"
  BY DEF Untouched, Holds, Orderly, NoAdapter, Idle
<1>4. HoldInv
  BY <1>3 DEF HoldInv
<1>5. ImplInv
  BY <1>3 DEF Untouched, ImplInv
<1> QED
  BY <1>2, <1>4, <1>5 DEF AppInv

(* The kernel closes the connections of an app that dies. *)
LEMMA AppDiesKeeps ==
    ASSUME IInv, AppDies
    PROVE  IInv'
<1> DEFINE uc == [u \in Clients |-> IF Alive(drv, u) THEN [drv.uc[u] EXCEPT !.cut = TRUE]
                                    ELSE drv.uc[u]]
           n == drv.faults - 1
           d == Clientele(drv, uc, drv.user, drv.peers)
<1>1. /\ drv.faults > 0 /\ Untouched' /\ UNCHANGED <<life, profile>>
      /\ drv' = [drv EXCEPT !.faults = n, !.uc = uc]
  BY DEF AppDies, Untouched
<1>2. /\ profile \in Profiles /\ drv.faults \in 0 .. profile.faults
      /\ DriverInv(drv) /\ Served(drv) /\ Sound(drv) /\ drv \in DrvTypes
      /\ drv.uc \in [Clients -> [phase : {"none", "started", "open"}, cut : BOOLEAN]]
  BY FaultsLeft, ClientsTyped DEF IInv, WorldInv, FitsClients
<1>3. /\ uc \in [Clients -> [phase : {"none", "started", "open"}, cut : BOOLEAN]]
      /\ \A u \in Clients : /\ uc[u].phase = drv.uc[u].phase
                            /\ uc[u].phase # "none" => uc[u].cut = TRUE
  BY <1>2 DEF Alive
<1> HIDE DEF uc
<1>4. FitsClients(uc, drv.user, drv.peers)
  BY <1>2, <1>3, ClientsTyped DEF FitsClients
<1>5. /\ Sound(d) /\ d.ptr = drv.ptr /\ d.uc = uc /\ d.user = drv.user /\ d.peers = drv.peers
      /\ d.faults = drv.faults
      /\ SameMarks(drv, d) /\ SameOpen(drv, d) /\ SameState(drv, d)
  BY <1>2, <1>4, ClienteleKeeps
<1>6. n \in 0 .. profile.faults
  <2>1. profile.faults \in Nat
    BY <1>2, Constants
  <2> QED
    BY <1>1, <1>2, <2>1
<1> HIDE DEF n
<1>7. drv' = [d EXCEPT !.faults = n]
  BY <1>1, <1>2 DEF Clientele, DrvTypes
<1> HIDE DEF d
<1>8. /\ Sound(drv') /\ drv'.ptr = drv.ptr /\ drv'.uc = uc /\ drv'.user = drv.user
      /\ drv'.peers = drv.peers
      /\ SameMarks(drv, drv') /\ SameOpen(drv, drv') /\ SameState(drv, drv')
  <2>1. d \in DrvTypes
    BY <1>5 DEF Sound
  <2>2. /\ drv' \in DrvTypes /\ drv'.held = d.held /\ drv'.ptr = d.ptr
        /\ drv'.uc = d.uc /\ drv'.user = d.user /\ drv'.peers = d.peers
        /\ SameMarks(d, drv') /\ SameOpen(d, drv') /\ SameState(d, drv')
    BY <1>6, <1>7, <2>1 DEF DrvTypes, SameMarks, SameOpen, SameState
  <2>3. Sound(drv')
    BY <1>5, <2>2 DEF Sound, Referenced, OpenAsFlagged, DataSettled, SameMarks, SameOpen
  <2> QED
    BY <1>5, <2>2, <2>3 DEF SameMarks, SameOpen, SameState
<1>9. \A u \in Clients : (Alive(drv', u) <=> Alive(drv, u)) /\ drv'.uc[u].phase = drv.uc[u].phase
  BY <1>3, <1>8 DEF Alive
<1>10. DriverInv(drv') /\ Served(drv')
  BY <1>2, <1>8, <1>9 DEF DriverInv, Served, Equipped, SameOpen, SameState
<1>11. /\ impl' \in Impls
       /\ \A i \in Conns : impl'[i].connection = None /\ ~impl'[i].is_open
  BY <1>1 DEF Untouched, Impls, NoImpl
<1>12. Linked(drv', impl') /\ OnBus(drv', impl')
  BY <1>3, <1>8, <1>11 DEF Linked, OnBus, Impls
<1>13. WorldInv(drv, impl)'
  BY <1>1, <1>10, <1>12, WorldCarries DEF WorldInv
<1>14. AppInv'
  BY <1>1, UntouchedApp, PTL
<1> QED
  BY <1>1, <1>13, <1>14 DEF IInv
-----------------------------------------------------------------------------
(* The inductive invariant holds in every reachable state. *)
LEMMA AppStays ==
    ASSUME IInv, UNCHANGED appVars, WorldInv(drv, impl)', UNCHANGED impl,
           life' \in {"new", "started", "failed", "leaving", "stopped", "freed"},
           UNCHANGED profile
    PROVE  IInv'
<1>1. UNCHANGED <<adapter, object, connecting, opening>>
  BY DEF appVars
<1>2. AppInv'
  <2>1. AppTypes'
    BY <1>1 DEF IInv, AppInv, AppTypes
  <2>2. HoldInv'
    <3>1. ASSUME NEW a \in Adapters
          PROVE  Holds(a)' = Holds(a) /\ (Orderly(a)' <=> Orderly(a))
      BY <1>1 DEF Holds, Orderly
    <3> QED
      BY <1>1, <3>1 DEF IInv, AppInv, HoldInv
  <2>3. ImplInv'
    BY <1>1, ImplsStay DEF IInv, AppInv
  <2> QED
    BY <2>1, <2>2, <2>3 DEF AppInv
<1> QED
  BY <1>2 DEF IInv

(* The initial states satisfy the invariant. *)
LEMMA InitInvariant == Init => IInv
<1> SUFFICES ASSUME Init PROVE IInv
  OBVIOUS
<1>1. AppInv
  BY UntouchedApp DEF Init, Untouched
<1> QED
  BY <1>1, InitWorld DEF Init, DriverInit, IInv

(* Every step keeps the invariant: one case for each method and each task. *)
LEMMA NextInvariant == IInv /\ [Next]_vars => IInv'
<1> SUFFICES ASSUME IInv, [Next]_vars PROVE IInv'
  OBVIOUS
<1>1. ASSUME NEW a \in Adapters, Task(a) \/ User(a)
      PROVE  IInv'
  BY <1>1, ConnectOpensKeeps, ConnectSucceedsKeeps, ConnectFailsKeeps, OpenCANKeeps,
     OpenCallsKeeps, OpenReturnsKeeps, ConnectSharedKeeps, ConnectKeeps, DisconnectKeeps,
     CloseCANKeeps DEF Task, User
<1>2. CASE DriverSide /\ UNCHANGED <<impl, appVars>>
  <2>1. CASE Start
    <3>1. life' \in {"started", "failed"} /\ UNCHANGED profile
      BY <2>1 DEF Start
    <3> QED
      BY <1>2, <2>1, <3>1, StartWorld, AppStays
  <2>2. CASE Unplug
    BY <1>2, <2>2, UnplugWorld, AppStays DEF Unplug
  <2>3. CASE Stop
    <3>1. life' = "stopped" /\ UNCHANGED profile
      BY <2>3 DEF Stop
    <3> QED
      BY <1>2, <2>3, <3>1, StopWorld, AppStays
  <2>4. CASE FreeDriver
    BY <1>2, <2>4, FreeWorld, AppStays DEF FreeDriver
  <2>5. ASSUME NEW u \in Clients, ClientStops(u)
        PROVE  IInv'
    <3>1. UNCHANGED <<life, profile>>
      BY <2>5 DEF ClientStops
    <3>2. life' \in {"new", "started", "failed", "leaving", "stopped", "freed"}
      BY <3>1 DEF IInv
    <3> QED
      BY <1>2, <2>5, <3>1, <3>2, ClientStopsWorld, AppStays
  <2>6. CASE WriteComplete
    <3>1. life' \in {"new", "started", "failed", "leaving", "stopped", "freed"} /\ UNCHANGED profile
      BY <2>6 DEF WriteComplete, IInv
    <3> QED
      BY <1>2, <2>6, <3>1, WriteCompleteWorld, AppStays
  <2> QED
    BY <1>2, <2>1, <2>2, <2>3, <2>4, <2>5, <2>6 DEF DriverSide
<1>3. CASE AppDies
  BY <1>3, AppDiesKeeps
<1>4. CASE UNCHANGED vars
  <2>1. UNCHANGED <<driverVars, impl, appVars, life, profile>>
    BY <1>4 DEF vars, driverVars
  <2> QED
    BY <2>1, QuietWorld, AppStays DEF IInv
<1> QED
  BY <1>1, <1>2, <1>3, <1>4 DEF Next

(* In every reachable state the driver, the user clients, the connections  *)
(* on them and the app's objects are as IInv says: USBCANDriver,           *)
(* CANClientImpl and SerialAdapter agree with each other.                  *)
THEOREM Invariance == Spec => []IInv
<1>1. Init => IInv
  BY InitInvariant
<1>2. IInv /\ [Next]_vars => IInv'
  BY NextInvariant
<1> QED
  BY <1>1, <1>2, PTL DEF Spec

(* Every ivar of USBCANDriver that is not null refers to an object it      *)
(* holds, its opened-flags say what the USB stack has open, nothing is     *)
(* open once it has stopped, and while I/O runs all that reading and       *)
(* sending use is there: Start, Stop, free and StartIO of whatever driver, *)
(* with whatever step failing.                                             *)
THEOREM DriverConsistentAlways == Spec => []DriverConsistent
<1>1. IInv => DriverConsistent
  <2> SUFFICES ASSUME IInv PROVE DriverConsistent
    OBVIOUS
  <2>1. /\ DriverInv(drv) /\ Sound(drv) /\ drv \in DrvTypes /\ Linked(drv, impl)
        /\ profile \in Profiles /\ AppTypes
    BY DEF IInv, WorldInv, DriverInv, Sound, AppInv
  <2>2. TypeOK
    BY <2>1 DEF IInv, TypeOK, DrvTypes, Marks, Commands, Linked, AppTypes, AdapterType, ObjectType
  <2>3. ReferencesHeld
    BY <2>1 DEF Sound, Referenced, ReferencesHeld
  <2>4. OpenedAsFlagged
    BY <2>1 DEF DriverInv, Serving, Sound, OpenAsFlagged, OpenedAsFlagged
  <2>5. ReadyWhenRunning
    BY <2>1 DEF DriverInv, Serving, Equipped, ReadyWhenRunning
  <2> QED
    BY <2>2, <2>3, <2>4, <2>5 DEF DriverConsistent
<1> QED
  BY <1>1, Invariance, PTL

(* A program alone on the driver is served by it, however the clients      *)
(* before it left, and I/O runs for an open client only: Start, Close and  *)
(* Stop of USBCANDriverUserClient.                                         *)
THEOREM RunsForClientsOnly == Spec => []RunsForClients
<1>1. IInv => RunsForClients
  BY DEF IInv, WorldInv, Served, RunsForClients, LoneClientServed, IdleWhenUnopened
<1> QED
  BY <1>1, Invariance, PTL

(* A channel the codec marks open is on the bus, and a connection alone on *)
(* its driver that reports isOpen() has the adapter on the bus, or SLCAN's *)
(* queued command is on its way or failed later: open and close of a       *)
(* channel by CANClientImpl and the codecs, WriteComplete and StartIO,     *)
(* with lost commands and answers, and commands a session leaves behind.   *)
THEOREM ChannelsAgreeAlways == Spec => []ChannelsAgree
<1>1. IInv => ChannelsAgree
  BY DEF IInv, WorldInv, DriverInv, Sound, OnBus, Reaching, ChannelsAgree, MarkedIsOnBus, OpenIsOnBus,
         AloneAndOpen
<1> QED
  BY <1>1, Invariance, PTL

(* No user client stays open that no CANConnection of the app could close: *)
(* connect(), disconnect() and deinit of SerialAdapter and CANConnection,  *)
(* in whatever order their tasks return.                                   *)
THEOREM NoClientOrphaned == Spec => []ConnectionReachable
<1>1. IInv => ConnectionReachable
  <2> SUFFICES ASSUME IInv, NEW u \in Clients, drv.uc[u].phase = "open", ~drv.uc[u].cut
               PROVE  \E k \in Conns : object[k].impl # None /\ impl[object[k].impl].connection = u
    BY DEF ConnectionReachable
  <2>1. PICK i \in Conns : impl[i].connection = u
    BY DEF IInv, WorldInv, Linked
  <2>2. impl[i] # NoImpl /\ i # None
    BY <2>1, DriverAssumption, ConnectionAssumption DEF NoImpl, Conns
  <2>3. PICK k \in Conns : object[k].impl = i
    BY <2>2 DEF IInv, AppInv, ImplInv
  <2> QED
    BY <2>1, <2>2, <2>3
<1> QED
  BY <1>1, Invariance, PTL
=============================================================================
