----------------------------- MODULE DashProofs -----------------------------
(***************************************************************************)
(* Proofs about the client handles and the dashboard's metrics engines     *)
(* (ClientHandles, DashEngines), for any number of adapters, engines,      *)
(* connections, channels and reader slots.                                 *)
(*                                                                         *)
(* The argument.  Each call on a handle takes a world, the slots and       *)
(* counts of the connections and what the handles hold, to another, and    *)
(* keeps it Sound: a slot in use has one owner (Owned), a count is the     *)
(* number of the handles that write (Counted), except on connections that  *)
(* were reassigned, which some handle still shares.  For the counts it is  *)
(* needed that engines never write: then assigning to an engine's handle   *)
(* changes none (HandleInv).  For the threads: one that is done, or told   *)
(* to stop, is the one the main actor joins next; a thread in its loop is  *)
(* one the array has or whose drop the main actor still has to do          *)
(* (ThreadInv); and an engine is started only while the array has it       *)
(* (MainInv).                                                              *)
(***************************************************************************)
EXTENDS DashEngines, FiniteSetTheorems, FunctionTheorems, TLAPS

(* A connection, a handle, and a world of both.                            *)
ConnType == [slot : [Slots -> Channels \cup {None}], writers : [Channels -> Int]]
HandleType == [impl : Impls \cup {None}, channel : Channels, reader : 0 .. MaxReaders,
               tx : BOOLEAN]
Worlds == [conn : [Impls -> ConnType], handle : [Handles -> HandleType]]

(* Impls that a handle shares; handles that read from a slot; that write.  *)
Used(w) == {i \in Impls : \E h \in Handles : w.handle[h].impl = i}
Reader(w, h, i, s) == w.handle[h].impl = i /\ w.handle[h].reader = s
Writers(w, i, c) ==
    {h \in Handles : w.handle[h].impl = i /\ w.handle[h].channel = c /\ w.handle[h].tx}

(* SlotsOwned and WritersCounted of w.                                     *)
Owned(w) ==
    \A i \in Impls : \A s \in Slots :
        /\ w.conn[i].slot[s] = None => \A h \in Handles : ~Reader(w, h, i, s)
        /\ w.conn[i].slot[s] # None => \E h \in Handles : Reader(w, h, i, s)
        /\ \A g, h \in Handles : Reader(w, g, i, s) /\ Reader(w, h, i, s) => g = h
        /\ \A h \in Handles : Reader(w, h, i, s) => w.handle[h].channel = w.conn[i].slot[s]
Counted(w, R) ==
    \A i \in Impls \ R : \A c \in Channels :
        w.conn[i].writers[c] = Cardinality(Writers(w, i, c))
Sound(w, R) == w \in Worlds /\ Owned(w) /\ Counted(w, R) /\ R \subseteq Used(w)
-----------------------------------------------------------------------------
(* The constants, in the form the proofs use them.                         *)
LEMMA Constants ==
    /\ MaxReaders \in Nat /\ Slots \subseteq Nat /\ 0 \notin Slots /\ IsFiniteSet(Slots)
    /\ Impls \subseteq Nat /\ None \notin Impls /\ None \notin Channels /\ 0 \in Channels
    /\ IsFiniteSet(Handles)
  BY HandlesAssumption, FS_Interval DEF Slots

(* Writers can be counted.                                                 *)
LEMMA WritersFinite ==
    ASSUME NEW w, NEW i, NEW c
    PROVE  IsFiniteSet(Writers(w, i, c)) /\ Cardinality(Writers(w, i, c)) \in Nat
<1>1. Writers(w, i, c) \in SUBSET Handles
  BY DEF Writers
<1>2. IsFiniteSet(Writers(w, i, c))
  BY <1>1, Constants, FS_Subset
<1> QED
  BY <1>2, FS_CardinalityType

(* A connection not in use is one,                                         *)
LEMMA NoConnTyped == NoConn \in ConnType
  BY Constants DEF NoConn, ConnType

(* and so is a handle not in use.                                          *)
LEMMA NoHandleTyped == NoHandle \in HandleType
  BY Constants DEF NoHandle, HandleType

(* An impl that no handle shares is reset; nothing refers to it.           *)
LEMMA CollectedKeeps ==
    ASSUME NEW w \in Worlds, NEW R, Owned(w), Counted(w, R)
    PROVE  LET u == Collected(w)
           IN  /\ u.handle = w.handle
               /\ Sound(u, R \cap Used(u))
<1> DEFINE u == Collected(w)
<1>1. /\ u.handle = w.handle
      /\ u = [conn |-> u.conn, handle |-> u.handle]
      /\ u.conn = [i \in Impls |-> IF \E h \in Handles : w.handle[h].impl = i THEN w.conn[i] ELSE NoConn]
  BY DEF Collected, Worlds
<1>2. u \in Worlds
  BY <1>1, NoConnTyped DEF Worlds
<1> HIDE DEF u
<1>3. ASSUME NEW i \in Impls, i \notin Used(u)
      PROVE  u.conn[i] = NoConn /\ \A h \in Handles : u.handle[h].impl # i
  BY <1>1, <1>3 DEF Used
<1>4. ASSUME NEW i \in Used(u) PROVE i \in Impls /\ u.conn[i] = w.conn[i]
  BY <1>1 DEF Used
<1>5. Owned(u)
  <2> SUFFICES ASSUME NEW i \in Impls, NEW s \in Slots
               PROVE  /\ u.conn[i].slot[s] = None => \A h \in Handles : ~Reader(u, h, i, s)
                      /\ u.conn[i].slot[s] # None => \E h \in Handles : Reader(u, h, i, s)
                      /\ \A g, h \in Handles : Reader(u, g, i, s) /\ Reader(u, h, i, s) => g = h
                      /\ \A h \in Handles : Reader(u, h, i, s) =>
                             u.handle[h].channel = u.conn[i].slot[s]
    BY DEF Owned
  <2>1. CASE i \in Used(u)
    <3>1. u.conn[i] = w.conn[i] /\ \A h \in Handles : Reader(u, h, i, s) <=> Reader(w, h, i, s)
      BY <1>1, <1>4, <2>1 DEF Reader
    <3>2. /\ w.conn[i].slot[s] = None => \A h \in Handles : ~Reader(w, h, i, s)
          /\ w.conn[i].slot[s] # None => \E h \in Handles : Reader(w, h, i, s)
          /\ \A g, h \in Handles : Reader(w, g, i, s) /\ Reader(w, h, i, s) => g = h
          /\ \A h \in Handles : Reader(w, h, i, s) => w.handle[h].channel = w.conn[i].slot[s]
      BY DEF Owned
    <3> QED
      BY <1>1, <3>1, <3>2
  <2>2. CASE i \notin Used(u)
    BY <1>3, <2>2 DEF Reader, NoConn
  <2> QED
    BY <2>1, <2>2
<1>6. Counted(u, R \cap Used(u))
  <2> SUFFICES ASSUME NEW i \in Impls \ (R \cap Used(u)), NEW c \in Channels
               PROVE  u.conn[i].writers[c] = Cardinality(Writers(u, i, c))
    BY DEF Counted
  <2>1. CASE i \in Used(u)
    BY <1>1, <1>4, <2>1 DEF Counted, Writers
  <2>2. CASE i \notin Used(u)
    <3>1. Writers(u, i, c) = {}
      BY <1>3, <2>2 DEF Writers
    <3> QED
      BY <1>3, <2>2, <3>1, FS_EmptySet DEF NoConn
  <2> QED
    BY <2>1, <2>2
<1> QED
  BY <1>1, <1>2, <1>5, <1>6 DEF u, Sound

(* The slots of some handles are given up, and nothing else changes.       *)
LEMMA UnregisterIs ==
    ASSUME NEW w \in Worlds, NEW S \in SUBSET Handles
    PROVE  LET u == UnregisterReaders(w, S)
           IN  /\ u \in Worlds /\ u.handle = w.handle
               /\ \A i \in Impls : u.conn[i].writers = w.conn[i].writers
               /\ \A i \in Impls : \A s \in Slots :
                      u.conn[i].slot[s] = IF \E h \in S : Reader(w, h, i, s) THEN None
                                          ELSE w.conn[i].slot[s]
<1> DEFINE u == UnregisterReaders(w, S)
           sl(i) == [s \in Slots |-> IF \E h \in S : Reader(w, h, i, s) THEN None
                                     ELSE w.conn[i].slot[s]]
           n(i) == [slot |-> sl(i), writers |-> w.conn[i].writers]
<1>1. \A i \in Impls : w.conn[i] \in ConnType
  BY DEF Worlds
<1>3. u = [w EXCEPT !.conn = [i \in Impls |-> n(i)]]
  BY DEF UnregisterReaders, Reader
<1>4. ASSUME NEW i \in Impls
      PROVE  n(i) \in ConnType /\ n(i).writers = w.conn[i].writers /\ n(i).slot = sl(i)
  <2>1. sl(i) \in [Slots -> Channels \cup {None}]
    BY <1>1 DEF ConnType
  <2> HIDE DEF sl
  <2> QED
    BY <1>1, <2>1 DEF ConnType
<1> HIDE DEF n
<1>5. u \in Worlds /\ u.handle = w.handle /\ u.conn = [i \in Impls |-> n(i)]
  BY <1>3, <1>4 DEF Worlds
<1> HIDE DEF u
<1>6. ASSUME NEW i \in Impls
      PROVE  u.conn[i].slot = sl(i) /\ u.conn[i].writers = w.conn[i].writers
  BY <1>4, <1>5
<1> QED
  BY <1>5, <1>6 DEF u

(* Handles give up their slots and go to other impls, or nowhere.          *)
LEMMA UnregisterKeeps ==
    ASSUME NEW w \in Worlds, NEW R, Owned(w), NEW S \in SUBSET Handles,
           NEW x \in Worlds,
           \A h \in Handles \ S : x.handle[h] = w.handle[h],
           \A h \in S : x.handle[h].reader = 0,
           \A i \in Impls : x.conn[i].slot = UnregisterReaders(w, S).conn[i].slot
    PROVE  Owned(x)
<1> SUFFICES ASSUME NEW i \in Impls, NEW s \in Slots
             PROVE  /\ x.conn[i].slot[s] = None => \A h \in Handles : ~Reader(x, h, i, s)
                    /\ x.conn[i].slot[s] # None => \E h \in Handles : Reader(x, h, i, s)
                    /\ \A g, h \in Handles : Reader(x, g, i, s) /\ Reader(x, h, i, s) => g = h
                    /\ \A h \in Handles : Reader(x, h, i, s) =>
                           x.handle[h].channel = x.conn[i].slot[s]
  BY DEF Owned
<1>1. x.conn[i].slot[s] = IF \E h \in S : Reader(w, h, i, s) THEN None ELSE w.conn[i].slot[s]
  BY UnregisterIs
<1>2. \A h \in S : ~Reader(x, h, i, s)
  BY Constants DEF Reader
<1>3. \A h \in Handles \ S : Reader(x, h, i, s) <=> Reader(w, h, i, s)
  BY DEF Reader
<1>4. /\ w.conn[i].slot[s] = None => \A h \in Handles : ~Reader(w, h, i, s)
      /\ w.conn[i].slot[s] # None => \E h \in Handles : Reader(w, h, i, s)
      /\ \A g, h \in Handles : Reader(w, g, i, s) /\ Reader(w, h, i, s) => g = h
      /\ \A h \in Handles : Reader(w, h, i, s) => w.handle[h].channel = w.conn[i].slot[s]
  BY DEF Owned
<1>5. CASE \E h \in S : Reader(w, h, i, s)
  BY <1>1, <1>2, <1>3, <1>4, <1>5
<1>6. CASE ~ \E h \in S : Reader(w, h, i, s)
  BY <1>1, <1>2, <1>3, <1>4, <1>6
<1> QED
  BY <1>5, <1>6

(* ~CANClient for some handles: their slots are free and their writers no  *)
(* longer counted.                                                         *)
LEMMA DestroyKeeps ==
    ASSUME NEW w, NEW R, Sound(w, R), NEW S \in SUBSET Handles
    PROVE  LET u == Destroy(w, S)
           IN  /\ u.handle = [h \in Handles |-> IF h \in S THEN NoHandle ELSE w.handle[h]]
               /\ Sound(u, R \cap Used(u))
<1> DEFINE v == UnregisterReaders(w, S)
           W(i, c) == {h \in S : w.handle[h].tx /\ w.handle[h].impl = i /\ w.handle[h].channel = c}
           k(i) == [slot |-> v.conn[i].slot,
                    writers |-> [c \in Channels |-> v.conn[i].writers[c] - Cardinality(W(i, c))]]
           n == [conn |-> [i \in Impls |-> k(i)],
                 handle |-> [h \in Handles |-> IF h \in S THEN NoHandle ELSE w.handle[h]]]
<1>1. w \in Worlds /\ Owned(w) /\ Counted(w, R)
  BY DEF Sound
<1>2. /\ v \in Worlds /\ v.handle = w.handle
      /\ \A i \in Impls : v.conn[i].writers = w.conn[i].writers
  BY <1>1, UnregisterIs
<1>3. Destroy(w, S) = Collected(n)
  BY DEF Destroy
<1> HIDE DEF v
<1>4. ASSUME NEW i \in Impls, NEW c \in Channels
      PROVE  /\ IsFiniteSet(W(i, c)) /\ Cardinality(W(i, c)) \in Nat
             /\ W(i, c) \subseteq Writers(w, i, c)
             /\ Cardinality(Writers(w, i, c) \ W(i, c))
                  = Cardinality(Writers(w, i, c)) - Cardinality(W(i, c))
  <2>1. W(i, c) \subseteq Writers(w, i, c)
    BY DEF Writers
  <2>2. IsFiniteSet(Writers(w, i, c))
    BY WritersFinite
  <2> HIDE DEF W
  <2>3. IsFiniteSet(W(i, c))
    BY <2>1, <2>2, FS_Subset
  <2>4. Writers(w, i, c) \cap W(i, c) = W(i, c)
    BY <2>1
  <2> QED
    BY <2>1, <2>2, <2>3, <2>4, FS_Difference, FS_CardinalityType
<1>5. ASSUME NEW i \in Impls
      PROVE  /\ k(i) \in ConnType /\ k(i).slot = v.conn[i].slot
             /\ \A c \in Channels : k(i).writers[c] = w.conn[i].writers[c] - Cardinality(W(i, c))
  <2>1. v.conn[i] \in ConnType /\ v.conn[i].writers = w.conn[i].writers
    BY <1>2 DEF Worlds
  <2>0. \A c \in Channels : Cardinality(W(i, c)) \in Nat
    BY <1>4
  <2> HIDE DEF W
  <2>2. \A c \in Channels : v.conn[i].writers[c] - Cardinality(W(i, c)) \in Int
    BY <2>0, <2>1 DEF ConnType
  <2> DEFINE f == [c \in Channels |-> v.conn[i].writers[c] - Cardinality(W(i, c))]
  <2>3. f \in [Channels -> Int] /\ \A c \in Channels :
            f[c] = w.conn[i].writers[c] - Cardinality(W(i, c))
    BY <2>1, <2>2
  <2>4. k(i) = [slot |-> v.conn[i].slot, writers |-> f]
    OBVIOUS
  <2> HIDE DEF f, k
  <2> QED
    BY <2>1, <2>3, <2>4 DEF ConnType
<1>6. n.handle \in [Handles -> HandleType]
  BY <1>1, NoHandleTyped DEF Worlds
<1> HIDE DEF k
<1>7. n \in Worlds /\ \A i \in Impls : n.conn[i] = k(i)
  BY <1>5, <1>6 DEF Worlds
<1>8. /\ \A h \in Handles \ S : n.handle[h] = w.handle[h]
      /\ \A h \in S : n.handle[h].reader = 0 /\ ~n.handle[h].tx
      /\ n.handle = [h \in Handles |-> IF h \in S THEN NoHandle ELSE w.handle[h]]
  BY DEF NoHandle
<1> HIDE DEF n
<1>9. Owned(n)
  <2>1. \A i \in Impls : n.conn[i].slot = UnregisterReaders(w, S).conn[i].slot
    BY <1>5, <1>7 DEF v
  <2> QED
    BY <1>1, <1>7, <1>8, <2>1, UnregisterKeeps
<1>10. Counted(n, R)
  <2> SUFFICES ASSUME NEW i \in Impls \ R, NEW c \in Channels
               PROVE  n.conn[i].writers[c] = Cardinality(Writers(n, i, c))
    BY DEF Counted
  <2>1. Writers(n, i, c) = Writers(w, i, c) \ W(i, c)
    BY <1>8 DEF Writers
  <2>2. w.conn[i].writers[c] = Cardinality(Writers(w, i, c))
    BY <1>1 DEF Counted
  <2> HIDE DEF W
  <2> QED
    BY <1>4, <1>5, <1>7, <2>1, <2>2
<1> QED
  BY <1>3, <1>7, <1>8, <1>9, <1>10, CollectedKeeps

(* operator=: where it leaves the count wrong, the connections are among   *)
(* those reassigned.                                                       *)
LEMMA AssignKeeps ==
    ASSUME NEW w, NEW R, Sound(w, R), NEW h \in Handles, NEW g \in Handles,
           NEW Q, R \subseteq Q,
           \/ ~w.handle[h].tx
           \/ w.handle[h].impl = w.handle[g].impl /\ w.handle[h].channel = w.handle[g].channel
           \/ {w.handle[h].impl, w.handle[g].impl} \ {None} \subseteq Q
    PROVE  LET u == Assign(w, h, g)
           IN  /\ u.handle = [w.handle EXCEPT ![h] = [impl |-> w.handle[g].impl,
                                                      channel |-> w.handle[g].channel,
                                                      reader |-> 0, tx |-> w.handle[h].tx]]
               /\ Sound(u, Q \cap Used(u))
<1> DEFINE v == UnregisterReaders(w, {h})
           a == [impl |-> w.handle[g].impl, channel |-> w.handle[g].channel, reader |-> 0,
                 tx |-> w.handle[h].tx]
           n == [v EXCEPT !.handle[h] = [impl |-> w.handle[g].impl, channel |-> w.handle[g].channel,
                                         reader |-> 0, tx |-> @.tx]]
<1>1. w \in Worlds /\ Owned(w) /\ Counted(w, R)
  BY DEF Sound
<1>2. /\ v \in Worlds /\ v.handle = w.handle
      /\ \A i \in Impls : v.conn[i].writers = w.conn[i].writers
  BY <1>1, UnregisterIs
<1>3. Assign(w, h, g) = Collected(n)
  BY DEF Assign
<1> HIDE DEF v
<1>4. a \in HandleType
  BY <1>1, Constants DEF Worlds, HandleType
<1>5. /\ n \in Worlds /\ n.conn = v.conn
      /\ n.handle = [w.handle EXCEPT ![h] = a]
  <2>3. n = [v EXCEPT !.handle[h] = a]
    BY <1>2
  <2> HIDE DEF a, n
  <2>4. v \in [conn : [Impls -> ConnType], handle : [Handles -> HandleType]]
    BY <1>2 DEF Worlds
  <2> QED
    BY <1>2, <1>4, <2>3, <2>4 DEF Worlds
<1>6. /\ \A f \in Handles \ {h} : n.handle[f] = w.handle[f]
      /\ n.handle[h] = a
  BY <1>1, <1>5 DEF Worlds
<1>7. Owned(n)
  <2>1. {h} \in SUBSET Handles /\ \A f \in {h} : n.handle[f].reader = 0
    BY <1>6
  <2>2. \A i \in Impls : n.conn[i].slot = UnregisterReaders(w, {h}).conn[i].slot
    BY <1>5 DEF v
  <2> HIDE DEF n
  <2> QED
    BY <1>1, <1>5, <1>6, <2>1, <2>2, UnregisterKeeps
<1>8. Counted(n, Q)
  <2> SUFFICES ASSUME NEW i \in Impls \ Q, NEW c \in Channels
               PROVE  n.conn[i].writers[c] = Cardinality(Writers(n, i, c))
    BY DEF Counted
  <2>1. i \in Impls \ R /\ i # None
    BY Constants
  <2>2. n.conn[i].writers[c] = Cardinality(Writers(w, i, c))
    BY <1>1, <1>2, <1>5, <2>1 DEF Counted
  <2>3. Writers(n, i, c) = Writers(w, i, c)
    <3>1. /\ a.impl = w.handle[g].impl /\ a.channel = w.handle[g].channel
          /\ a.tx = w.handle[h].tx
      OBVIOUS
    <3> HIDE DEF a, n
    <3>2. \A f \in Handles : f \in Writers(n, i, c) <=> f \in Writers(w, i, c)
      BY <1>6, <2>1, <3>1 DEF Writers
    <3> QED
      BY <3>2 DEF Writers
  <2> QED
    BY <2>2, <2>3
<1> HIDE DEF n
<1> QED
  BY <1>3, <1>5, <1>7, <1>8, CollectedKeeps

(* The copy constructor: the copy neither reads nor writes yet.            *)
LEMMA CopyKeeps ==
    ASSUME NEW w, NEW R, Sound(w, R), NEW h \in Handles, w.handle[h].impl = None,
           NEW i \in Impls, NEW c \in Channels
    PROVE  LET u == Copy(w, h, i, c)
           IN  /\ u.handle = [w.handle EXCEPT ![h] = [impl |-> i, channel |-> c, reader |-> 0,
                                                      tx |-> FALSE]]
               /\ Sound(u, R \cap Used(u))
<1> DEFINE a == [impl |-> i, channel |-> c, reader |-> 0, tx |-> FALSE]
           u == Copy(w, h, i, c)
<1>1. w \in Worlds /\ Owned(w) /\ Counted(w, R) /\ R \subseteq Used(w)
  BY DEF Sound
<1>2. a \in HandleType
  BY Constants DEF HandleType
<1>3. u = [w EXCEPT !.handle[h] = a]
  BY DEF Copy
<1> HIDE DEF u
<1>4. /\ a.reader = 0 /\ a.tx = FALSE
  OBVIOUS
<1> HIDE DEF a
<1>5. u \in Worlds /\ u.conn = w.conn /\ u.handle = [w.handle EXCEPT ![h] = a]
  BY <1>1, <1>2, <1>3 DEF Worlds
<1>6. /\ \A f \in Handles \ {h} : u.handle[f] = w.handle[f]
      /\ u.handle[h] = a
  BY <1>1, <1>5 DEF Worlds
<1>7. \A j \in Impls : \A s \in Slots : \A f \in Handles : Reader(u, f, j, s) <=> Reader(w, f, j, s)
  BY <1>4, <1>6, Constants DEF Reader
<1>8. \A j \in Impls : \A s \in Slots : \A f \in Handles :
          Reader(u, f, j, s) => u.handle[f] = w.handle[f]
  BY <1>4, <1>6, Constants DEF Reader
<1>9. Owned(u)
  <2> SUFFICES ASSUME NEW j \in Impls, NEW s \in Slots
               PROVE  /\ u.conn[j].slot[s] = None => \A f \in Handles : ~Reader(u, f, j, s)
                      /\ u.conn[j].slot[s] # None => \E f \in Handles : Reader(u, f, j, s)
                      /\ \A f, g \in Handles : Reader(u, f, j, s) /\ Reader(u, g, j, s) => f = g
                      /\ \A f \in Handles : Reader(u, f, j, s) =>
                             u.handle[f].channel = u.conn[j].slot[s]
    BY DEF Owned
  <2>1. /\ w.conn[j].slot[s] = None => \A f \in Handles : ~Reader(w, f, j, s)
        /\ w.conn[j].slot[s] # None => \E f \in Handles : Reader(w, f, j, s)
        /\ \A f, g \in Handles : Reader(w, f, j, s) /\ Reader(w, g, j, s) => f = g
        /\ \A f \in Handles : Reader(w, f, j, s) => w.handle[f].channel = w.conn[j].slot[s]
    BY <1>1 DEF Owned
  <2> QED
    BY <1>5, <1>7, <1>8, <2>1
<1>10. Counted(u, R)
  <2> SUFFICES ASSUME NEW j \in Impls \ R, NEW d \in Channels
               PROVE  u.conn[j].writers[d] = Cardinality(Writers(u, j, d))
    BY DEF Counted
  <2>1. \A f \in Handles : f \in Writers(u, j, d) <=> f \in Writers(w, j, d)
    BY <1>4, <1>6, Constants DEF Writers
  <2>2. Writers(u, j, d) = Writers(w, j, d)
    BY <2>1 DEF Writers
  <2> QED
    BY <1>1, <1>5, <2>2 DEF Counted
<1>11. R \subseteq Used(u)
  BY <1>1, <1>6, Constants DEF Used
<1>12. R \cap Used(u) = R
  BY <1>11
<1> QED
  BY <1>5, <1>9, <1>10, <1>11, <1>12 DEF Sound, u, a

(* The least free slot is a free slot.                                     *)
LEMMA FirstFree ==
    ASSUME NEW S, S \subseteq Nat, S # {}
    PROVE  Min(S) \in S
<1>1. PICK m \in S : \A k \in S : ~ (<<k, m>> \in OpToRel(<, Nat))
  BY WFMin, NatLessThanWellFounded, Zenon
<1>2. \A k \in S : ~ (k < m)
  BY <1>1 DEF OpToRel
<1>3. \A k \in S : m <= k
  BY <1>2
<1> QED
  BY <1>3 DEF Min

(* ensureReader: the slot found was nobody's.                              *)
LEMMA EnsureKeeps ==
    ASSUME NEW w, NEW R, Sound(w, R), NEW h \in Handles
    PROVE  LET u == EnsureReader(w, h)
           IN  /\ \A g \in Handles \ {h} : u.handle[g] = w.handle[g]
               /\ u.handle[h].impl = w.handle[h].impl /\ u.handle[h].tx = w.handle[h].tx
               /\ u.handle[h].channel = w.handle[h].channel
               /\ Sound(u, R \cap Used(u))
<1> DEFINE u == EnsureReader(w, h)
           i == w.handle[h].impl
           s == Min(FreeSlots(w.conn[i]))
<1>1. w \in Worlds /\ Owned(w) /\ Counted(w, R) /\ R \subseteq Used(w)
  BY DEF Sound
<1>2. w.handle[h] \in HandleType
  BY <1>1 DEF Worlds
<1>3. CASE u = w
  <2>1. R \cap Used(u) = R
    BY <1>1, <1>3
  <2> HIDE DEF u
  <2> QED
    BY <1>3, <2>1 DEF u
<1>4. CASE u # w
  <2>1. /\ i # None /\ w.handle[h].reader = 0 /\ FreeSlots(w.conn[i]) # {}
        /\ u = [w EXCEPT !.conn[i].slot[s] = w.handle[h].channel, !.handle[h].reader = s]
    BY <1>4 DEF EnsureReader, RegisterReader
  <2>2. i \in Impls
    BY <1>2, <2>1 DEF HandleType
  <2>3. s \in Slots /\ w.conn[i].slot[s] = None
    <3>1. FreeSlots(w.conn[i]) \subseteq Slots
      BY DEF FreeSlots
    <3>2. s \in FreeSlots(w.conn[i])
      BY <2>1, <3>1, Constants, FirstFree
    <3> QED
      BY <3>2 DEF FreeSlots
  <2> HIDE DEF i, s, u
  <2> DEFINE x == [w.conn[i] EXCEPT !.slot[s] = w.handle[h].channel]
             a == [w.handle[h] EXCEPT !.reader = s]
  <2>4. w.conn[i] \in ConnType
    BY <1>1, <2>2 DEF Worlds
  <2>5. /\ x \in ConnType /\ x.writers = w.conn[i].writers
        /\ x.slot = [w.conn[i].slot EXCEPT ![s] = w.handle[h].channel]
    BY <1>2, <2>3, <2>4 DEF ConnType, HandleType
  <2>6. /\ a \in HandleType /\ a.reader = s /\ a.impl = w.handle[h].impl
        /\ a.channel = w.handle[h].channel /\ a.tx = w.handle[h].tx
    BY <1>2, <2>3 DEF HandleType, Slots
  <2>7. u = [w EXCEPT !.conn[i] = x, !.handle[h] = a]
    BY <2>1
  <2> HIDE DEF x, a
  <2>8. /\ u \in Worlds /\ u.conn = [w.conn EXCEPT ![i] = x]
        /\ u.handle = [w.handle EXCEPT ![h] = a]
    BY <1>1, <2>2, <2>5, <2>6, <2>7 DEF Worlds
  <2>9. /\ \A f \in Handles \ {h} : u.handle[f] = w.handle[f]
        /\ u.handle[h] = a
        /\ \A j \in Impls \ {i} : u.conn[j] = w.conn[j]
        /\ u.conn[i] = x
    BY <1>1, <2>2, <2>8 DEF Worlds
  <2>10. /\ \A f \in Handles : u.handle[f].impl = w.handle[f].impl
                               /\ u.handle[f].channel = w.handle[f].channel
                               /\ u.handle[f].tx = w.handle[f].tx
         /\ \A j \in Impls : u.conn[j].writers = w.conn[j].writers
    BY <2>5, <2>6, <2>9
  <2>11. Owned(u)
    <3> SUFFICES ASSUME NEW j \in Impls, NEW t \in Slots
                 PROVE  /\ u.conn[j].slot[t] = None => \A f \in Handles : ~Reader(u, f, j, t)
                        /\ u.conn[j].slot[t] # None => \E f \in Handles : Reader(u, f, j, t)
                        /\ \A f, g \in Handles : Reader(u, f, j, t) /\ Reader(u, g, j, t) => f = g
                        /\ \A f \in Handles : Reader(u, f, j, t) =>
                               u.handle[f].channel = u.conn[j].slot[t]
      BY DEF Owned
    <3>1. /\ w.conn[j].slot[t] = None => \A f \in Handles : ~Reader(w, f, j, t)
          /\ w.conn[j].slot[t] # None => \E f \in Handles : Reader(w, f, j, t)
          /\ \A f, g \in Handles : Reader(w, f, j, t) /\ Reader(w, g, j, t) => f = g
          /\ \A f \in Handles : Reader(w, f, j, t) => w.handle[f].channel = w.conn[j].slot[t]
      BY <1>1 DEF Owned
    <3>2. CASE j = i /\ t = s
      <4>1. u.conn[j].slot[t] = w.handle[h].channel /\ w.handle[h].channel # None
        BY <1>2, <2>3, <2>4, <2>5, <2>9, <3>2, Constants DEF ConnType, HandleType
      <4>2. \A f \in Handles : Reader(u, f, j, t) <=> f = h
        BY <2>3, <2>6, <2>9, <3>1, <3>2 DEF Reader, i
      <4> QED
        BY <2>6, <2>9, <4>1, <4>2
    <3>3. CASE ~(j = i /\ t = s)
      <4>1. u.conn[j].slot[t] = w.conn[j].slot[t]
        BY <2>3, <2>4, <2>5, <2>9, <3>3 DEF ConnType
      <4>2. ~Reader(w, h, j, t) /\ ~Reader(u, h, j, t)
        BY <2>1, <2>6, <2>9, <3>3, Constants DEF Reader, i
      <4>3. \A f \in Handles : Reader(u, f, j, t) <=> Reader(w, f, j, t)
        BY <2>9, <4>2 DEF Reader
      <4> QED
        BY <2>10, <3>1, <4>1, <4>3
    <3> QED
      BY <3>2, <3>3
  <2>12. Counted(u, R) /\ Used(u) = Used(w)
    <3>1. \A j, d : Writers(u, j, d) = Writers(w, j, d)
      BY <2>10 DEF Writers
    <3> QED
      BY <1>1, <2>10, <3>1 DEF Counted, Used
  <2>13. R \cap Used(u) = R
    BY <1>1, <2>12
  <2> QED
    BY <1>1, <2>8, <2>9, <2>10, <2>11, <2>12, <2>13 DEF Sound, u
<1> QED
  BY <1>3, <1>4

(* The first write of a handle counts it.                                  *)
LEMMA WriteKeeps ==
    ASSUME NEW w, NEW R, Sound(w, R), NEW h \in Handles, w.handle[h].impl # None
    PROVE  LET u == Write(w, h)
           IN  /\ \A g \in Handles \ {h} : u.handle[g] = w.handle[g]
               /\ Sound(u, R \cap Used(u))
<1> DEFINE u == Write(w, h)
           i == w.handle[h].impl
           c == w.handle[h].channel
<1>1. w \in Worlds /\ Owned(w) /\ Counted(w, R) /\ R \subseteq Used(w)
  BY DEF Sound
<1>2. w.handle[h] \in HandleType /\ i \in Impls /\ c \in Channels
  BY <1>1 DEF Worlds, HandleType
<1>3. CASE u = w
  <2>1. R \cap Used(u) = R
    BY <1>1, <1>3
  <2> HIDE DEF u
  <2> QED
    BY <1>3, <2>1 DEF u
<1>4. CASE u # w
  <2>1. /\ ~w.handle[h].tx
        /\ u = [w EXCEPT !.handle[h].tx = TRUE, !.conn[i].writers[c] = @ + 1]
    BY <1>4 DEF Write
  <2> DEFINE a == [w.handle[h] EXCEPT !.tx = TRUE]
             x == [w.conn[i] EXCEPT !.writers[c] = @ + 1]
  <2>2. w.conn[i] \in ConnType
    BY <1>1, <1>2 DEF Worlds
  <2>3. /\ x \in ConnType /\ x.slot = w.conn[i].slot
        /\ x.writers = [w.conn[i].writers EXCEPT ![c] = @ + 1]
    <3> DEFINE f == [w.conn[i].writers EXCEPT ![c] = @ + 1]
    <3>1. f \in [Channels -> Int]
      BY <1>2, <2>2 DEF ConnType
    <3>2. x = [w.conn[i] EXCEPT !.writers = f]
      OBVIOUS
    <3> HIDE DEF f, x
    <3>3. x \in ConnType /\ x.slot = w.conn[i].slot /\ x.writers = f
      BY <2>2, <3>1, <3>2 DEF ConnType
    <3> QED
      BY <3>3 DEF f
  <2>4. /\ a \in HandleType /\ a.reader = w.handle[h].reader /\ a.impl = w.handle[h].impl
        /\ a.channel = w.handle[h].channel /\ a.tx
    BY <1>2 DEF HandleType
  <2>5. u = [w EXCEPT !.handle[h] = a, !.conn[i] = x]
    BY <2>1
  <2> HIDE DEF a, x, u
  <2>6. /\ u \in Worlds /\ u.conn = [w.conn EXCEPT ![i] = x]
        /\ u.handle = [w.handle EXCEPT ![h] = a]
    BY <1>1, <1>2, <2>3, <2>4, <2>5 DEF Worlds
  <2>7. /\ \A f \in Handles \ {h} : u.handle[f] = w.handle[f]
        /\ u.handle[h] = a
        /\ \A j \in Impls \ {i} : u.conn[j] = w.conn[j]
        /\ u.conn[i] = x
    BY <1>1, <1>2, <2>6 DEF Worlds
  <2>8. /\ \A f \in Handles : u.handle[f].impl = w.handle[f].impl
                              /\ u.handle[f].channel = w.handle[f].channel
                              /\ u.handle[f].reader = w.handle[f].reader
        /\ \A j \in Impls : u.conn[j].slot = w.conn[j].slot
    BY <2>3, <2>4, <2>7
  <2>9. Owned(u)
    BY <1>1, <2>8 DEF Owned, Reader
  <2>10. Counted(u, R)
    <3> SUFFICES ASSUME NEW j \in Impls \ R, NEW d \in Channels
                 PROVE  u.conn[j].writers[d] = Cardinality(Writers(u, j, d))
      BY DEF Counted
    <3>1. w.conn[j].writers[d] = Cardinality(Writers(w, j, d))
      BY <1>1 DEF Counted
    <3>2. CASE j = i /\ d = c
      <4>1. Writers(u, j, d) = Writers(w, j, d) \cup {h}
        BY <2>4, <2>7, <3>2 DEF Writers
      <4>2. h \notin Writers(w, j, d)
        BY <2>1 DEF Writers
      <4>3. Cardinality(Writers(u, j, d)) = Cardinality(Writers(w, j, d)) + 1
        BY <4>1, <4>2, WritersFinite, FS_AddElement
      <4>4. u.conn[j].writers[d] = w.conn[j].writers[d] + 1
        BY <1>2, <2>2, <2>3, <2>7, <3>2 DEF ConnType
      <4> QED
        BY <3>1, <4>3, <4>4
    <3>3. CASE ~(j = i /\ d = c)
      <4>1. \A f \in Handles : f \in Writers(u, j, d) <=> f \in Writers(w, j, d)
        <5>1. \A f \in Handles \ {h} : f \in Writers(u, j, d) <=> f \in Writers(w, j, d)
          BY <2>7 DEF Writers
        <5>2. h \notin Writers(u, j, d) /\ h \notin Writers(w, j, d)
          BY <2>1, <2>4, <2>7, <3>3 DEF Writers
        <5> QED
          BY <5>1, <5>2
      <4>2. Writers(u, j, d) = Writers(w, j, d)
        BY <4>1 DEF Writers
      <4>3. u.conn[j].writers[d] = w.conn[j].writers[d]
        BY <1>2, <2>2, <2>3, <2>7, <3>3 DEF ConnType
      <4> QED
        BY <3>1, <4>2, <4>3
    <3> QED
      BY <3>2, <3>3
  <2>11. R \cap Used(u) = R /\ R \subseteq Used(u)
    BY <1>1, <2>8 DEF Used
  <2> QED
    BY <2>6, <2>7, <2>9, <2>10, <2>11 DEF Sound, u
<1> QED
  BY <1>3, <1>4

-----------------------------------------------------------------------------
Verbs == {"drop", "stop", "join", "join drop", "end", "start", "close"}
Commands == Verbs \X (Adapters \cup Engines \cup {None})
EngineType == [running : BOOLEAN, cancelled : BOOLEAN, thread : {"none", "loop", "done"}]
DashTypes ==
    /\ app \in [Adapters -> {"absent", "listed", "connected", "open"}]
    /\ dash \in [Adapters -> Engines \cup {None}]
    /\ engine \in [Engines -> EngineType]
    /\ main \in Seq(Commands)

(* Only connected adapters have a connection; engines write on none.       *)
HandleInv ==
    /\ Sound(World, reassigned)
    /\ \A e \in Engines : ~handle[e].tx
    /\ \A p \in Adapters : handle[p].impl # None <=> On(p)

(* A thread told to stop, or that has, is what the main actor waits for.   *)
Joining(e) == main # <<>> /\ Head(main) \in {<<"join", e>>, <<"join drop", e>>}
ThreadInv ==
    \A e \in Engines :
        /\ engine[e].running <=> engine[e].thread = "loop"
        /\ engine[e].thread = "done" => Joining(e)
        /\ engine[e].thread = "loop" /\ engine[e].cancelled => Joining(e)
        /\ engine[e].thread # "none" => e \in Range(dash) \/ Waiting(e)

(* What the main actor will start is in the array, as is every adapter     *)
(* listed; what it will close has been opened.                             *)
Pending(c) == \E k \in DOMAIN main : main[k] = c
MainInv ==
    \A p \in Adapters : /\ Pending(<<"start", p>>) => dash[p] \in Engines
                        /\ Pending(<<"close", p>>) => On(p)
                        /\ dash[p] = None => app[p] = "absent"

IInv == DashTypes /\ HandleInv /\ ThreadInv /\ MainInv
-----------------------------------------------------------------------------
(* Adapters, engines and the tester are different handles.                 *)
LEMMA HandleSets ==
    /\ Adapters \subseteq Handles /\ Engines \subseteq Handles /\ Tester \in Handles
    /\ \A p \in Adapters, e \in Engines : p # e
    /\ \A p \in Adapters : p # Tester
    /\ \A e \in Engines : e # Tester
    /\ None \notin Handles
    /\ \A p \in Adapters : ChannelOf[p] \in Channels
  BY DashAssumption

(* The variables, as a world.                                              *)
LEMMA WorldIs ==
    ASSUME IInv
    PROVE  /\ World \in Worlds /\ World.conn = conn /\ World.handle = handle
           /\ conn \in [Impls -> ConnType] /\ handle \in [Handles -> HandleType]
           /\ reassigned \subseteq Impls
  BY DEF IInv, HandleInv, Sound, World, Worlds, Used

(* A call leaves the handles sound.                                        *)
LEMMA BecomesSound ==
    ASSUME NEW w, Becomes(w), Sound(w, reassigned \cap Used(w))
    PROVE  /\ Sound(World, reassigned)'
           /\ handle' = w.handle
<1>1. w = [conn |-> w.conn, handle |-> w.handle]
  BY DEF Sound, Worlds
<1>2. World' = w
  BY <1>1 DEF Becomes, World
<1>3. reassigned' = reassigned \cap Used(w)
  BY DEF Becomes, Used
<1>4. Sound(World', reassigned')
  BY <1>2, <1>3
<1> QED
  BY <1>4 DEF Becomes

(* Where the handles stay, so does what holds of them.                     *)
LEMMA HandlesStay ==
    ASSUME IInv, UNCHANGED <<conn, handle, reassigned>>
    PROVE  Sound(World, reassigned)' /\ World' = World
<1>1. World' = World
  BY DEF World
<1>2. Sound(World', reassigned')
  BY <1>1 DEF IInv, HandleInv
<1> QED
  BY <1>1, <1>2

-----------------------------------------------------------------------------
(* The main actor's action, one command done.                              *)
Later(c) == \E k \in 2 .. Len(main) : main[k] = c

(* What is left of the action is its next command and what comes later.    *)
LEMMA PendingSplit ==
    ASSUME main \in Seq(Commands), main # <<>>
    PROVE  \A c : Pending(c) <=> c = Head(main) \/ Later(c)
<1>1. Len(main) \in Nat /\ Len(main) > 0 /\ DOMAIN main = 1 .. Len(main) /\ Head(main) = main[1]
  OBVIOUS
<1>2. \A k : k \in 1 .. Len(main) <=> k = 1 \/ k \in 2 .. Len(main)
  BY <1>1
<1> QED
  BY <1>1, <1>2 DEF Pending, Later

(* The next command is done,                                               *)
LEMMA ThenNothing ==
    ASSUME main \in Seq(Commands), main # <<>>, Then(<<>>)
    PROVE  main' \in Seq(Commands) /\ \A c : Pending(c)' <=> Later(c)
<1>1. /\ Len(main) \in Nat /\ Tail(main) \in Seq(Commands)
      /\ Len(Tail(main)) = Len(main) - 1
      /\ \A k \in 1 .. Len(main) - 1 : Tail(main)[k] = main[k + 1]
  OBVIOUS
<1>2. main' = Tail(main)
  BY <1>1 DEF Then
<1>3. DOMAIN main' = 1 .. Len(main) - 1
  BY <1>1, <1>2
<1>4. ASSUME NEW c, Later(c) PROVE \E k \in DOMAIN main' : main'[k] = c
  <2>1. PICK k \in 2 .. Len(main) : main[k] = c
    BY <1>4 DEF Later
  <2>2. k - 1 \in 1 .. Len(main) - 1 /\ (k - 1) + 1 = k
    BY <1>1
  <2>3. Tail(main)[k - 1] = c
    BY <1>1, <2>1, <2>2
  <2> QED
    BY <1>2, <1>3, <2>2, <2>3
<1>5. ASSUME NEW c, \E k \in DOMAIN main' : main'[k] = c PROVE Later(c)
  <2>1. PICK k \in 1 .. Len(main) - 1 : Tail(main)[k] = c
    BY <1>2, <1>3, <1>5
  <2>2. k + 1 \in 2 .. Len(main) /\ main[k + 1] = c
    BY <1>1, <2>1
  <2> QED
    BY <2>2 DEF Later
<1> QED
  BY <1>1, <1>2, <1>4, <1>5 DEF Pending

(* or gives way to another.                                                *)
LEMMA ThenOne ==
    ASSUME main \in Seq(Commands), main # <<>>, NEW d \in Commands, Then(<<d>>)
    PROVE  /\ main' \in Seq(Commands) /\ main' # <<>> /\ Head(main') = d
           /\ \A c : Pending(c)' <=> c = d \/ Later(c)
<1>1. /\ Len(main) \in Nat /\ Len(main) > 0 /\ Tail(main) \in Seq(Commands)
      /\ Len(Tail(main)) = Len(main) - 1
      /\ \A k \in 1 .. Len(main) - 1 : Tail(main)[k] = main[k + 1]
  OBVIOUS
<1>2. main' = <<d>> \o Tail(main)
  BY DEF Then
<1>3. /\ <<d>> \in Seq(Commands) /\ Len(<<d>>) = 1 /\ <<d>>[1] = d
  OBVIOUS
<1>4. /\ main' \in Seq(Commands) /\ Len(main') = Len(main)
      /\ main'[1] = d
      /\ \A k \in 1 .. Len(main) - 1 : main'[1 + k] = Tail(main)[k]
  BY <1>1, <1>2, <1>3
<1>5. \A k \in 2 .. Len(main) : main'[k] = main[k]
  <2> SUFFICES ASSUME NEW k \in 2 .. Len(main) PROVE main'[k] = main[k]
    OBVIOUS
  <2>1. k - 1 \in 1 .. Len(main) - 1 /\ 1 + (k - 1) = k /\ (k - 1) + 1 = k
    BY <1>1
  <2> QED
    BY <1>1, <1>4, <2>1
<1>6. \A k : k \in DOMAIN main' <=> k = 1 \/ k \in 2 .. Len(main)
  BY <1>1, <1>4
<1>7. \A c : (\E k \in DOMAIN main' : main'[k] = c) <=> c = d \/ Later(c)
  BY <1>4, <1>5, <1>6 DEF Later
<1> QED
  BY <1>1, <1>4, <1>7 DEF Pending

-----------------------------------------------------------------------------
(* With nothing left to do no thread has been told to stop.                *)
LEMMA QuietThreads ==
    ASSUME IInv, Quiet, NEW e \in Engines
    PROVE  /\ ~Joining(e) /\ ~Waiting(e)
           /\ engine[e].thread # "none" => /\ engine[e].thread = "loop" /\ engine[e].running
                                           /\ ~engine[e].cancelled /\ e \in Range(dash)
<1>1. ~Joining(e) /\ ~Waiting(e)
  BY DEF Quiet, Joining, Waiting
<1>2. engine[e].thread \in {"none", "loop", "done"}
  BY DEF IInv, DashTypes, EngineType
<1> QED
  BY <1>1, <1>2 DEF IInv, ThreadInv

(* Waiting in terms of what is pending.                                    *)
LEMMA WaitingIs ==
    \A e : Waiting(e) <=> Pending(<<"drop", e>>) \/ Pending(<<"join drop", e>>)
  BY DEF Waiting, Pending

(* A step that leaves the array, the engines and the main actor alone.     *)
LEMMA EnginesStay ==
    ASSUME IInv, UNCHANGED <<dash, engine, main>>,
           \A p \in Adapters : On(p) => On(p)',
           \A p \in Adapters : app'[p] = "absent" <=> app[p] = "absent"
    PROVE  ThreadInv' /\ MainInv'
<1>1. ThreadInv'
  BY DEF IInv, ThreadInv, Joining, Waiting
<1>2. \A c : Pending(c)' <=> Pending(c)
  BY DEF Pending
<1>3. MainInv'
  BY <1>2 DEF IInv, MainInv
<1> QED
  BY <1>1, <1>3

(* An adapter gets a connection, or loses it.                              *)
LEMMA AdapterStep ==
    ASSUME IInv, Quiet, NEW p \in Adapters, app[p] # "absent",
           NEW x \in {"listed", "connected", "open"}, AppBecomes(p, x),
           NEW w, Becomes(w), Sound(w, reassigned \cap Used(w)),
           \A h \in Handles \ {p} : w.handle[h] = handle[h],
           w.handle[p].impl # None <=> x # "listed",
           UNCHANGED <<dash, engine, main>>
    PROVE  IInv'
<1>1. /\ Sound(World, reassigned)' /\ handle' = w.handle
  BY BecomesSound
<1>2. /\ app \in [Adapters -> {"absent", "listed", "connected", "open"}]
      /\ app' = [app EXCEPT ![p] = x]
  BY DEF IInv, DashTypes, AppBecomes
<1>3. /\ app'[p] = x /\ \A q \in Adapters \ {p} : app'[q] = app[q]
      /\ app' \in [Adapters -> {"absent", "listed", "connected", "open"}]
  BY <1>2
<1>4. DashTypes'
  BY <1>3 DEF IInv, DashTypes
<1>5. HandleInv'
  <2>1. \A e \in Engines : handle'[e] = handle[e]
    BY <1>1, HandleSets
  <2>2. \A q \in Adapters \ {p} : handle'[q] = handle[q]
    BY <1>1, HandleSets
  <2>3. handle'[p].impl # None <=> On(p)'
    BY <1>1, <1>3 DEF On
  <2>4. \A q \in Adapters \ {p} : handle'[q].impl # None <=> On(q)'
    BY <1>3, <2>2 DEF IInv, HandleInv, On
  <2> QED
    BY <1>1, <2>1, <2>3, <2>4 DEF IInv, HandleInv
<1>6. ThreadInv'
  BY DEF IInv, ThreadInv, Joining, Waiting
<1>7. MainInv'
  <2>1. \A c : ~Pending(c)'
    BY DEF Pending, Quiet
  <2> QED
    BY <1>3, <2>1 DEF IInv, MainInv
<1> QED
  BY <1>4, <1>5, <1>6, <1>7 DEF IInv

(* A connection, new or shared.                                            *)
LEMMA ConnectKeeps ==
    ASSUME IInv, NEW p \in Adapters, Connect(p)
    PROVE  IInv'
<1>1. /\ p \in Handles /\ Sound(World, reassigned) /\ World.handle = handle
      /\ handle \in [Handles -> HandleType] /\ ChannelOf[p] \in Channels
  BY HandleSets, WorldIs DEF IInv, HandleInv
<1>2. handle[p].impl = None
  BY DEF Connect, IInv, HandleInv, On
<1>3. ASSUME NEW i \in Impls, Becomes(Copy(World, p, i, ChannelOf[p]))
      PROVE  IInv'
  <2> DEFINE w == Copy(World, p, i, ChannelOf[p])
             a == [impl |-> i, channel |-> ChannelOf[p], reader |-> 0, tx |-> FALSE]
  <2>1. w.handle = [handle EXCEPT ![p] = a] /\ Sound(w, reassigned \cap Used(w))
    <3>1. World.handle[p].impl = None
      BY <1>1, <1>2
    <3>2. /\ w.handle = [World.handle EXCEPT ![p] = a]
          /\ Sound(w, reassigned \cap Used(w))
      BY <1>1, <3>1, CopyKeeps
    <3> QED
      BY <1>1, <3>2
  <2> HIDE DEF w
  <2>2. /\ \A h \in Handles \ {p} : w.handle[h] = handle[h]
        /\ w.handle[p].impl = i /\ i # None
    BY <1>1, <2>1, Constants
  <2>3. /\ Quiet /\ app[p] # "absent" /\ AppBecomes(p, "connected")
        /\ UNCHANGED <<dash, engine, main>>
    BY DEF Connect
  <2>4. Becomes(w)
    BY <1>3 DEF w
  <2> QED
    BY <2>1, <2>2, <2>3, <2>4, AdapterStep
<1>4. CASE UnusedImpls # {} /\ Becomes(Copy(World, p, Min(UnusedImpls), ChannelOf[p]))
  <2>1. UnusedImpls \subseteq Impls
    BY DEF UnusedImpls
  <2>2. Min(UnusedImpls) \in Impls
    BY <1>4, <2>1, Constants, FirstFree
  <2> QED
    BY <1>3, <1>4, <2>2
<1>5. CASE \E q \in Adapters \ {p} : On(q) /\ Becomes(Copy(World, p, handle[q].impl, ChannelOf[p]))
  <2>1. PICK q \in Adapters \ {p} :
            On(q) /\ Becomes(Copy(World, p, handle[q].impl, ChannelOf[p]))
    BY <1>5
  <2>2. handle[q].impl # None
    BY <2>1 DEF IInv, HandleInv
  <2>3. handle[q] \in HandleType
    BY <1>1, HandleSets
  <2>4. handle[q].impl \in Impls
    BY <2>2, <2>3 DEF HandleType
  <2> QED
    BY <1>3, <2>1, <2>4
<1> QED
  BY <1>4, <1>5 DEF Connect

(* A connection is given up.                                               *)
LEMMA DisconnectKeeps ==
    ASSUME IInv, NEW p \in Adapters, Disconnect(p)
    PROVE  IInv'
<1> DEFINE w == Destroy(World, {p})
<1>1. /\ {p} \in SUBSET Handles /\ Sound(World, reassigned) /\ World.handle = handle
  BY HandleSets, WorldIs DEF IInv, HandleInv
<1>2. /\ w.handle = [h \in Handles |-> IF h \in {p} THEN NoHandle ELSE handle[h]]
      /\ Sound(w, reassigned \cap Used(w))
  <2>1. /\ w.handle = [h \in Handles |-> IF h \in {p} THEN NoHandle ELSE World.handle[h]]
        /\ Sound(w, reassigned \cap Used(w))
    BY <1>1, DestroyKeeps, Zenon
  <2> QED
    BY <1>1, <2>1
<1>3. /\ Quiet /\ app[p] # "absent" /\ AppBecomes(p, "listed") /\ Becomes(w)
      /\ UNCHANGED <<dash, engine, main>>
  BY DEF Disconnect
<1> HIDE DEF w
<1>4. /\ \A h \in Handles \ {p} : w.handle[h] = handle[h]
      /\ w.handle[p].impl = None
  BY <1>1, <1>2 DEF NoHandle
<1> QED
  BY <1>2, <1>3, <1>4, AdapterStep

-----------------------------------------------------------------------------
(* A call that connects and disconnects no adapter.                        *)
LEMMA HandleStep ==
    ASSUME IInv, UNCHANGED app, Sound(World, reassigned)',
           \A p \in Adapters : handle'[p].impl = handle[p].impl,
           \A e \in Engines : handle'[e].tx = handle[e].tx
    PROVE  HandleInv'
  BY DEF IInv, HandleInv, On

(* A step of the handles leaves the rest of the invariant alone.           *)
LEMMA DashStays ==
    ASSUME IInv, HandleInv', UNCHANGED <<app, dash, engine, main>>
    PROVE  IInv'
<1>1. DashTypes'
  BY DEF IInv, DashTypes
<1>2. ThreadInv' /\ MainInv'
  BY EnginesStay DEF On
<1> QED
  BY <1>1, <1>2 DEF IInv

(* A read, whoever does it,                                                *)
LEMMA ReaderStep ==
    ASSUME IInv, NEW h \in Handles, Becomes(EnsureReader(World, h)),
           UNCHANGED <<app, dash, main, engine>>
    PROVE  IInv'
<1> DEFINE w == EnsureReader(World, h)
<1>1. /\ Sound(World, reassigned) /\ World.handle = handle
  BY WorldIs DEF IInv, HandleInv
<1>2. /\ \A g \in Handles \ {h} : w.handle[g] = World.handle[g]
      /\ w.handle[h].impl = World.handle[h].impl /\ w.handle[h].tx = World.handle[h].tx
      /\ Sound(w, reassigned \cap Used(w))
  BY <1>1, EnsureKeeps, Zenon
<1> HIDE DEF w
<1>3. Becomes(w)
  BY DEF w
<1>4. Sound(World, reassigned)' /\ handle' = w.handle
  BY <1>2, <1>3, BecomesSound
<1>5. \A g \in Handles : handle'[g].impl = handle[g].impl /\ handle'[g].tx = handle[g].tx
  BY <1>1, <1>2, <1>4
<1>6. HandleInv'
  BY <1>4, <1>5, HandleStep, HandleSets
<1> QED
  BY <1>6, DashStays

(* an engine                                                               *)
LEMMA ReadsKeeps ==
    ASSUME IInv, NEW e \in Engines, Reads(e)
    PROVE  IInv'
  BY ReaderStep, HandleSets DEF Reads

(* or the test.                                                            *)
LEMMA TestReadsKeeps ==
    ASSUME IInv, TestReads
    PROVE  IInv'
  BY ReaderStep, HandleSets DEF TestReads

(* The test writes.                                                        *)
LEMMA TestWritesKeeps ==
    ASSUME IInv, TestWrites
    PROVE  IInv'
<1> DEFINE w == Write(World, Tester)
<1>1. /\ Sound(World, reassigned) /\ World.handle = handle /\ Tester \in Handles
      /\ World.handle[Tester].impl # None
  BY WorldIs, HandleSets DEF IInv, HandleInv, TestWrites
<1>2. /\ \A g \in Handles \ {Tester} : w.handle[g] = World.handle[g]
      /\ Sound(w, reassigned \cap Used(w))
  BY <1>1, WriteKeeps, Zenon
<1> HIDE DEF w
<1>3. Becomes(w) /\ UNCHANGED <<app, dash, engine, main>>
  BY DEF w, TestWrites
<1>4. Sound(World, reassigned)' /\ handle' = w.handle
  BY <1>2, <1>3, BecomesSound
<1>5. HandleInv'
  <2>1. \A h \in Handles \ {Tester} : handle'[h] = handle[h]
    BY <1>1, <1>2, <1>4
  <2>2. /\ \A p \in Adapters : handle'[p].impl = handle[p].impl
        /\ \A e \in Engines : handle'[e].tx = handle[e].tx
    BY <2>1, HandleSets
  <2>3. UNCHANGED app
    BY <1>3
  <2> QED
    BY <1>4, <2>2, <2>3, HandleStep
<1> QED
  BY <1>3, <1>5, DashStays

(* The test engine goes.                                                   *)
LEMMA TestGoneKeeps ==
    ASSUME IInv, TestGone
    PROVE  IInv'
<1> DEFINE w == Destroy(World, {Tester})
<1>1. /\ Sound(World, reassigned) /\ World.handle = handle /\ {Tester} \in SUBSET Handles
  BY WorldIs, HandleSets DEF IInv, HandleInv
<1>2. /\ w.handle = [h \in Handles |-> IF h \in {Tester} THEN NoHandle ELSE World.handle[h]]
      /\ Sound(w, reassigned \cap Used(w))
  BY <1>1, DestroyKeeps, Zenon
<1> HIDE DEF w
<1>3. Becomes(w) /\ UNCHANGED <<app, dash, engine, main>>
  BY DEF w, TestGone
<1>4. Sound(World, reassigned)' /\ handle' = w.handle
  BY <1>2, <1>3, BecomesSound
<1>5. HandleInv'
  <2>1. \A h \in Handles \ {Tester} : handle'[h] = handle[h]
    BY <1>1, <1>2, <1>4
  <2>2. /\ \A p \in Adapters : handle'[p].impl = handle[p].impl
        /\ \A e \in Engines : handle'[e].tx = handle[e].tx
    BY <2>1, HandleSets
  <2>3. UNCHANGED app
    BY <1>3
  <2> QED
    BY <1>4, <2>2, <2>3, HandleStep
<1> QED
  BY <1>3, <1>5, DashStays

(* A test starts: its handle may have written elsewhere before.            *)
LEMMA TestStartsKeeps ==
    ASSUME IInv, NEW p \in Adapters, TestStarts(p)
    PROVE  IInv'
<1> DEFINE w == Assign(World, Tester, p)
           T == AssignTaints(Tester, p)
           Q == reassigned \cup T
<1>1. /\ Sound(World, reassigned) /\ World.handle = handle /\ Tester \in Handles /\ p \in Handles
      /\ World \in Worlds
  BY WorldIs, HandleSets DEF IInv, HandleInv
<1>2. \/ ~handle[Tester].tx
      \/ handle[Tester].impl = handle[p].impl /\ handle[Tester].channel = handle[p].channel
      \/ {handle[Tester].impl, handle[p].impl} \ {None} \subseteq Q
  BY DEF AssignTaints
<1>3. \/ ~World.handle[Tester].tx
      \/ /\ World.handle[Tester].impl = World.handle[p].impl
         /\ World.handle[Tester].channel = World.handle[p].channel
      \/ {World.handle[Tester].impl, World.handle[p].impl} \ {None} \subseteq Q
  BY <1>1, <1>2
<1>4. reassigned \subseteq Q
  OBVIOUS
<1>5. /\ handle' = w.handle /\ conn' = w.conn
      /\ reassigned' = Q \cap {i \in Impls : \E h \in Handles : w.handle[h].impl = i}
      /\ UNCHANGED <<app, dash, engine, main>>
  BY DEF TestStarts
<1> HIDE DEF Q
<1> DEFINE a == [impl |-> World.handle[p].impl, channel |-> World.handle[p].channel,
                 reader |-> 0, tx |-> World.handle[Tester].tx]
<1>6. /\ w.handle = [World.handle EXCEPT ![Tester] = a]
      /\ Sound(w, Q \cap Used(w))
  BY <1>1, <1>3, <1>4, AssignKeeps, Zenon
<1> HIDE DEF w
<1>7. reassigned' = Q \cap Used(w)
  BY <1>5 DEF Used
<1>8. w = [conn |-> w.conn, handle |-> w.handle]
  BY <1>6 DEF Sound, Worlds
<1>9. World' = w
  BY <1>5, <1>8 DEF World
<1>10. Sound(World', reassigned')
  BY <1>6, <1>7, <1>9
<1>11. \A h \in Handles \ {Tester} : handle'[h] = handle[h]
  BY <1>1, <1>5, <1>6 DEF Worlds
<1>12. HandleInv'
  BY <1>5, <1>10, <1>11, HandleStep, HandleSets
<1> QED
  BY <1>5, <1>12, DashStays
-----------------------------------------------------------------------------
(* A thread leaves its loop because it was told to: it is joined next.     *)
LEMMA ExitsKeeps ==
    ASSUME IInv, NEW e \in Engines, Exits(e)
    PROVE  IInv'
<1>1. /\ engine[e].thread = "loop" /\ engine[e].cancelled
      /\ engine' = [engine EXCEPT ![e] = [@ EXCEPT !.thread = "done", !.running = FALSE]]
      /\ UNCHANGED <<conn, handle, reassigned, app, dash, main>>
  BY DEF Exits
<1>2. engine \in [Engines -> EngineType]
  BY DEF IInv, DashTypes
<1>3. /\ engine' \in [Engines -> EngineType]
      /\ \A f \in Engines \ {e} : engine'[f] = engine[f]
      /\ engine'[e].thread = "done" /\ engine'[e].running = FALSE
  BY <1>1, <1>2 DEF EngineType
<1>4. HandleInv'
  BY <1>1, HandlesStay, HandleStep
<1>5. DashTypes'
  BY <1>1, <1>3 DEF IInv, DashTypes
<1>6. Joining(e) /\ (e \in Range(dash) \/ Waiting(e))
  BY <1>1 DEF IInv, ThreadInv
<1>7. \A f : (Joining(f)' <=> Joining(f)) /\ (Waiting(f)' <=> Waiting(f))
  BY <1>1 DEF Joining, Waiting
<1>8. ThreadInv'
  BY <1>1, <1>3, <1>6, <1>7 DEF IInv, ThreadInv
<1>9. MainInv'
  BY <1>1 DEF IInv, MainInv, Pending, On
<1> QED
  BY <1>4, <1>5, <1>8, <1>9 DEF IInv

(* Commands are equal if what to do and to whom are.                       *)
LEMMA CommandsDiffer ==
    \A v, w, x, y : <<v, x>> = <<w, y>> <=> v = w /\ x = y
  OBVIOUS

(* Commands that drop and join nothing.                                    *)
LEMMA ToDo ==
    ASSUME NEW x
    PROVE  /\ \A e : <<"close", x>> \notin {<<"drop", e>>, <<"join", e>>, <<"join drop", e>>}
           /\ \A e : <<"start", x>> \notin {<<"drop", e>>, <<"join", e>>, <<"join drop", e>>}
           /\ \A e : <<"end", x>> \notin {<<"drop", e>>, <<"join", e>>, <<"join drop", e>>}
           /\ \A e : <<"stop", x>> \notin {<<"drop", e>>, <<"join", e>>, <<"join drop", e>>}
  BY CommandsDiffer

(* Commands and the ends they stand for.                                   *)
LEMMA Ending ==
    ASSUME NEW x
    PROVE  /\ \A e : <<"start", x>> \notin {<<"join", e>>, <<"join drop", e>>, <<"end", e>>}
           /\ \A e : <<"close", x>> \notin {<<"join", e>>, <<"join drop", e>>, <<"end", e>>}
           /\ \A e : <<"drop", x>> \notin {<<"join", e>>, <<"join drop", e>>, <<"end", e>>}
           /\ \A e : <<"drop", x>> = <<"drop", e>> => e = x
           /\ \A e : <<"join", x>> \notin {<<"drop", e>>, <<"join drop", e>>}
           /\ \A e : <<"join", x>> = <<"join", e>> => e = x
           /\ \A e : <<"join drop", x>> \notin {<<"drop", e>>, <<"join", e>>}
           /\ \A e : <<"join drop", x>> = <<"join drop", e>> => e = x
  BY CommandsDiffer

(* Two commands are an action.                                             *)
LEMMA TwoCommands ==
    ASSUME NEW v \in Verbs, NEW w \in Verbs, NEW x \in Adapters \cup Engines \cup {None},
           NEW y \in Adapters \cup Engines \cup {None}
    PROVE  <<v, x>> \in Commands /\ <<<<v, x>>, <<w, y>>>> \in Seq(Commands)
<1>1. <<v, x>> \in Commands /\ <<w, y>> \in Commands
  BY DEF Commands
<1>2. ASSUME NEW a \in Commands, NEW b \in Commands PROVE <<a, b>> \in Seq(Commands)
  OBVIOUS
<1> QED
  BY <1>1, <1>2

(* The verbs.                                                              *)
LEMMA VerbsAre ==
    /\ "drop" \in Verbs /\ "stop" \in Verbs /\ "join" \in Verbs /\ "join drop" \in Verbs
    /\ "end" \in Verbs /\ "start" \in Verbs /\ "close" \in Verbs
  BY DEF Verbs

(* The new engine is in the array as the old one is dropped.               *)
LEMMA OpenCANKeeps ==
    ASSUME IInv, NEW p \in Adapters, OpenCAN(p)
    PROVE  IInv'
<1> DEFINE f == CHOOSE e \in FreeEngines : TRUE
           m == <<<<"drop", dash[p]>>, <<"start", p>>>>
<1>1. /\ Quiet /\ app[p] = "connected" /\ f \in FreeEngines
      /\ dash' = [dash EXCEPT ![p] = f] /\ main' = m
      /\ UNCHANGED <<conn, handle, reassigned, engine>>
      /\ AppBecomes(p, "connected") \/ AppBecomes(p, "open")
  BY DEF OpenCAN
<1>2. f \in Engines
  BY <1>1 DEF FreeEngines
<1> HIDE DEF f
<1>3. /\ app \in [Adapters -> {"absent", "listed", "connected", "open"}]
      /\ dash \in [Adapters -> Engines \cup {None}]
  BY DEF IInv, DashTypes
<1>4. /\ app' \in [Adapters -> {"absent", "listed", "connected", "open"}]
      /\ app'[p] \in {"connected", "open"}
      /\ \A q \in Adapters \ {p} : app'[q] = app[q]
  BY <1>1, <1>3 DEF AppBecomes
<1>5. /\ dash' \in [Adapters -> Engines \cup {None}]
      /\ dash'[p] = f /\ \A q \in Adapters \ {p} : dash'[q] = dash[q]
  BY <1>1, <1>2, <1>3
<1>6. m \in Seq(Commands)
  <2>1. dash[p] \in Adapters \cup Engines \cup {None} /\ p \in Adapters \cup Engines \cup {None}
    BY <1>3
  <2> QED
    BY <2>1, VerbsAre, TwoCommands
<1>7. DashTypes'
  BY <1>1, <1>4, <1>5, <1>6 DEF IInv, DashTypes
<1>8. \A q \in Adapters : On(q)' <=> On(q)
  BY <1>1, <1>4 DEF On
<1>9. HandleInv'
  BY <1>1, <1>8, HandlesStay DEF IInv, HandleInv
<1>10. /\ DOMAIN main' = {1, 2} /\ main'[1] = <<"drop", dash[p]>> /\ main'[2] = <<"start", p>>
  BY <1>1
<1>11. ThreadInv'
  <2> SUFFICES ASSUME NEW e \in Engines
               PROVE  /\ engine[e].running <=> engine[e].thread = "loop"
                      /\ engine[e].thread # "done"
                      /\ ~(engine[e].thread = "loop" /\ engine[e].cancelled)
                      /\ engine[e].thread # "none" => e \in Range(dash') \/ Waiting(e)'
    BY <1>1 DEF ThreadInv
  <2>1. e \in Range(dash) => e \in Range(dash') \/ dash[p] = e
    BY <1>3, <1>5 DEF Range
  <2>2. dash[p] = e => Waiting(e)'
    BY <1>10 DEF Waiting
  <2> QED
    BY <1>1, <2>1, <2>2, QuietThreads DEF IInv, ThreadInv
<1>12. MainInv'
  <2> SUFFICES ASSUME NEW q \in Adapters
               PROVE  /\ Pending(<<"start", q>>)' => dash'[q] \in Engines
                      /\ Pending(<<"close", q>>)' => On(q)'
                      /\ dash'[q] = None => app'[q] = "absent"
    BY DEF MainInv
  <2>1. Pending(<<"start", q>>)' => q = p
    BY <1>10 DEF Pending
  <2>2. ~Pending(<<"close", q>>)'
    BY <1>10 DEF Pending
  <2>3. f # None
    BY <1>2, HandleSets
  <2> QED
    BY <1>2, <1>4, <1>5, <2>1, <2>2, <2>3 DEF IInv, MainInv
<1> QED
  BY <1>7, <1>9, <1>11, <1>12 DEF IInv

(* Closing a channel stops its engine first,                               *)
LEMMA CloseCANKeeps ==
    ASSUME IInv, NEW p \in Adapters, CloseCAN(p)
    PROVE  IInv'
<1>1. /\ Quiet /\ app[p] = "open" /\ main' = <<<<"stop", dash[p]>>, <<"close", p>>>>
      /\ UNCHANGED <<conn, handle, reassigned, app, dash, engine>>
  BY DEF CloseCAN
<1>2. main' \in Seq(Commands)
  <2>1. dash[p] \in Adapters \cup Engines \cup {None} /\ p \in Adapters \cup Engines \cup {None}
    BY DEF IInv, DashTypes
  <2> QED
    BY <1>1, <2>1, VerbsAre, TwoCommands
<1>3. DashTypes'
  BY <1>1, <1>2 DEF IInv, DashTypes
<1>4. HandleInv'
  BY <1>1, HandlesStay, HandleStep
<1>5. /\ DOMAIN main' = {1, 2} /\ main'[1] = <<"stop", dash[p]>> /\ main'[2] = <<"close", p>>
  BY <1>1
<1>6. ThreadInv'
  <2> SUFFICES ASSUME NEW e \in Engines
               PROVE  /\ engine[e].running <=> engine[e].thread = "loop"
                      /\ engine[e].thread # "done"
                      /\ ~(engine[e].thread = "loop" /\ engine[e].cancelled)
                      /\ engine[e].thread # "none" => e \in Range(dash)
    BY <1>1 DEF ThreadInv
  <2> QED
    BY <1>1, QuietThreads DEF IInv, ThreadInv
<1>7. MainInv'
  <2>1. \A q : ~Pending(<<"start", q>>)' /\ (Pending(<<"close", q>>)' => q = p)
    BY <1>5 DEF Pending
  <2> QED
    BY <1>1, <2>1 DEF IInv, MainInv, On
<1> QED
  BY <1>3, <1>4, <1>6, <1>7 DEF IInv

(* and then closes.                                                        *)
LEMMA ClosesCANKeeps ==
    ASSUME IInv, NEW p \in Adapters, ClosesCAN(p)
    PROVE  IInv'
<1>1. /\ main # <<>> /\ Head(main) = <<"close", p>> /\ app' = [app EXCEPT ![p] = "connected"]
      /\ Then(<<>>) /\ UNCHANGED <<conn, handle, reassigned, dash, engine>>
  BY DEF ClosesCAN, AppBecomes
<1>2. main \in Seq(Commands) /\ app \in [Adapters -> {"absent", "listed", "connected", "open"}]
  BY DEF IInv, DashTypes
<1>3. /\ main' \in Seq(Commands) /\ \A c : Pending(c)' <=> Later(c)
      /\ \A c : Pending(c) <=> c = Head(main) \/ Later(c)
  BY <1>1, <1>2, ThenNothing, PendingSplit
<1>4. On(p)
  BY <1>1, <1>3 DEF IInv, MainInv
<1>5. /\ app' \in [Adapters -> {"absent", "listed", "connected", "open"}]
      /\ app'[p] = "connected" /\ \A q \in Adapters \ {p} : app'[q] = app[q]
  BY <1>1, <1>2
<1>6. \A q \in Adapters : (On(q)' <=> On(q)) /\ (app'[q] = "absent" <=> app[q] = "absent")
  BY <1>4, <1>5 DEF On
<1>7. DashTypes'
  BY <1>1, <1>3, <1>5 DEF IInv, DashTypes
<1>8. HandleInv'
  BY <1>1, <1>6, HandlesStay DEF IInv, HandleInv
<1>9. ThreadInv'
  <2> SUFFICES ASSUME NEW e \in Engines
               PROVE  /\ engine[e].running <=> engine[e].thread = "loop"
                      /\ engine[e].thread # "done"
                      /\ ~(engine[e].thread = "loop" /\ engine[e].cancelled)
                      /\ engine[e].thread # "none" => e \in Range(dash) \/ Waiting(e)'
    BY <1>1 DEF ThreadInv
  <2>1. ~Joining(e)
    BY <1>1, ToDo DEF Joining
  <2>2. Waiting(e) => Waiting(e)'
    <3>1. Pending(<<"drop", e>>) => Pending(<<"drop", e>>)'
      BY <1>1, <1>3, ToDo
    <3>2. Pending(<<"join drop", e>>) => Pending(<<"join drop", e>>)'
      BY <1>1, <1>3, ToDo
    <3> QED
      BY <3>1, <3>2 DEF Waiting, Pending
  <2> QED
    BY <2>1, <2>2 DEF IInv, ThreadInv
<1>10. MainInv'
  BY <1>1, <1>3, <1>6 DEF IInv, MainInv
<1> QED
  BY <1>7, <1>8, <1>9, <1>10 DEF IInv

(* A drop that was still to be done is still, unless it is done now.       *)
LEMMA StillWaiting ==
    ASSUME main \in Seq(Commands), main # <<>>, NEW f, Waiting(f),
           Head(main) \notin {<<"drop", f>>, <<"join drop", f>>},
           \A c : Later(c) => Pending(c)'
    PROVE  Waiting(f)'
<1>1. Pending(<<"drop", f>>) \/ Pending(<<"join drop", f>>)
  BY WaitingIs
<1>2. Later(<<"drop", f>>) \/ Later(<<"join drop", f>>)
  BY <1>1, PendingSplit
<1>3. Pending(<<"drop", f>>)' \/ Pending(<<"join drop", f>>)'
  BY <1>2
<1> QED
  BY <1>3 DEF Waiting, Pending

(* A command done, perhaps with another in its place, keeps what the other *)
(* commands need.                                                          *)
LEMMA MainStays ==
    ASSUME IInv, UNCHANGED <<app, dash>>, main # <<>>,
           \A c : Pending(c)' => Pending(c) \/ \E e : c \in {<<"join", e>>, <<"join drop", e>>, <<"end", e>>}
    PROVE  MainInv'
<1>1. \A p : Pending(<<"start", p>>)' => Pending(<<"start", p>>)
  BY Ending
<1>2. \A p : Pending(<<"close", p>>)' => Pending(<<"close", p>>)
  BY Ending
<1> QED
  BY <1>1, <1>2 DEF IInv, MainInv, On

(* start() starts the thread of an engine in the array.                    *)
LEMMA StartKeeps ==
    ASSUME IInv, NEW p \in Adapters, Start(p)
    PROVE  IInv'
<1> DEFINE e == dash[p]
<1>1. /\ main # <<>> /\ Head(main) = <<"start", p>> /\ Then(<<>>)
      /\ UNCHANGED <<app, dash>>
  BY DEF Start
<1>2. main \in Seq(Commands) /\ engine \in [Engines -> EngineType]
      /\ dash \in [Adapters -> Engines \cup {None}]
  BY DEF IInv, DashTypes
<1>3. /\ main' \in Seq(Commands) /\ \A c : Pending(c)' <=> Later(c)
      /\ \A c : Pending(c) <=> c = Head(main) \/ Later(c)
  BY <1>1, <1>2, ThenNothing, PendingSplit
<1>4. e \in Engines
  BY <1>1, <1>3 DEF IInv, MainInv
<1>5. e \in Range(dash)
  BY <1>2 DEF Range
<1>6. MainInv'
  BY <1>1, <1>3, MainStays
<1>7. \A f \in Engines : ~Joining(f)
  BY <1>1, ToDo DEF Joining
<1>8. \A f \in Engines : Waiting(f) => Waiting(f)'
  <2>1. \A f : Head(main) \notin {<<"drop", f>>, <<"join drop", f>>}
    BY <1>1, ToDo
  <2> QED
    BY <1>1, <1>2, <1>3, <2>1, StillWaiting
<1> HIDE DEF e
<1>9. CASE engine[e].running \/ handle[p].impl = None
  <2>1. UNCHANGED <<conn, handle, reassigned, engine>>
    BY <1>9 DEF Start, e
  <2>2. DashTypes'
    BY <1>1, <1>3, <2>1 DEF IInv, DashTypes
  <2>3. HandleInv'
    BY <1>1, <2>1, HandlesStay, HandleStep
  <2>4. ThreadInv'
    BY <1>1, <1>7, <1>8, <2>1 DEF IInv, ThreadInv
  <2> QED
    BY <1>6, <2>2, <2>3, <2>4 DEF IInv
<1>10. CASE ~(engine[e].running \/ handle[p].impl = None)
  <2> DEFINE w == Assign(World, e, p)
             n == [engine[e] EXCEPT !.cancelled = FALSE, !.thread = "loop", !.running = TRUE]
  <2>1. Becomes(w) /\ engine' = [engine EXCEPT ![e] = n]
    BY <1>10 DEF Start, e
  <2>2. /\ n \in EngineType /\ n.running /\ ~n.cancelled /\ n.thread = "loop"
    BY <1>2, <1>4 DEF EngineType
  <2> HIDE DEF n
  <2>3. /\ engine' \in [Engines -> EngineType] /\ engine'[e] = n
        /\ \A f \in Engines \ {e} : engine'[f] = engine[f]
    BY <1>2, <1>4, <2>1, <2>2
  <2>4. DashTypes'
    BY <1>1, <1>3, <2>3 DEF IInv, DashTypes
  <2>5. HandleInv'
    <3>1. /\ Sound(World, reassigned) /\ World.handle = handle /\ e \in Handles /\ p \in Handles
          /\ handle \in [Handles -> HandleType]
      BY <1>4, WorldIs, HandleSets DEF IInv, HandleInv
    <3>2. ~World.handle[e].tx
      BY <1>4, <3>1 DEF IInv, HandleInv
    <3> DEFINE a == [impl |-> World.handle[p].impl, channel |-> World.handle[p].channel,
                     reader |-> 0, tx |-> World.handle[e].tx]
    <3>3. /\ w.handle = [World.handle EXCEPT ![e] = a]
          /\ Sound(w, reassigned \cap Used(w))
      BY <3>1, <3>2, AssignKeeps, Zenon
    <3>4. a.tx = World.handle[e].tx
      OBVIOUS
    <3> HIDE DEF w, a
    <3>5. Sound(World, reassigned)' /\ handle' = w.handle
      BY <2>1, <3>3, BecomesSound DEF w
    <3>6. /\ handle'[e].tx = handle[e].tx
          /\ \A h \in Handles \ {e} : handle'[h] = handle[h]
      BY <3>1, <3>3, <3>4, <3>5
    <3>7. /\ \A q \in Adapters : handle'[q].impl = handle[q].impl
          /\ \A f \in Engines : handle'[f].tx = handle[f].tx
      BY <1>4, <3>6, HandleSets
    <3>8. UNCHANGED app
      BY <1>1
    <3> QED
      BY <3>5, <3>7, <3>8, HandleStep
  <2>6. ThreadInv'
    <3> SUFFICES ASSUME NEW f \in Engines
                 PROVE  /\ engine'[f].running <=> engine'[f].thread = "loop"
                        /\ engine'[f].thread # "done"
                        /\ ~(engine'[f].thread = "loop" /\ engine'[f].cancelled)
                        /\ engine'[f].thread # "none" => f \in Range(dash) \/ Waiting(f)'
      BY <1>1 DEF ThreadInv
    <3>1. CASE f = e
      BY <1>5, <2>2, <2>3, <3>1 DEF e
    <3>2. CASE f # e
      BY <1>7, <1>8, <2>3, <3>2 DEF IInv, ThreadInv
    <3> QED
      BY <3>1, <3>2
  <2> QED
    BY <1>6, <2>4, <2>5, <2>6 DEF IInv
<1> QED
  BY <1>9, <1>10

(* stop() or a destructor: what it cancels it joins next.                  *)
LEMMA StopKeeps ==
    ASSUME IInv, NEW e \in Engines, Stop(e)
    PROVE  IInv'
<1> DEFINE c0 == engine[e].cancelled \/ engine[e].running
           n == [engine[e] EXCEPT !.cancelled = c0]
<1>1. /\ main # <<>> /\ Head(main) \in {<<"stop", e>>, <<"drop", e>>}
      /\ engine' = [engine EXCEPT ![e] = n]
      /\ UNCHANGED <<conn, handle, reassigned, app, dash>>
  BY DEF Stop
<1>2. main \in Seq(Commands) /\ engine \in [Engines -> EngineType]
  BY DEF IInv, DashTypes
<1>3. /\ n \in EngineType /\ n.running = engine[e].running /\ n.thread = engine[e].thread
      /\ n.cancelled = c0
  BY <1>2 DEF EngineType
<1> HIDE DEF n
<1>4. /\ engine' \in [Engines -> EngineType] /\ engine'[e] = n
      /\ \A f \in Engines \ {e} : engine'[f] = engine[f]
  BY <1>1, <1>2, <1>3
<1>5. HandleInv'
  BY <1>1, HandlesStay, HandleStep
<1>6. \A c : Pending(c) <=> c = Head(main) \/ Later(c)
  BY <1>1, <1>2, PendingSplit
<1>7. \A f \in Engines : ~Joining(f)
  BY <1>1, ToDo, Ending DEF Joining
<1>8. CASE engine[e].running
  <2> DEFINE d == <<IF Head(main)[1] = "stop" THEN "join" ELSE "join drop", e>>
  <2>1. Then(<<d>>)
    BY <1>8 DEF Stop
  <2>2. /\ d \in {<<"join", e>>, <<"join drop", e>>}
        /\ Head(main) = <<"drop", e>> => d = <<"join drop", e>>
    BY <1>1
  <2>3. d \in Commands
    BY <2>2, VerbsAre DEF Commands
  <2> HIDE DEF d
  <2>4. /\ main' \in Seq(Commands) /\ main' # <<>> /\ Head(main') = d
        /\ \A c : Pending(c)' <=> c = d \/ Later(c)
    BY <1>1, <1>2, <2>1, <2>3, ThenOne
  <2>5. DashTypes'
    BY <1>1, <1>4, <2>4 DEF IInv, DashTypes
  <2>6. MainInv'
    BY <1>1, <1>6, <2>2, <2>4, MainStays
  <2>7. Joining(e)'
    BY <2>2, <2>4 DEF Joining
  <2>8. \A f \in Engines : Waiting(f) => Waiting(f)'
    <3> SUFFICES ASSUME NEW f \in Engines, Waiting(f) PROVE Waiting(f)'
      OBVIOUS
    <3>1. CASE Head(main) \notin {<<"drop", f>>, <<"join drop", f>>}
      BY <1>1, <1>2, <2>4, <3>1, StillWaiting
    <3>2. CASE Head(main) \in {<<"drop", f>>, <<"join drop", f>>}
      <4>1. Head(main) = <<"drop", e>> /\ f = e
        BY <1>1, <3>2, ToDo, Ending
      <4>2. Pending(<<"join drop", f>>)'
        BY <2>2, <2>4, <4>1
      <4> QED
        BY <4>2 DEF Waiting, Pending
    <3> QED
      BY <3>1, <3>2
  <2>9. ThreadInv'
    <3> SUFFICES ASSUME NEW f \in Engines
                 PROVE  /\ engine'[f].running <=> engine'[f].thread = "loop"
                        /\ engine'[f].thread = "done" => Joining(f)'
                        /\ engine'[f].thread = "loop" /\ engine'[f].cancelled => Joining(f)'
                        /\ engine'[f].thread # "none" => f \in Range(dash) \/ Waiting(f)'
      BY <1>1 DEF ThreadInv
    <3>1. CASE f = e
      BY <1>3, <1>4, <2>7, <2>8, <3>1 DEF IInv, ThreadInv
    <3>2. CASE f # e
      BY <1>4, <1>7, <2>8, <3>2 DEF IInv, ThreadInv
    <3> QED
      BY <3>1, <3>2
  <2> QED
    BY <1>5, <2>5, <2>6, <2>9 DEF IInv
<1>9. CASE ~engine[e].running
  <2>1. engine[e].thread = "none"
    BY <1>2, <1>7, <1>9 DEF IInv, ThreadInv, EngineType
  <2>2. /\ main' \in Seq(Commands)
        /\ \A c : Later(c) => Pending(c)'
        /\ \A c : Pending(c)' => Later(c) \/ c = <<"end", e>>
    <3>1. CASE Head(main) = <<"stop", e>>
      <4>1. Then(<<>>)
        <5>1. Head(main)[1] = "stop"
          BY <3>1
        <5> QED
          BY <1>9, <5>1 DEF Stop
      <4> QED
        BY <1>1, <1>2, <4>1, ThenNothing
    <3>2. CASE Head(main) = <<"drop", e>>
      <4>1. Then(<<<<"end", e>>>>)
        <5>1. Head(main)[1] = "drop"
          BY <3>2
        <5> QED
          BY <1>9, <5>1 DEF Stop
      <4>2. <<"end", e>> \in Commands
        BY VerbsAre DEF Commands
      <4> QED
        BY <1>1, <1>2, <4>1, <4>2, ThenOne
    <3> QED
      BY <1>1, <3>1, <3>2
  <2>3. DashTypes'
    BY <1>1, <1>4, <2>2 DEF IInv, DashTypes
  <2>4. MainInv'
    BY <1>1, <1>6, <2>2, MainStays
  <2>5. \A f \in Engines \ {e} : Waiting(f) => Waiting(f)'
    <3> SUFFICES ASSUME NEW f \in Engines \ {e}, Waiting(f) PROVE Waiting(f)'
      OBVIOUS
    <3>1. Head(main) \notin {<<"drop", f>>, <<"join drop", f>>}
      BY <1>1, ToDo, Ending
    <3> QED
      BY <1>1, <1>2, <2>2, <3>1, StillWaiting
  <2>6. ThreadInv'
    <3> SUFFICES ASSUME NEW f \in Engines
                 PROVE  /\ engine'[f].running <=> engine'[f].thread = "loop"
                        /\ engine'[f].thread # "done"
                        /\ ~(engine'[f].thread = "loop" /\ engine'[f].cancelled)
                        /\ engine'[f].thread # "none" => f \in Range(dash) \/ Waiting(f)'
      BY <1>1 DEF ThreadInv
    <3>1. CASE f = e
      BY <1>3, <1>4, <1>9, <2>1, <3>1
    <3>2. CASE f # e
      BY <1>4, <1>7, <2>5, <3>2 DEF IInv, ThreadInv
    <3> QED
      BY <3>1, <3>2
  <2> QED
    BY <1>5, <2>3, <2>4, <2>6 DEF IInv
<1> QED
  BY <1>8, <1>9

(* The thread is joined.                                                   *)
LEMMA JoinKeeps ==
    ASSUME IInv, NEW e \in Engines, Join(e)
    PROVE  IInv'
<1> DEFINE n == [engine[e] EXCEPT !.thread = "none", !.running = FALSE]
<1>1. /\ main # <<>> /\ Head(main) \in {<<"join", e>>, <<"join drop", e>>}
      /\ engine' = [engine EXCEPT ![e].thread = "none", ![e].running = FALSE]
      /\ UNCHANGED <<conn, handle, reassigned, app, dash>>
  BY DEF Join
<1>2. main \in Seq(Commands) /\ engine \in [Engines -> EngineType]
  BY DEF IInv, DashTypes
<1>3. engine' = [engine EXCEPT ![e] = n]
  BY <1>1, <1>2
<1>4. n \in EngineType /\ ~n.running /\ n.thread = "none"
  BY <1>2 DEF EngineType
<1> HIDE DEF n
<1>5. /\ engine' \in [Engines -> EngineType] /\ engine'[e] = n
      /\ \A f \in Engines \ {e} : engine'[f] = engine[f]
  BY <1>2, <1>3, <1>4
<1>6. HandleInv'
  BY <1>1, HandlesStay, HandleStep
<1>7. \A c : Pending(c) <=> c = Head(main) \/ Later(c)
  BY <1>1, <1>2, PendingSplit
<1>8. /\ main' \in Seq(Commands)
      /\ \A c : Later(c) => Pending(c)'
      /\ \A c : Pending(c)' => Later(c) \/ c = <<"end", e>>
  <2>1. CASE Head(main) = <<"join", e>>
    <3>1. Head(main)[1] = "join"
      BY <2>1
    <3>2. Then(<<>>)
      BY <3>1 DEF Join
    <3> QED
      BY <1>1, <1>2, <3>2, ThenNothing
  <2>2. CASE Head(main) = <<"join drop", e>>
    <3>1. Head(main)[1] # "join"
      BY <2>2, <<"join drop", e>>[1] = "join drop", VerbsAre
    <3>2. Then(<<<<"end", e>>>>)
      BY <3>1 DEF Join
    <3>3. <<"end", e>> \in Commands
      BY VerbsAre DEF Commands
    <3> QED
      BY <1>1, <1>2, <3>2, <3>3, ThenOne
  <2> QED
    BY <1>1, <2>1, <2>2
<1>9. DashTypes'
  BY <1>1, <1>5, <1>8 DEF IInv, DashTypes
<1>10. MainInv'
  BY <1>1, <1>7, <1>8, MainStays
<1>11. \A f \in Engines \ {e} : ~Joining(f) /\ (Waiting(f) => Waiting(f)')
  <2> SUFFICES ASSUME NEW f \in Engines \ {e} PROVE ~Joining(f) /\ (Waiting(f) => Waiting(f)')
    OBVIOUS
  <2>1. Head(main) \notin {<<"drop", f>>, <<"join", f>>, <<"join drop", f>>}
    BY <1>1, Ending
  <2> QED
    BY <1>1, <1>2, <1>8, <2>1, StillWaiting DEF Joining
<1>12. ThreadInv'
  <2> SUFFICES ASSUME NEW f \in Engines
               PROVE  /\ engine'[f].running <=> engine'[f].thread = "loop"
                      /\ engine'[f].thread # "done"
                      /\ ~(engine'[f].thread = "loop" /\ engine'[f].cancelled)
                      /\ engine'[f].thread # "none" => f \in Range(dash) \/ Waiting(f)'
    BY <1>1 DEF ThreadInv
  <2>1. CASE f = e
    BY <1>4, <1>5, <2>1
  <2>2. CASE f # e
    BY <1>5, <1>11, <2>2 DEF IInv, ThreadInv
  <2> QED
    BY <2>1, <2>2
<1> QED
  BY <1>6, <1>9, <1>10, <1>12 DEF IInv

(* The last reference goes, and with it the engine and its handle.         *)
LEMMA EndKeeps ==
    ASSUME IInv, NEW e \in Engines, End(e)
    PROVE  IInv'
<1>1. /\ main # <<>> /\ Head(main) = <<"end", e>> /\ Then(<<>>)
      /\ UNCHANGED <<app, dash>>
  BY DEF End
<1>2. main \in Seq(Commands) /\ engine \in [Engines -> EngineType]
  BY DEF IInv, DashTypes
<1>3. /\ main' \in Seq(Commands) /\ \A c : Pending(c)' <=> Later(c)
      /\ \A c : Pending(c) <=> c = Head(main) \/ Later(c)
  BY <1>1, <1>2, ThenNothing, PendingSplit
<1>4. MainInv'
  BY <1>1, <1>3, MainStays
<1>5. \A f \in Engines : ~Joining(f) /\ (Waiting(f) => Waiting(f)')
  <2>1. \A f : Head(main) \notin {<<"drop", f>>, <<"join", f>>, <<"join drop", f>>}
    BY <1>1, ToDo
  <2> QED
    BY <1>1, <1>2, <1>3, <2>1, StillWaiting DEF Joining
<1>6. CASE UNCHANGED <<conn, handle, reassigned, engine>>
  <2>1. DashTypes'
    BY <1>1, <1>3, <1>6 DEF IInv, DashTypes
  <2>2. HandleInv'
    BY <1>1, <1>6, HandlesStay, HandleStep
  <2>3. ThreadInv'
    BY <1>1, <1>5, <1>6 DEF IInv, ThreadInv
  <2> QED
    BY <1>4, <2>1, <2>2, <2>3 DEF IInv
<1>7. CASE Becomes(Destroy(World, {e})) /\ engine' = [engine EXCEPT ![e] = NewEngine]
  <2> DEFINE w == Destroy(World, {e})
  <2>1. NewEngine \in EngineType /\ ~NewEngine.running /\ NewEngine.thread = "none"
    BY DEF NewEngine, EngineType
  <2>2. /\ engine' \in [Engines -> EngineType] /\ engine'[e] = NewEngine
        /\ \A f \in Engines \ {e} : engine'[f] = engine[f]
    BY <1>2, <1>7, <2>1
  <2>3. DashTypes'
    BY <1>1, <1>3, <2>2 DEF IInv, DashTypes
  <2>4. HandleInv'
    <3>1. /\ Sound(World, reassigned) /\ World.handle = handle /\ {e} \in SUBSET Handles
          /\ e \in Handles
      BY WorldIs, HandleSets DEF IInv, HandleInv
    <3>2. /\ w.handle = [h \in Handles |-> IF h \in {e} THEN NoHandle ELSE World.handle[h]]
          /\ Sound(w, reassigned \cap Used(w))
      BY <3>1, DestroyKeeps, Zenon
    <3> HIDE DEF w
    <3>3. Sound(World, reassigned)' /\ handle' = w.handle
      BY <1>7, <3>2, BecomesSound DEF w
    <3>4. /\ \A h \in Handles \ {e} : handle'[h] = handle[h]
          /\ ~handle'[e].tx
      BY <3>1, <3>2, <3>3 DEF NoHandle
    <3>5. /\ \A q \in Adapters : handle'[q].impl = handle[q].impl
          /\ \A f \in Engines : handle'[f].tx = handle[f].tx
      <4>1. ~handle[e].tx /\ \A f \in Engines : handle[f].tx \in BOOLEAN /\ handle'[f].tx \in BOOLEAN
        <5>1. \A f \in Engines : handle[f] \in HandleType /\ w.handle[f] \in HandleType
          BY <3>1, <3>2, WorldIs, HandleSets DEF Sound, Worlds
        <5> QED
          BY <3>3, <5>1 DEF IInv, HandleInv, HandleType
      <4> QED
        BY <3>4, <4>1, HandleSets
    <3>6. UNCHANGED app
      BY <1>1
    <3> QED
      BY <3>3, <3>5, <3>6, HandleStep
  <2>5. ThreadInv'
    <3> SUFFICES ASSUME NEW f \in Engines
                 PROVE  /\ engine'[f].running <=> engine'[f].thread = "loop"
                        /\ engine'[f].thread # "done"
                        /\ ~(engine'[f].thread = "loop" /\ engine'[f].cancelled)
                        /\ engine'[f].thread # "none" => f \in Range(dash) \/ Waiting(f)'
      BY <1>1 DEF ThreadInv
    <3>1. CASE f = e
      BY <2>1, <2>2, <3>1
    <3>2. CASE f # e
      BY <1>5, <2>2, <3>2 DEF IInv, ThreadInv
    <3> QED
      BY <3>1, <3>2
  <2> QED
    BY <1>4, <2>3, <2>4, <2>5 DEF IInv
<1> QED
  BY <1>6, <1>7 DEF End
-----------------------------------------------------------------------------
(* Where there are enough free engines the adapters found get one each.    *)
LEMMA Injects ==
    ASSUME NEW S, NEW T, IsFiniteSet(S), IsFiniteSet(T), Cardinality(S) <= Cardinality(T)
    PROVE  \E f \in [S -> T] : IsInjective(f)
<1> DEFINE m == Cardinality(S)
           n == Cardinality(T)
<1>1. m \in Nat /\ n \in Nat /\ m <= n
  BY FS_CardinalityType
<1>2. PICK b \in Bijection(1 .. m, S) : TRUE
  BY FS_CardinalityType, Fun_ExistsBij
<1>3. PICK t \in Bijection(1 .. n, T) : TRUE
  BY FS_CardinalityType, Fun_ExistsBij
<1> HIDE DEF m, n
<1>4. /\ b \in [1 .. m -> S]
      /\ \A s \in S : \E k \in 1 .. m : b[k] = s
  BY <1>2 DEF Bijection, Surjection
<1>5. /\ t \in [1 .. n -> T] /\ \A j, k \in 1 .. n : t[j] = t[k] => j = k
  BY <1>3, Fun_BijectionProperties, Zenon
<1> DEFINE g == [s \in S |-> CHOOSE k \in 1 .. m : b[k] = s]
           f == [s \in S |-> t[g[s]]]
<1>6. \A s \in S : g[s] \in 1 .. m /\ b[g[s]] = s
  BY <1>4
<1> HIDE DEF g
<1>7. \A s \in S : g[s] \in 1 .. n
  BY <1>1, <1>6
<1>8. f \in [S -> T]
  BY <1>5, <1>7
<1>9. \A x, y \in S : f[x] = f[y] => x = y
  BY <1>5, <1>6, <1>7
<1>10. IsInjective(f)
  <2> HIDE DEF f
  <2> QED
    BY <1>8, <1>9 DEF IsInjective
<1> QED
  BY <1>8, <1>10

(* SetToSeq has every element of the set, and no other.                    *)
LEMMA Sequenced ==
    ASSUME NEW S, IsFiniteSet(S)
    PROVE  /\ SetToSeq(S) \in Seq(S)
           /\ \A x : x \in S <=> \E k \in DOMAIN SetToSeq(S) : SetToSeq(S)[k] = x
<1> DEFINE n == Cardinality(S)
           f == SetToSeq(S)
<1>1. n \in Nat /\ IsFiniteSet(1 .. n) /\ Cardinality(1 .. n) = n
  BY FS_CardinalityType, FS_Interval
<1>2. \E g \in [1 .. n -> S] : IsInjective(g)
  <2>1. Cardinality(1 .. n) <= Cardinality(S)
    BY <1>1
  <2> QED
    BY <1>1, <2>1, Injects, Zenon
<1>3. f \in [1 .. n -> S] /\ IsInjective(f)
  BY <1>2 DEF SetToSeq
<1> HIDE DEF f
<1>4. \A a, b \in 1 .. n : f[a] = f[b] => a = b
  BY <1>3 DEF IsInjective
<1>5. f \in Surjection(1 .. n, S)
  <2>1. f \in Injection(1 .. n, S)
    BY <1>3, <1>4, Fun_IsInj
  <2> HIDE DEF n
  <2>2. Cardinality(1 .. n) = Cardinality(S)
    BY <1>1 DEF n
  <2> QED
    BY <2>1, <2>2, FS_Injection
<1>6. \A x \in S : \E k \in 1 .. n : f[k] = x
  BY <1>5 DEF Surjection
<1> HIDE DEF n
<1>7. f \in Seq(S) /\ DOMAIN f = 1 .. n
  BY <1>1, <1>3
<1> QED
  BY <1>3, <1>6, <1>7 DEF f

(* A scan: every engine of the old array gets its drop, so that no thread  *)
(* is left out.                                                            *)
LEMMA RefreshKeeps ==
    ASSUME IInv, Refresh
    PROVE  IInv'
<1>1. PICK found \in SUBSET Adapters :
        LET gone == Old \ found
            kept == {p \in found \cap Old : app[p] = "open"}
            new == found \ kept
        IN  /\ Quiet
            /\ Cardinality(FreeEngines) >= Cardinality(new)
            /\ LET f == CHOOSE g \in [new -> FreeEngines] : IsInjective(g)
               IN  dash' = [p \in Adapters |-> IF p \in new THEN f[p]
                                               ELSE IF p \in kept THEN dash[p] ELSE None]
            /\ Becomes(Destroy(World, gone))
            /\ app' = [p \in Adapters |-> IF p \notin found THEN "absent"
                                           ELSE IF app[p] = "absent" THEN "listed" ELSE app[p]]
            /\ main' = SetToSeq({<<"drop", dash[p]>> : p \in Old})
            /\ UNCHANGED <<engine>>
  BY DEF Refresh
<1> DEFINE gone == Old \ found
           kept == {p \in found \cap Old : app[p] = "open"}
           new == found \ kept
           f == CHOOSE g \in [new -> FreeEngines] : IsInjective(g)
           w == Destroy(World, gone)
           drops == {<<"drop", dash[p]>> : p \in Old}
<1>2. /\ Quiet /\ Cardinality(FreeEngines) >= Cardinality(new)
      /\ dash' = [p \in Adapters |-> IF p \in new THEN f[p]
                                     ELSE IF p \in kept THEN dash[p] ELSE None]
      /\ Becomes(w)
      /\ app' = [p \in Adapters |-> IF p \notin found THEN "absent"
                                    ELSE IF app[p] = "absent" THEN "listed" ELSE app[p]]
      /\ main' = SetToSeq(drops) /\ engine' = engine
  BY <1>1
<1>3. /\ app \in [Adapters -> {"absent", "listed", "connected", "open"}]
      /\ dash \in [Adapters -> Engines \cup {None}]
  BY DEF IInv, DashTypes
<1>4. f \in [new -> FreeEngines]
  <2>1. new \in SUBSET Handles /\ FreeEngines \in SUBSET Handles
    BY HandleSets DEF FreeEngines
  <2>2. IsFiniteSet(new) /\ IsFiniteSet(FreeEngines)
    BY <2>1, Constants, FS_Subset
  <2>3. Cardinality(new) <= Cardinality(FreeEngines)
    BY <1>2, <2>2, FS_CardinalityType
  <2> HIDE DEF new
  <2>4. \E g \in [new -> FreeEngines] : IsInjective(g)
    BY <2>2, <2>3, Injects, Zenon
  <2> QED
    BY <2>4
<1> HIDE DEF f, w
<1>5. \A p \in new : f[p] \in Engines
  BY <1>4 DEF FreeEngines
<1>6. /\ dash' \in [Adapters -> Engines \cup {None}]
      /\ \A p \in Adapters : /\ dash'[p] = None => p \notin found
                             /\ p \in kept => dash'[p] = dash[p]
  <2>1. \A p \in kept : dash[p] # None /\ p \in found
    BY DEF Old
  <2>2. None \notin Engines
    BY HandleSets
  <2> HIDE DEF kept
  <2> QED
    BY <1>2, <1>3, <1>5, <2>1, <2>2
<1>7. /\ app' \in [Adapters -> {"absent", "listed", "connected", "open"}]
      /\ \A p \in Adapters : /\ p \notin found => app'[p] = "absent"
                             /\ p \in found => On(p)' = On(p)
  BY <1>2, <1>3 DEF On
<1>8. IsFiniteSet(drops) /\ drops \subseteq Commands
  <2>1. Old \in SUBSET Handles
    BY HandleSets DEF Old
  <2>2. IsFiniteSet(Old)
    BY <2>1, Constants, FS_Subset
  <2>3. drops \subseteq Commands
    <3> SUFFICES ASSUME NEW p \in Old PROVE <<"drop", dash[p]>> \in Commands
      OBVIOUS
    <3> QED
      BY <1>3, VerbsAre DEF Commands, Old
  <2> DEFINE s == [p \in Old |-> <<"drop", dash[p]>>]
  <2>4. s \in [Old -> drops] /\ \A x \in drops : \E p \in Old : s[p] = x
    OBVIOUS
  <2>5. s \in Surjection(Old, drops)
    <3> HIDE DEF s, drops
    <3> QED
      BY <2>4, Fun_IsSurj
  <2> HIDE DEF s, drops
  <2>6. IsFiniteSet(drops)
    BY <2>2, <2>5, FS_Surjection
  <2> QED
    BY <2>3, <2>6 DEF drops
<1>9. main' \in Seq(Commands) /\ \A x : x \in drops <=> Pending(x)'
  <2> HIDE DEF drops
  <2>1. SetToSeq(drops) \in Seq(drops)
        /\ \A x : x \in drops <=> \E k \in DOMAIN SetToSeq(drops) : SetToSeq(drops)[k] = x
    BY <1>8, Sequenced
  <2> QED
    BY <1>2, <1>8, <2>1 DEF Pending
<1>10. DashTypes'
  BY <1>2, <1>6, <1>7, <1>9 DEF IInv, DashTypes
<1>11. HandleInv'
  <2>1. /\ Sound(World, reassigned) /\ World.handle = handle /\ gone \in SUBSET Handles
    BY WorldIs, HandleSets DEF IInv, HandleInv, Old
  <2>2. /\ w.handle = [h \in Handles |-> IF h \in gone THEN NoHandle ELSE World.handle[h]]
        /\ Sound(w, reassigned \cap Used(w))
    <3> HIDE DEF gone
    <3> QED
      BY <2>1, DestroyKeeps, Zenon DEF w
  <2>3. Sound(World, reassigned)' /\ handle' = w.handle
    BY <1>2, <2>2, BecomesSound
  <2>4. \A h \in Handles : handle'[h] = IF h \in gone THEN NoHandle ELSE handle[h]
    BY <2>1, <2>2, <2>3
  <2>5. \A e \in Engines : ~handle'[e].tx
    BY <2>4, HandleSets DEF NoHandle, IInv, HandleInv
  <2>6. ASSUME NEW p \in Adapters PROVE handle'[p].impl # None <=> On(p)'
    <3>0. handle[p].impl # None <=> On(p)
      BY DEF IInv, HandleInv
    <3>1. CASE p \in found
      BY <1>7, <2>4, <3>0, <3>1, HandleSets
    <3>2. CASE p \notin found
      <4>1. ~On(p)'
        BY <1>7, <3>2 DEF On
      <4>2. CASE p \in gone
        BY <2>4, <4>1, <4>2, HandleSets DEF NoHandle
      <4>3. CASE p \notin gone
        <5>1. app[p] = "absent"
          BY <3>2, <4>3 DEF Old, IInv, MainInv
        <5>2. ~On(p)
          BY <5>1 DEF On
        <5> QED
          BY <2>4, <3>0, <4>1, <4>3, <5>2, HandleSets
      <4> QED
        BY <4>2, <4>3
    <3> QED
      BY <3>1, <3>2
  <2> QED
    BY <2>3, <2>5, <2>6 DEF HandleInv
<1>12. ThreadInv'
  <2> SUFFICES ASSUME NEW e \in Engines
               PROVE  /\ engine[e].running <=> engine[e].thread = "loop"
                      /\ engine[e].thread # "done"
                      /\ ~(engine[e].thread = "loop" /\ engine[e].cancelled)
                      /\ engine[e].thread # "none" => Waiting(e)'
    BY <1>2 DEF ThreadInv
  <2>1. ASSUME e \in Range(dash) PROVE Waiting(e)'
    <3>1. PICK p \in Adapters : dash[p] = e
      BY <1>3, <2>1 DEF Range
    <3>2. p \in Old
      BY <3>1, HandleSets DEF Old
    <3>3. <<"drop", e>> \in drops
      BY <3>1, <3>2
    <3> HIDE DEF drops
    <3>4. Pending(<<"drop", e>>)'
      BY <1>9, <3>3
    <3> QED
      BY <3>4 DEF Waiting, Pending
  <2> QED
    BY <1>2, <2>1, QuietThreads DEF IInv, ThreadInv
<1>13. MainInv'
  <2>1. ASSUME NEW p PROVE <<"start", p>> \notin drops /\ <<"close", p>> \notin drops
    <3>1. \A q \in Old : <<"start", p>> # <<"drop", dash[q]>> /\ <<"close", p>> # <<"drop", dash[q]>>
      BY ToDo
    <3> QED
      BY <3>1
  <2> HIDE DEF drops
  <2>2. \A p : ~Pending(<<"start", p>>)' /\ ~Pending(<<"close", p>>)'
    BY <1>9, <2>1
  <2> QED
    BY <1>6, <1>7, <2>2 DEF MainInv
<1> QED
  BY <1>10, <1>11, <1>12, <1>13 DEF IInv
-----------------------------------------------------------------------------
(* The invariant holds at first,                                           *)
LEMMA InitInvariant == Init => IInv
<1> SUFFICES ASSUME Init PROVE IInv
  OBVIOUS
<1>1. DashTypes
  BY DEF Init, DashTypes, NewEngine, EngineType
<1>2. Sound(World, reassigned)
  <2>1. /\ World \in Worlds /\ World.conn = [i \in Impls |-> NoConn]
        /\ World.handle = [h \in Handles |-> NoHandle] /\ reassigned = {}
    BY NoConnTyped, NoHandleTyped DEF Init, World, Worlds
  <2>2. \A h \in Handles : World.handle[h].impl = None
    BY <2>1 DEF NoHandle
  <2>3. \A i \in Impls : \A s \in Slots : World.conn[i].slot[s] = None
    BY <2>1 DEF NoConn
  <2>4. \A i \in Impls : \A c \in Channels : World.conn[i].writers[c] = 0
    BY <2>1 DEF NoConn
  <2>5. \A i \in Impls : \A c \in Channels : Writers(World, i, c) = {}
    BY <2>2, Constants DEF Writers
  <2>6. Owned(World)
    BY <2>2, <2>3, Constants DEF Owned, Reader
  <2>7. Counted(World, reassigned)
    BY <2>4, <2>5, FS_EmptySet DEF Counted
  <2> QED
    BY <2>1, <2>6, <2>7 DEF Sound
<1>3. HandleInv
  BY <1>2, HandleSets DEF Init, HandleInv, NoHandle, On
<1>4. ThreadInv
  BY DEF Init, ThreadInv, NewEngine
<1>5. MainInv
  BY DEF Init, MainInv, Pending
<1> QED
  BY <1>1, <1>3, <1>4, <1>5 DEF IInv

(* every step keeps it,                                                    *)
LEMMA NextInvariant == IInv /\ [Next]_vars => IInv'
<1> SUFFICES ASSUME IInv, [Next]_vars PROVE IInv'
  OBVIOUS
<1>1. ASSUME NEW p \in Adapters, ClosesCAN(p) \/ Start(p)
      PROVE  IInv'
  BY <1>1, ClosesCANKeeps, StartKeeps
<1>2. ASSUME NEW e \in Engines, Stop(e) \/ Join(e) \/ End(e)
      PROVE  IInv'
  BY <1>2, StopKeeps, JoinKeeps, EndKeeps
<1>3. ASSUME NEW p \in Adapters,
             Connect(p) \/ Disconnect(p) \/ OpenCAN(p) \/ CloseCAN(p) \/ TestStarts(p)
      PROVE  IInv'
  BY <1>3, ConnectKeeps, DisconnectKeeps, OpenCANKeeps, CloseCANKeeps, TestStartsKeeps
<1>4. ASSUME Refresh \/ TestGone \/ TestReads \/ TestWrites
      PROVE  IInv'
  BY <1>4, RefreshKeeps, TestGoneKeeps, TestReadsKeeps, TestWritesKeeps
<1>5. ASSUME NEW e \in Engines, Thread(e)
      PROVE  IInv'
  BY <1>5, ReadsKeeps, ExitsKeeps DEF Thread
<1>6. ASSUME UNCHANGED vars
      PROVE  IInv'
  <2>1. HandleInv'
    BY <1>6, HandlesStay, HandleStep DEF vars
  <2> QED
    BY <1>6, <2>1, DashStays DEF vars
<1> QED
  BY <1>1, <1>2, <1>3, <1>4, <1>5, <1>6 DEF Next, MainSteps, UserSteps

(* and so it always holds.                                                 *)
THEOREM Invariance == Spec => []IInv
<1>1. Init => IInv
  BY InitInvariant
<1>2. IInv /\ [Next]_vars => IInv'
  BY NextInvariant
<1> QED
  BY <1>1, <1>2, PTL DEF Spec

(* Every reader slot in use belongs to one handle, on its channel, and     *)
(* txWriterCount is the number of handles that write, through copies,      *)
(* assignments and destructions in any order (CANClient, can_client.cc).   *)
THEOREM HandlesCountedAlways == Spec => []HandlesCounted
<1>1. IInv => HandlesCounted
  <2> SUFFICES ASSUME IInv PROVE HandlesCounted
    OBVIOUS
  <2>1. /\ Owned(World) /\ Counted(World, reassigned) /\ World.conn = conn /\ World.handle = handle
        /\ handle \in [Handles -> HandleType]
    BY WorldIs DEF IInv, HandleInv, Sound
  <2>2. SlotsOwned
    <3> SUFFICES ASSUME NEW i \in Impls, NEW s \in Slots
                 PROVE  LET owners == {h \in Handles : handle[h].impl = i /\ handle[h].reader = s}
                        IN  IF conn[i].slot[s] = None THEN owners = {}
                            ELSE \E h \in owners : owners = {h} /\ handle[h].channel = conn[i].slot[s]
      BY DEF SlotsOwned
    <3>1. /\ conn[i].slot[s] = None => \A h \in Handles : ~Reader(World, h, i, s)
          /\ conn[i].slot[s] # None => \E h \in Handles : Reader(World, h, i, s)
          /\ \A g, h \in Handles : Reader(World, g, i, s) /\ Reader(World, h, i, s) => g = h
          /\ \A h \in Handles : Reader(World, h, i, s) => handle[h].channel = conn[i].slot[s]
      BY <2>1 DEF Owned
    <3>2. \A h : Reader(World, h, i, s) <=> handle[h].impl = i /\ handle[h].reader = s
      BY <2>1 DEF Reader
    <3> QED
      BY <3>1, <3>2
  <2>3. WritersCounted
    <3> SUFFICES ASSUME NEW i \in Impls \ reassigned, NEW c \in Channels
                 PROVE  conn[i].writers[c] = Cardinality(
                          {h \in Handles : handle[h] = [impl |-> i, channel |-> c,
                                                        reader |-> handle[h].reader, tx |-> TRUE]})
      BY DEF WritersCounted
    <3>1. ASSUME NEW h \in Handles
          PROVE  handle[h] = [impl |-> i, channel |-> c, reader |-> handle[h].reader, tx |-> TRUE]
                 <=> handle[h].impl = i /\ handle[h].channel = c /\ handle[h].tx
      <4> DEFINE r == handle[h]
      <4>1. r \in HandleType
        BY <2>1
      <4> HIDE DEF r
      <4>2. r = [impl |-> r.impl, channel |-> r.channel, reader |-> r.reader, tx |-> r.tx]
            /\ r.tx \in BOOLEAN
        BY <4>1 DEF HandleType
      <4>3. r.impl = i /\ r.channel = c /\ r.tx
            => r = [impl |-> i, channel |-> c, reader |-> r.reader, tx |-> TRUE]
        BY <4>2
      <4>4. r = [impl |-> i, channel |-> c, reader |-> r.reader, tx |-> TRUE]
            => r.impl = i /\ r.channel = c /\ r.tx
        BY <4>2
      <4> QED
        BY <4>3, <4>4 DEF r
    <3>2. {h \in Handles : handle[h] = [impl |-> i, channel |-> c,
                                        reader |-> handle[h].reader, tx |-> TRUE]}
            = Writers(World, i, c)
      BY <2>1, <3>1 DEF Writers
    <3> QED
      BY <2>1, <3>2 DEF Counted
  <2> QED
    BY <2>2, <2>3 DEF HandlesCounted
<1> QED
  BY <1>1, Invariance, PTL

(* No reader thread is left behind: the array has its engine, or the main  *)
(* actor is about to drop it (DashboardMetricsEngine::stop and destructor, *)
(* refreshPorts).                                                          *)
THEOREM ThreadsReachableAlways == Spec => []ThreadsReachable
<1>1. IInv => ThreadsReachable
  <2> SUFFICES ASSUME IInv PROVE ThreadsReachable
    OBVIOUS
  <2>1. TypeOK
    <3>1. conn \in [Impls -> ConnType] /\ handle \in [Handles -> HandleType] /\ DashTypes
      BY WorldIs DEF IInv
    <3> QED
      BY <3>1 DEF TypeOK, DashTypes, ConnType, HandleType, EngineType
  <2> QED
    BY <2>1 DEF IInv, ThreadInv, ThreadsReachable, Waiting
<1> QED
  BY <1>1, Invariance, PTL
=============================================================================
