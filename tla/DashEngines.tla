----------------------------- MODULE DashEngines -----------------------------
(***************************************************************************)
(* The dashboard: CANDashboardViewModel.swift keeps one                    *)
(* DashboardMetricsEngine (DashboardMetricsEngine.cpp) per adapter in an   *)
(* array, starts it when a CAN channel is opened, replaces it, and builds  *)
(* a new array when the ports are scanned again.  Each engine reads with   *)
(* a handle and a thread of its own; a test engine (TestEngines.cpp) reads *)
(* and writes beside them.                                                 *)
(*                                                                         *)
(* The main actor runs one action at a time.  What stop() and the engines' *)
(* destructors make it wait for is in main, the rest of its action.        *)
(***************************************************************************)
EXTENDS ClientHandles, Sequences, SequencesExt

CONSTANTS Adapters, Engines, Tester, ChannelOf

ASSUME DashAssumption ==
    /\ Handles = Adapters \cup Engines \cup {Tester} /\ None \notin Handles
    /\ Adapters \cap Engines = {} /\ Tester \notin Adapters \cup Engines
    /\ ChannelOf \in [Adapters -> Channels]

VARIABLES app,       \* of each adapter: absent, listed, connected or open
          dash,      \* dashEngines: what each listed adapter's element shares
          engine,    \* DashboardMetricsEngineImpl objects
          main       \* what is left of the main actor's action

vars == <<conn, handle, reassigned, app, dash, engine, main>>

\* thread: none, in its loop, or done and not joined
NewEngine == [running |-> FALSE, cancelled |-> FALSE, thread |-> "none"]

Init == /\ conn = [i \in Impls |-> NoConn]
        /\ handle = [h \in Handles |-> NoHandle]
        /\ reassigned = {}
        /\ app = [p \in Adapters |-> "absent"]
        /\ dash = [p \in Adapters |-> None]
        /\ engine = [e \in Engines |-> NewEngine]
        /\ main = <<>>

Becomes(w) == conn' = w.conn /\ handle' = w.handle
             /\ reassigned' = reassigned \cap {i \in Impls : \E h \in Handles : w.handle[h].impl = i}
Quiet == main = <<>>
Then(s) == main' = s \o Tail(main)
Waiting(e) == \E k \in DOMAIN main : main[k] \in {<<"drop", e>>, <<"join drop", e>>}
FreeEngines == {e \in Engines : e \notin Range(dash) /\ ~Waiting(e) /\ engine[e].thread = "none"}
UnusedImpls == {i \in Impls : \A h \in Handles : handle[h].impl # i}
-----------------------------------------------------------------------------
(* Adapters.  AppSession has the tasks that connect and open; here their  *)
(* results are there at once.                                              *)
On(p) == app[p] \in {"connected", "open"}
AppBecomes(p, state) == app' = [app EXCEPT ![p] = state]

Connect(p) ==
    /\ Quiet /\ app[p] = "listed"
    /\ \/ UnusedImpls # {}
          /\ LET i == Min(UnusedImpls)
             IN  Becomes(Copy(World, p, i, ChannelOf[p]))
       \/ \E q \in Adapters \ {p} : On(q)      \* shareConnection
                                    /\ Becomes(Copy(World, p, handle[q].impl, ChannelOf[p]))
    /\ AppBecomes(p, "connected")
    /\ UNCHANGED <<dash, engine, main>>

Disconnect(p) ==
    /\ Quiet /\ app[p] = "connected"
    /\ Becomes(Destroy(World, {p}))
    /\ AppBecomes(p, "listed")
    /\ UNCHANGED <<dash, engine, main>>

\* The engine is started whether the channel opens or not.
OpenCAN(p) ==
    /\ Quiet /\ app[p] = "connected"
    /\ FreeEngines # {}
    /\ AppBecomes(p, "connected") \/ AppBecomes(p, "open")
    /\ dash' = [dash EXCEPT ![p] = CHOOSE e \in FreeEngines : TRUE]
    /\ main' = <<<<"drop", dash[p]>>, <<"start", p>>>>
    /\ UNCHANGED <<conn, handle, reassigned, engine>>

CloseCAN(p) ==
    /\ Quiet /\ app[p] = "open"
    /\ main' = <<<<"stop", dash[p]>>, <<"close", p>>>>
    /\ UNCHANGED <<conn, handle, reassigned, app, dash, engine>>
ClosesCAN(p) ==
    /\ main # <<>> /\ Head(main) = <<"close", p>>
    /\ AppBecomes(p, "connected")
    /\ Then(<<>>)
    /\ UNCHANGED <<conn, handle, reassigned, dash, engine>>

(* refreshPorts: adapters that are found again stay; those with an open    *)
(* channel keep their engine, the others get a new one; the elements of    *)
(* the old array are destroyed.                                            *)
Old == {p \in Adapters : dash[p] # None}
Refresh ==
    \E found \in SUBSET Adapters :
        LET gone == Old \ found
            kept == {p \in found \cap Old : app[p] = "open"}
            new == found \ kept
        IN  /\ Quiet
            /\ Cardinality(FreeEngines) >= Cardinality(new)
            /\ LET f == CHOOSE g \in [new -> FreeEngines] : IsInjective(g)
               IN  dash' = [p \in Adapters |-> IF p \in new THEN f[p]
                                               ELSE IF p \in kept THEN dash[p] ELSE None]
            /\ Becomes(Destroy(World, gone))
            /\ app' = [p \in Adapters |-> IF p \notin found THEN "absent"
                                           ELSE IF app[p] = "absent" THEN "listed" ELSE app[p]]
            /\ main' = SetToSeq({<<"drop", dash[p]>> : p \in Old})
            /\ UNCHANGED <<engine>>
-----------------------------------------------------------------------------
(* DashboardMetricsEngine                                                  *)
\* start(): a copy of the adapter's client is assigned to the engine's.
Start(p) ==
    LET e == dash[p]
    IN  /\ main # <<>> /\ Head(main) = <<"start", p>>
        /\ Then(<<>>)
        /\ IF engine[e].running \/ handle[p].impl = None
           THEN UNCHANGED <<conn, handle, reassigned, engine>>
           ELSE /\ Becomes(Assign(World, e, p))
                /\ engine' = [engine EXCEPT ![e] = [@ EXCEPT !.cancelled = FALSE, !.thread = "loop",
                                                             !.running = TRUE]]
        /\ UNCHANGED <<app, dash>>

\* Mutant: the destructor does not stop the engine.
StopExplicit(e) ==
    /\ main # <<>> /\ Head(main) \in {<<"stop", e>>, <<"drop", e>>}
    /\ engine' = [engine EXCEPT ![e].cancelled = @ \/ (engine[e].running /\ Head(main)[1] = "stop")]
    /\ Then(CASE Head(main)[1] = "drop" -> <<<<"end", e>>>>
              [] ~engine[e].running /\ Head(main)[1] = "stop" -> <<>>
              [] engine[e].running /\ Head(main)[1] = "stop" -> <<<<"join", e>>>>)
    /\ UNCHANGED <<conn, handle, reassigned, app, dash>>
\* Mutant: stop() waits for the thread and does not cancel it.
StopWaits(e) ==
    /\ main # <<>> /\ Head(main) \in {<<"stop", e>>, <<"drop", e>>}
    /\ Then(CASE ~engine[e].running /\ Head(main)[1] = "stop" -> <<>>
              [] ~engine[e].running /\ Head(main)[1] = "drop" -> <<<<"end", e>>>>
              [] engine[e].running -> <<<<IF Head(main)[1] = "stop" THEN "join" ELSE "join drop", e>>>>)
    /\ UNCHANGED <<conn, handle, reassigned, app, dash, engine>>
\* stop(), and the destructor, which is stop() and the end of one reference;
\* both wait for the thread.
Stop(e) ==
    /\ main # <<>> /\ Head(main) \in {<<"stop", e>>, <<"drop", e>>}
    /\ engine' = [engine EXCEPT ![e].cancelled = @ \/ engine[e].running]
    /\ Then(CASE ~engine[e].running /\ Head(main)[1] = "stop" -> <<>>
              [] ~engine[e].running /\ Head(main)[1] = "drop" -> <<<<"end", e>>>>
              [] engine[e].running -> <<<<IF Head(main)[1] = "stop" THEN "join" ELSE "join drop", e>>>>)
    /\ UNCHANGED <<conn, handle, reassigned, app, dash>>
Joined(e) == engine[e].thread = "done"
Join(e) ==
    /\ main # <<>> /\ Head(main) \in {<<"join", e>>, <<"join drop", e>>}
    /\ Joined(e)
    /\ engine' = [engine EXCEPT ![e].thread = "none", ![e].running = FALSE]
    /\ Then(IF Head(main)[1] = "join" THEN <<>> ELSE <<<<"end", e>>>>)
    /\ UNCHANGED <<conn, handle, reassigned, app, dash>>
\* The last reference takes the impl and its handle along; a thread has one.
End(e) ==
    /\ main # <<>> /\ Head(main) = <<"end", e>>
    /\ IF e \in Range(dash) \/ engine[e].thread # "none" THEN UNCHANGED <<conn, handle, reassigned, engine>>
       ELSE Becomes(Destroy(World, {e})) /\ engine' = [engine EXCEPT ![e] = NewEngine]
    /\ Then(<<>>)
    /\ UNCHANGED <<app, dash>>

(* readerLoop                                                              *)
Reads(e) ==
    /\ engine[e].thread = "loop" /\ ~engine[e].cancelled
    /\ Becomes(EnsureReader(World, e))
    /\ UNCHANGED <<app, dash, engine, main>>
Exits(e) ==
    /\ engine[e].thread = "loop" /\ engine[e].cancelled
    /\ engine' = [engine EXCEPT ![e] = [@ EXCEPT !.thread = "done", !.running = FALSE]]
    /\ UNCHANGED <<conn, handle, reassigned, app, dash, main>>
Thread(e) == Reads(e) \/ Exits(e)

(* A test engine: startTest assigns the client of an adapter, its threads  *)
(* read and write with it, and the handle stays when the test has ended.   *)
TestStarts(p) ==
    /\ Quiet /\ app[p] = "open"
    /\ AssignTaints(Tester, p) \cap reassigned = {}    \* bound: counts drift once
    /\ LET w == Assign(World, Tester, p)
       IN  /\ conn' = w.conn /\ handle' = w.handle
           /\ reassigned' = (reassigned \cup AssignTaints(Tester, p))
                               \cap {i \in Impls : \E h \in Handles : w.handle[h].impl = i}
    /\ UNCHANGED <<app, dash, engine, main>>
TestReads == /\ Becomes(EnsureReader(World, Tester))
             /\ UNCHANGED <<app, dash, engine, main>>
TestWrites == /\ handle[Tester].impl # None
              /\ Becomes(Write(World, Tester))
              /\ UNCHANGED <<app, dash, engine, main>>
TestGone == /\ Quiet /\ handle[Tester].impl # None
            /\ Becomes(Destroy(World, {Tester}))
            /\ UNCHANGED <<app, dash, engine, main>>
-----------------------------------------------------------------------------
MainSteps == \/ \E p \in Adapters : ClosesCAN(p) \/ Start(p)
             \/ \E e \in Engines : Stop(e) \/ Join(e) \/ End(e)
UserSteps == \/ Refresh \/ TestGone
             \/ \E p \in Adapters : Connect(p) \/ Disconnect(p) \/ OpenCAN(p) \/ CloseCAN(p) \/ TestStarts(p)
Next == MainSteps \/ UserSteps \/ TestReads \/ TestWrites \/ \E e \in Engines : Thread(e)

Spec == Init /\ [][Next]_vars

\* The main actor and the reader threads run; readManyBlocking returns within
\* its 10 ms (BlockingRead shows what that takes).
FairSpec == Spec /\ WF_vars(MainSteps) /\ \A e \in Engines : WF_vars(Thread(e))
-----------------------------------------------------------------------------
(* The values each variable takes in every reachable state.                *)
TypeOK ==
    /\ \A i \in Impls : conn[i].slot \in [Slots -> Channels \cup {None}]
    /\ \A h \in Handles : handle[h].impl \in Impls \cup {None} /\ handle[h].reader \in 0 .. MaxReaders
    /\ \A p \in Adapters : app[p] \in {"absent", "listed", "connected", "open"}
    /\ \A p \in Adapters : dash[p] \in Engines \cup {None}
    /\ \A e \in Engines : engine[e].thread \in {"none", "loop", "done"}

\* No thread is left behind: one that has not been joined belongs to an engine
\* the array still holds, or to one the main actor is about to join.
ThreadsReachable ==
    /\ TypeOK
    /\ \A e \in Engines : engine[e].thread # "none" =>
        \/ e \in Range(dash)
        \/ \E k \in DOMAIN main : main[k] \in {<<"drop", e>>, <<"join drop", e>>}

\* The main actor never hangs in stop() or a destructor: the app's action ends.
MainReturns == main # <<>> ~> main = <<>>

\* Refreshing the ports keeps the engine of an adapter with an open channel
\* running (CANDashboardViewModel.swift): what goes is the old array's copy.
PreservedRuns ==
    [][\A p \in Adapters :
          app[p] = "open" /\ dash[p] # None /\ dash'[p] = dash[p]
          /\ main # <<>> /\ Head(main) = <<"drop", dash[p]>> =>
             engine'[dash[p]].cancelled = engine[dash[p]].cancelled]_vars
=============================================================================
