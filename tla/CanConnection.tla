---------------------------- MODULE CanConnection ----------------------------
(***************************************************************************)
(* The connection half of CANClientImpl (can_client.cc): open, close,      *)
(* openChannel and closeChannel, each with the calls it makes to the       *)
(* driver.  One such call runs in one thread of the program and its parts  *)
(* are not interleaved here with those of another call on the connection.  *)
(***************************************************************************)
EXTENDS UsbDriver

CONSTANT MaxConns     \* bound: CANConnection objects at one time

ASSUME ConnectionAssumption == MaxConns \in Nat /\ None \notin Nat

Conns == 1 .. MaxConns

VARIABLE impl         \* of CANClientImpl: connection, is_connected, is_open, ringHeader

NoImpl == [connection |-> None, is_connected |-> FALSE, is_open |-> FALSE, mapped |-> FALSE]

\* What a client call works on, and what it leaves and returns.
World == [drv |-> drv, impl |-> impl]
Result(d, i, ok) == [drv |-> d, impl |-> i, ok |-> ok]

\* IOServiceClose: the user client is cut off, its Stop follows.
IOServiceClose(d, u) == IF Alive(d, u) THEN [d EXCEPT !.uc[u].cut = TRUE] ELSE d

FreeClients == {u \in Clients : ~Alive(drv, u)}

(* CANClient::open by way of a new user client u: a failing Open method    *)
(* gives the user client back, a ring that cannot be mapped does not.      *)
Open(w, i, u, F) ==
    LET r == UcOpen(UcStart(w.drv, u), u, F)
        mapped == "map" \notin F /\ "ring" \in r.drv.ptr
    IN  IF life # "started" THEN Result(w.drv, w.impl, FALSE)
        ELSE IF ~r.ok
        THEN Result(IOServiceClose(r.drv, u), [w.impl EXCEPT ![i].connection = None], FALSE)
        ELSE Result(r.drv, [w.impl EXCEPT ![i].connection = u, ![i].is_connected = TRUE,
                                          ![i].mapped = mapped], TRUE)

(* CANClient::openChannel and closeChannel by a handle with channel c      *)
ChannelOpen(w, i, c, F) ==
    LET u == w.impl[i].connection
        r == UcOpenChannel(w.drv, u, c, F)
    IN  IF ~w.impl[i].is_connected \/ ~Callable(w.drv, u) THEN Result(w.drv, w.impl, FALSE)
        ELSE Result(r.drv, IF r.ok THEN [w.impl EXCEPT ![i].is_open = TRUE] ELSE w.impl, r.ok)
ChannelClose(w, i, c, F) ==
    LET u == w.impl[i].connection
        d == IF Callable(w.drv, u) THEN UcCloseChannel(w.drv, u, c, F).drv ELSE w.drv
    IN  Result(d, [w.impl EXCEPT ![i].is_open = FALSE], TRUE)

(* CANClient::close: the channel only if is_open, and only the caller's.   *)
\* Mutant: a connection whose channel was never opened is not closed.
CloseOpened(w, i, c, F) ==
    LET u == w.impl[i].connection
        s == ChannelClose(w, i, c, F).drv
        d == IF Callable(s, u) THEN IOServiceClose(UcClose(s, u, F).drv, u) ELSE s
    IN  Result(IF w.impl[i].is_open THEN d ELSE w.drv, [w.impl EXCEPT ![i] = NoImpl], TRUE)
Close(w, i, c, F) ==
    LET u == w.impl[i].connection
        s == IF w.impl[i].is_open THEN ChannelClose(w, i, c, F).drv ELSE w.drv
        d == IF Callable(s, u) THEN IOServiceClose(UcClose(s, u, F).drv, u) ELSE s
    IN  Result(d, [w.impl EXCEPT ![i] = NoImpl], TRUE)

=============================================================================
