----------------------------- MODULE UdpStreams -----------------------------
(***************************************************************************)
(* UDP over smux streams, the path of KCP upstreams: OpenUDP, CloseUDP,    *)
(* openStream and Close of tunnelpool/pool.go, the loops and pumps of      *)
(* forward/manager.go and socks5/server.go, and relayUDP on the server.    *)
(*                                                                         *)
(* One of the pools behind the upstream manager, with one session, and one *)
(* key: a local client and its target.  forward handles the packets of a   *)
(* rule in one loop; socks5 has a goroutine per packet and a set of the    *)
(* keys that have a pump.  The manager routes every call by itself: a      *)
(* packet may go to another pool, which is not seen here, and a CloseUDP   *)
(* may reach another pool than the stream was opened in, or come here from *)
(* a stream of another pool.                                               *)
(***************************************************************************)
EXTENDS Integers

CONSTANTS
    Callers,    \* goroutines that handle packets of the client
    MaxStreams  \* bound: streams opened in a behaviour

ASSUME CallersAssumption == Callers # {}
ASSUME MaxStreamsAssumption == MaxStreams \in Nat \ {0}

\* Streams are numbered in the order they are opened; None is nil.
Streams == 1..MaxStreams
None == 0

VARIABLES
    kind,     \* who handles the packets: "forward" or "socks5"
    phase,    \* the pool: "open", "closing", "nil" (p.sessions = nil), "panic"
    csess,    \* the session is open on the client
    ssess,    \* the session is open on the server
    udp,      \* p.udp[key]
    pumps,    \* h.pumps has the key (socks5)
    caller,   \* what each caller is doing
    client,   \* client[x]: the client's end of stream x
    pump,     \* pump[x]: pumpUDP on stream x
    relay,    \* relay[x]: the server's handler of x, handleStream in relayUDP
    up,       \* up[x]: the goroutine of relayUDP from the stream to the target runs
    down,     \* down[x]: the one from the target to the stream runs
    errCh,    \* errCh[x]: messages in relayUDP's channel
    other,    \* a stream of another pool has the pump of the key (socks5)
    missed    \* streams whose last CloseUDP went to another pool (forward; history)

vars == <<kind, phase, csess, ssess, udp, pumps, caller, client, pump, relay,
          up, down, errCh, other, missed>>
clientVars == <<phase, udp, pumps, caller, client, pump, other, missed>>
sessVars == <<kind, csess, ssess>>
routeVars == <<other, missed>>
copyVars == <<up, down, errCh>>
serverVars == <<relay, copyVars>>

\* new: OpenUDP has made the stream, its caller is to start the pump.
Caller == [pc : {"idle", "index", "store", "write", "pump"},
           strm : Streams \cup {None}, new : BOOLEAN]
IdleCaller == [pc |-> "idle", strm |-> None, new |-> FALSE]

Init ==
    /\ kind \in {"forward", "socks5"}
    /\ phase = "open"
    /\ csess = TRUE
    /\ ssess = TRUE
    /\ udp = None
    /\ pumps = FALSE
    /\ caller = [c \in Callers |-> IdleCaller]
    /\ client = [x \in Streams |-> "none"]
    /\ pump = [x \in Streams |-> "none"]
    /\ relay = [x \in Streams |-> "none"]
    /\ up = [x \in Streams |-> FALSE]
    /\ down = [x \in Streams |-> FALSE]
    /\ errCh = [x \in Streams |-> 0]
    /\ other = FALSE
    /\ missed = {}

At(c, pc) == phase # "panic" /\ caller[c].pc = pc
Goto(c, pc) == caller' = [caller EXCEPT ![c] = [caller[c] EXCEPT !.pc = pc]]
Hold(c, pc, x, n) ==
    caller' = [caller EXCEPT ![c] = [pc |-> pc, strm |-> x, new |-> n]]
Return(c) == caller' = [caller EXCEPT ![c] = IdleCaller]

-----------------------------------------------------------------------------
(* The callers: serveUDP, UDPHandle, OpenUDP *)

\* The loop of forward, which takes one packet at a time.
Loop == CHOOSE c \in Callers : TRUE

\* A packet arrives.  OpenUDP looks the key up under the read lock; without a
\* stream openStream reads len(p.sessions), and none is an error, which ends the call.
\* (Nothing depends on what happens between the two reads.)
Packet(c) ==
    /\ At(c, "idle")
    /\ kind = "forward" => c = Loop
    /\ \/ udp # None /\ Hold(c, "write", udp, FALSE)
       \/ udp = None /\ phase # "nil" /\ Hold(c, "index", None, FALSE)
    /\ UNCHANGED <<phase, udp, pumps, client, pump, sessVars, serverVars, routeVars>>

\* It indexes the slice, which Close may have set to nil, and opens a stream.
IndexSession(c, x) ==
    /\ At(c, "index")
    /\ phase # "nil"
    /\ csess
    /\ client[x] = "none" /\ \A y \in 1..(x - 1) : client[y] # "none"
    /\ client' = [client EXCEPT ![x] = "open"]
    /\ Hold(c, "store", x, TRUE)
    /\ UNCHANGED <<phase, udp, pumps, pump, sessVars, serverVars, routeVars>>

\* Mutant of IndexFails: the error is ignored.
IndexFailsIgnored(c) ==
    /\ At(c, "index")
    /\ phase # "nil"
    /\ ~csess
    /\ Goto(c, "write")
    /\ UNCHANGED <<phase, udp, pumps, client, pump, sessVars, serverVars, routeVars>>

\* The session is closed.  The key returned with the error is 0, so the CloseUDP
\* of the caller finds nothing.
IndexFails(c) ==
    /\ At(c, "index")
    /\ phase # "nil"
    /\ ~csess
    /\ Return(c)
    /\ UNCHANGED <<phase, udp, pumps, client, pump, sessVars, serverVars, routeVars>>

\* The panic ends the process, and with it every goroutine and table.
IndexPanics(c) ==
    /\ At(c, "index")
    /\ phase = "nil"
    /\ phase' = "panic"
    /\ udp' = None /\ pumps' = FALSE /\ other' = FALSE /\ missed' = {}
    /\ caller' = [d \in Callers |-> IdleCaller]
    /\ pump' = [x \in Streams |-> "none"]
    /\ UNCHANGED <<client, sessVars, serverVars>>

\* The session has ended, and the request cannot be written.
RequestFails(c) ==
    /\ At(c, "store")
    /\ ~csess
    /\ Return(c)
    /\ UNCHANGED <<phase, udp, pumps, client, pump, sessVars, serverVars, routeVars>>

\* OpenUDP sends the request and stores the stream under the write lock.
Store(c) ==
    /\ At(c, "store")
    /\ udp' = caller[c].strm
    /\ Goto(c, "write")
    /\ UNCHANGED <<phase, pumps, client, pump, sessVars, serverVars, routeVars>>

\* Mutant of CloseUDP: the entry stays in the table.
CloseUDPKeepsEntry ==
    /\ client' = [x \in Streams |-> IF x = udp THEN "closed" ELSE client[x]]
    /\ UNCHANGED udp

\* Mutant of CloseUDP: the stream is not closed.
CloseUDPOnlyDeletes ==
    /\ UNCHANGED client
    /\ udp' = None

\* CloseUDP: close and remove the stream the key has now.
CloseUDP ==
    /\ client' = [x \in Streams |-> IF x = udp THEN "closed" ELSE client[x]]
    /\ udp' = None

\* CloseUDP of the manager, which asks poolFor again: this pool or another one.
\* X: the streams that nobody will close by key if it is another one.
RouteCloseUDP(X) ==
    \/ CloseUDP /\ UNCHANGED missed
    \/ /\ missed' = IF kind = "forward" THEN missed \cup X ELSE missed
       /\ UNCHANGED <<client, udp>>

\* WriteDatagram succeeds.
Write(c) ==
    /\ At(c, "write")
    /\ csess /\ client[caller[c].strm] = "open"
    /\ IF caller[c].new THEN Goto(c, "pump") ELSE Return(c)
    /\ UNCHANGED <<phase, udp, pumps, client, pump, sessVars, serverVars, routeVars>>

\* It fails: the stream was closed on either side, or the session.
WriteFails(c) ==
    /\ At(c, "write")
    /\ ~csess \/ client[caller[c].strm] = "closed" \/ relay[caller[c].strm] = "done"
    /\ RouteCloseUDP(IF caller[c].new THEN {caller[c].strm} ELSE {})
    /\ Return(c)
    /\ UNCHANGED <<phase, pumps, pump, sessVars, serverVars, other>>

\* Mutant of MayPump: startPump does not look at h.pumps.
MayPumpAlways == TRUE

\* startPump: socks5 starts a pump unless the key has one.
MayPump == kind = "forward" \/ ~pumps

StartPump(c) ==
    /\ At(c, "pump")
    /\ pump' = IF MayPump THEN [pump EXCEPT ![caller[c].strm] = "read"] ELSE pump
    /\ pumps' = (kind = "socks5")
    /\ Return(c)
    /\ UNCHANGED <<phase, udp, client, sessVars, serverVars, routeVars>>

-----------------------------------------------------------------------------
(* pumpUDP *)

\* 60 s without a datagram, the end of the stream or of the context, or an error
\* of the local socket.
PumpEnds(x) ==
    /\ phase # "panic"
    /\ pump[x] = "read"
    /\ pump' = [pump EXCEPT ![x] = "close"]
    /\ UNCHANGED <<phase, udp, pumps, caller, client, sessVars, serverVars, routeVars>>

\* Mutant of PumpCloses: no deferred CloseUDP.
PumpJustEnds(x) ==
    /\ phase # "panic"
    /\ pump[x] = "close"
    /\ pump' = [pump EXCEPT ![x] = IF kind = "socks5" THEN "end" ELSE "done"]
    /\ UNCHANGED <<phase, udp, pumps, caller, client, sessVars, serverVars, routeVars>>

\* The deferred CloseUDP(key) of both.
PumpCloses(x) ==
    /\ phase # "panic"
    /\ pump[x] = "close"
    /\ RouteCloseUDP({x})
    /\ pump' = [pump EXCEPT ![x] = IF kind = "socks5" THEN "end" ELSE "done"]
    /\ UNCHANGED <<phase, pumps, caller, sessVars, serverVars, other>>

\* The deferred endPump of socks5, which runs last.
EndPump(x) ==
    /\ phase # "panic"
    /\ pump[x] = "end"
    /\ pumps' = FALSE
    /\ pump' = [pump EXCEPT ![x] = "done"]
    /\ UNCHANGED <<phase, udp, caller, client, sessVars, serverVars, routeVars>>

-----------------------------------------------------------------------------
(* The other pools *)

\* The CloseUDP of a stream of another pool is routed here.
OtherCloses ==
    /\ phase # "panic"
    /\ udp # None
    /\ CloseUDP
    /\ UNCHANGED <<phase, pumps, caller, pump, sessVars, serverVars, routeVars>>

\* startPump and endPump for a stream of another pool: h.pumps is one set.
OtherPumps ==
    /\ phase # "panic"
    /\ kind = "socks5" /\ ~pumps
    /\ pumps' = TRUE /\ other' = TRUE
    /\ UNCHANGED <<phase, udp, caller, client, pump, sessVars, serverVars, missed>>

OtherEnds ==
    /\ phase # "panic"
    /\ other
    /\ pumps' = FALSE /\ other' = FALSE
    /\ UNCHANGED <<phase, udp, caller, client, pump, sessVars, serverVars, missed>>

-----------------------------------------------------------------------------
(* Pool.Close and the session *)

CloseSession ==
    /\ csess' = FALSE
    /\ client' = [x \in Streams |-> IF client[x] = "open" THEN "closed" ELSE client[x]]

PoolClose ==
    /\ phase = "open"
    /\ phase' = "closing"
    /\ CloseSession
    /\ UNCHANGED <<kind, ssess, udp, pumps, caller, pump, serverVars, routeVars>>

PoolNil ==
    /\ phase = "closing"
    /\ phase' = "nil"
    /\ UNCHANGED <<udp, pumps, caller, client, pump, sessVars, serverVars, routeVars>>

\* Keepalive timeouts on either side.
ClientSessionDies ==
    /\ csess
    /\ CloseSession
    /\ UNCHANGED <<kind, ssess, phase, udp, pumps, caller, pump, serverVars, routeVars>>

ServerSessionDies ==
    /\ ssess
    /\ ssess' = FALSE
    /\ UNCHANGED <<kind, csess, clientVars, serverVars>>

-----------------------------------------------------------------------------
(* handleStream and relayUDP *)

\* Streams are accepted in the order they were opened.
Accept(x) ==
    /\ ssess
    /\ client[x] # "none" /\ relay[x] = "none" /\ \A y \in 1..(x - 1) : relay[y] # "none"
    /\ relay' = [relay EXCEPT ![x] = "dial"]
    /\ UNCHANGED <<sessVars, clientVars, copyVars>>

\* The target is dialed and a goroutine for each direction starts.
Dial(x) ==
    /\ relay[x] = "dial"
    /\ relay' = [relay EXCEPT ![x] = "run"]
    /\ up' = [up EXCEPT ![x] = TRUE]
    /\ down' = [down EXCEPT ![x] = TRUE]
    /\ UNCHANGED <<sessVars, clientVars, errCh>>

\* It cannot be dialed, and the handler closes the stream.
DialFails(x) ==
    /\ relay[x] = "dial"
    /\ relay' = [relay EXCEPT ![x] = "done"]
    /\ UNCHANGED <<sessVars, clientVars, copyVars>>

\* Mutant of Send: the channel has no buffer, so that somebody must receive.
SendUnbuffered(x) ==
    /\ errCh[x] = 0 /\ relay[x] = "run"
    /\ errCh' = [errCh EXCEPT ![x] = errCh[x] + 1]

\* A message to errCh, which has room for two.
Send(x) ==
    /\ errCh[x] < 2
    /\ errCh' = [errCh EXCEPT ![x] = errCh[x] + 1]

\* Stream to target: the stream or the session ends, or a write to the target
\* fails; it was refused, or the socket is closed.
UpEnds(x) ==
    /\ up[x]
    /\ Send(x)
    /\ up' = [up EXCEPT ![x] = FALSE]
    /\ UNCHANGED <<sessVars, clientVars, relay, down>>

\* Target to stream: 60 s without a packet, or the socket or the stream is closed.
DownEnds(x) ==
    /\ down[x]
    /\ Send(x)
    /\ down' = [down EXCEPT ![x] = FALSE]
    /\ UNCHANGED <<sessVars, clientVars, relay, up>>

\* The select of relayUDP takes the first message; the deferred calls close the
\* target's socket and the stream.  (Its other case is the end of the server.)
RelayReturns(x) ==
    /\ relay[x] = "run"
    /\ errCh[x] > 0
    /\ errCh' = [errCh EXCEPT ![x] = errCh[x] - 1]
    /\ relay' = [relay EXCEPT ![x] = "done"]
    /\ UNCHANGED <<sessVars, clientVars, up, down>>

-----------------------------------------------------------------------------

Call(c) ==
    \/ IndexFails(c) \/ IndexPanics(c) \/ RequestFails(c) \/ Store(c)
    \/ Write(c) \/ WriteFails(c) \/ StartPump(c) \/ \E x \in Streams : IndexSession(c, x)

Relay(x) == Accept(x) \/ Dial(x) \/ DialFails(x) \/ RelayReturns(x)

\* What a goroutine of relayUDP works on is closed, so that its next call fails.
UpClosed(x) == client[x] = "closed" \/ ~ssess \/ relay[x] = "done"
DownClosed(x) == relay[x] = "done"

Next ==
    \/ \E c \in Callers : Packet(c) \/ Call(c)
    \/ \E x \in Streams :
          \/ PumpEnds(x) \/ PumpCloses(x) \/ EndPump(x)
          \/ Relay(x) \/ UpEnds(x) \/ DownEnds(x)
    \/ OtherCloses \/ OtherPumps \/ OtherEnds
    \/ PoolClose \/ PoolNil \/ ClientSessionDies \/ ServerSessionDies

Spec == Init /\ [][Next]_vars

\* Goroutines run; a pump sees the end of its stream, a session the loss of its
\* peer.  Nothing is assumed of targets: one may send for ever, so DownEnds
\* is fair only when the socket is closed.  All but the callers take finitely
\* many steps, so it is enough that some of them runs while any can.
Release(x) ==
    \/ (relay[x] = "done" \/ client[x] = "closed") /\ PumpEnds(x)
    \/ PumpCloses(x) \/ EndPump(x) \/ Relay(x)
    \/ UpClosed(x) /\ UpEnds(x)
    \/ DownClosed(x) /\ DownEnds(x)

Fairness ==
    /\ WF_vars(\E c \in Callers : Call(c))
    /\ WF_vars(\/ \E x \in Streams : Release(x)
               \/ ~ssess /\ ClientSessionDies
               \/ ~csess /\ ServerSessionDies)

FairSpec == Spec /\ Fairness

-----------------------------------------------------------------------------
(* Properties *)

\* Every variable has its type, and a caller past openStream has a stream.
TypeOK ==
    /\ kind \in {"forward", "socks5"}
    /\ phase \in {"open", "closing", "nil", "panic"}
    /\ csess \in BOOLEAN /\ ssess \in BOOLEAN
    /\ udp \in Streams \cup {None}
    /\ pumps \in BOOLEAN
    /\ caller \in [Callers -> Caller]
    /\ \A c \in Callers : caller[c].pc \in {"store", "write", "pump"} => caller[c].strm # None
    /\ client \in [Streams -> {"none", "open", "closed"}]
    /\ pump \in [Streams -> {"none", "read", "close", "end", "done"}]
    /\ relay \in [Streams -> {"none", "dial", "run", "done"}]
    /\ up \in [Streams -> BOOLEAN] /\ down \in [Streams -> BOOLEAN]
    /\ errCh \in [Streams -> 0..2]
    /\ other \in BOOLEAN /\ missed \subseteq Streams

\* There is a pump of x, up to its deferred calls.
Pumping(x) == pump[x] \in {"read", "close", "end"}

\* Somebody pumps x, or is about to start the pump.
Pumped(x) ==
    \/ pump[x] \in {"read", "close"}
    \/ \E c \in Callers : caller[c].strm = x /\ caller[c].new

\* With forward, the table is the only place a stream lives in once OpenUDP has
\* returned: whoever removes it from there, for whatever reason, closes it.
NoStreamLeak ==
    kind = "forward" => \A x \in Streams : client[x] = "open" =>
       x = udp \/ \E c \in Callers : caller[c].pc = "store" /\ caller[c].strm = x

\* With forward, the stream packets are sent on is one whose answers somebody
\* reads, although pumps close streams by key and may close each other's.  The
\* one exception is a stream whose own CloseUDP was routed to another pool.
ForwardPumped == kind = "forward" /\ udp # None => Pumped(udp) \/ udp \in missed

\* startPump and endPump of socks5: one pump per key over all pools, and the key
\* is in h.pumps exactly as long as there is one.
OnePump ==
    kind = "socks5" =>
       /\ \A x, y \in Streams : Pumping(x) /\ Pumping(y) => x = y
       /\ other => \A x \in Streams : ~Pumping(x)
       /\ pumps <=> other \/ \E x \in Streams : Pumping(x)

\* The server releases what it has for a stream that the client has closed,
\* whatever the target sends: relayUDP returns and closes the socket, and neither
\* of its goroutines stays behind in a read, a write or a send on errCh.  (A
\* behaviour has finitely many streams and what is closed stays closed, so []<>
\* says of each that it is released.)
RelayReleased ==
    []<>(\A x \in Streams : client[x] = "closed" /\ relay[x] # "none" =>
            relay[x] = "done" /\ ~up[x] /\ ~down[x])

\* With forward, a stream the server has ended is closed on the client too,
\* unless its CloseUDP was routed to another pool.
StreamReleased ==
    []<>(\A x \in Streams : kind = "forward" /\ relay[x] = "done" =>
            client[x] = "closed" \/ x \in missed \/ phase = "panic")
=============================================================================
