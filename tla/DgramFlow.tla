------------------------------ MODULE DgramFlow ------------------------------
(***************************************************************************)
(* UDP flows over QUIC datagrams, from the client's pool                   *)
(* (tunnelpool/pool.go: OpenUDPDatagram, dgramRecvLoop, Close) to the      *)
(* server's hub (tunnel/dgram.go and the UDPDGRAM branch of handleStream   *)
(* in tunnel/server.go).                                                   *)
(*                                                                         *)
(* A flow is opened over a control stream: the server dials a UDP socket,  *)
(* answers with a flow identifier, and both sides then exchange datagrams  *)
(* [flow identifier, payload] that may be lost or reordered.               *)
(*                                                                         *)
(* Processes: the callers of OpenUDPDatagram (the UDP loops of forward and *)
(* socks5), Pool.Close, the receive loop of each session on either side,   *)
(* one handler and one reader per control stream on the server, and the    *)
(* network.  One pool is modelled, from the end of Dial on.  dgMu is held  *)
(* over several steps by OpenUDPDatagram only; hub.mu never is.            *)
(***************************************************************************)
EXTENDS Integers, FiniteSets

CONSTANTS
    Keys,      \* flow keys: source address and target
    Callers,   \* goroutines that handle packets of local clients
    Sessions,  \* the pool's QUIC sessions
    Streams,   \* control streams that may be opened (bound)
    MaxID,     \* flow identifiers of a session (bound)
    MaxNet,    \* datagrams in flight at once (bound)
    None       \* nil: no key, no caller, no session, no stream

ASSUME NoneAssumption == None \notin Keys \cup Callers \cup Sessions \cup Streams
ASSUME BoundAssumption == MaxID \in Nat /\ MaxNet \in Nat

VARIABLES
    phase,      \* the pool: "open"; "noctrl", Close has dropped dgCtrl;
                \*   "nil", it has dropped sessions; "panic"
    dgMu,       \* the caller that holds dgMu
    caller,     \* what each caller is doing
    dgByKey,    \* dgByKey[k]: session and identifier of the flow of k
    dgCtrl,     \* dgCtrl[k]: the control stream of k
    dgDeliver,  \* dgDeliver[s][id]: the key whose deliver is registered
    dgRecv,     \* sessions whose receive loop was started
    csess,      \* sessions that are open on the client
    ssess,      \* sessions that are open on the server
    net,        \* datagrams in flight
    strm,       \* control streams and the server's handlers of them
    flows,      \* flows[s][id]: the stream whose socket is registered
    nextID,     \* nextID[s]: last identifier given out
    sock,       \* sock[x]: the UDP socket dialed for stream x
    reader,     \* reader[x]: flowReadTargetToClient of stream x
    crecv,      \* crecv[s]: payload the client's loop is delivering
    srecv       \* srecv[s]: payload the server's loop is writing

poolVars == <<phase, dgMu, caller, dgByKey, dgCtrl, dgDeliver, dgRecv>>
hubVars == <<flows, nextID, sock, reader>>
vars == <<phase, dgMu, caller, dgByKey, dgCtrl, dgDeliver, dgRecv, csess,
          ssess, net, strm, flows, nextID, sock, reader, crecv, srecv>>

FlowIDs == 1..MaxID
Flow == [sess : Sessions \cup {None}, id : FlowIDs \cup {0}]
NoFlow == [sess |-> None, id |-> 0]

Caller == [pc : {"idle", "packet", "pick", "open", "wait", "send"},
           key : Keys \cup {None}, sess : Sessions \cup {None},
           strm : Streams \cup {None}, flow : Flow]
IdleCaller == [pc |-> "idle", key |-> None, sess |-> None, strm |-> None,
               flow |-> NoFlow]

\* client: the client's end.  h: the server's handler; its end is closed
\* when the handler is done.  reply: the identifier sent, 0 if none.
\* conn: the socket the handler is about to close, named by its stream.
Stream == [sess : Sessions \cup {None}, key : Keys \cup {None},
           client : {"none", "open", "closed"},
           h : {"none", "dial", "register", "reply", "copy", "delete", "close", "done"},
           id : FlowIDs \cup {0}, reply : FlowIDs \cup {0},
           conn : Streams \cup {None}]
NewStream == [sess |-> None, key |-> None, client |-> "none", h |-> "none",
              id |-> 0, reply |-> 0, conn |-> None]

Reader == [pc : {"none", "read", "close", "done"}, conn : Streams \cup {None}]
NewReader == [pc |-> "none", conn |-> None]

\* EncodeDatagram: the header is the identifier.  key is the flow the
\* payload belongs to, which neither side can see.
Datagram == [dir : {"up", "down"}, sess : Sessions, id : FlowIDs, key : Keys]

\* A payload of key on its way to one of T: the local client of a key, or the
\* socket dialed for a stream.
NoPayload == [to |-> None, key |-> None]
Payload(T) == [to : T, key : Keys] \cup {NoPayload}

Init ==
    /\ phase = "open"
    /\ dgMu = None
    /\ caller = [c \in Callers |-> IdleCaller]
    /\ dgByKey = [k \in Keys |-> NoFlow]
    /\ dgCtrl = [k \in Keys |-> None]
    /\ dgDeliver = [s \in Sessions |-> [i \in FlowIDs |-> None]]
    /\ dgRecv = {}
    /\ csess = Sessions
    /\ ssess = Sessions
    /\ net = {}
    /\ strm = [x \in Streams |-> NewStream]
    /\ flows = [s \in Sessions |-> [i \in FlowIDs |-> None]]
    /\ nextID = [s \in Sessions |-> 0]
    /\ sock = [x \in Streams |-> "none"]
    /\ reader = [x \in Streams |-> NewReader]
    /\ crecv = [s \in Sessions |-> NoPayload]
    /\ srecv = [s \in Sessions |-> NoPayload]

\* SendDatagram: the datagram is lost, or in flight if there is room.
SendDatagram(m) ==
    \/ UNCHANGED net
    \/ Cardinality(net) < MaxNet /\ net' = net \cup {m}

\* The client process dies of a run-time panic; its sessions go with it.
Panic ==
    /\ phase' = "panic"
    /\ dgMu' = None
    /\ caller' = [c \in Callers |-> IdleCaller]
    /\ csess' = {}
    /\ strm' = [x \in Streams |->
                   IF strm[x].client = "open"
                   THEN [strm[x] EXCEPT !.client = "closed"] ELSE strm[x]]
    /\ crecv' = [s \in Sessions |-> NoPayload]
    /\ UNCHANGED <<dgByKey, dgCtrl, dgDeliver, dgRecv, ssess, net, hubVars, srecv>>

-----------------------------------------------------------------------------
(* The callers: serveUDP, UDPHandle and OpenUDPDatagram *)

\* Room for another control stream: every caller that may need one gets one.
Room == Cardinality({x \in Streams : strm[x].client = "none"})
          > Cardinality({c \in Callers : caller[c].pc \in {"packet", "pick", "open"}})

\* The caller has taken the datagram path with a packet of k: SupportsDatagrams
\* found a live session.  Nothing keeps the pool open from here on.
Packet(c, k) ==
    /\ phase # "panic"
    /\ caller[c].pc = "idle"
    /\ phase # "nil" /\ csess # {}
    /\ dgByKey[k] # NoFlow \/ Room
    /\ caller' = [caller EXCEPT ![c] = [IdleCaller EXCEPT !.pc = "packet", !.key = k]]
    /\ UNCHANGED <<phase, dgMu, dgByKey, dgCtrl, dgDeliver, dgRecv, csess, ssess,
                   net, strm, hubVars, crecv, srecv>>

\* The flow of the key is known and is reused.
Reuse(c) ==
    LET f == dgByKey[caller[c].key]
    IN  /\ caller[c].pc = "packet"
        /\ dgMu = None
        /\ f # NoFlow
        /\ caller' = [caller EXCEPT ![c] = [caller[c] EXCEPT !.pc = "send", !.flow = f]]
        /\ UNCHANGED <<phase, dgMu, dgByKey, dgCtrl, dgDeliver, dgRecv, csess,
                       ssess, net, strm, hubVars, crecv, srecv>>

\* A new flow: dgMu stays locked until OpenUDPDatagram returns.
\* pickQUICSession reads len(p.sessions) and gives up if it is 0.
Lock(c) ==
    /\ caller[c].pc = "packet"
    /\ dgMu = None
    /\ dgByKey[caller[c].key] = NoFlow
    /\ IF phase = "nil"
       THEN /\ caller' = [caller EXCEPT ![c] = IdleCaller]
            /\ UNCHANGED dgMu
       ELSE /\ caller' = [caller EXCEPT ![c] = [caller[c] EXCEPT !.pc = "pick"]]
            /\ dgMu' = c
    /\ UNCHANGED <<phase, dgByKey, dgCtrl, dgDeliver, dgRecv, csess, ssess, net,
                   strm, hubVars, crecv, srecv>>

\* OpenUDPDatagram returns an error.
ReturnError(c) ==
    /\ caller' = [caller EXCEPT ![c] = IdleCaller]
    /\ dgMu' = None

\* pickQUICSession indexes p.sessions, which Close may have set to nil since
\* its length was read.  The session the round robin starts at is abstracted.
Pick(c) ==
    /\ caller[c].pc = "pick"
    /\ \/ /\ phase = "nil"
          /\ Panic
       \/ /\ phase # "nil"
          /\ \/ /\ csess = {}
                /\ ReturnError(c)
             \/ \E s \in csess :
                   /\ caller' = [caller EXCEPT ![c] = [caller[c] EXCEPT !.pc = "open", !.sess = s]]
                   /\ UNCHANGED dgMu
          /\ UNCHANGED <<phase, dgByKey, dgCtrl, dgDeliver, dgRecv, csess, ssess,
                         net, strm, hubVars, crecv, srecv>>

\* OpenStream and the request for the target, or an error of either.
OpenControl(c, x) ==
    LET s == caller[c].sess
    IN  /\ caller[c].pc = "open"
        /\ s \in csess
        /\ strm[x].client = "none"
        /\ strm' = [strm EXCEPT ![x] = [NewStream EXCEPT !.sess = s, !.key = caller[c].key,
                                                         !.client = "open"]]
        /\ caller' = [caller EXCEPT ![c] = [caller[c] EXCEPT !.pc = "wait", !.strm = x]]
        /\ UNCHANGED <<phase, dgMu, dgByKey, dgCtrl, dgDeliver, dgRecv, csess,
                       ssess, net, hubVars, crecv, srecv>>

OpenControlFails(c) ==
    /\ caller[c].pc = "open"
    /\ caller[c].sess \notin csess
    /\ ReturnError(c)
    /\ UNCHANGED <<phase, dgByKey, dgCtrl, dgDeliver, dgRecv, csess, ssess, net,
                   strm, hubVars, crecv, srecv>>

\* The flow identifier arrives: the flow is registered and returned.  After
\* Close dgCtrl is a nil map, and storing into it panics.
Register(c) ==
    LET k == caller[c].key
        s == caller[c].sess
        x == caller[c].strm
        f == [sess |-> s, id |-> strm[x].reply]
    IN  /\ caller[c].pc = "wait"
        /\ strm[x].reply # 0
        /\ \/ /\ phase # "open"
              /\ Panic
           \/ /\ phase = "open"
              /\ dgDeliver' = [dgDeliver EXCEPT ![s] = [dgDeliver[s] EXCEPT ![f.id] = k]]
              /\ dgRecv' = dgRecv \cup {s}
              /\ dgByKey' = [dgByKey EXCEPT ![k] = f]
              /\ dgCtrl' = [dgCtrl EXCEPT ![k] = x]
              /\ dgMu' = None
              /\ caller' = [caller EXCEPT ![c] = [caller[c] EXCEPT !.pc = "send", !.flow = f]]
              /\ UNCHANGED <<phase, csess, ssess, net, strm, hubVars, crecv, srecv>>

\* The client sees that the server closed x without an answer.
Ended(x) == strm[x].h = "done" /\ strm[x].reply = 0 /\ strm[x].sess \in ssess

\* Mutant of RegisterFails: the control stream is not closed.
RegisterFailsKeepsStream(c) ==
    LET x == caller[c].strm
    IN  /\ caller[c].pc = "wait"
        /\ caller[c].sess \notin csess \/ Ended(x)
        /\ ReturnError(c)
        /\ UNCHANGED <<phase, dgByKey, dgCtrl, dgDeliver, dgRecv, csess, ssess,
                       net, strm, hubVars, crecv, srecv>>

\* Mutant of RegisterFails: the end of the stream is not noticed.
RegisterFailsIgnoresEnd(c) ==
    LET x == caller[c].strm
    IN  /\ caller[c].pc = "wait"
        /\ caller[c].sess \notin csess
        /\ strm' = [strm EXCEPT ![x] = [strm[x] EXCEPT !.client = "closed"]]
        /\ ReturnError(c)
        /\ UNCHANGED <<phase, dgByKey, dgCtrl, dgDeliver, dgRecv, csess, ssess,
                       net, hubVars, crecv, srecv>>

\* Reading the identifier fails: the session is closed, or the server closed
\* the stream without an answer.
RegisterFails(c) ==
    LET x == caller[c].strm
    IN  /\ caller[c].pc = "wait"
        /\ caller[c].sess \notin csess \/ Ended(x)
        /\ strm' = [strm EXCEPT ![x] = [strm[x] EXCEPT !.client = "closed"]]
        /\ ReturnError(c)
        /\ UNCHANGED <<phase, dgByKey, dgCtrl, dgDeliver, dgRecv, csess, ssess,
                       net, hubVars, crecv, srecv>>

\* The caller sends its packet over the flow; an error drops it.
Send(c) ==
    LET f == caller[c].flow
    IN  /\ caller[c].pc = "send"
        /\ IF f.sess \in csess
           THEN SendDatagram([dir |-> "up", sess |-> f.sess, id |-> f.id,
                              key |-> caller[c].key])
           ELSE UNCHANGED net
        /\ caller' = [caller EXCEPT ![c] = IdleCaller]
        /\ UNCHANGED <<phase, dgMu, dgByKey, dgCtrl, dgDeliver, dgRecv, csess,
                       ssess, strm, hubVars, crecv, srecv>>

-----------------------------------------------------------------------------
(* Pool.Close *)

CloseCtrl ==
    /\ phase = "open"
    /\ dgMu = None
    /\ phase' = "noctrl"
    /\ strm' = [x \in Streams |-> IF \E k \in Keys : dgCtrl[k] = x
                                  THEN [strm[x] EXCEPT !.client = "closed"] ELSE strm[x]]
    /\ dgCtrl' = [k \in Keys |-> None]
    /\ UNCHANGED <<dgMu, caller, dgByKey, dgDeliver, dgRecv, csess, ssess, net,
                   hubVars, crecv, srecv>>

\* The client's end of s closes, and every stream of s with it.
CloseSession(s) ==
    /\ csess' = csess \ {s}
    /\ net' = {m \in net : ~(m.dir = "down" /\ m.sess = s)}
    /\ strm' = [x \in Streams |-> IF strm[x].sess = s
                                  THEN [strm[x] EXCEPT !.client = "closed"] ELSE strm[x]]
    /\ UNCHANGED <<poolVars, ssess, hubVars, crecv, srecv>>

CloseSessions(s) ==
    /\ phase = "noctrl"
    /\ s \in csess
    /\ CloseSession(s)

CloseDone ==
    /\ phase = "noctrl"
    /\ csess = {}
    /\ phase' = "nil"
    /\ UNCHANGED <<dgMu, caller, dgByKey, dgCtrl, dgDeliver, dgRecv, csess, ssess,
                   net, strm, hubVars, crecv, srecv>>

-----------------------------------------------------------------------------
(* dgramRecvLoop: one per session on the client *)

ClientLookup(s, id) == dgDeliver[s][id]

\* A datagram is received and its deliver looked up under dgMu; without one
\* it is dropped.
ClientReceive(s, m) ==
    /\ s \in dgRecv \cap csess
    /\ crecv[s] = NoPayload
    /\ dgMu = None
    /\ m \in net /\ m.dir = "down" /\ m.sess = s
    /\ net' = net \ {m}
    /\ crecv' = [crecv EXCEPT ![s] =
                    IF ClientLookup(s, m.id) = None THEN NoPayload
                    ELSE [to |-> ClientLookup(s, m.id), key |-> m.key]]
    /\ UNCHANGED <<poolVars, csess, ssess, strm, hubVars, srecv>>

\* deliver writes the payload to the local client.
ClientDeliver(s) ==
    /\ crecv[s] # NoPayload
    /\ crecv' = [crecv EXCEPT ![s] = NoPayload]
    /\ UNCHANGED <<poolVars, csess, ssess, net, strm, hubVars, srecv>>

-----------------------------------------------------------------------------
(* recvLoop: one per session on the server *)

\* The socket of the flow is looked up under hub.mu; without one the datagram
\* is dropped.
ServerReceive(s, m) ==
    /\ s \in ssess
    /\ srecv[s] = NoPayload
    /\ m \in net /\ m.dir = "up" /\ m.sess = s
    /\ net' = net \ {m}
    /\ srecv' = [srecv EXCEPT ![s] =
                    IF flows[s][m.id] = None THEN NoPayload
                    ELSE [to |-> flows[s][m.id], key |-> m.key]]
    /\ UNCHANGED <<poolVars, csess, ssess, strm, hubVars, crecv>>

\* The payload is written to the socket; an error (closed meanwhile) is ignored.
ServerWrite(s) ==
    /\ srecv[s] # NoPayload
    /\ srecv' = [srecv EXCEPT ![s] = NoPayload]
    /\ UNCHANGED <<poolVars, csess, ssess, net, strm, hubVars, crecv>>

-----------------------------------------------------------------------------
(* handleStream: one handler per control stream on the server *)

\* Handler x continues at pc.
HandlerAt(x, pc) == [strm EXCEPT ![x] = [strm[x] EXCEPT !.h = pc]]

\* AcceptStream, and the request is read.
Accept(x) ==
    /\ strm[x].client # "none" /\ strm[x].h = "none"
    /\ strm[x].sess \in ssess
    /\ strm' = HandlerAt(x, "dial")
    /\ UNCHANGED <<poolVars, csess, ssess, net, hubVars, crecv, srecv>>

\* Mutant of FreshID: an identifier no open flow uses.
FreshIDRecycled(s) ==
    CHOOSE i \in FlowIDs : /\ flows[s][i] = None
                           /\ \A j \in FlowIDs : flows[s][j] = None => i <= j

\* Mutant of FreshID: the counter is advanced by two.
FreshIDSkips(s) == nextID[s] + 2

FreshID(s) == nextID[s] + 1

\* openFlow dials the target and takes the next identifier.
OpenFlow(x) ==
    LET s == strm[x].sess
    IN  /\ strm[x].h = "dial"
        /\ nextID[s] < MaxID
        /\ sock' = [sock EXCEPT ![x] = "open"]
        /\ nextID' = [nextID EXCEPT ![s] = nextID[s] + 1]
        /\ strm' = [strm EXCEPT ![x] = [strm[x] EXCEPT !.h = "register", !.id = FreshID(s)]]
        /\ UNCHANGED <<poolVars, csess, ssess, net, flows, reader, crecv, srecv>>

OpenFlowFails(x) ==
    /\ strm[x].h = "dial"
    /\ strm' = HandlerAt(x, "done")
    /\ UNCHANGED <<poolVars, csess, ssess, net, hubVars, crecv, srecv>>

\* openFlow stores the socket under hub.mu.
StoreFlow(x) ==
    /\ strm[x].h = "register"
    /\ flows' = [flows EXCEPT ![strm[x].sess] =
                    [flows[strm[x].sess] EXCEPT ![strm[x].id] = x]]
    /\ strm' = HandlerAt(x, "reply")
    /\ UNCHANGED <<poolVars, csess, ssess, net, nextID, sock, reader, crecv, srecv>>

\* The identifier is sent and the reader started, or the write fails.
Reply(x) ==
    /\ strm[x].h = "reply"
    /\ \/ /\ strm[x].sess \in ssess
          /\ strm' = [strm EXCEPT ![x] = [strm[x] EXCEPT !.h = "copy", !.reply = strm[x].id]]
          /\ reader' = [reader EXCEPT ![x] = [NewReader EXCEPT !.pc = "read"]]
       \/ /\ strm[x].sess \notin ssess \/ strm[x].client = "closed"
          /\ strm' = HandlerAt(x, "delete")
          /\ UNCHANGED reader
    /\ UNCHANGED <<poolVars, csess, ssess, net, flows, nextID, sock, crecv, srecv>>

\* Mutant of CopyEnds: the deferred closeFlow is missing.
CopyEndsKeepsFlow(x) ==
    /\ strm[x].h = "copy"
    /\ strm[x].sess \notin ssess \/ strm[x].client = "closed"
    /\ strm' = HandlerAt(x, "done")
    /\ UNCHANGED <<poolVars, csess, ssess, net, hubVars, crecv, srecv>>

\* io.Copy returns: the client closed the control stream or the session ended.
CopyEnds(x) ==
    /\ strm[x].h = "copy"
    /\ strm[x].sess \notin ssess \/ strm[x].client = "closed"
    /\ strm' = HandlerAt(x, "delete")
    /\ UNCHANGED <<poolVars, csess, ssess, net, hubVars, crecv, srecv>>

\* closeFlow, first half: the flow with the identifier of x is removed.
\* Whoever finds a socket there closes it.
Registered(x) == flows[strm[x].sess][strm[x].id]
RemoveFlow(x) ==
    flows' = [flows EXCEPT ![strm[x].sess] =
                 [flows[strm[x].sess] EXCEPT ![strm[x].id] = None]]

HandlerRemoves(x) ==
    /\ strm[x].h = "delete"
    /\ RemoveFlow(x)
    /\ strm' = [strm EXCEPT ![x] = [strm[x] EXCEPT !.h = IF Registered(x) = None THEN "done" ELSE "close",
                                                    !.conn = Registered(x)]]
    /\ UNCHANGED <<poolVars, csess, ssess, net, nextID, sock, reader, crecv, srecv>>

\* closeFlow, second half: the socket is closed without the lock.
HandlerCloses(x) ==
    /\ strm[x].h = "close"
    /\ sock' = [sock EXCEPT ![strm[x].conn] = "closed"]
    /\ strm' = [strm EXCEPT ![x] = [strm[x] EXCEPT !.h = "done", !.conn = None]]
    /\ UNCHANGED <<poolVars, csess, ssess, net, flows, nextID, reader, crecv, srecv>>

-----------------------------------------------------------------------------
(* flowReadTargetToClient: one reader per flow on the server *)

\* A packet of the target is sent on, or dropped as too large or unsendable.
ReaderForward(x) ==
    /\ reader[x].pc = "read"
    /\ sock[x] = "open"
    /\ strm[x].sess \in ssess
    /\ SendDatagram([dir |-> "down", sess |-> strm[x].sess, id |-> strm[x].id,
                     key |-> strm[x].key])
    /\ UNCHANGED <<poolVars, csess, ssess, strm, hubVars, crecv, srecv>>

\* Read fails: 60 s without a packet, or the socket is closed.  Then closeFlow.
ReaderRemoves(x) ==
    /\ reader[x].pc = "read"
    /\ RemoveFlow(x)
    /\ reader' = [reader EXCEPT ![x] = [pc |-> IF Registered(x) = None THEN "done" ELSE "close",
                                        conn |-> Registered(x)]]
    /\ UNCHANGED <<poolVars, csess, ssess, net, strm, nextID, sock, crecv, srecv>>

\* Mutant of ReaderCloses: the socket is left open.
ReaderClosesNothing(x) ==
    /\ reader[x].pc = "close"
    /\ reader' = [reader EXCEPT ![x] = [pc |-> "done", conn |-> None]]
    /\ UNCHANGED <<poolVars, csess, ssess, net, strm, flows, nextID, sock, crecv, srecv>>

ReaderCloses(x) ==
    /\ reader[x].pc = "close"
    /\ sock' = [sock EXCEPT ![reader[x].conn] = "closed"]
    /\ reader' = [reader EXCEPT ![x] = [pc |-> "done", conn |-> None]]
    /\ UNCHANGED <<poolVars, csess, ssess, net, strm, flows, nextID, crecv, srecv>>

-----------------------------------------------------------------------------
(* Sessions and processes fail *)

\* The client's end of s is closed by a keepalive timeout or a transport error.
ClientSessionDies(s) ==
    /\ s \in csess
    /\ CloseSession(s)

\* The server's end of s closes; serveSession returns.
ServerSessionDies(s) ==
    /\ s \in ssess
    /\ ssess' = ssess \ {s}
    /\ net' = {m \in net : ~(m.dir = "up" /\ m.sess = s)}
    /\ UNCHANGED <<poolVars, csess, strm, hubVars, crecv, srecv>>

\* The server process restarts: every session, handler, flow and socket is gone.
ServerRestart ==
    /\ ssess # {}
    /\ ssess' = {}
    /\ net' = {m \in net : m.dir = "down"}
    /\ strm' = [x \in Streams |->
                   [strm[x] EXCEPT !.h = IF strm[x].h = "none" THEN "none" ELSE "done",
                                   !.conn = None]]
    /\ flows' = [s \in Sessions |-> [i \in FlowIDs |-> None]]
    /\ sock' = [x \in Streams |-> IF sock[x] = "open" THEN "closed" ELSE sock[x]]
    /\ reader' = [x \in Streams |-> [pc |-> IF reader[x].pc = "none" THEN "none" ELSE "done",
                                      conn |-> None]]
    /\ srecv' = [s \in Sessions |-> NoPayload]
    /\ UNCHANGED <<poolVars, csess, nextID, crecv>>

-----------------------------------------------------------------------------

Next ==
    \/ \E c \in Callers :
          \/ \E k \in Keys : Packet(c, k)
          \/ Reuse(c)
          \/ Lock(c)
          \/ Pick(c)
          \/ \E x \in Streams : OpenControl(c, x)
          \/ OpenControlFails(c)
          \/ Register(c)
          \/ RegisterFails(c)
          \/ Send(c)
    \/ CloseCtrl
    \/ CloseDone
    \/ ServerRestart
    \/ \E s \in Sessions :
          \/ CloseSessions(s)
          \/ \E m \in net : ClientReceive(s, m)
          \/ ClientDeliver(s)
          \/ \E m \in net : ServerReceive(s, m)
          \/ ServerWrite(s)
          \/ ClientSessionDies(s)
          \/ ServerSessionDies(s)
    \/ \E x \in Streams :
          \/ Accept(x)
          \/ OpenFlow(x)
          \/ OpenFlowFails(x)
          \/ StoreFlow(x)
          \/ Reply(x)
          \/ CopyEnds(x)
          \/ HandlerRemoves(x)
          \/ HandlerCloses(x)
          \/ ReaderForward(x)
          \/ ReaderRemoves(x)
          \/ ReaderCloses(x)

Spec == Init /\ [][Next]_vars

\* Every goroutine that can run does.  sync.Mutex hands dgMu to a waiter that
\* has starved for 1 ms.  Each end of a session notices that the other is gone
\* (a QUIC close, or 30 s without a keepalive).  Nothing is assumed of targets:
\* a socket may never be idle.
Fairness ==
    /\ \A c \in Callers :
          /\ SF_vars(Reuse(c)) /\ SF_vars(Lock(c))
          /\ WF_vars(Pick(c))
          /\ WF_vars(OpenControlFails(c) \/ \E x \in Streams : OpenControl(c, x))
          /\ WF_vars(Register(c) \/ RegisterFails(c))
          /\ WF_vars(Send(c))
    /\ \A s \in Sessions :
          /\ WF_vars(CloseSessions(s))
          /\ WF_vars(s \notin ssess /\ ClientSessionDies(s))
          /\ WF_vars(s \notin csess /\ ServerSessionDies(s))
    /\ \A x \in Streams :
          /\ WF_vars(Accept(x))
          /\ WF_vars(OpenFlow(x) \/ OpenFlowFails(x))
          /\ WF_vars(StoreFlow(x))
          /\ WF_vars(Reply(x))
          /\ WF_vars(CopyEnds(x))
          /\ WF_vars(HandlerRemoves(x))
          /\ WF_vars(HandlerCloses(x))
          /\ WF_vars(ReaderCloses(x))

FairSpec == Spec /\ Fairness

-----------------------------------------------------------------------------
(* Properties *)

\* Every variable has its type.
TypeOK ==
    /\ phase \in {"open", "noctrl", "nil", "panic"}
    /\ dgMu \in Callers \cup {None}
    /\ caller \in [Callers -> Caller]
    /\ dgByKey \in [Keys -> Flow]
    /\ dgCtrl \in [Keys -> Streams \cup {None}]
    /\ dgDeliver \in [Sessions -> [FlowIDs -> Keys \cup {None}]]
    /\ dgRecv \subseteq Sessions
    /\ csess \subseteq Sessions
    /\ ssess \subseteq Sessions
    /\ net \subseteq Datagram
    /\ strm \in [Streams -> Stream]
    /\ flows \in [Sessions -> [FlowIDs -> Streams \cup {None}]]
    /\ nextID \in [Sessions -> FlowIDs \cup {0}]
    /\ sock \in [Streams -> {"none", "open", "closed"}]
    /\ reader \in [Streams -> Reader]
    /\ crecv \in [Sessions -> Payload(Keys)]
    /\ srecv \in [Sessions -> Payload(Streams)]

\* What dgramRecvLoop hands to a local client was sent by the target of that
\* client's flow, and what recvLoop writes to a socket came from the client the
\* socket was dialed for, however late the datagram arrives.
FlowIsolation ==
    \A s \in Sessions :
       /\ crecv[s] # NoPayload => crecv[s].to = crecv[s].key
       /\ srecv[s] # NoPayload => strm[srecv[s].to].key = srecv[s].key

\* Some stream of session s was given identifier i and belongs to key k.
Origin(s, i, k) ==
    i # 0 /\ \E x \in Streams : strm[x].sess = s /\ strm[x].id = i /\ strm[x].key = k

\* What a caller has set up by the time it is at its pc.
CallerOK(c) ==
    /\ caller[c].pc # "idle" => caller[c].key \in Keys
    /\ caller[c].pc \in {"open", "wait"} => caller[c].sess \in Sessions
    /\ caller[c].pc = "wait" =>
          /\ caller[c].strm \in Streams
          /\ strm[caller[c].strm].sess = caller[c].sess
          /\ strm[caller[c].strm].key = caller[c].key
    /\ caller[c].pc = "send" =>
          Origin(caller[c].flow.sess, caller[c].flow.id, caller[c].key)

CallerShape == \A c \in Callers : CallerOK(c)

\* What a control stream has set up by the time its handler is at its pc.
StreamShape ==
    \A x \in Streams :
       /\ strm[x].client = "none" =>
             strm[x].h = "none" /\ strm[x].sess = None /\ strm[x].key = None
       /\ strm[x].client # "none" => strm[x].sess \in Sessions /\ strm[x].key \in Keys
       /\ strm[x].h \in {"none", "dial"} => strm[x].id = 0
       /\ strm[x].h \in {"register", "reply", "copy", "delete", "close"} => strm[x].id # 0
       /\ reader[x].pc # "none" => strm[x].id # 0
       /\ strm[x].h = "close" => strm[x].conn \in Streams
       /\ reader[x].pc = "close" => reader[x].conn \in Streams
       /\ strm[x].reply \in {0, strm[x].id}

\* A session gives an identifier to one stream only.
IDsDistinct ==
    \A x \in Streams :
       strm[x].id # 0 =>
          /\ strm[x].client # "none"
          /\ strm[x].id <= nextID[strm[x].sess]
          /\ \A y \in Streams : strm[y].sess = strm[x].sess /\ strm[y].id = strm[x].id => x = y

\* Identifiers in flight and in the tables were given to a stream of the key.
Origins ==
    /\ \A m \in net : Origin(m.sess, m.id, m.key)
    /\ \A k \in Keys : dgByKey[k] # NoFlow => Origin(dgByKey[k].sess, dgByKey[k].id, k)
    /\ \A k \in Keys : dgCtrl[k] # None => strm[dgCtrl[k]].key = k
    /\ \A s \in Sessions, i \in FlowIDs :
          dgDeliver[s][i] # None => Origin(s, i, dgDeliver[s][i])
    /\ \A s \in Sessions, i \in FlowIDs :
          flows[s][i] # None => strm[flows[s][i]].sess = s /\ strm[flows[s][i]].id = i

\* Identifiers are the same on both sides and never change hands: the part of
\* the state that FlowIsolation rests on.
FlowIdentity == CallerShape /\ StreamShape /\ IDsDistinct /\ Origins

\* A socket openFlow dialed is closed once, by the handler or the reader: as
\* long as it is open one of them is still to close it.
NoSocketLeak ==
    \A x \in Streams :
       sock[x] = "open" =>
          \/ strm[x].h \in {"register", "reply", "copy", "delete"} /\ strm[x].conn = None
          \/ \E y \in Streams : strm[y].conn = x \/ reader[y].conn = x

\* dgMu makes lookup and registration in OpenUDPDatagram one step: a key has at
\* most one control stream, and an open one belongs to the caller that holds
\* dgMu or is in dgCtrl, where Close finds it.
CtrlTracked ==
    \A x \in Streams :
       strm[x].client = "open" =>
          \/ dgMu # None /\ caller[dgMu].pc = "wait" /\ caller[dgMu].strm = x
          \/ dgCtrl[strm[x].key] = x

\* A caller that waits for the server's answer with dgMu locked gets one or an
\* error: an open never stalls the other flows and deliveries for ever.
OpenUnblocks == \A c \in Callers : (dgMu = c) ~> (dgMu # c)

\* After Pool.Close, or a panic of the client, the server releases every socket,
\* whatever the targets send.
FlowsReleased == [](phase # "open" => <>[](\A x \in Streams : sock[x] # "open"))

\* CHANGELOG.md:13 says that "flows are reused per (source+target) key and
\* idle-reaped (~60s)": a key that is sent to again and again is not served for
\* ever by a flow that the server has reaped while the session is open.
Stale(k) ==
    LET f == dgByKey[k]
    IN  f.sess \in csess \cap ssess /\ flows[f.sess][f.id] = None
Sending(k) == \E c \in Callers : caller[c].pc = "send" /\ caller[c].key = k
ReapedFlowsReopened == \A k \in Keys : []<>Sending(k) => []<>~Stale(k)
=============================================================================
