-------------------------- MODULE DgramFlowProofs --------------------------
(***************************************************************************)
(* Theorems about the datagram flows, for any number of keys, callers,     *)
(* sessions, control streams and datagrams in flight.                      *)
(***************************************************************************)
EXTENDS DgramFlow, TLAPS

\* The records the actions build from scratch.
LEMMA RecordTypes ==
    /\ NoFlow \in Flow
    /\ IdleCaller \in Caller
    /\ NewStream \in Stream
    /\ NewReader \in Reader
    /\ \A T : NoPayload \in Payload(T)
BY DEF NoFlow, Flow, IdleCaller, Caller, NewStream, Stream, NewReader, Reader,
       NoPayload, Payload

\* A control stream stays one when an end of it changes.
LEMMA StreamTypes ==
    ASSUME NEW r \in Stream
    PROVE  /\ [r EXCEPT !.client = "closed"] \in Stream
           /\ \A pc \in {"none", "dial", "register", "reply", "copy", "delete", "close", "done"} :
                 /\ [r EXCEPT !.h = pc] \in Stream
                 /\ \A x \in Streams \cup {None} : [r EXCEPT !.h = pc, !.conn = x] \in Stream
<1> DEFINE H == {"none", "dial", "register", "reply", "copy", "delete", "close", "done"}
<1>1. [r EXCEPT !.client = "closed"] \in Stream
  BY DEF Stream
<1>2. ASSUME NEW pc \in H PROVE [r EXCEPT !.h = pc] \in Stream
  BY DEF Stream
<1>3. ASSUME NEW pc \in H, NEW x \in Streams \cup {None}
      PROVE  [r EXCEPT !.h = pc, !.conn = x] \in Stream
  BY DEF Stream
<1> QED
  BY <1>1, <1>2, <1>3

\* The network carries datagrams after a send, whether it is lost or not.
LEMMA SendDatagramType ==
    ASSUME net \subseteq Datagram, NEW m \in Datagram, SendDatagram(m)
    PROVE  net' \subseteq Datagram /\ net' \subseteq net \cup {m}
BY DEF SendDatagram

\* A panic keeps the types.
LEMMA PanicType ==
    ASSUME TypeOK, Panic
    PROVE  TypeOK'
<1>1. strm' \in [Streams -> Stream]
  <2>1. \A x \in Streams : strm[x] \in Stream /\ [strm[x] EXCEPT !.client = "closed"] \in Stream
    BY StreamTypes DEF TypeOK
  <2> QED
    BY <2>1 DEF Panic
<1> QED
  BY <1>1, RecordTypes DEF TypeOK, Panic, hubVars

\* Closing the client's end of a session keeps the types.
LEMMA CloseSessionType ==
    ASSUME TypeOK, NEW s \in Sessions, CloseSession(s)
    PROVE  TypeOK'
<1>1. strm' \in [Streams -> Stream]
  <2>1. \A x \in Streams : strm[x] \in Stream /\ [strm[x] EXCEPT !.client = "closed"] \in Stream
    BY StreamTypes DEF TypeOK
  <2> QED
    BY <2>1 DEF CloseSession
<1> QED
  BY <1>1 DEF TypeOK, CloseSession, poolVars, hubVars

\* A handler that moves on keeps the types.
LEMMA HandlerAtType ==
    ASSUME TypeOK, NEW x \in Streams,
           NEW pc \in {"dial", "register", "reply", "copy", "delete", "close", "done"}
    PROVE  HandlerAt(x, pc) \in [Streams -> Stream]
<1>1. [strm[x] EXCEPT !.h = pc] \in Stream
  BY StreamTypes DEF TypeOK
<1> QED
  BY <1>1 DEF HandlerAt, TypeOK

-----------------------------------------------------------------------------
(* Type correctness *)

\* The initial state is well typed.
LEMMA InitTypeOK == Init => TypeOK
BY RecordTypes DEF Init, TypeOK

\* A step of a caller keeps the types.
LEMMA CallerTypeOK ==
    ASSUME TypeOK, FlowIdentity, NEW c \in Callers,
           \/ \E k \in Keys : Packet(c, k)
           \/ Reuse(c)
           \/ Lock(c)
           \/ Pick(c)
           \/ \E x \in Streams : OpenControl(c, x)
           \/ OpenControlFails(c)
           \/ Register(c)
           \/ RegisterFails(c)
           \/ Send(c)
    PROVE  TypeOK'
<1> USE RecordTypes
<1>0. /\ caller[c] \in Caller
      /\ caller[c].pc # "idle" => caller[c].key \in Keys
      /\ caller[c].pc \in {"open", "wait"} => caller[c].sess \in Sessions
      /\ caller[c].pc = "wait" => caller[c].strm \in Streams
  BY DEF TypeOK, FlowIdentity, CallerShape, CallerOK
<1>1. ASSUME NEW k \in Keys, Packet(c, k) PROVE TypeOK'
  <2>1. [IdleCaller EXCEPT !.pc = "packet", !.key = k] \in Caller
    BY DEF IdleCaller, Caller, NoFlow, Flow
  <2> QED
    BY <1>1, <2>1 DEF TypeOK, Packet, hubVars
<1>2. CASE Reuse(c)
  <2>1. dgByKey[caller[c].key] \in Flow
    BY <1>0, <1>2 DEF TypeOK, Reuse
  <2>2. [caller[c] EXCEPT !.pc = "send", !.flow = dgByKey[caller[c].key]] \in Caller
    BY <1>0, <2>1 DEF Caller
  <2> QED
    BY <1>2, <2>2 DEF TypeOK, Reuse, hubVars
<1>3. CASE Lock(c)
  <2>1. [caller[c] EXCEPT !.pc = "pick"] \in Caller
    BY <1>0 DEF Caller
  <2> QED
    BY <1>3, <2>1 DEF TypeOK, Lock, hubVars
<1>4. CASE Pick(c)
  <2>1. CASE Panic
    BY <2>1, PanicType
  <2>2. \A s \in csess : [caller[c] EXCEPT !.pc = "open", !.sess = s] \in Caller
    BY <1>0 DEF Caller, TypeOK
  <2>3. CASE ~Panic
    BY <1>4, <2>2, <2>3 DEF TypeOK, Pick, ReturnError, hubVars
  <2> QED
    BY <2>1, <2>3
<1>5. ASSUME NEW x \in Streams, OpenControl(c, x) PROVE TypeOK'
  <2>1. caller[c].pc = "open"
    BY <1>5 DEF OpenControl
  <2>2. [NewStream EXCEPT !.sess = caller[c].sess, !.key = caller[c].key,
                          !.client = "open"] \in Stream
    BY <1>0, <2>1 DEF NewStream, Stream
  <2>3. [caller[c] EXCEPT !.pc = "wait", !.strm = x] \in Caller
    BY <1>0 DEF Caller
  <2> QED
    BY <1>5, <2>2, <2>3 DEF TypeOK, OpenControl, hubVars
<1>6. CASE OpenControlFails(c)
  BY <1>6 DEF TypeOK, OpenControlFails, ReturnError, hubVars
<1>7. CASE Register(c)
  <2>1. CASE Panic
    BY <2>1, PanicType
  <2>2. CASE ~Panic
    <3> DEFINE f == [sess |-> caller[c].sess, id |-> strm[caller[c].strm].reply]
    <3>1. caller[c].pc = "wait" /\ strm[caller[c].strm].reply # 0
      BY <1>7 DEF Register
    <3>2. f \in Flow /\ f.id \in FlowIDs
      BY <1>0, <3>1 DEF Flow, TypeOK, Stream
    <3>3. [caller[c] EXCEPT !.pc = "send", !.flow = f] \in Caller
      BY <1>0, <3>2 DEF Caller
    <3>4. [dgDeliver[caller[c].sess] EXCEPT ![f.id] = caller[c].key]
             \in [FlowIDs -> Keys \cup {None}]
      BY <1>0, <3>1, <3>2 DEF TypeOK
    <3> DEFINE d == [dgDeliver[caller[c].sess] EXCEPT ![f.id] = caller[c].key]
               w == [caller[c] EXCEPT !.pc = "send", !.flow = f]
    <3>5. /\ dgDeliver' = [dgDeliver EXCEPT ![caller[c].sess] = d]
          /\ dgRecv' = dgRecv \cup {caller[c].sess}
          /\ dgByKey' = [dgByKey EXCEPT ![caller[c].key] = f]
          /\ dgCtrl' = [dgCtrl EXCEPT ![caller[c].key] = caller[c].strm]
          /\ dgMu' = None
          /\ caller' = [caller EXCEPT ![c] = w]
          /\ UNCHANGED <<phase, csess, ssess, net, strm, hubVars, crecv, srecv>>
      BY <1>7, <2>2 DEF Register
    <3> HIDE DEF f, d, w
    <3> QED
      BY <1>0, <3>1, <3>2, <3>3, <3>4, <3>5 DEF d, w, TypeOK, hubVars
  <2> QED
    BY <2>1, <2>2
<1>8. CASE RegisterFails(c)
  <2>1. [strm[caller[c].strm] EXCEPT !.client = "closed"] \in Stream
    BY <1>0, <1>8 DEF RegisterFails, TypeOK, Stream
  <2> QED
    BY <1>0, <1>8, <2>1 DEF TypeOK, RegisterFails, ReturnError, hubVars
<1>9. CASE Send(c)
  <2> DEFINE m == [dir |-> "up", sess |-> caller[c].flow.sess, id |-> caller[c].flow.id,
                   key |-> caller[c].key]
  <2>1. caller[c].pc = "send" /\ caller[c].flow.id # 0 /\ caller[c].flow \in Flow
    BY <1>0, <1>9 DEF Send, FlowIdentity, CallerShape, CallerOK, Origin, Caller
  <2>2. net' \subseteq Datagram
    <3>1. CASE caller[c].flow.sess \in csess
      <4>1. m \in Datagram
        BY <1>0, <2>1, <3>1 DEF Datagram, Flow, TypeOK
      <4>2. SendDatagram(m)
        BY <1>9, <3>1 DEF Send
      <4> QED
        BY <4>1, <4>2, SendDatagramType DEF TypeOK
    <3>2. CASE caller[c].flow.sess \notin csess
      BY <1>9, <3>2 DEF Send, TypeOK
    <3> QED
      BY <3>1, <3>2
  <2> QED
    BY <1>9, <2>2 DEF TypeOK, Send, hubVars
<1> QED
  BY <1>1, <1>2, <1>3, <1>4, <1>5, <1>6, <1>7, <1>8, <1>9

\* Closing the pool, and the loss of a session or of the server, keep the types.
LEMMA CloseTypeOK ==
    ASSUME TypeOK,
           \/ CloseCtrl
           \/ CloseDone
           \/ ServerRestart
           \/ \E s \in Sessions : \/ CloseSessions(s)
                               \/ ClientSessionDies(s)
                               \/ ServerSessionDies(s)
    PROVE  TypeOK'
<1> USE RecordTypes
<1>1. CASE CloseCtrl
  <2>1. \A x \in Streams : strm[x] \in Stream /\ [strm[x] EXCEPT !.client = "closed"] \in Stream
    BY StreamTypes DEF TypeOK
  <2>2. strm' \in [Streams -> Stream]
    BY <1>1, <2>1 DEF CloseCtrl
  <2> QED
    BY <1>1, <2>2 DEF TypeOK, CloseCtrl, hubVars
<1>2. CASE CloseDone
  BY <1>2 DEF TypeOK, CloseDone, hubVars
<1>3. CASE ServerRestart
  <2>1. \A x \in Streams : /\ [strm[x] EXCEPT !.h = "none", !.conn = None] \in Stream
                          /\ [strm[x] EXCEPT !.h = "done", !.conn = None] \in Stream
    BY StreamTypes DEF TypeOK
  <2>2. strm' \in [Streams -> Stream]
    <3>1. strm' = [x \in Streams |->
                      [strm[x] EXCEPT !.h = IF strm[x].h = "none" THEN "none" ELSE "done",
                                      !.conn = None]]
      BY <1>3 DEF ServerRestart
    <3>2. \A x \in Streams :
             [strm[x] EXCEPT !.h = IF strm[x].h = "none" THEN "none" ELSE "done",
                             !.conn = None] \in Stream
      BY <2>1
    <3> QED
      BY <3>1, <3>2
  <2>3. reader' \in [Streams -> Reader]
    BY <1>3 DEF ServerRestart, Reader
  <2> QED
    BY <1>3, <2>2, <2>3 DEF TypeOK, ServerRestart, poolVars
<1>4. ASSUME NEW s \in Sessions, CloseSessions(s) \/ ClientSessionDies(s) PROVE TypeOK'
  BY <1>4, CloseSessionType DEF CloseSessions, ClientSessionDies
<1>5. ASSUME NEW s \in Sessions, ServerSessionDies(s) PROVE TypeOK'
  BY <1>5 DEF TypeOK, ServerSessionDies, poolVars, hubVars
<1> QED
  BY <1>1, <1>2, <1>3, <1>4, <1>5

\* A step of a receive loop keeps the types.
LEMMA ReceiveTypeOK ==
    ASSUME TypeOK, NEW s \in Sessions,
           \/ \E m \in net : ClientReceive(s, m)
           \/ ClientDeliver(s)
           \/ \E m \in net : ServerReceive(s, m)
           \/ ServerWrite(s)
    PROVE  TypeOK'
<1> USE RecordTypes
<1>1. ASSUME NEW m \in net, ClientReceive(s, m) PROVE TypeOK'
  <2>1. m \in Datagram
    BY DEF TypeOK
  <2>2. m.id \in FlowIDs /\ m.key \in Keys
    BY <2>1 DEF Datagram
  <2>3. dgDeliver[s][m.id] \in Keys \cup {None}
    BY <2>2 DEF TypeOK
  <2>4. dgDeliver[s][m.id] # None =>
           [to |-> dgDeliver[s][m.id], key |-> m.key] \in Payload(Keys)
    BY <2>2, <2>3 DEF Payload
  <2> QED
    BY <1>1, <2>4 DEF TypeOK, ClientReceive, ClientLookup, poolVars, hubVars
<1>2. CASE ClientDeliver(s)
  BY <1>2 DEF TypeOK, ClientDeliver, poolVars, hubVars
<1>3. ASSUME NEW m \in net, ServerReceive(s, m) PROVE TypeOK'
  <2>1. m \in Datagram
    BY DEF TypeOK
  <2>2. m.id \in FlowIDs /\ m.key \in Keys
    BY <2>1 DEF Datagram
  <2>3. flows[s][m.id] \in Streams \cup {None}
    BY <2>2 DEF TypeOK
  <2>4. flows[s][m.id] # None =>
           [to |-> flows[s][m.id], key |-> m.key] \in Payload(Streams)
    BY <2>2, <2>3 DEF Payload
  <2> QED
    BY <1>3, <2>4 DEF TypeOK, ServerReceive, poolVars, hubVars
<1>4. CASE ServerWrite(s)
  BY <1>4 DEF TypeOK, ServerWrite, poolVars, hubVars
<1> QED
  BY <1>1, <1>2, <1>3, <1>4

\* A step of a handler or a reader on the server.
ServerStep(x) ==
    \/ Accept(x)
    \/ OpenFlow(x)
    \/ OpenFlowFails(x)
    \/ StoreFlow(x)
    \/ Reply(x)
    \/ CopyEnds(x)
    \/ HandlerRemoves(x)
    \/ HandlerCloses(x)
    \/ ReaderForward(x)
    \/ ReaderRemoves(x)
    \/ ReaderCloses(x)

\* A step of a handler or a reader keeps the types.
LEMMA ServerTypeOK ==
    ASSUME TypeOK, FlowIdentity, NEW x \in Streams, ServerStep(x)
    PROVE  TypeOK'
<1>0. /\ strm[x] \in Stream
      /\ strm[x].client # "none" => strm[x].sess \in Sessions /\ strm[x].key \in Keys
      /\ strm[x].client = "none" => strm[x].h = "none"
      /\ strm[x].id # 0 => strm[x].id \in FlowIDs /\ strm[x].client # "none"
      /\ strm[x].h \in {"register", "reply", "copy", "delete", "close"} => strm[x].id # 0
      /\ reader[x].pc # "none" => strm[x].id # 0
      /\ strm[x].h = "close" => strm[x].conn \in Streams
      /\ reader[x].pc = "close" => reader[x].conn \in Streams
  <2>1. strm[x] \in Stream
    BY DEF TypeOK
  <2>2. strm[x].id \in FlowIDs \cup {0}
    BY <2>1 DEF Stream
  <2> QED
    BY <2>1, <2>2 DEF FlowIdentity, StreamShape, IDsDistinct
<1>1. CASE Accept(x)
  BY <1>1, HandlerAtType DEF TypeOK, Accept, poolVars, hubVars
<1>2. CASE OpenFlow(x)
  <2>1. strm[x].sess \in Sessions /\ nextID[strm[x].sess] < MaxID
    BY <1>0, <1>2 DEF OpenFlow
  <2>2. FreshID(strm[x].sess) \in FlowIDs
    <3>1. nextID[strm[x].sess] \in FlowIDs \cup {0}
      BY <2>1 DEF TypeOK
    <3>2. nextID[strm[x].sess] \in Nat
      BY <3>1, BoundAssumption DEF FlowIDs
    <3> QED
      BY <2>1, <3>2, BoundAssumption DEF FreshID, FlowIDs
  <2>3. [strm[x] EXCEPT !.h = "register", !.id = FreshID(strm[x].sess)] \in Stream
    BY <1>0, <2>2 DEF Stream
  <2>4. strm' \in [Streams -> Stream] /\ nextID' \in [Sessions -> FlowIDs \cup {0}]
    BY <1>2, <2>2, <2>3 DEF OpenFlow, TypeOK, FreshID
  <2> QED
    BY <1>2, <2>4 DEF TypeOK, OpenFlow, poolVars
<1>3. CASE OpenFlowFails(x)
  BY <1>3, HandlerAtType DEF TypeOK, OpenFlowFails, poolVars, hubVars
<1>4. CASE StoreFlow(x)
  <2>1. [flows[strm[x].sess] EXCEPT ![strm[x].id] = x] \in [FlowIDs -> Streams \cup {None}]
    BY <1>0, <1>4 DEF StoreFlow, TypeOK
  <2>2. strm' \in [Streams -> Stream]
    BY <1>4, HandlerAtType DEF StoreFlow
  <2>3. flows' \in [Sessions -> [FlowIDs -> Streams \cup {None}]]
    BY <1>4, <2>1 DEF StoreFlow, TypeOK
  <2> QED
    BY <1>4, <2>2, <2>3 DEF TypeOK, StoreFlow, poolVars
<1>5. CASE Reply(x)
  <2>1. [strm[x] EXCEPT !.h = "copy", !.reply = strm[x].id] \in Stream
    BY <1>0 DEF Stream
  <2>2. strm' \in [Streams -> Stream]
    BY <1>5, <2>1, HandlerAtType DEF Reply, TypeOK
  <2>3. reader' \in [Streams -> Reader]
    <3>1. [NewReader EXCEPT !.pc = "read"] \in Reader
      BY DEF NewReader, Reader
    <3> QED
      BY <1>5, <3>1 DEF Reply, TypeOK
  <2> QED
    BY <1>5, <2>2, <2>3 DEF TypeOK, Reply, poolVars
<1>6. CASE CopyEnds(x)
  BY <1>6, HandlerAtType DEF TypeOK, CopyEnds, poolVars, hubVars
<1>7. ASSUME RemoveFlow(x), strm[x].id # 0
      PROVE  /\ flows' \in [Sessions -> [FlowIDs -> Streams \cup {None}]]
             /\ Registered(x) \in Streams \cup {None}
  <2>1. [flows[strm[x].sess] EXCEPT ![strm[x].id] = None] \in [FlowIDs -> Streams \cup {None}]
    BY <1>0, <1>7 DEF TypeOK
  <2> QED
    BY <1>0, <1>7, <2>1 DEF RemoveFlow, Registered, TypeOK
<1>8. CASE HandlerRemoves(x)
  <2>1. strm[x].id # 0
    BY <1>0, <1>8 DEF HandlerRemoves
  <2>2. /\ flows' \in [Sessions -> [FlowIDs -> Streams \cup {None}]]
        /\ Registered(x) \in Streams \cup {None}
    BY <1>7, <1>8, <2>1 DEF HandlerRemoves
  <2>3. [strm[x] EXCEPT !.h = IF Registered(x) = None THEN "done" ELSE "close",
                        !.conn = Registered(x)] \in Stream
    BY <1>0, <2>2, StreamTypes
  <2>4. strm' \in [Streams -> Stream]
    BY <1>8, <2>3 DEF HandlerRemoves, TypeOK
  <2> QED
    BY <1>8, <2>2, <2>4 DEF TypeOK, HandlerRemoves, poolVars
<1>9. CASE HandlerCloses(x)
  <2>1. [strm[x] EXCEPT !.h = "done", !.conn = None] \in Stream
    BY <1>0, StreamTypes
  <2>2. strm' \in [Streams -> Stream]
    BY <1>9, <2>1 DEF HandlerCloses, TypeOK
  <2> QED
    BY <1>0, <1>9, <2>2 DEF TypeOK, HandlerCloses, poolVars
<1>10. CASE ReaderForward(x)
  <2> DEFINE m == [dir |-> "down", sess |-> strm[x].sess, id |-> strm[x].id,
                   key |-> strm[x].key]
  <2>1. m \in Datagram
    BY <1>0, <1>10 DEF ReaderForward, Datagram
  <2>2. SendDatagram(m)
    BY <1>10 DEF ReaderForward
  <2>3. net' \subseteq Datagram
    BY <2>1, <2>2, SendDatagramType DEF TypeOK
  <2> QED
    BY <1>10, <2>3 DEF TypeOK, ReaderForward, poolVars, hubVars
<1>11. CASE ReaderRemoves(x)
  <2>1. /\ flows' \in [Sessions -> [FlowIDs -> Streams \cup {None}]]
        /\ Registered(x) \in Streams \cup {None}
    BY <1>0, <1>7, <1>11 DEF ReaderRemoves
  <2>2. reader' \in [Streams -> Reader]
    BY <1>11, <2>1 DEF ReaderRemoves, Reader, TypeOK
  <2> QED
    BY <1>11, <2>1, <2>2 DEF TypeOK, ReaderRemoves, poolVars
<1>12. CASE ReaderCloses(x)
  <2>1. reader' \in [Streams -> Reader]
    BY <1>12 DEF ReaderCloses, Reader, TypeOK
  <2> QED
    BY <1>0, <1>12, <2>1 DEF TypeOK, ReaderCloses, poolVars
<1> QED
  BY <1>1, <1>2, <1>3, <1>4, <1>5, <1>6, <1>8, <1>9, <1>10, <1>11, <1>12 DEF ServerStep

-----------------------------------------------------------------------------
(* Identifiers never change hands *)

\* A step that lets every control stream keep its session, key and identifier.
KeepsStreams ==
    \A x \in Streams :
       /\ strm[x].client # "none" => /\ strm'[x].client # "none"
                                    /\ strm'[x].sess = strm[x].sess
                                    /\ strm'[x].key = strm[x].key
       /\ strm[x].id # 0 => strm'[x].id = strm[x].id

\* The origin of an identifier is not lost.
LEMMA OriginKept ==
    ASSUME FlowIdentity, KeepsStreams, NEW s, NEW i, NEW k, Origin(s, i, k)
    PROVE  i # 0 /\ \E x \in Streams : strm'[x].sess = s /\ strm'[x].id = i /\ strm'[x].key = k
<1>1. PICK x \in Streams : strm[x].sess = s /\ strm[x].id = i /\ strm[x].key = k
  BY DEF Origin
<1>2. i # 0 /\ strm[x].client # "none"
  BY <1>1 DEF Origin, FlowIdentity, IDsDistinct
<1> QED
  BY <1>1, <1>2 DEF KeepsStreams

\* The callers do not notice a step that keeps the streams.
LEMMA CallersKept ==
    ASSUME FlowIdentity, KeepsStreams, NEW c \in Callers, caller'[c] = caller[c]
    PROVE  CallerOK(c)'
<1>1. /\ caller[c].pc # "idle" => caller[c].key \in Keys
      /\ caller[c].pc \in {"open", "wait"} => caller[c].sess \in Sessions
      /\ caller[c].pc = "wait" =>
            /\ caller[c].strm \in Streams
            /\ strm[caller[c].strm].sess = caller[c].sess
            /\ strm[caller[c].strm].key = caller[c].key
      /\ caller[c].pc = "send" =>
            Origin(caller[c].flow.sess, caller[c].flow.id, caller[c].key)
  BY DEF FlowIdentity, CallerShape, CallerOK
<1>2. ASSUME caller[c].pc = "wait"
      PROVE  /\ strm'[caller[c].strm].sess = caller[c].sess
             /\ strm'[caller[c].strm].key = caller[c].key
  <2>1. strm[caller[c].strm].client # "none"
    BY <1>1, <1>2, NoneAssumption DEF FlowIdentity, StreamShape
  <2> QED
    BY <1>1, <1>2, <2>1 DEF KeepsStreams
<1>3. ASSUME caller[c].pc = "send"
      PROVE  (Origin(caller[c].flow.sess, caller[c].flow.id, caller[c].key))'
  BY <1>1, <1>3, OriginKept DEF Origin
<1> QED
  BY <1>1, <1>2, <1>3 DEF CallerOK

\* The tables still agree after a step that keeps the streams and at most
\* forgets flows or loses datagrams.
LEMMA OriginsKept ==
    ASSUME TypeOK, FlowIdentity, KeepsStreams, net' \subseteq net,
           UNCHANGED <<dgByKey, dgDeliver>>,
           \A k \in Keys : dgCtrl'[k] \in {None, dgCtrl[k]},
           \A s \in Sessions, i \in FlowIDs : flows'[s][i] \in {None, flows[s][i]}
    PROVE  Origins'
<1>1. ASSUME NEW m \in net'
      PROVE  Origin(m.sess, m.id, m.key)'
  <2>1. Origin(m.sess, m.id, m.key)
    BY <1>1 DEF FlowIdentity, Origins
  <2>2. m.id # 0 /\ \E x \in Streams : strm'[x].sess = m.sess /\ strm'[x].id = m.id /\ strm'[x].key = m.key
    BY <2>1, OriginKept
  <2> QED
    BY <2>2 DEF Origin
<1>2. ASSUME NEW k \in Keys, dgByKey'[k] # NoFlow
      PROVE  Origin(dgByKey[k].sess, dgByKey[k].id, k)'
  <2>1. Origin(dgByKey[k].sess, dgByKey[k].id, k)
    BY <1>2 DEF FlowIdentity, Origins
  <2>2. dgByKey[k].id # 0 /\ \E x \in Streams : strm'[x].sess = dgByKey[k].sess /\ strm'[x].id = dgByKey[k].id /\ strm'[x].key = k
    BY <2>1, OriginKept
  <2> QED
    BY <2>2 DEF Origin
<1>3. ASSUME NEW s \in Sessions, NEW i \in FlowIDs, dgDeliver'[s][i] # None
      PROVE  Origin(s, i, dgDeliver[s][i])'
  <2>1. Origin(s, i, dgDeliver[s][i])
    BY <1>3 DEF FlowIdentity, Origins
  <2>2. i # 0 /\ \E x \in Streams : strm'[x].sess = s /\ strm'[x].id = i /\ strm'[x].key = dgDeliver[s][i]
    BY <2>1, OriginKept
  <2> QED
    BY <2>2 DEF Origin
<1>4. ASSUME NEW s \in Sessions, NEW i \in FlowIDs, flows'[s][i] # None
      PROVE  strm'[flows'[s][i]].sess = s /\ strm'[flows'[s][i]].id = i
  <2>1. flows'[s][i] = flows[s][i]
    BY <1>4
  <2>2. flows[s][i] \in Streams
    BY <1>4, <2>1 DEF TypeOK
  <2>3. strm[flows[s][i]].sess = s /\ strm[flows[s][i]].id = i
    BY <1>4, <2>1 DEF FlowIdentity, Origins
  <2>4. i # 0
    BY BoundAssumption DEF FlowIDs
  <2>5. strm[flows[s][i]].client # "none"
    BY <2>2, <2>3, <2>4 DEF FlowIdentity, IDsDistinct
  <2> QED
    BY <2>1, <2>2, <2>3, <2>4, <2>5 DEF KeepsStreams
<1>5. ASSUME NEW k \in Keys, dgCtrl'[k] # None
      PROVE  strm'[dgCtrl'[k]].key = k
  <2>1. dgCtrl'[k] = dgCtrl[k] /\ dgCtrl[k] \in Streams
    BY <1>5 DEF TypeOK
  <2>2. strm[dgCtrl[k]].key = k
    BY <1>5, <2>1 DEF FlowIdentity, Origins
  <2>3. strm[dgCtrl[k]].client # "none"
    BY <2>1, <2>2, NoneAssumption DEF FlowIdentity, StreamShape
  <2> QED
    BY <2>1, <2>2, <2>3 DEF KeepsStreams
<1> QED
  BY <1>1, <1>2, <1>3, <1>4, <1>5 DEF Origins

\* Identifiers stay distinct after a step that gives none out.
LEMMA IDsKept ==
    ASSUME FlowIdentity, KeepsStreams, UNCHANGED nextID,
           \A x \in Streams : strm'[x].id = strm[x].id
    PROVE  IDsDistinct'
<1> SUFFICES ASSUME NEW x \in Streams, strm'[x].id # 0
             PROVE  /\ strm'[x].client # "none"
                    /\ strm'[x].id <= nextID'[strm'[x].sess]
                    /\ \A y \in Streams :
                          strm'[y].sess = strm'[x].sess /\ strm'[y].id = strm'[x].id => x = y
  BY DEF IDsDistinct
<1>1. \A y \in Streams : strm'[y].id # 0 =>
         /\ strm[y].id # 0 /\ strm[y].client # "none"
         /\ strm'[y].client # "none" /\ strm'[y].sess = strm[y].sess
         /\ strm[y].id <= nextID[strm[y].sess]
  BY DEF FlowIdentity, IDsDistinct, KeepsStreams
<1>2. \A y \in Streams : strm[y].sess = strm[x].sess /\ strm[y].id = strm[x].id => x = y
  BY <1>1 DEF FlowIdentity, IDsDistinct
<1> QED
  BY <1>1, <1>2

\* Payloads that the loops hold stay with their flow.
LEMMA IsolationKept ==
    ASSUME TypeOK, FlowIdentity, FlowIsolation, KeepsStreams,
           \A s \in Sessions : /\ crecv'[s] \in {NoPayload, crecv[s]}
                              /\ srecv'[s] \in {NoPayload, srecv[s]}
    PROVE  FlowIsolation'
<1>1. \A s \in Sessions : crecv'[s] # NoPayload => crecv'[s].to = crecv'[s].key
  BY DEF FlowIsolation
<1>2. ASSUME NEW s \in Sessions, srecv'[s] # NoPayload
      PROVE  strm'[srecv'[s].to].key = srecv'[s].key
  <2>0. srecv'[s] = srecv[s]
    BY <1>2
  <2>1. srecv[s].to \in Streams /\ srecv[s].key \in Keys
    BY <1>2, <2>0 DEF TypeOK, Payload
  <2>2. strm[srecv[s].to].key = srecv[s].key
    BY <1>2, <2>0 DEF FlowIsolation
  <2>3. strm[srecv[s].to].client # "none"
    BY <2>1, <2>2, NoneAssumption DEF FlowIdentity, StreamShape
  <2> QED
    BY <2>0, <2>1, <2>2, <2>3 DEF KeepsStreams
<1> QED
  BY <1>1, <1>2 DEF FlowIsolation

\* Steps that leave the streams alone.
LEMMA SameStreams ==
    ASSUME UNCHANGED strm
    PROVE  KeepsStreams
BY DEF KeepsStreams

\* Closing the client's end of some control streams.
LEMMA ClientEndsClose ==
    ASSUME TypeOK, FlowIdentity, UNCHANGED reader,
           \A x \in Streams : \/ strm'[x] = strm[x]
                             \/ /\ strm[x].client # "none"
                                /\ strm'[x] = [strm[x] EXCEPT !.client = "closed"]
    PROVE  KeepsStreams /\ StreamShape' /\ \A x \in Streams : strm'[x].id = strm[x].id
<1>1. ASSUME NEW x \in Streams
      PROVE  /\ strm'[x].sess = strm[x].sess /\ strm'[x].key = strm[x].key
             /\ strm'[x].id = strm[x].id /\ strm'[x].h = strm[x].h
             /\ strm'[x].reply = strm[x].reply /\ strm'[x].conn = strm[x].conn
             /\ strm'[x].client = "none" <=> strm[x].client = "none"
  <2>1. strm[x] \in Stream
    BY DEF TypeOK
  <2> QED
    BY <2>1 DEF Stream
<1>2. KeepsStreams
  BY <1>1 DEF KeepsStreams
<1>3. StreamShape'
  BY <1>1 DEF FlowIdentity, StreamShape
<1> QED
  BY <1>1, <1>2, <1>3

\* A step of one caller that leaves the streams and the tables alone.
LEMMA CallerMoves ==
    ASSUME TypeOK, FlowIdentity, FlowIsolation, NEW c \in Callers,
           UNCHANGED <<dgByKey, dgCtrl, dgDeliver, net, strm, hubVars, crecv, srecv>>,
           \A d \in Callers \ {c} : caller'[d] = caller[d],
           CallerOK(c)'
    PROVE  FlowIdentity' /\ FlowIsolation'
<1>1. KeepsStreams
  BY SameStreams
<1>2. CallerShape'
  <2>1. ASSUME NEW d \in Callers PROVE CallerOK(d)'
    <3>1. CASE d = c
      BY <3>1
    <3>2. CASE d # c
      BY <1>1, <3>2, CallersKept
    <3> QED
      BY <3>1, <3>2
  <2> QED
    BY <2>1 DEF CallerShape
<1>3. StreamShape'
  BY DEF FlowIdentity, StreamShape, hubVars
<1>4. IDsDistinct' /\ Origins'
  <2>1. UNCHANGED nextID /\ \A x \in Streams : strm'[x].id = strm[x].id
    BY DEF hubVars
  <2>2. net' \subseteq net /\ UNCHANGED <<dgByKey, dgCtrl, dgDeliver>>
    OBVIOUS
  <2>3. \A s \in Sessions, i \in FlowIDs : flows'[s][i] \in {None, flows[s][i]}
    BY DEF hubVars
  <2> QED
    BY <1>1, <2>1, <2>2, <2>3, IDsKept, OriginsKept
<1>5. FlowIsolation'
  BY <1>1, IsolationKept
<1> QED
  BY <1>2, <1>3, <1>4, <1>5 DEF FlowIdentity

\* Closing client ends, with any number of callers returning to idle.
LEMMA ClientEnds ==
    ASSUME TypeOK, FlowIdentity, FlowIsolation,
           UNCHANGED <<dgByKey, dgDeliver, hubVars, srecv>>,
           net' \subseteq net,
           \A k \in Keys : dgCtrl'[k] \in {None, dgCtrl[k]},
           \A s \in Sessions : crecv'[s] \in {NoPayload, crecv[s]},
           \A x \in Streams : \/ strm'[x] = strm[x]
                             \/ /\ strm[x].client # "none"
                                /\ strm'[x] = [strm[x] EXCEPT !.client = "closed"],
           \A d \in Callers : caller'[d] = caller[d] \/ caller'[d].pc = "idle"
    PROVE  FlowIdentity' /\ FlowIsolation'
<1>1. KeepsStreams /\ StreamShape' /\ \A x \in Streams : strm'[x].id = strm[x].id
  BY ClientEndsClose DEF hubVars
<1>2. CallerShape'
  <2>1. ASSUME NEW d \in Callers PROVE CallerOK(d)'
    <3>1. CASE caller'[d].pc = "idle"
      BY <3>1 DEF CallerOK
    <3>2. CASE caller'[d] = caller[d]
      BY <1>1, <3>2, CallersKept
    <3> QED
      BY <3>1, <3>2
  <2> QED
    BY <2>1 DEF CallerShape
<1>3. IDsDistinct' /\ Origins'
  <2>1. UNCHANGED nextID /\ UNCHANGED <<dgByKey, dgDeliver>>
    BY DEF hubVars
  <2>2. \A s \in Sessions, i \in FlowIDs : flows'[s][i] \in {None, flows[s][i]}
    BY DEF hubVars
  <2> QED
    BY <1>1, <2>1, <2>2, IDsKept, OriginsKept
<1>4. FlowIsolation'
  BY <1>1, IsolationKept
<1> QED
  BY <1>1, <1>2, <1>3, <1>4 DEF FlowIdentity

\* A caller's step keeps identifiers and payloads with their flow.
LEMMA CallerIdentity ==
    ASSUME TypeOK, FlowIdentity, FlowIsolation, NEW c \in Callers,
           \/ \E k \in Keys : Packet(c, k)
           \/ Reuse(c)
           \/ Lock(c)
           \/ Pick(c)
           \/ \E x \in Streams : OpenControl(c, x)
           \/ OpenControlFails(c)
           \/ Register(c)
           \/ RegisterFails(c)
           \/ Send(c)
    PROVE  FlowIdentity' /\ FlowIsolation'
<1>0. CallerOK(c) /\ caller \in [Callers -> Caller] /\ caller[c] \in Caller
  BY DEF TypeOK, FlowIdentity, CallerShape
<1>1. ASSUME NEW k \in Keys, Packet(c, k) PROVE FlowIdentity' /\ FlowIsolation'
  <2>1. /\ caller'[c].pc = "packet" /\ caller'[c].key = k
        /\ \A d \in Callers \ {c} : caller'[d] = caller[d]
    BY <1>0, <1>1 DEF Packet, IdleCaller
  <2>2. CallerOK(c)'
    BY <2>1 DEF CallerOK
  <2>3. UNCHANGED <<dgByKey, dgCtrl, dgDeliver, net, strm, hubVars, crecv, srecv>>
    BY <1>1 DEF Packet
  <2> QED
    BY <2>1, <2>2, <2>3, CallerMoves
<1>2. CASE Reuse(c)
  <2> DEFINE f == dgByKey[caller[c].key]
  <2>1. /\ caller'[c].pc = "send" /\ caller'[c].key = caller[c].key
        /\ caller'[c].flow = f
        /\ \A d \in Callers \ {c} : caller'[d] = caller[d]
    BY <1>0, <1>2 DEF Reuse, Caller
  <2>2. caller[c].key \in Keys /\ f # NoFlow
    BY <1>0, <1>2 DEF Reuse, CallerOK
  <2>3. Origin(f.sess, f.id, caller[c].key)
    BY <2>2 DEF FlowIdentity, Origins
  <2>4. UNCHANGED <<dgByKey, dgCtrl, dgDeliver, net, strm, hubVars, crecv, srecv>>
    BY <1>2 DEF Reuse
  <2>5. CallerOK(c)'
    BY <2>1, <2>2, <2>3, <2>4 DEF CallerOK, Origin
  <2> QED
    BY <2>1, <2>4, <2>5, CallerMoves
<1>3. CASE Lock(c)
  <2>1. /\ \/ caller'[c].pc = "idle"
           \/ caller'[c].pc = "pick" /\ caller'[c].key = caller[c].key
        /\ \A d \in Callers \ {c} : caller'[d] = caller[d]
    BY <1>0, <1>3 DEF Lock, IdleCaller, Caller
  <2>2. UNCHANGED <<dgByKey, dgCtrl, dgDeliver, net, strm, hubVars, crecv, srecv>>
    BY <1>3 DEF Lock
  <2>3. caller[c].key \in Keys
    BY <1>0, <1>3 DEF Lock, CallerOK
  <2>4. CallerOK(c)'
    BY <2>1, <2>3 DEF CallerOK
  <2> QED
    BY <2>1, <2>2, <2>4, CallerMoves
<1>4. ASSUME Panic PROVE FlowIdentity' /\ FlowIsolation'
  <2>1. UNCHANGED <<dgByKey, dgCtrl, dgDeliver, hubVars, srecv>> /\ net' \subseteq net
    BY <1>4 DEF Panic
  <2>2. /\ \A s \in Sessions : crecv'[s] \in {NoPayload, crecv[s]}
        /\ \A d \in Callers : caller'[d].pc = "idle"
    BY <1>4 DEF Panic, IdleCaller
  <2>3. \A x \in Streams : \/ strm'[x] = strm[x]
                          \/ /\ strm[x].client # "none"
                             /\ strm'[x] = [strm[x] EXCEPT !.client = "closed"]
    BY <1>4 DEF Panic
  <2> QED
    BY <2>1, <2>2, <2>3, ClientEnds
<1>5. CASE Pick(c) /\ ~Panic
  <2>1. /\ \/ caller'[c].pc = "idle"
           \/ /\ caller'[c].pc = "open" /\ caller'[c].key = caller[c].key
              /\ caller'[c].sess \in csess
        /\ \A d \in Callers \ {c} : caller'[d] = caller[d]
    <3>1. CASE caller' = [caller EXCEPT ![c] = IdleCaller]
      BY <1>0, <3>1 DEF IdleCaller
    <3>2. ASSUME NEW s \in csess,
                 caller' = [caller EXCEPT ![c] = [caller[c] EXCEPT !.pc = "open", !.sess = s]]
          PROVE  /\ caller'[c].pc = "open" /\ caller'[c].key = caller[c].key
                 /\ caller'[c].sess = s
                 /\ \A d \in Callers \ {c} : caller'[d] = caller[d]
      BY <1>0, <3>2 DEF Caller
    <3>3. \/ caller' = [caller EXCEPT ![c] = IdleCaller]
          \/ \E s \in csess :
                caller' = [caller EXCEPT ![c] = [caller[c] EXCEPT !.pc = "open", !.sess = s]]
      BY <1>5 DEF Pick, ReturnError
    <3> QED
      BY <3>1, <3>2, <3>3
  <2>2. UNCHANGED <<dgByKey, dgCtrl, dgDeliver, net, strm, hubVars, crecv, srecv>>
    BY <1>5 DEF Pick
  <2>3. caller[c].key \in Keys /\ csess \subseteq Sessions
    BY <1>0, <1>5 DEF Pick, CallerOK, TypeOK
  <2>4. CallerOK(c)'
    BY <2>1, <2>3 DEF CallerOK
  <2> QED
    BY <2>1, <2>2, <2>4, CallerMoves
<1>6. CASE OpenControlFails(c)
  <2>1. caller'[c].pc = "idle" /\ \A d \in Callers \ {c} : caller'[d] = caller[d]
    BY <1>0, <1>6 DEF OpenControlFails, ReturnError, IdleCaller
  <2>2. UNCHANGED <<dgByKey, dgCtrl, dgDeliver, net, strm, hubVars, crecv, srecv>>
    BY <1>6 DEF OpenControlFails
  <2>3. CallerOK(c)'
    BY <2>1 DEF CallerOK
  <2> QED
    BY <2>1, <2>2, <2>3, CallerMoves
<1>7. CASE RegisterFails(c)
  <2>1. caller[c].pc = "wait" /\ caller[c].strm \in Streams
    BY <1>0, <1>7 DEF RegisterFails, CallerOK
  <2>2. strm[caller[c].strm].client # "none"
    BY <1>0, <2>1, NoneAssumption DEF CallerOK, FlowIdentity, StreamShape
  <2>3. UNCHANGED <<dgByKey, dgCtrl, dgDeliver, net, hubVars, crecv, srecv>>
    BY <1>7 DEF RegisterFails
  <2>4. \A d \in Callers : caller'[d] = caller[d] \/ caller'[d].pc = "idle"
    BY <1>0, <1>7 DEF RegisterFails, ReturnError, IdleCaller
  <2>5. \A x \in Streams : \/ strm'[x] = strm[x]
                          \/ /\ strm[x].client # "none"
                             /\ strm'[x] = [strm[x] EXCEPT !.client = "closed"]
    BY <1>7, <2>1, <2>2 DEF RegisterFails, TypeOK
  <2> QED
    BY <2>3, <2>4, <2>5, ClientEnds
<1>8. ASSUME NEW x \in Streams, OpenControl(c, x) PROVE FlowIdentity' /\ FlowIsolation'
  <2>1. /\ caller[c].sess \in Sessions /\ caller[c].key \in Keys
        /\ strm[x].client = "none" /\ strm[x].h = "none" /\ strm[x].id = 0
        /\ reader[x].pc = "none"
    BY <1>0, <1>8 DEF OpenControl, CallerOK, FlowIdentity, StreamShape
  <2>2. /\ strm'[x].sess = caller[c].sess /\ strm'[x].key = caller[c].key
        /\ strm'[x].client = "open" /\ strm'[x].h = "none"
        /\ strm'[x].id = 0 /\ strm'[x].reply = 0
        /\ \A y \in Streams \ {x} : strm'[y] = strm[y]
    BY <1>8 DEF OpenControl, TypeOK, NewStream
  <2>3. /\ caller'[c].pc = "wait" /\ caller'[c].strm = x
        /\ caller'[c].key = caller[c].key /\ caller'[c].sess = caller[c].sess
        /\ \A d \in Callers \ {c} : caller'[d] = caller[d]
    BY <1>0, <1>8 DEF OpenControl, Caller
  <2>4. UNCHANGED <<dgByKey, dgCtrl, dgDeliver, net, flows, nextID, reader, crecv, srecv>>
    BY <1>8 DEF OpenControl, hubVars
  <2>5. KeepsStreams /\ \A y \in Streams : strm'[y].id = strm[y].id
    BY <2>1, <2>2 DEF KeepsStreams
  <2>6. CallerShape'
    <3>1. CallerOK(c)'
      BY <2>1, <2>2, <2>3 DEF CallerOK
    <3>2. \A d \in Callers \ {c} : CallerOK(d)'
      BY <2>3, <2>5, CallersKept
    <3> QED
      BY <3>1, <3>2 DEF CallerShape
  <2>7. StreamShape'
    BY <2>1, <2>2, <2>4 DEF FlowIdentity, StreamShape
  <2>8. IDsDistinct' /\ Origins' /\ FlowIsolation'
    BY <2>4, <2>5, IDsKept, OriginsKept, IsolationKept
  <2> QED
    BY <2>6, <2>7, <2>8 DEF FlowIdentity
<1>9. CASE Register(c) /\ ~Panic
  <2> DEFINE k == caller[c].key
             s == caller[c].sess
             x == caller[c].strm
             i == strm[x].reply
             f == [sess |-> s, id |-> i]
  <2>1. /\ k \in Keys /\ s \in Sessions /\ x \in Streams /\ i # 0
        /\ strm[x].sess = s /\ strm[x].key = k
    BY <1>0, <1>9 DEF Register, CallerOK
  <2>2. strm[x].id = i /\ i \in FlowIDs
    BY <2>1 DEF FlowIdentity, StreamShape, TypeOK, Stream
  <2>3. Origin(s, i, k)
    BY <2>1, <2>2 DEF Origin
  <2>4. /\ caller'[c].pc = "send" /\ caller'[c].key = k /\ caller'[c].flow = f
        /\ \A d \in Callers \ {c} : caller'[d] = caller[d]
    <3>1. caller' = [caller EXCEPT ![c] = [caller[c] EXCEPT !.pc = "send", !.flow = f]]
      BY <1>9 DEF Register
    <3> HIDE DEF f
    <3> QED
      BY <1>0, <3>1 DEF Caller
  <2>5. UNCHANGED <<net, strm, flows, nextID, reader, crecv, srecv>>
    BY <1>9 DEF Register, hubVars
  <2>6. dgByKey' = [dgByKey EXCEPT ![k] = f]
    BY <1>9 DEF Register
  <2>7. \A t \in Sessions, j \in FlowIDs :
           \/ dgDeliver'[t][j] = dgDeliver[t][j]
           \/ t = s /\ j = i /\ dgDeliver'[t][j] = k
    <3>1. dgDeliver' = [dgDeliver EXCEPT ![s] = [dgDeliver[s] EXCEPT ![i] = k]]
      BY <1>9 DEF Register
    <3> HIDE DEF s, i, k
    <3> QED
      BY <2>1, <2>2, <3>1 DEF TypeOK
  <2> HIDE DEF k, s, i, x
  <2>8. KeepsStreams
    BY <2>5, SameStreams
  <2>9. CallerShape'
    <3>1. CallerOK(c)'
      BY <2>1, <2>3, <2>4, <2>5 DEF CallerOK, Origin
    <3>2. \A d \in Callers \ {c} : CallerOK(d)'
      BY <2>4, <2>8, CallersKept
    <3> QED
      BY <3>1, <3>2 DEF CallerShape
  <2>10. StreamShape' /\ IDsDistinct' /\ FlowIsolation'
    <3>1. StreamShape' /\ IDsDistinct'
      BY <2>5 DEF FlowIdentity, StreamShape, IDsDistinct
    <3> QED
      BY <2>5, <2>8, <3>1, IsolationKept
  <2>11. Origins'
    <3>1. \A m \in net' : Origin(m.sess, m.id, m.key)'
      BY <2>5 DEF FlowIdentity, Origins, Origin
    <3>2. ASSUME NEW l \in Keys, dgByKey'[l] # NoFlow
          PROVE  Origin(dgByKey[l].sess, dgByKey[l].id, l)'
      <4>1. CASE l = k
        BY <2>1, <2>3, <2>5, <2>6, <4>1 DEF Origin, TypeOK
      <4>2. CASE l # k
        <5>1. dgByKey'[l] = dgByKey[l]
          BY <2>6, <4>2 DEF TypeOK
        <5>2. Origin(dgByKey[l].sess, dgByKey[l].id, l)
          BY <3>2, <5>1 DEF FlowIdentity, Origins
        <5> QED
          BY <2>5, <5>1, <5>2 DEF Origin
      <4> QED
        BY <4>1, <4>2
    <3>3. ASSUME NEW t \in Sessions, NEW j \in FlowIDs, dgDeliver'[t][j] # None
          PROVE  Origin(t, j, dgDeliver[t][j])'
      <4>1. Origin(t, j, dgDeliver'[t][j])
        BY <2>3, <2>7, <3>3 DEF FlowIdentity, Origins
      <4> QED
        BY <2>5, <4>1 DEF Origin
    <3>4. \A t \in Sessions, j \in FlowIDs :
             flows'[t][j] # None => strm'[flows'[t][j]].sess = t /\ strm'[flows'[t][j]].id = j
      BY <2>5 DEF FlowIdentity, Origins
    <3>5. ASSUME NEW l \in Keys, dgCtrl'[l] # None PROVE strm'[dgCtrl'[l]].key = l
      <4>1. dgCtrl' = [dgCtrl EXCEPT ![k] = x]
        BY <1>9 DEF Register, k, x
      <4> QED
        BY <2>1, <2>5, <3>5, <4>1 DEF FlowIdentity, Origins, TypeOK
    <3> QED
      BY <3>1, <3>2, <3>3, <3>4, <3>5 DEF Origins
  <2> QED
    BY <2>9, <2>10, <2>11 DEF FlowIdentity
<1>10. CASE Send(c)
  <2> DEFINE f == caller[c].flow
             m == [dir |-> "up", sess |-> f.sess, id |-> f.id, key |-> caller[c].key]
  <2>1. Origin(m.sess, m.id, m.key)
    BY <1>0, <1>10 DEF Send, CallerOK
  <2>2. net' \subseteq net \cup {m}
    BY <1>10 DEF Send, SendDatagram
  <2>3. caller'[c].pc = "idle" /\ \A d \in Callers \ {c} : caller'[d] = caller[d]
    BY <1>0, <1>10 DEF Send, IdleCaller
  <2>4. UNCHANGED <<dgByKey, dgCtrl, dgDeliver, strm, flows, nextID, reader, crecv, srecv>>
    BY <1>10 DEF Send, hubVars
  <2> HIDE DEF m
  <2>5. KeepsStreams
    BY <2>4, SameStreams
  <2>6. CallerShape'
    <3>1. CallerOK(c)'
      BY <2>3 DEF CallerOK
    <3>2. \A d \in Callers \ {c} : CallerOK(d)'
      BY <2>3, <2>5, CallersKept
    <3> QED
      BY <3>1, <3>2 DEF CallerShape
  <2>7. StreamShape' /\ IDsDistinct'
    BY <2>4 DEF FlowIdentity, StreamShape, IDsDistinct
  <2>8. Origins'
    <3>1. \A n \in net' : Origin(n.sess, n.id, n.key)
      BY <2>1, <2>2 DEF FlowIdentity, Origins
    <3> QED
      BY <2>4, <3>1 DEF FlowIdentity, Origins, Origin
  <2>9. FlowIsolation'
    BY <2>4, <2>5, IsolationKept
  <2> QED
    BY <2>6, <2>7, <2>8, <2>9 DEF FlowIdentity
<1> QED
  BY <1>1, <1>2, <1>3, <1>4, <1>5, <1>6, <1>7, <1>8, <1>9, <1>10

\* Closing the pool, and the loss of a session or of the server, keep
\* identifiers and payloads with their flow.
LEMMA CloseIdentity ==
    ASSUME TypeOK, FlowIdentity, FlowIsolation,
           \/ CloseCtrl
           \/ CloseDone
           \/ ServerRestart
           \/ \E s \in Sessions : \/ CloseSessions(s)
                               \/ ClientSessionDies(s)
                               \/ ServerSessionDies(s)
    PROVE  FlowIdentity' /\ FlowIsolation'
<1>1. CASE CloseCtrl
  <2>1. \A x \in Streams : \/ strm'[x] = strm[x]
                          \/ /\ strm[x].client # "none"
                             /\ strm'[x] = [strm[x] EXCEPT !.client = "closed"]
    BY <1>1, NoneAssumption DEF CloseCtrl, FlowIdentity, StreamShape, Origins
  <2>2. /\ UNCHANGED <<caller, dgByKey, dgDeliver, net, hubVars, crecv, srecv>>
        /\ \A k \in Keys : dgCtrl'[k] = None
    BY <1>1 DEF CloseCtrl
  <2> QED
    BY <2>1, <2>2, ClientEnds
<1>2. CASE CloseDone
  BY <1>2, ClientEnds DEF CloseDone
<1>3. CASE ServerRestart
  <2>1. ASSUME NEW x \in Streams
        PROVE  /\ strm'[x].sess = strm[x].sess /\ strm'[x].key = strm[x].key
               /\ strm'[x].id = strm[x].id /\ strm'[x].reply = strm[x].reply
               /\ strm'[x].client = strm[x].client
               /\ strm'[x].h = IF strm[x].h = "none" THEN "none" ELSE "done"
               /\ reader'[x].pc = IF reader[x].pc = "none" THEN "none" ELSE "done"
    <3>1. strm[x] \in Stream
      BY DEF TypeOK
    <3>2. strm'[x] = [strm[x] EXCEPT !.h = IF strm[x].h = "none" THEN "none" ELSE "done",
                                     !.conn = None]
      BY <1>3 DEF ServerRestart
    <3>3. reader'[x].pc = IF reader[x].pc = "none" THEN "none" ELSE "done"
      BY <1>3 DEF ServerRestart
    <3> QED
      BY <3>1, <3>2, <3>3 DEF Stream
  <2>2. KeepsStreams
    BY <2>1 DEF KeepsStreams
  <2>3. StreamShape'
    BY <2>1 DEF FlowIdentity, StreamShape
  <2>4. /\ UNCHANGED <<caller, dgByKey, dgCtrl, dgDeliver, nextID, crecv>>
        /\ net' \subseteq net
        /\ \A s \in Sessions : srecv'[s] = NoPayload
        /\ \A s \in Sessions, i \in FlowIDs : flows'[s][i] = None
    BY <1>3 DEF ServerRestart, poolVars
  <2>5. CallerShape'
    BY <2>2, <2>4, CallersKept DEF CallerShape
  <2>6. IDsDistinct'
    BY <2>1, <2>2, <2>4, IDsKept
  <2>7. Origins'
    BY <2>2, <2>4, OriginsKept
  <2>8. FlowIsolation'
    BY <2>2, <2>4, IsolationKept
  <2> QED
    BY <2>3, <2>5, <2>6, <2>7, <2>8 DEF FlowIdentity
<1>4. ASSUME NEW s \in Sessions, CloseSession(s) PROVE FlowIdentity' /\ FlowIsolation'
  <2>1. \A x \in Streams : \/ strm'[x] = strm[x]
                          \/ /\ strm[x].client # "none"
                             /\ strm'[x] = [strm[x] EXCEPT !.client = "closed"]
    BY <1>4, NoneAssumption DEF CloseSession, FlowIdentity, StreamShape
  <2>2. /\ UNCHANGED <<caller, dgByKey, dgCtrl, dgDeliver, hubVars, crecv, srecv>>
        /\ net' \subseteq net
    BY <1>4 DEF CloseSession, poolVars
  <2> QED
    BY <2>1, <2>2, ClientEnds
<1>5. ASSUME NEW s \in Sessions, ServerSessionDies(s) PROVE FlowIdentity' /\ FlowIsolation'
  <2>1. /\ UNCHANGED <<caller, dgByKey, dgCtrl, dgDeliver, strm, hubVars, crecv, srecv>>
        /\ net' \subseteq net
    BY <1>5 DEF ServerSessionDies, poolVars
  <2> QED
    BY <2>1, ClientEnds
<1> QED
  BY <1>1, <1>2, <1>3, <1>4, <1>5 DEF CloseSessions, ClientSessionDies

\* A receive loop looks a payload up where its identifier was given out.
LEMMA ReceiveIdentity ==
    ASSUME TypeOK, FlowIdentity, FlowIsolation, NEW s \in Sessions,
           \/ \E m \in net : ClientReceive(s, m)
           \/ ClientDeliver(s)
           \/ \E m \in net : ServerReceive(s, m)
           \/ ServerWrite(s)
    PROVE  FlowIdentity' /\ FlowIsolation'
<1>1. /\ UNCHANGED <<caller, dgByKey, dgCtrl, dgDeliver, strm, hubVars>>
      /\ net' \subseteq net
  BY DEF ClientReceive, ClientDeliver, ServerReceive, ServerWrite, poolVars
<1>2. KeepsStreams
  BY <1>1, SameStreams
<1>3. FlowIdentity'
  <2>1. CallerShape'
    BY <1>1, <1>2, CallersKept DEF CallerShape
  <2>2. StreamShape' /\ IDsDistinct'
    BY <1>1 DEF FlowIdentity, StreamShape, IDsDistinct, hubVars
  <2>3. UNCHANGED <<dgByKey, dgCtrl, dgDeliver>> /\ net' \subseteq net
    BY <1>1
  <2>4. \A t \in Sessions, i \in FlowIDs : flows'[t][i] \in {None, flows[t][i]}
    BY <1>1 DEF hubVars
  <2>5. Origins'
    BY <1>2, <2>3, <2>4, OriginsKept
  <2> QED
    BY <2>1, <2>2, <2>5 DEF FlowIdentity
<1>4. ASSUME NEW m \in net, ClientReceive(s, m) PROVE FlowIsolation'
  <2>1. m \in Datagram
    BY DEF TypeOK
  <2>2. m.id \in FlowIDs /\ m.sess = s /\ m.id # 0
    BY <1>4, <2>1, BoundAssumption DEF Datagram, ClientReceive, FlowIDs
  <2>3. PICK x \in Streams : strm[x].sess = s /\ strm[x].id = m.id /\ strm[x].key = m.key
    BY <2>2 DEF FlowIdentity, Origins, Origin
  <2>4. dgDeliver[s][m.id] # None => dgDeliver[s][m.id] = m.key
    <3>1. SUFFICES ASSUME dgDeliver[s][m.id] # None PROVE dgDeliver[s][m.id] = m.key
      OBVIOUS
    <3>2. Origin(s, m.id, dgDeliver[s][m.id])
      BY <2>2, <3>1 DEF FlowIdentity, Origins
    <3>3. PICK y \in Streams : /\ strm[y].sess = s /\ strm[y].id = m.id
                             /\ strm[y].key = dgDeliver[s][m.id]
      BY <3>2 DEF Origin
    <3>4. x = y
      BY <2>2, <2>3, <3>3 DEF FlowIdentity, IDsDistinct
    <3> QED
      BY <2>3, <3>3, <3>4
  <2>5. \A t \in Sessions :
           \/ crecv'[t] \in {NoPayload, crecv[t]}
           \/ t = s /\ crecv'[t] = [to |-> m.key, key |-> m.key]
    BY <1>4, <2>4 DEF ClientReceive, ClientLookup, TypeOK
  <2>6. UNCHANGED <<srecv, strm>>
    BY <1>1, <1>4 DEF ClientReceive
  <2> QED
    BY <2>5, <2>6 DEF FlowIsolation
<1>5. ASSUME NEW m \in net, ServerReceive(s, m) PROVE FlowIsolation'
  <2>1. m \in Datagram
    BY DEF TypeOK
  <2>2. m.id \in FlowIDs /\ m.sess = s /\ m.id # 0
    BY <1>5, <2>1, BoundAssumption DEF Datagram, ServerReceive, FlowIDs
  <2>3. PICK x \in Streams : strm[x].sess = s /\ strm[x].id = m.id /\ strm[x].key = m.key
    BY <2>2 DEF FlowIdentity, Origins, Origin
  <2>4. flows[s][m.id] # None => flows[s][m.id] = x
    <3>1. SUFFICES ASSUME flows[s][m.id] # None PROVE flows[s][m.id] = x
      OBVIOUS
    <3>2. /\ flows[s][m.id] \in Streams
          /\ strm[flows[s][m.id]].sess = s /\ strm[flows[s][m.id]].id = m.id
      BY <2>2, <3>1 DEF FlowIdentity, Origins, TypeOK
    <3> QED
      BY <2>2, <2>3, <3>2 DEF FlowIdentity, IDsDistinct
  <2>5. \A t \in Sessions :
           \/ srecv'[t] \in {NoPayload, srecv[t]}
           \/ t = s /\ srecv'[t] = [to |-> x, key |-> m.key]
    BY <1>5, <2>4 DEF ServerReceive, TypeOK
  <2>6. UNCHANGED <<crecv, strm>>
    BY <1>1, <1>5 DEF ServerReceive
  <2> QED
    BY <2>3, <2>5, <2>6 DEF FlowIsolation
<1>6. ASSUME ClientDeliver(s) \/ ServerWrite(s) PROVE FlowIsolation'
  <2>1. \A t \in Sessions : /\ crecv'[t] \in {NoPayload, crecv[t]}
                           /\ srecv'[t] \in {NoPayload, srecv[t]}
    BY <1>6 DEF ClientDeliver, ServerWrite, TypeOK
  <2> QED
    BY <1>2, <2>1, IsolationKept
<1> QED
  BY <1>3, <1>4, <1>5, <1>6

\* A handler that moves on keeps the session, key and identifier of its stream.
LEMMA HandlerKeeps ==
    ASSUME TypeOK, NEW x \in Streams, NEW pc,
           \/ strm' = HandlerAt(x, pc)
           \/ \E y \in Streams \cup {None} :
                 strm' = [strm EXCEPT ![x] = [strm[x] EXCEPT !.h = pc, !.conn = y]]
    PROVE  /\ \A y \in Streams : /\ strm'[y].sess = strm[y].sess /\ strm'[y].key = strm[y].key
                                 /\ strm'[y].client = strm[y].client /\ strm'[y].id = strm[y].id
                                 /\ strm'[y].reply = strm[y].reply
           /\ strm'[x].h = pc
           /\ \A z \in Streams \ {x} : strm'[z] = strm[z]
<1>1. strm[x] \in Stream /\ strm \in [Streams -> Stream]
  BY DEF TypeOK
<1> DEFINE Like(w) == /\ w.sess = strm[x].sess /\ w.key = strm[x].key
                      /\ w.client = strm[x].client /\ w.id = strm[x].id
                      /\ w.reply = strm[x].reply /\ w.h = pc
<1>2. Like([strm[x] EXCEPT !.h = pc])
  BY <1>1 DEF Stream
<1>3. \A y : Like([strm[x] EXCEPT !.h = pc, !.conn = y])
  BY <1>1 DEF Stream
<1>4. \E w : Like(w) /\ strm' = [strm EXCEPT ![x] = w]
  BY <1>2, <1>3 DEF HandlerAt
<1> QED
  BY <1>1, <1>4

\* A server step that gives no identifier out.
LEMMA ServerMoves ==
    ASSUME TypeOK, FlowIdentity, FlowIsolation, StreamShape',
           UNCHANGED <<caller, dgByKey, dgCtrl, dgDeliver, nextID, crecv, srecv>>,
           net' \subseteq net,
           \A s \in Sessions, i \in FlowIDs : flows'[s][i] \in {None, flows[s][i]},
           \A y \in Streams : /\ strm'[y].sess = strm[y].sess /\ strm'[y].key = strm[y].key
                             /\ strm'[y].client = strm[y].client /\ strm'[y].id = strm[y].id
    PROVE  FlowIdentity' /\ FlowIsolation'
<1>1. KeepsStreams /\ \A y \in Streams : strm'[y].id = strm[y].id
  BY DEF KeepsStreams
<1>2. CallerShape'
  BY <1>1, CallersKept DEF CallerShape
<1>3. IDsDistinct'
  BY <1>1, IDsKept
<1>4. Origins'
  BY <1>1, OriginsKept
<1>5. FlowIsolation'
  BY <1>1, IsolationKept
<1> QED
  BY <1>2, <1>3, <1>4, <1>5 DEF FlowIdentity

\* A step of a handler or a reader keeps identifiers and payloads with their flow.
LEMMA ServerIdentity ==
    ASSUME TypeOK, FlowIdentity, FlowIsolation, NEW x \in Streams, ServerStep(x)
    PROVE  FlowIdentity' /\ FlowIsolation'
<1>0. strm[x].client # "none" => strm[x].sess \in Sessions /\ strm[x].key \in Keys
  BY DEF FlowIdentity, StreamShape
<1>1. CASE Accept(x) \/ OpenFlowFails(x) \/ CopyEnds(x)
  <2>1. PICK pc : /\ strm' = HandlerAt(x, pc)
                  /\ \/ pc = "dial" /\ strm[x].h = "none" /\ strm[x].client # "none"
                     \/ pc = "done" /\ strm[x].h = "dial"
                     \/ pc = "delete" /\ strm[x].h = "copy"
    BY <1>1 DEF Accept, OpenFlowFails, CopyEnds
  <2>2. UNCHANGED <<poolVars, net, hubVars, crecv, srecv>>
    BY <1>1 DEF Accept, OpenFlowFails, CopyEnds
  <2>3. /\ \A y \in Streams : /\ strm'[y].sess = strm[y].sess /\ strm'[y].key = strm[y].key
                              /\ strm'[y].client = strm[y].client /\ strm'[y].id = strm[y].id
                              /\ strm'[y].reply = strm[y].reply
        /\ strm'[x].h = pc
        /\ \A z \in Streams \ {x} : strm'[z] = strm[z]
    BY <2>1, HandlerKeeps
  <2>4. StreamShape'
    BY <2>1, <2>2, <2>3 DEF FlowIdentity, StreamShape, hubVars
  <2> QED
    BY <2>2, <2>3, <2>4, ServerMoves DEF poolVars, hubVars
<1>2. CASE OpenFlow(x)
  <2> DEFINE s == strm[x].sess
  <2>1. /\ strm[x].h = "dial" /\ strm[x].id = 0 /\ strm[x].client # "none"
        /\ reader[x].pc = "none" /\ strm[x].reply = 0 /\ s \in Sessions
    BY <1>0, <1>2 DEF OpenFlow, FlowIdentity, StreamShape
  <2>2. nextID[s] \in Nat
    <3>1. nextID[s] \in FlowIDs \cup {0}
      BY <2>1 DEF TypeOK
    <3> QED
      BY <3>1, BoundAssumption DEF FlowIDs
  <2>3. /\ strm'[x].sess = s /\ strm'[x].key = strm[x].key
        /\ strm'[x].client = strm[x].client /\ strm'[x].id = nextID[s] + 1
        /\ strm'[x].reply = 0 /\ strm'[x].h = "register"
        /\ \A y \in Streams \ {x} : strm'[y] = strm[y]
    <3>1. strm[x] \in Stream /\ strm \in [Streams -> Stream]
      BY DEF TypeOK
    <3>2. strm' = [strm EXCEPT ![x] = [strm[x] EXCEPT !.h = "register", !.id = nextID[s] + 1]]
      BY <1>2 DEF OpenFlow, FreshID
    <3> QED
      BY <2>1, <3>1, <3>2 DEF Stream
  <2>4. /\ UNCHANGED <<caller, dgByKey, dgCtrl, dgDeliver, net, flows, reader, crecv, srecv>>
        /\ nextID'[s] = nextID[s] + 1
        /\ \A t \in Sessions \ {s} : nextID'[t] = nextID[t]
    BY <1>2, <2>1 DEF OpenFlow, poolVars, TypeOK
  <2>5. KeepsStreams
    BY <2>1, <2>3 DEF KeepsStreams
  <2>6. CallerShape' /\ Origins' /\ FlowIsolation'
    <3>1. CallerShape'
      BY <2>4, <2>5, CallersKept DEF CallerShape
    <3> QED
      BY <2>4, <2>5, <3>1, OriginsKept, IsolationKept
  <2>7. StreamShape'
    BY <2>1, <2>2, <2>3, <2>4 DEF FlowIdentity, StreamShape
  <2>8. \A y \in Streams \ {x} :
           strm[y].id # 0 => /\ strm[y].client # "none" /\ strm[y].sess \in Sessions
                             /\ strm[y].id \in Nat /\ nextID[strm[y].sess] \in Nat
                             /\ strm[y].id <= nextID[strm[y].sess]
    <3>1. SUFFICES ASSUME NEW y \in Streams \ {x}, strm[y].id # 0
                   PROVE  /\ strm[y].client # "none" /\ strm[y].sess \in Sessions
                          /\ strm[y].id \in Nat /\ nextID[strm[y].sess] \in Nat
                          /\ strm[y].id <= nextID[strm[y].sess]
      OBVIOUS
    <3>2. strm[y].client # "none" /\ strm[y].id <= nextID[strm[y].sess]
      BY <3>1 DEF FlowIdentity, IDsDistinct
    <3>3. strm[y].sess \in Sessions
      BY <3>1, <3>2 DEF FlowIdentity, StreamShape
    <3>4. strm[y].id \in FlowIDs \cup {0} /\ nextID[strm[y].sess] \in FlowIDs \cup {0}
      BY <3>1, <3>3 DEF TypeOK, Stream
    <3> QED
      BY <3>2, <3>3, <3>4, BoundAssumption DEF FlowIDs
  <2>9. IDsDistinct'
    <3>1. SUFFICES ASSUME NEW y \in Streams, strm'[y].id # 0
                   PROVE  /\ strm'[y].client # "none"
                          /\ strm'[y].id <= nextID'[strm'[y].sess]
                          /\ \A z \in Streams :
                                strm'[z].sess = strm'[y].sess /\ strm'[z].id = strm'[y].id => y = z
      BY DEF IDsDistinct
    <3> HIDE DEF s
    <3>2. CASE y = x
      BY <2>1, <2>2, <2>3, <2>4, <2>8, <3>2
    <3>3. CASE y # x
      <4>1. strm'[y] = strm[y] /\ strm[y].id # 0
        BY <2>3, <3>1, <3>3
      <4>2. \A z \in Streams : strm[z].sess = strm[y].sess /\ strm[z].id = strm[y].id => y = z
        BY <4>1 DEF FlowIdentity, IDsDistinct
      <4>3. strm'[y].client # "none" /\ strm'[y].id <= nextID'[strm'[y].sess]
        BY <2>4, <2>8, <3>3, <4>1
      <4>4. \A z \in Streams :
               strm'[z].sess = strm'[y].sess /\ strm'[z].id = strm'[y].id => y = z
        BY <2>2, <2>3, <2>8, <3>3, <4>1, <4>2
      <4> QED
        BY <4>3, <4>4
    <3> QED
      BY <3>2, <3>3
  <2> QED
    BY <2>6, <2>7, <2>9 DEF FlowIdentity
<1>3. CASE StoreFlow(x)
  <2>1. /\ strm[x].h = "register" /\ strm[x].id # 0 /\ strm[x].client # "none"
        /\ strm[x].sess \in Sessions
    BY <1>0, <1>3 DEF StoreFlow, FlowIdentity, StreamShape, IDsDistinct
  <2>2. /\ \A y \in Streams : /\ strm'[y].sess = strm[y].sess /\ strm'[y].key = strm[y].key
                              /\ strm'[y].client = strm[y].client /\ strm'[y].id = strm[y].id
                              /\ strm'[y].reply = strm[y].reply
        /\ strm'[x].h = "reply"
        /\ \A z \in Streams \ {x} : strm'[z] = strm[z]
    BY <1>3, HandlerKeeps DEF StoreFlow
  <2>3. UNCHANGED <<caller, dgByKey, dgCtrl, dgDeliver, net, nextID, reader, crecv, srecv>>
    BY <1>3 DEF StoreFlow, poolVars
  <2>4. KeepsStreams
    BY <2>2 DEF KeepsStreams
  <2>5. CallerShape' /\ IDsDistinct' /\ FlowIsolation'
    <3>1. CallerShape'
      BY <2>3, <2>4, CallersKept DEF CallerShape
    <3> QED
      BY <2>2, <2>3, <2>4, <3>1, IDsKept, IsolationKept
  <2>6. StreamShape'
    BY <2>1, <2>2, <2>3 DEF FlowIdentity, StreamShape
  <2>7. Origins'
    <3>1. \A s \in Sessions, i \in FlowIDs :
             \/ flows'[s][i] = flows[s][i]
             \/ s = strm[x].sess /\ i = strm[x].id /\ flows'[s][i] = x
      BY <1>3, <2>1 DEF StoreFlow, TypeOK
    <3>2. ASSUME NEW s \in Sessions, NEW i \in FlowIDs, flows'[s][i] # None
          PROVE  strm'[flows'[s][i]].sess = s /\ strm'[flows'[s][i]].id = i
      <4>1. CASE flows'[s][i] = flows[s][i]
        <5>1. /\ flows[s][i] \in Streams
              /\ strm[flows[s][i]].sess = s /\ strm[flows[s][i]].id = i
          BY <3>2, <4>1 DEF FlowIdentity, Origins, TypeOK
        <5> QED
          BY <2>2, <4>1, <5>1
      <4>2. CASE s = strm[x].sess /\ i = strm[x].id /\ flows'[s][i] = x
        BY <2>2, <4>2
      <4> QED
        BY <3>1, <4>1, <4>2
    <3>3. \A m \in net' : Origin(m.sess, m.id, m.key)'
      BY <2>2, <2>3 DEF FlowIdentity, Origins, Origin
    <3>4. \A k \in Keys : dgByKey'[k] # NoFlow => Origin(dgByKey[k].sess, dgByKey[k].id, k)'
      BY <2>2, <2>3 DEF FlowIdentity, Origins, Origin
    <3>5. \A s \in Sessions, i \in FlowIDs :
             dgDeliver'[s][i] # None => Origin(s, i, dgDeliver[s][i])'
      BY <2>2, <2>3 DEF FlowIdentity, Origins, Origin
    <3>6. \A k \in Keys : dgCtrl'[k] # None => strm'[dgCtrl'[k]].key = k
      BY <2>2, <2>3 DEF FlowIdentity, Origins, TypeOK
    <3> QED
      BY <3>2, <3>3, <3>4, <3>5, <3>6 DEF Origins
  <2> QED
    BY <2>5, <2>6, <2>7 DEF FlowIdentity
<1>4. CASE Reply(x)
  <2>1. strm[x].h = "reply" /\ strm[x].id # 0
    BY <1>4 DEF Reply, FlowIdentity, StreamShape
  <2>2. \/ /\ strm' = [strm EXCEPT ![x] = [strm[x] EXCEPT !.h = "copy", !.reply = strm[x].id]]
           /\ reader' = [reader EXCEPT ![x] = [NewReader EXCEPT !.pc = "read"]]
        \/ strm' = HandlerAt(x, "delete") /\ UNCHANGED reader
    BY <1>4 DEF Reply
  <2>3. UNCHANGED <<caller, dgByKey, dgCtrl, dgDeliver, net, flows, nextID, crecv, srecv>>
    BY <1>4 DEF Reply, poolVars
  <2>4. /\ \A y \in Streams : /\ strm'[y].sess = strm[y].sess /\ strm'[y].key = strm[y].key
                              /\ strm'[y].client = strm[y].client /\ strm'[y].id = strm[y].id
        /\ strm'[x].reply \in {strm[x].reply, strm[x].id}
        /\ strm'[x].h \in {"copy", "delete"}
        /\ reader'[x].pc # "close" \/ reader'[x] = reader[x]
        /\ \A z \in Streams \ {x} : strm'[z] = strm[z] /\ reader'[z] = reader[z]
    <3>1. CASE strm' = HandlerAt(x, "delete") /\ UNCHANGED reader
      BY <3>1, HandlerKeeps
    <3>2. CASE /\ strm' = [strm EXCEPT ![x] = [strm[x] EXCEPT !.h = "copy", !.reply = strm[x].id]]
               /\ reader' = [reader EXCEPT ![x] = [NewReader EXCEPT !.pc = "read"]]
      <4>1. strm[x] \in Stream /\ strm \in [Streams -> Stream] /\ reader \in [Streams -> Reader]
        BY DEF TypeOK
      <4> QED
        BY <3>2, <4>1 DEF Stream, NewReader
    <3> QED
      BY <2>2, <3>1, <3>2
  <2>5. StreamShape'
    BY <2>1, <2>4 DEF FlowIdentity, StreamShape
  <2> QED
    BY <2>3, <2>4, <2>5, ServerMoves
<1>5. ASSUME RemoveFlow(x), strm[x].id # 0
      PROVE  /\ \A s \in Sessions, i \in FlowIDs : flows'[s][i] \in {None, flows[s][i]}
             /\ Registered(x) \in Streams \cup {None}
  <2>1. strm[x].sess \in Sessions /\ strm[x].id \in FlowIDs
    BY <1>0, <1>5 DEF FlowIdentity, IDsDistinct, TypeOK, Stream
  <2> QED
    BY <1>5, <2>1 DEF RemoveFlow, Registered, TypeOK
<1>6. CASE HandlerRemoves(x) \/ HandlerCloses(x)
  <2>1. strm[x].id # 0 /\ strm[x].h \in {"delete", "close"}
    BY <1>6 DEF HandlerRemoves, HandlerCloses, FlowIdentity, StreamShape
  <2>2. UNCHANGED <<caller, dgByKey, dgCtrl, dgDeliver, net, nextID, reader, crecv, srecv>>
    BY <1>6 DEF HandlerRemoves, HandlerCloses, poolVars
  <2>3. \A s \in Sessions, i \in FlowIDs : flows'[s][i] \in {None, flows[s][i]}
    BY <1>5, <1>6, <2>1 DEF HandlerRemoves, HandlerCloses
  <2>4. PICK pc \in {"done", "close"}, y \in Streams \cup {None} :
           /\ pc = "close" => y \in Streams
           /\ strm' = [strm EXCEPT ![x] = [strm[x] EXCEPT !.h = pc, !.conn = y]]
    BY <1>5, <1>6, <2>1 DEF HandlerRemoves, HandlerCloses
  <2>5. /\ \A z \in Streams : /\ strm'[z].sess = strm[z].sess /\ strm'[z].key = strm[z].key
                              /\ strm'[z].client = strm[z].client /\ strm'[z].id = strm[z].id
                              /\ strm'[z].reply = strm[z].reply
        /\ strm'[x].h = pc
        /\ \A z \in Streams \ {x} : strm'[z] = strm[z]
    BY <2>4, HandlerKeeps
  <2>6. strm'[x].conn = y
    <3>1. strm[x] \in Stream /\ strm \in [Streams -> Stream]
      BY DEF TypeOK
    <3> QED
      BY <2>4, <3>1 DEF Stream
  <2>7. StreamShape'
    BY <2>1, <2>2, <2>4, <2>5, <2>6 DEF FlowIdentity, StreamShape
  <2> QED
    BY <2>2, <2>3, <2>5, <2>7, ServerMoves
<1>7. CASE ReaderForward(x)
  <2> DEFINE m == [dir |-> "down", sess |-> strm[x].sess, id |-> strm[x].id, key |-> strm[x].key]
  <2>1. strm[x].id # 0
    BY <1>7 DEF ReaderForward, FlowIdentity, StreamShape
  <2>2. Origin(m.sess, m.id, m.key)
    BY <2>1 DEF Origin
  <2>3. net' \subseteq net \cup {m}
    BY <1>7 DEF ReaderForward, SendDatagram
  <2>4. UNCHANGED <<caller, dgByKey, dgCtrl, dgDeliver, strm, flows, nextID, reader, crecv, srecv>>
    BY <1>7 DEF ReaderForward, poolVars, hubVars
  <2> HIDE DEF m
  <2>5. KeepsStreams
    BY <2>4, SameStreams
  <2>6. CallerShape'
    BY <2>4, <2>5, CallersKept DEF CallerShape
  <2>7. StreamShape' /\ IDsDistinct'
    BY <2>4 DEF FlowIdentity, StreamShape, IDsDistinct
  <2>8. Origins'
    <3>1. \A n \in net' : Origin(n.sess, n.id, n.key)
      BY <2>2, <2>3 DEF FlowIdentity, Origins
    <3> QED
      BY <2>4, <3>1 DEF FlowIdentity, Origins, Origin
  <2>9. FlowIsolation'
    BY <2>4, <2>5, IsolationKept
  <2> QED
    BY <2>6, <2>7, <2>8, <2>9 DEF FlowIdentity
<1>8. CASE ReaderRemoves(x) \/ ReaderCloses(x)
  <2>1. strm[x].id # 0
    BY <1>8 DEF ReaderRemoves, ReaderCloses, FlowIdentity, StreamShape
  <2>2. UNCHANGED <<caller, dgByKey, dgCtrl, dgDeliver, net, strm, nextID, crecv, srecv>>
    BY <1>8 DEF ReaderRemoves, ReaderCloses, poolVars
  <2>3. \A s \in Sessions, i \in FlowIDs : flows'[s][i] \in {None, flows[s][i]}
    BY <1>5, <1>8, <2>1 DEF ReaderRemoves, ReaderCloses
  <2>4. /\ reader'[x].pc = "close" => reader'[x].conn \in Streams
        /\ \A y \in Streams \ {x} : reader'[y] = reader[y]
    BY <1>5, <1>8, <2>1 DEF ReaderRemoves, ReaderCloses, TypeOK
  <2>5. StreamShape'
    BY <2>1, <2>2, <2>4 DEF FlowIdentity, StreamShape
  <2> QED
    BY <2>2, <2>3, <2>5, ServerMoves
<1> QED
  BY <1>1, <1>2, <1>3, <1>4, <1>6, <1>7, <1>8 DEF ServerStep

-----------------------------------------------------------------------------
(* The theorems *)

\* Every step keeps the inductive invariant.
LEMMA NextIdentity ==
    ASSUME TypeOK, FlowIdentity, FlowIsolation, [Next]_vars
    PROVE  TypeOK' /\ FlowIdentity' /\ FlowIsolation'
<1>1. CASE UNCHANGED vars
  <2>1. /\ UNCHANGED <<phase, dgMu, caller, dgByKey, dgCtrl, dgDeliver, dgRecv>>
        /\ UNCHANGED <<csess, ssess, net, strm, flows, nextID, sock, reader, crecv, srecv>>
    BY <1>1 DEF vars
  <2>2. TypeOK'
    BY <2>1 DEF TypeOK
  <2>3. FlowIsolation'
    BY <2>1 DEF FlowIsolation
  <2>4. FlowIdentity'
    BY <2>1 DEF FlowIdentity, CallerShape, CallerOK, StreamShape, IDsDistinct, Origins, Origin
  <2> QED
    BY <2>2, <2>3, <2>4
<1>2. CASE Next
  <2>1. ASSUME NEW c \in Callers,
               \/ \E k \in Keys : Packet(c, k)
               \/ Reuse(c)
               \/ Lock(c)
               \/ Pick(c)
               \/ \E x \in Streams : OpenControl(c, x)
               \/ OpenControlFails(c)
               \/ Register(c)
               \/ RegisterFails(c)
               \/ Send(c)
        PROVE  TypeOK' /\ FlowIdentity' /\ FlowIsolation'
    BY <2>1, CallerTypeOK, CallerIdentity
  <2>2. ASSUME \/ CloseCtrl
               \/ CloseDone
               \/ ServerRestart
               \/ \E s \in Sessions : \/ CloseSessions(s)
                                   \/ ClientSessionDies(s)
                                   \/ ServerSessionDies(s)
        PROVE  TypeOK' /\ FlowIdentity' /\ FlowIsolation'
    BY <2>2, CloseTypeOK, CloseIdentity
  <2>3. ASSUME NEW s \in Sessions,
               \/ \E m \in net : ClientReceive(s, m)
               \/ ClientDeliver(s)
               \/ \E m \in net : ServerReceive(s, m)
               \/ ServerWrite(s)
        PROVE  TypeOK' /\ FlowIdentity' /\ FlowIsolation'
    BY <2>3, ReceiveTypeOK, ReceiveIdentity
  <2>4. ASSUME NEW x \in Streams, ServerStep(x)
        PROVE  TypeOK' /\ FlowIdentity' /\ FlowIsolation'
    BY <2>4, ServerTypeOK, ServerIdentity
  <2> QED
    BY <1>2, <2>1, <2>2, <2>3, <2>4 DEF Next, ServerStep
<1> QED
  BY <1>1, <1>2

\* The initial state satisfies the inductive invariant.
LEMMA InitIdentity == Init => TypeOK /\ FlowIdentity /\ FlowIsolation
<1> SUFFICES ASSUME Init PROVE FlowIdentity /\ FlowIsolation
  BY InitTypeOK
<1>1. CallerShape
  BY DEF Init, CallerShape, CallerOK, IdleCaller
<1>2. StreamShape /\ IDsDistinct
  BY DEF Init, StreamShape, IDsDistinct, NewStream, NewReader
<1>3. Origins
  BY DEF Init, Origins
<1>4. FlowIsolation
  BY DEF Init, FlowIsolation
<1> QED
  BY <1>1, <1>2, <1>3, <1>4 DEF FlowIdentity

\* Identifiers never change hands: FlowIdentity, with TypeOK and FlowIsolation,
\* is the inductive invariant.
THEOREM IdentityInvariant == Spec => [](TypeOK /\ FlowIdentity /\ FlowIsolation)
<1>1. TypeOK /\ FlowIdentity /\ FlowIsolation /\ [Next]_vars
         => (TypeOK /\ FlowIdentity /\ FlowIsolation)'
  BY NextIdentity
<1> QED
  BY InitIdentity, <1>1, PTL DEF Spec

\* No payload is delivered to, or written for, another flow's client, however
\* the goroutines, the datagrams and the failures interleave.
THEOREM FlowsIsolated == Spec => []FlowIsolation
BY IdentityInvariant, PTL

\* Every reachable state of DgramFlow is well typed.
THEOREM DgramTypeCorrect == Spec => []TypeOK
BY IdentityInvariant, PTL

-----------------------------------------------------------------------------
(* Sockets of the server *)

\* Who is still to close the socket of x: openFlow before it has stored it, the
\* handler as long as the flow is in the table, or whoever took it from there.
Owned(x) ==
    \/ strm[x].h = "register"
    \/ strm[x].h \in {"reply", "copy", "delete"} /\ Registered(x) = x
    \/ strm[x].conn = x
    \/ reader[x].conn = x

\* A handler or a reader holds a socket only between the halves of closeFlow, and
\* then its own, as identifiers never change hands.  The reader starts after the reply.
Held(x) ==
    /\ strm[x].conn = IF strm[x].h = "close" THEN x ELSE None
    /\ reader[x].conn = IF reader[x].pc = "close" THEN x ELSE None
    /\ strm[x].h \in {"none", "dial", "register", "reply"} => reader[x].pc = "none"
    /\ sock[x] = "open" => Owned(x)

SocketsHeld == \A x \in Streams : Held(x)

\* A step that touches neither the server's tables nor its goroutines.
LEMMA HubUntouched ==
    ASSUME SocketsHeld, UNCHANGED hubVars,
           \A x \in Streams : /\ strm'[x].h = strm[x].h /\ strm'[x].conn = strm[x].conn
                              /\ \/ strm[x].h = "none"
                                 \/ strm'[x].sess = strm[x].sess /\ strm'[x].id = strm[x].id
    PROVE  SocketsHeld'
BY DEF SocketsHeld, Held, Owned, Registered, hubVars

\* A step of the goroutines of x leaves the sockets of the other streams with
\* their owners, as no other stream has the entry of x in the table.
LEMMA OthersHeld ==
    ASSUME TypeOK, FlowIdentity, NEW x \in Streams, NEW y \in Streams, y # x, Held(y),
           strm'[y] = strm[y], reader'[y] = reader[y], sock'[y] = sock[y],
           \/ UNCHANGED flows
           \/ /\ strm[x].id # 0
              /\ \E w : flows' = [flows EXCEPT ![strm[x].sess] =
                                     [flows[strm[x].sess] EXCEPT ![strm[x].id] = w]]
    PROVE  Held(y)'
<1>1. strm[y].h \in {"reply", "copy", "delete"} =>
         /\ strm[y].id # 0 /\ strm[y].client # "none"
         /\ strm[y].sess \in Sessions /\ strm[y].id \in FlowIDs
  BY DEF FlowIdentity, StreamShape, TypeOK, Stream
<1>2. strm[y].h \in {"reply", "copy", "delete"} =>
         flows'[strm[y].sess][strm[y].id] = flows[strm[y].sess][strm[y].id]
  <2>1. CASE UNCHANGED flows
    BY <2>1
  <2>2. ASSUME strm[x].id # 0, strm[y].h \in {"reply", "copy", "delete"},
               NEW w, flows' = [flows EXCEPT ![strm[x].sess] =
                                   [flows[strm[x].sess] EXCEPT ![strm[x].id] = w]]
        PROVE  flows'[strm[y].sess][strm[y].id] = flows[strm[y].sess][strm[y].id]
    <3>1. strm[y].sess # strm[x].sess \/ strm[y].id # strm[x].id
      BY <2>2 DEF FlowIdentity, IDsDistinct
    <3>2. flows \in [Sessions -> [FlowIDs -> Streams \cup {None}]]
      BY DEF TypeOK
    <3> QED
      BY <1>1, <2>2, <3>1, <3>2
  <2> QED
    BY <2>1, <2>2
<1> QED
  BY <1>1, <1>2 DEF Held, Owned, Registered

\* What the table holds for x is the socket of x.
LEMMA OwnEntry ==
    ASSUME TypeOK, FlowIdentity, NEW x \in Streams, strm[x].id # 0
    PROVE  /\ strm[x].sess \in Sessions /\ strm[x].id \in FlowIDs
           /\ Registered(x) \in {x, None}
<1>1. strm[x].sess \in Sessions /\ strm[x].id \in FlowIDs
  BY DEF FlowIdentity, IDsDistinct, StreamShape, TypeOK, Stream
<1>2. Registered(x) \in Streams \cup {None}
  BY <1>1 DEF TypeOK, Registered
<1>3. Registered(x) # None => strm[Registered(x)].sess = strm[x].sess
                              /\ strm[Registered(x)].id = strm[x].id
  BY <1>1 DEF Registered, FlowIdentity, Origins
<1> QED
  BY <1>1, <1>2, <1>3 DEF FlowIdentity, IDsDistinct

\* A step of a handler or a reader passes the socket on, or closes it.
LEMMA ServerHeld ==
    ASSUME TypeOK, FlowIdentity, SocketsHeld, NEW x \in Streams, ServerStep(x)
    PROVE  SocketsHeld'
<1>0. /\ strm \in [Streams -> Stream] /\ reader \in [Streams -> Reader]
      /\ sock \in [Streams -> {"none", "open", "closed"}]
      /\ strm[x] \in Stream /\ reader[x] \in Reader /\ Held(x) /\ None # x
  BY NoneAssumption DEF TypeOK, SocketsHeld
<1> SUFFICES /\ Held(x)'
             /\ \A y \in Streams \ {x} : /\ strm'[y] = strm[y] /\ reader'[y] = reader[y]
                                         /\ sock'[y] = sock[y]
             /\ \/ UNCHANGED flows
                \/ /\ strm[x].id # 0
                   /\ \E w : flows' = [flows EXCEPT ![strm[x].sess] =
                                          [flows[strm[x].sess] EXCEPT ![strm[x].id] = w]]
  BY OthersHeld DEF SocketsHeld
<1>1. CASE Accept(x) \/ OpenFlowFails(x) \/ CopyEnds(x)
  <2>1. PICK pc : /\ strm' = [strm EXCEPT ![x] = [strm[x] EXCEPT !.h = pc]]
                  /\ \/ pc = "dial" /\ strm[x].h = "none"
                     \/ pc = "done" /\ strm[x].h = "dial"
                     \/ pc = "delete" /\ strm[x].h = "copy"
    BY <1>1 DEF Accept, OpenFlowFails, CopyEnds, HandlerAt
  <2>2. UNCHANGED <<flows, sock, reader>>
    BY <1>1 DEF Accept, OpenFlowFails, CopyEnds, hubVars
  <2>3. /\ strm'[x].h = pc /\ strm'[x].conn = strm[x].conn
        /\ strm'[x].sess = strm[x].sess /\ strm'[x].id = strm[x].id
    BY <1>0, <2>1 DEF Stream
  <2> QED
    BY <1>0, <2>1, <2>2, <2>3 DEF Held, Owned, Registered
<1>2. CASE OpenFlow(x)
  <2>1. /\ strm[x].h = "dial"
        /\ strm' = [strm EXCEPT ![x] = [strm[x] EXCEPT !.h = "register",
                                                        !.id = FreshID(strm[x].sess)]]
        /\ sock' = [sock EXCEPT ![x] = "open"] /\ UNCHANGED <<flows, reader>>
    BY <1>2 DEF OpenFlow
  <2>2. strm'[x].h = "register" /\ strm'[x].conn = strm[x].conn
    BY <1>0, <2>1 DEF Stream
  <2> QED
    BY <1>0, <2>1, <2>2 DEF Held, Owned
<1>3. CASE StoreFlow(x)
  <2>1. /\ strm[x].h = "register"
        /\ strm' = [strm EXCEPT ![x] = [strm[x] EXCEPT !.h = "reply"]]
        /\ flows' = [flows EXCEPT ![strm[x].sess] =
                        [flows[strm[x].sess] EXCEPT ![strm[x].id] = x]]
        /\ UNCHANGED <<sock, reader>>
    BY <1>3 DEF StoreFlow, HandlerAt
  <2>2. strm[x].id # 0
    BY <2>1 DEF FlowIdentity, StreamShape
  <2>3. /\ strm'[x].h = "reply" /\ strm'[x].conn = strm[x].conn
        /\ strm'[x].sess = strm[x].sess /\ strm'[x].id = strm[x].id
    BY <1>0, <2>1 DEF Stream
  <2>4. Registered(x)' = x
    <3>1. flows \in [Sessions -> [FlowIDs -> Streams \cup {None}]]
      BY DEF TypeOK
    <3> QED
      BY <2>1, <2>2, <2>3, <3>1, OwnEntry DEF Registered
  <2> QED
    BY <1>0, <2>1, <2>2, <2>3, <2>4 DEF Held, Owned
<1>4. CASE Reply(x)
  <2>1. PICK pc \in {"copy", "delete"} :
           \/ /\ strm' = [strm EXCEPT ![x] = [strm[x] EXCEPT !.h = pc]]
              /\ UNCHANGED reader
           \/ /\ strm' = [strm EXCEPT ![x] = [strm[x] EXCEPT !.h = pc, !.reply = strm[x].id]]
              /\ reader' = [reader EXCEPT ![x] = [NewReader EXCEPT !.pc = "read"]]
    BY <1>4 DEF Reply, HandlerAt
  <2>2. strm[x].h = "reply" /\ UNCHANGED <<flows, sock>>
    BY <1>4 DEF Reply
  <2>3. /\ strm'[x].h = pc /\ strm'[x].conn = strm[x].conn
        /\ strm'[x].sess = strm[x].sess /\ strm'[x].id = strm[x].id
    <3>1. CASE strm' = [strm EXCEPT ![x] = [strm[x] EXCEPT !.h = pc]]
      BY <1>0, <3>1 DEF Stream
    <3>2. CASE strm' = [strm EXCEPT ![x] = [strm[x] EXCEPT !.h = pc, !.reply = strm[x].id]]
      BY <1>0, <3>2 DEF Stream
    <3> QED
      BY <2>1, <3>1, <3>2
  <2>4. reader'[x] = reader[x] \/ (reader'[x].pc = "read" /\ reader'[x].conn = None)
    BY <1>0, <2>1 DEF NewReader
  <2>5. reader[x].conn # x
    BY <1>0, <2>2 DEF Held
  <2> QED
    <3>1. Held(x)'
      BY <1>0, <2>1, <2>2, <2>3, <2>4, <2>5 DEF Held, Owned, Registered
    <3>2. \A y \in Streams \ {x} : strm'[y] = strm[y] /\ reader'[y] = reader[y]
      BY <1>0, <2>1
    <3> QED
      BY <2>2, <3>1, <3>2
<1>5. CASE HandlerRemoves(x)
  <2>1. strm[x].h = "delete" /\ strm[x].id # 0 /\ Registered(x) \in {x, None}
    BY <1>5, OwnEntry DEF HandlerRemoves, FlowIdentity, StreamShape
  <2>2. /\ strm' = [strm EXCEPT ![x] = [strm[x] EXCEPT
                      !.h = IF Registered(x) = None THEN "done" ELSE "close",
                      !.conn = Registered(x)]]
        /\ flows' = [flows EXCEPT ![strm[x].sess] =
                        [flows[strm[x].sess] EXCEPT ![strm[x].id] = None]]
        /\ UNCHANGED <<sock, reader>>
    BY <1>5 DEF HandlerRemoves, RemoveFlow
  <2>3. /\ strm'[x].h = IF Registered(x) = None THEN "done" ELSE "close"
        /\ strm'[x].conn = Registered(x)
    BY <1>0, <2>2 DEF Stream
  <2>4. Held(x)'
    BY <1>0, <2>1, <2>2, <2>3 DEF Held, Owned
  <2> QED
    BY <1>0, <2>1, <2>2, <2>4
<1>6. CASE HandlerCloses(x)
  <2>1. /\ strm[x].h = "close" /\ strm[x].conn = x
        /\ strm' = [strm EXCEPT ![x] = [strm[x] EXCEPT !.h = "done", !.conn = None]]
        /\ sock' = [sock EXCEPT ![x] = "closed"] /\ UNCHANGED <<flows, reader>>
    BY <1>0, <1>6 DEF HandlerCloses, Held
  <2>2. strm'[x].h = "done" /\ strm'[x].conn = None
    BY <1>0, <2>1 DEF Stream
  <2> QED
    BY <1>0, <2>1, <2>2 DEF Held
<1>7. CASE ReaderForward(x)
  BY <1>0, <1>7 DEF ReaderForward, hubVars, Held, Owned, Registered
<1>8. CASE ReaderRemoves(x)
  <2>1. reader[x].pc = "read" /\ strm[x].id # 0 /\ Registered(x) \in {x, None}
    BY <1>8, OwnEntry DEF ReaderRemoves, FlowIdentity, StreamShape
  <2>2. /\ reader' = [reader EXCEPT ![x] = [pc |-> IF Registered(x) = None THEN "done" ELSE "close",
                                            conn |-> Registered(x)]]
        /\ flows' = [flows EXCEPT ![strm[x].sess] =
                        [flows[strm[x].sess] EXCEPT ![strm[x].id] = None]]
        /\ UNCHANGED <<sock, strm>>
    BY <1>8 DEF ReaderRemoves, RemoveFlow
  <2>3. /\ reader'[x].pc = IF Registered(x) = None THEN "done" ELSE "close"
        /\ reader'[x].conn = Registered(x)
    BY <1>0, <2>2
  <2>4. Held(x)'
    BY <1>0, <2>1, <2>2, <2>3 DEF Held, Owned
  <2> QED
    BY <1>0, <2>1, <2>2, <2>4
<1>9. CASE ReaderCloses(x)
  <2>1. /\ reader[x].pc = "close" /\ reader[x].conn = x
        /\ reader' = [reader EXCEPT ![x] = [pc |-> "done", conn |-> None]]
        /\ sock' = [sock EXCEPT ![x] = "closed"] /\ UNCHANGED <<flows, strm>>
    BY <1>0, <1>9 DEF ReaderCloses, Held
  <2> QED
    BY <1>0, <2>1 DEF Held
<1> QED
  BY <1>1, <1>2, <1>3, <1>4, <1>5, <1>6, <1>7, <1>8, <1>9 DEF ServerStep

\* Every step leaves each open socket with somebody who closes it.
LEMMA NextHeld ==
    ASSUME TypeOK, FlowIdentity, SocketsHeld, [Next]_vars
    PROVE  SocketsHeld'
<1>0. /\ strm \in [Streams -> Stream] /\ None \notin Streams
      /\ \A x \in Streams : strm[x] \in Stream
  BY NoneAssumption DEF TypeOK
<1>1. ASSUME UNCHANGED <<strm, hubVars>> PROVE SocketsHeld'
  BY <1>1, HubUntouched
<1>2. ASSUME UNCHANGED hubVars,
             \A x \in Streams : \/ strm'[x] = strm[x]
                                \/ strm'[x] = [strm[x] EXCEPT !.client = "closed"]
      PROVE  SocketsHeld'
  <2>1. \A x \in Streams : /\ strm'[x].h = strm[x].h /\ strm'[x].conn = strm[x].conn
                           /\ strm'[x].sess = strm[x].sess /\ strm'[x].id = strm[x].id
    BY <1>0, <1>2 DEF Stream
  <2> QED
    BY <1>2, <2>1, HubUntouched
<1>3. ASSUME NEW c \in Callers,
             \/ \E k \in Keys : Packet(c, k)
             \/ Reuse(c) \/ Lock(c) \/ OpenControlFails(c) \/ Send(c)
      PROVE  SocketsHeld'
  BY <1>1, <1>3 DEF Packet, Reuse, Lock, OpenControlFails, Send
<1>4. ASSUME NEW c \in Callers, Pick(c) \/ Register(c) \/ RegisterFails(c) PROVE SocketsHeld'
  BY <1>0, <1>2, <1>4 DEF Pick, Register, RegisterFails, Panic
<1>5. ASSUME NEW c \in Callers, NEW x \in Streams, OpenControl(c, x) PROVE SocketsHeld'
  <2>1. strm[x].client = "none" /\ strm[x].h = "none" /\ strm[x].conn = None
    BY <1>5 DEF OpenControl, FlowIdentity, StreamShape, SocketsHeld, Held
  <2>2. /\ strm'[x].h = "none" /\ strm'[x].conn = None
        /\ \A y \in Streams \ {x} : strm'[y] = strm[y]
    BY <1>0, <1>5 DEF OpenControl, NewStream
  <2>3. UNCHANGED hubVars
    BY <1>5 DEF OpenControl
  <2> QED
    BY <2>1, <2>2, <2>3, HubUntouched
<1>6. ASSUME CloseCtrl \/ \E s \in Sessions : CloseSessions(s) \/ ClientSessionDies(s)
      PROVE  SocketsHeld'
  BY <1>0, <1>2, <1>6 DEF CloseCtrl, CloseSessions, ClientSessionDies, CloseSession
<1>7. ASSUME \/ CloseDone
             \/ \E s \in Sessions : \/ \E m \in net : ClientReceive(s, m) \/ ServerReceive(s, m)
                                    \/ ClientDeliver(s) \/ ServerWrite(s)
                                    \/ ServerSessionDies(s)
      PROVE  SocketsHeld'
  BY <1>1, <1>7 DEF CloseDone, ClientReceive, ServerReceive, ClientDeliver, ServerWrite,
                    ServerSessionDies
<1>8. ASSUME ServerRestart PROVE SocketsHeld'
  <2> SUFFICES ASSUME NEW x \in Streams PROVE Held(x)'
    BY DEF SocketsHeld
  <2>1. strm'[x].conn = None /\ strm'[x].h = IF strm[x].h = "none" THEN "none" ELSE "done"
    BY <1>0, <1>8 DEF ServerRestart, Stream
  <2>2. /\ reader'[x].conn = None
        /\ reader'[x].pc = IF reader[x].pc = "none" THEN "none" ELSE "done"
        /\ sock'[x] # "open"
    BY <1>8 DEF ServerRestart
  <2>3. strm[x].h = "none" => reader[x].pc = "none"
    BY DEF SocketsHeld, Held
  <2> QED
    BY <2>1, <2>2, <2>3 DEF Held
<1>9. ASSUME NEW x \in Streams, ServerStep(x) PROVE SocketsHeld'
  BY <1>9, ServerHeld
<1>10. CASE UNCHANGED vars
  BY <1>1, <1>10 DEF vars, hubVars
<1> QED
  BY <1>3, <1>4, <1>5, <1>6, <1>7, <1>8, <1>9, <1>10 DEF Next, ServerStep

\* No socket the server dialed is forgotten: as long as it is open, a handler or a
\* reader is still to close it, whoever of them finds the flow in the table.
THEOREM NoSocketForgotten == Spec => []NoSocketLeak
<1>1. Init => SocketsHeld
  BY DEF Init, SocketsHeld, Held, NewStream, NewReader
<1>2. TypeOK /\ FlowIdentity /\ SocketsHeld => NoSocketLeak
  BY NoneAssumption DEF SocketsHeld, Held, Owned, NoSocketLeak
<1>3. TypeOK /\ FlowIdentity /\ SocketsHeld /\ [Next]_vars => SocketsHeld'
  BY NextHeld
<1> QED
  BY <1>1, <1>2, <1>3, IdentityInvariant, PTL DEF Spec

-----------------------------------------------------------------------------
(* Control streams of the client *)

Opening == {"pick", "open", "wait"}

\* dgMu is held by the caller that opens a flow, whose key has none yet; and a key
\* with a control stream has a flow.  So Register never overwrites an entry of dgCtrl.
OpeningLocked ==
    /\ \A c \in Callers : caller[c].pc \in Opening <=> dgMu = c
    /\ \A c \in Callers : dgMu = c => dgByKey[caller[c].key] = NoFlow
    /\ \A k \in Keys : dgCtrl[k] # None => dgByKey[k] # NoFlow

CtrlInv == OpeningLocked /\ CtrlTracked

\* A step that opens no stream and neither takes nor releases dgMu.
LEMMA CtrlUntouched ==
    ASSUME CtrlInv, UNCHANGED <<dgMu, caller, dgByKey, dgCtrl>>,
           \A x \in Streams : strm'[x].client = "open" =>
              strm[x].client = "open" /\ strm'[x].key = strm[x].key
    PROVE  CtrlInv'
BY DEF CtrlInv, OpeningLocked, CtrlTracked

\* A step of caller c outside OpenUDPDatagram, or in Lock.
LEMMA CtrlCaller ==
    ASSUME TypeOK, FlowIdentity, CtrlInv, NEW c \in Callers, NEW w,
           caller' = [caller EXCEPT ![c] = w],
           UNCHANGED <<dgByKey, dgCtrl, strm>>,
           caller[c].pc \notin {"wait"},
           \/ caller[c].pc \notin Opening /\ w.pc \notin Opening /\ UNCHANGED dgMu
           \/ /\ caller[c].pc \notin Opening /\ w.pc \in Opening /\ dgMu = None /\ dgMu' = c
              /\ dgByKey[w.key] = NoFlow
           \/ /\ caller[c].pc \in Opening /\ w.pc \in Opening /\ UNCHANGED dgMu
              /\ w.key = caller[c].key
           \/ caller[c].pc \in Opening /\ w.pc \notin Opening /\ dgMu' = None
    PROVE  CtrlInv'
<1>0. caller \in [Callers -> Caller] /\ None \notin Callers /\ dgMu \in Callers \cup {None}
  BY NoneAssumption DEF TypeOK
<1>1. caller'[c] = w /\ \A d \in Callers \ {c} : caller'[d] = caller[d]
  BY <1>0
<1>2. OpeningLocked'
  BY <1>0, <1>1 DEF CtrlInv, OpeningLocked
<1>3. CtrlTracked'
  <2> SUFFICES ASSUME NEW x \in Streams, strm[x].client = "open"
               PROVE  \/ dgMu' # None /\ caller'[dgMu'].pc = "wait" /\ caller'[dgMu'].strm = x
                      \/ dgCtrl[strm[x].key] = x
    BY DEF CtrlTracked
  <2>1. CASE dgMu # None /\ caller[dgMu].pc = "wait" /\ caller[dgMu].strm = x
    <3>1. dgMu # c /\ caller[c].pc \notin Opening
      BY <2>1, <1>0 DEF CtrlInv, OpeningLocked, Opening
    <3> QED
      BY <1>0, <1>1, <2>1, <3>1
  <2>2. CASE dgCtrl[strm[x].key] = x
    BY <2>2
  <2> QED
    BY <2>1, <2>2 DEF CtrlInv, CtrlTracked
<1> QED
  BY <1>2, <1>3 DEF CtrlInv

\* After a panic no control stream is open.
LEMMA CtrlPanic ==
    ASSUME TypeOK, CtrlInv, Panic
    PROVE  CtrlInv'
<1>0. None \notin Callers
  BY NoneAssumption
<1>1. \A x \in Streams : strm'[x].client # "open"
  BY DEF Panic, TypeOK, Stream
<1>2. OpeningLocked'
  BY <1>0 DEF Panic, CtrlInv, OpeningLocked, Opening, IdleCaller
<1> QED
  BY <1>1, <1>2 DEF CtrlInv, CtrlTracked

\* A step of OpenUDPDatagram that opens, registers or closes a control stream.
LEMMA CtrlStream ==
    ASSUME TypeOK, FlowIdentity, CtrlInv, NEW c \in Callers,
           \/ \E x \in Streams : OpenControl(c, x)
           \/ phase = "open" /\ Register(c)
           \/ RegisterFails(c)
    PROVE  CtrlInv'
<1>0. /\ caller \in [Callers -> Caller] /\ strm \in [Streams -> Stream]
      /\ dgCtrl \in [Keys -> Streams \cup {None}] /\ dgByKey \in [Keys -> Flow]
      /\ None \notin Callers /\ None \notin Streams /\ caller[c] \in Caller
      /\ dgMu \in Callers \cup {None}
  BY NoneAssumption DEF TypeOK
<1>1. caller[c].pc \in {"open", "wait"}
  BY DEF OpenControl, Register, RegisterFails
<1>2. /\ dgMu = c /\ dgByKey[caller[c].key] = NoFlow /\ caller[c].key \in Keys
      /\ dgCtrl[caller[c].key] = None
      /\ \A d \in Callers \ {c} : caller[d].pc \notin Opening
  BY <1>1 DEF CtrlInv, OpeningLocked, Opening, FlowIdentity, CallerShape, CallerOK
<1>3. ASSUME NEW x \in Streams, OpenControl(c, x) PROVE CtrlInv'
  <2>1. /\ caller' = [caller EXCEPT ![c] = [caller[c] EXCEPT !.pc = "wait", !.strm = x]]
        /\ strm' = [strm EXCEPT ![x] = [NewStream EXCEPT !.sess = caller[c].sess,
                                          !.key = caller[c].key, !.client = "open"]]
        /\ UNCHANGED <<dgMu, dgByKey, dgCtrl>> /\ caller[c].pc = "open"
    BY <1>3 DEF OpenControl
  <2>2. /\ caller'[c].pc = "wait" /\ caller'[c].strm = x /\ caller'[c].key = caller[c].key
        /\ \A d \in Callers \ {c} : caller'[d] = caller[d]
        /\ \A y \in Streams \ {x} : strm'[y] = strm[y]
    BY <1>0, <2>1 DEF Caller
  <2>3. OpeningLocked'
    BY <1>0, <1>2, <2>1, <2>2 DEF CtrlInv, OpeningLocked, Opening
  <2>4. CtrlTracked'
    BY <1>0, <1>2, <2>1, <2>2 DEF CtrlInv, CtrlTracked
  <2> QED
    BY <2>3, <2>4 DEF CtrlInv
<1>4. CASE phase = "open" /\ Register(c)
  <2> DEFINE x == caller[c].strm
             k == caller[c].key
             f == [sess |-> caller[c].sess, id |-> strm[x].reply]
  <2>1. /\ caller[c].pc = "wait" /\ strm[x].reply # 0
        /\ dgByKey' = [dgByKey EXCEPT ![k] = f]
        /\ dgCtrl' = [dgCtrl EXCEPT ![k] = x]
        /\ dgMu' = None /\ UNCHANGED strm
        /\ caller' = [caller EXCEPT ![c] = [caller[c] EXCEPT !.pc = "send", !.flow = f]]
    BY <1>4 DEF Register
  <2>2. f # NoFlow
    BY <2>1 DEF NoFlow
  <2>3. /\ caller'[c].pc = "send"
        /\ \A d \in Callers \ {c} : caller'[d] = caller[d]
    BY <1>0, <2>1 DEF Caller
  <2>4. x \in Streams /\ strm[x].key = k
    BY <2>1 DEF FlowIdentity, CallerShape, CallerOK
  <2>5. OpeningLocked'
    BY <1>0, <1>2, <2>1, <2>2, <2>3 DEF CtrlInv, OpeningLocked, Opening
  <2>6. CtrlTracked'
    <3> SUFFICES ASSUME NEW y \in Streams, strm[y].client = "open"
                 PROVE  dgCtrl'[strm[y].key] = y
      BY <2>1 DEF CtrlTracked
    <3>1. y = x \/ dgCtrl[strm[y].key] = y
      BY <1>2 DEF CtrlInv, CtrlTracked
    <3>2. strm[y].key \in Keys
      BY <1>0 DEF FlowIdentity, StreamShape, Stream
    <3>3. y # x => strm[y].key # k
      BY <1>0, <1>2, <3>1
    <3> QED
      BY <1>0, <1>2, <2>1, <2>4, <3>1, <3>2, <3>3
  <2> QED
    BY <2>5, <2>6 DEF CtrlInv
<1>5. CASE RegisterFails(c)
  <2> DEFINE x == caller[c].strm
  <2>1. /\ caller[c].pc = "wait" /\ dgMu' = None
        /\ strm' = [strm EXCEPT ![x] = [strm[x] EXCEPT !.client = "closed"]]
        /\ caller' = [caller EXCEPT ![c] = IdleCaller]
        /\ UNCHANGED <<dgByKey, dgCtrl>>
    BY <1>5 DEF RegisterFails, ReturnError
  <2>2. /\ caller'[c].pc = "idle"
        /\ \A d \in Callers \ {c} : caller'[d] = caller[d]
    BY <1>0, <2>1 DEF IdleCaller
  <2>3. x \in Streams
    BY <2>1 DEF FlowIdentity, CallerShape, CallerOK
  <2>4. OpeningLocked'
    BY <1>0, <1>2, <2>1, <2>2 DEF CtrlInv, OpeningLocked, Opening
  <2>5. /\ strm'[x].client = "closed"
        /\ \A y \in Streams \ {x} : strm'[y] = strm[y]
    BY <1>0, <2>1, <2>3 DEF Stream
  <2>6. CtrlTracked'
    BY <1>2, <2>1, <2>5 DEF CtrlInv, CtrlTracked
  <2> QED
    BY <2>4, <2>6 DEF CtrlInv
<1> QED
  BY <1>3, <1>4, <1>5

\* Every step keeps the control streams in reach of Close.
LEMMA NextCtrl ==
    ASSUME TypeOK, FlowIdentity, CtrlInv, [Next]_vars
    PROVE  CtrlInv'
<1>0. /\ caller \in [Callers -> Caller] /\ strm \in [Streams -> Stream]
      /\ None \notin Callers /\ None \notin Streams
      /\ \A x \in Streams : strm[x] \in Stream
  BY NoneAssumption DEF TypeOK
<1>1. ASSUME UNCHANGED <<dgMu, caller, dgByKey, dgCtrl, strm>> PROVE CtrlInv'
  BY <1>1, CtrlUntouched
<1>2. ASSUME NEW c \in Callers,
             \/ \E k \in Keys : Packet(c, k)
             \/ Reuse(c) \/ Send(c)
      PROVE  CtrlInv'
  <2>1. PICK w : /\ caller' = [caller EXCEPT ![c] = w] /\ w.pc \in {"packet", "send", "idle"}
                 /\ caller[c].pc \in {"idle", "packet", "send"}
    <3>1. caller[c] \in Caller
      BY <1>0
    <3> QED
      BY <1>2, <3>1 DEF Packet, Reuse, Send, IdleCaller, Caller
  <2>2. UNCHANGED <<dgMu, dgByKey, dgCtrl, strm>>
    BY <1>2 DEF Packet, Reuse, Send
  <2> QED
    BY <2>1, <2>2, CtrlCaller DEF Opening
<1>3. ASSUME NEW c \in Callers, Lock(c) PROVE CtrlInv'
  <2>1. PICK w : /\ caller' = [caller EXCEPT ![c] = w]
                 /\ \/ w.pc = "idle" /\ UNCHANGED dgMu
                    \/ w.pc = "pick" /\ dgMu' = c /\ w.key = caller[c].key
    <3>1. /\ [caller[c] EXCEPT !.pc = "pick"].pc = "pick"
          /\ [caller[c] EXCEPT !.pc = "pick"].key = caller[c].key
      BY <1>0 DEF Caller
    <3> QED
      BY <1>3, <3>1 DEF Lock, IdleCaller
  <2>2. /\ UNCHANGED <<dgByKey, dgCtrl, strm>> /\ caller[c].pc = "packet" /\ dgMu = None
        /\ dgByKey[caller[c].key] = NoFlow
    BY <1>3 DEF Lock
  <2> QED
    BY <2>1, <2>2, CtrlCaller DEF Opening
<1>4. ASSUME NEW c \in Callers, Pick(c) \/ OpenControlFails(c) PROVE CtrlInv'
  <2>1. CASE Panic
    BY <2>1, CtrlPanic
  <2>2. CASE ~Panic
    <3>1. PICK w : /\ caller' = [caller EXCEPT ![c] = w]
                   /\ \/ w.pc = "idle" /\ dgMu' = None
                      \/ w.pc = "open" /\ UNCHANGED dgMu /\ w.key = caller[c].key
      <4>1. \A t : /\ [caller[c] EXCEPT !.pc = "open", !.sess = t].pc = "open"
                   /\ [caller[c] EXCEPT !.pc = "open", !.sess = t].key = caller[c].key
        BY <1>0 DEF Caller
      <4> QED
        <5>1. CASE OpenControlFails(c) \/ ReturnError(c)
          <6>1. IdleCaller.pc = "idle"
            BY DEF IdleCaller
          <6> QED
            BY <5>1, <6>1 DEF OpenControlFails, ReturnError
        <5>2. CASE ~(OpenControlFails(c) \/ ReturnError(c))
          <6>1. PICK t \in csess :
                   /\ caller' = [caller EXCEPT ![c] = [caller[c] EXCEPT !.pc = "open", !.sess = t]]
                   /\ UNCHANGED dgMu
            BY <1>4, <2>2, <5>2 DEF Pick
          <6> QED
            BY <4>1, <6>1
        <5> QED
          BY <5>1, <5>2
    <3>2. UNCHANGED <<dgByKey, dgCtrl, strm>> /\ caller[c].pc \in {"pick", "open"}
      BY <1>4, <2>2 DEF Pick, OpenControlFails
    <3> QED
      BY <3>1, <3>2, CtrlCaller DEF Opening
  <2> QED
    BY <2>1, <2>2
<1>5. ASSUME NEW c \in Callers,
             (\E x \in Streams : OpenControl(c, x)) \/ Register(c) \/ RegisterFails(c)
      PROVE  CtrlInv'
  BY <1>5, CtrlStream, CtrlPanic DEF Register
<1>6. ASSUME CloseCtrl PROVE CtrlInv'
  <2>1. /\ dgMu = None /\ UNCHANGED <<dgMu, caller, dgByKey>>
        /\ dgCtrl' = [k \in Keys |-> None]
    BY <1>6 DEF CloseCtrl
  <2>2. \A x \in Streams : strm'[x].client # "open"
    <3> SUFFICES ASSUME NEW x \in Streams PROVE strm'[x].client # "open"
      OBVIOUS
    <3>1. CASE \E k \in Keys : dgCtrl[k] = x
      BY <1>0, <1>6, <3>1 DEF CloseCtrl, Stream
    <3>2. CASE ~\E k \in Keys : dgCtrl[k] = x
      <4>1. strm[x].client # "open"
        <5>1. strm[x].client # "none" => strm[x].key \in Keys
          BY DEF FlowIdentity, StreamShape
        <5> QED
          BY <2>1, <3>2, <5>1 DEF CtrlInv, CtrlTracked
      <4>2. strm'[x] = strm[x]
        BY <1>6, <3>2 DEF CloseCtrl
      <4> QED
        BY <4>1, <4>2
    <3> QED
      BY <3>1, <3>2
  <2> QED
    BY <2>1, <2>2 DEF CtrlInv, OpeningLocked, CtrlTracked
<1>7. ASSUME NEW s \in Sessions, CloseSessions(s) \/ ClientSessionDies(s) PROVE CtrlInv'
  <2>1. /\ \A x \in Streams : \/ strm'[x] = strm[x]
                              \/ strm'[x] = [strm[x] EXCEPT !.client = "closed"]
        /\ UNCHANGED <<dgMu, caller, dgByKey, dgCtrl>>
    BY <1>7 DEF CloseSessions, ClientSessionDies, CloseSession, poolVars
  <2>2. \A x \in Streams : strm'[x].client = "open" => strm'[x] = strm[x]
    BY <1>0, <2>1 DEF Stream
  <2> QED
    BY <2>1, <2>2, CtrlUntouched
<1>8. ASSUME \/ CloseDone
             \/ \E s \in Sessions : \/ \E m \in net : ClientReceive(s, m) \/ ServerReceive(s, m)
                                    \/ ClientDeliver(s) \/ ServerWrite(s)
                                    \/ ServerSessionDies(s)
      PROVE  CtrlInv'
  BY <1>1, <1>8 DEF CloseDone, ClientReceive, ServerReceive, ClientDeliver, ServerWrite,
                    ServerSessionDies, poolVars
<1>9. ASSUME ServerRestart \/ \E x \in Streams : ServerStep(x) PROVE CtrlInv'
  <2>1. UNCHANGED <<dgMu, caller, dgByKey, dgCtrl>>
    BY <1>9 DEF ServerRestart, ServerStep, Accept, OpenFlow, OpenFlowFails, StoreFlow, Reply,
                CopyEnds, HandlerRemoves, HandlerCloses, ReaderForward, ReaderRemoves,
                ReaderCloses, poolVars
  <2>2. \A y \in Streams : strm'[y].client = strm[y].client /\ strm'[y].key = strm[y].key
    <3>1. CASE ServerRestart
      BY <1>0, <3>1 DEF ServerRestart, Stream
    <3>2. ASSUME NEW x \in Streams,
                 \/ Accept(x) \/ OpenFlowFails(x) \/ StoreFlow(x) \/ CopyEnds(x)
                 \/ HandlerRemoves(x) \/ HandlerCloses(x)
          PROVE  \A y \in Streams : strm'[y].client = strm[y].client /\ strm'[y].key = strm[y].key
      <4>1. \E pc : \/ strm' = HandlerAt(x, pc)
                    \/ \E y \in Streams \cup {None} :
                          strm' = [strm EXCEPT ![x] = [strm[x] EXCEPT !.h = pc, !.conn = y]]
        <5>1. strm[x].h = "delete" => Registered(x) \in Streams \cup {None}
          BY OwnEntry DEF FlowIdentity, StreamShape
        <5> QED
          BY <3>2, <5>1 DEF Accept, OpenFlowFails, StoreFlow, CopyEnds, HandlerRemoves,
                            HandlerCloses
      <4> QED
        BY <4>1, HandlerKeeps
    <3>3. ASSUME NEW x \in Streams, OpenFlow(x)
          PROVE  \A y \in Streams : strm'[y].client = strm[y].client /\ strm'[y].key = strm[y].key
      BY <1>0, <3>3 DEF OpenFlow, Stream
    <3>4. ASSUME NEW x \in Streams, Reply(x)
          PROVE  \A y \in Streams : strm'[y].client = strm[y].client /\ strm'[y].key = strm[y].key
      <4>1. CASE strm' = [strm EXCEPT ![x] = [strm[x] EXCEPT !.h = "copy", !.reply = strm[x].id]]
        BY <1>0, <4>1 DEF Stream
      <4>2. CASE strm' = HandlerAt(x, "delete")
        BY <4>2, HandlerKeeps
      <4> QED
        BY <3>4, <4>1, <4>2 DEF Reply
    <3>5. ASSUME NEW x \in Streams, ReaderForward(x) \/ ReaderRemoves(x) \/ ReaderCloses(x)
          PROVE  UNCHANGED strm
      BY <3>5 DEF ReaderForward, ReaderRemoves, ReaderCloses
    <3> QED
      BY <1>9, <3>1, <3>2, <3>3, <3>4, <3>5 DEF ServerStep
  <2> QED
    BY <2>1, <2>2, CtrlUntouched
<1>10. CASE UNCHANGED vars
  BY <1>1, <1>10 DEF vars
<1> QED
  BY <1>2, <1>3, <1>4, <1>5, <1>6, <1>7, <1>8, <1>9, <1>10 DEF Next, ServerStep

\* An open control stream is that of the caller that holds dgMu, or in dgCtrl where
\* Close finds it: no stream is opened twice for a key and none is lost.
THEOREM ControlStreamsTracked == Spec => []CtrlTracked
<1>1. Init => CtrlInv
  <2>1. None \notin Callers
    BY NoneAssumption
  <2> QED
    BY <2>1 DEF Init, CtrlInv, OpeningLocked, CtrlTracked, Opening, IdleCaller, NewStream
<1>2. CtrlInv => CtrlTracked
  BY DEF CtrlInv
<1>3. TypeOK /\ FlowIdentity /\ CtrlInv /\ [Next]_vars => CtrlInv'
  BY NextCtrl
<1> QED
  BY <1>1, <1>2, <1>3, IdentityInvariant, PTL DEF Spec
=============================================================================
