-------------------------- MODULE UdpStreamsProofs --------------------------
(***************************************************************************)
(* Theorems about UDP over streams, for any number of callers and streams. *)
(***************************************************************************)
EXTENDS UdpStreams, TLAPS

LEMMA LoopCaller == Loop \in Callers
BY CallersAssumption DEF Loop

LEMMA NoneNotStream == None \notin Streams /\ \A x \in Streams : x # None
BY MaxStreamsAssumption DEF None, Streams

LEMMA CallerTypes ==
    /\ IdleCaller \in Caller
    /\ IdleCaller.pc = "idle" /\ IdleCaller.strm = None /\ IdleCaller.new = FALSE
BY DEF IdleCaller, Caller

\* Init establishes the type invariant.
LEMMA InitTypeOK == Init => TypeOK
<1> SUFFICES ASSUME Init PROVE TypeOK
  OBVIOUS
<1>2. errCh \in [Streams -> 0..2] /\ up \in [Streams -> BOOLEAN] /\ down \in [Streams -> BOOLEAN]
  BY DEF Init
<1>3. /\ client \in [Streams -> {"none", "open", "closed"}]
      /\ pump \in [Streams -> {"none", "read", "close", "end", "done"}]
      /\ relay \in [Streams -> {"none", "dial", "run", "done"}]
  BY DEF Init
<1>4. /\ caller \in [Callers -> Caller]
      /\ \A c \in Callers : caller[c].pc = "idle"
  BY CallerTypes DEF Init
<1> QED
  BY <1>2, <1>3, <1>4 DEF Init, TypeOK

\* Moving a caller on keeps what it holds.
LEMMA GotoType ==
    ASSUME TypeOK, NEW c \in Callers, NEW l \in {"write", "pump"}, Goto(c, l)
    PROVE  /\ caller' \in [Callers -> Caller]
           /\ caller'[c].pc = l /\ caller'[c].strm = caller[c].strm
           /\ caller'[c].new = caller[c].new
           /\ \A d \in Callers \ {c} : caller'[d] = caller[d]
<1> DEFINE w == [caller[c] EXCEPT !.pc = l]
<1>1. caller[c] \in Caller /\ caller \in [Callers -> Caller]
  BY DEF TypeOK
<1>2. w \in Caller /\ w.pc = l /\ w.strm = caller[c].strm /\ w.new = caller[c].new
  BY <1>1 DEF Caller
<1>3. caller' = [caller EXCEPT ![c] = w]
  BY DEF Goto
<1> HIDE DEF w
<1> QED
  BY <1>1, <1>2, <1>3

LEMMA ReturnType ==
    ASSUME TypeOK, NEW c \in Callers, Return(c)
    PROVE  /\ caller' \in [Callers -> Caller]
           /\ caller'[c] = IdleCaller
           /\ \A d \in Callers \ {c} : caller'[d] = caller[d]
BY CallerTypes DEF TypeOK, Return

\* A caller that goes on with a stream, or without one.
LEMMA HoldFacts ==
    ASSUME TypeOK, NEW c \in Callers, NEW l \in {"index", "store", "write"},
           NEW x \in Streams \cup {None}, NEW n \in BOOLEAN, Hold(c, l, x, n)
    PROVE  /\ caller' \in [Callers -> Caller]
           /\ caller'[c].pc = l /\ caller'[c].strm = x /\ caller'[c].new = n
           /\ \A d \in Callers \ {c} : caller'[d] = caller[d]
<1> DEFINE w == [pc |-> l, strm |-> x, new |-> n]
<1>1. caller \in [Callers -> Caller]
  BY DEF TypeOK
<1>2. w \in Caller /\ w.pc = l /\ w.strm = x /\ w.new = n
  BY DEF Caller
<1>3. caller' = [caller EXCEPT ![c] = w]
  BY DEF Hold
<1> HIDE DEF w
<1> QED
  BY <1>1, <1>2, <1>3

\* CloseUDP keeps the tables well typed, whichever pool it is routed to.
LEMMA CloseTypes ==
    ASSUME TypeOK, NEW X \in SUBSET Streams, (CloseUDP /\ UNCHANGED missed) \/ RouteCloseUDP(X)
    PROVE  /\ client' \in [Streams -> {"none", "open", "closed"}]
           /\ udp' \in Streams \cup {None} /\ missed' \subseteq Streams
BY DEF TypeOK, CloseUDP, RouteCloseUDP

\* Every step keeps the type invariant.
LEMMA NextTypeOK == TypeOK /\ [Next]_vars => TypeOK'
<1> SUFFICES ASSUME TypeOK, [Next]_vars PROVE TypeOK'
  OBVIOUS
<1> USE DEF sessVars, routeVars, clientVars, serverVars, copyVars
<1>a. \A c \in Callers : /\ caller[c].strm \in Streams \cup {None}
                         /\ caller[c].new \in BOOLEAN
  BY DEF TypeOK, Caller
<1>u. udp \in Streams \cup {None}
  BY DEF TypeOK
<1>b. IdleCaller.pc = "idle"
  BY CallerTypes
<1>1. ASSUME NEW c \in Callers, Packet(c) PROVE TypeOK'
  <2>1. \/ udp # None /\ Hold(c, "write", udp, FALSE)
        \/ Hold(c, "index", None, FALSE)
    BY <1>1 DEF Packet
  <2>2. \A d \in Callers : caller'[d].pc \in {"store", "write", "pump"} => caller'[d].strm # None
    <3>1. CASE udp # None /\ Hold(c, "write", udp, FALSE)
      BY <1>u, <3>1, HoldFacts DEF TypeOK
    <3>2. CASE Hold(c, "index", None, FALSE)
      <4>1. caller'[c].pc = "index" /\ \A d \in Callers \ {c} : caller'[d] = caller[d]
        BY <3>2, HoldFacts
      <4> QED
        BY <4>1 DEF TypeOK
    <3> QED
      BY <2>1, <3>1, <3>2
  <2>3. caller' \in [Callers -> Caller]
    BY <1>u, <2>1, HoldFacts
  <2> QED
    BY <1>1, <2>2, <2>3 DEF Packet, TypeOK
<1>2. ASSUME NEW c \in Callers, IndexFails(c) \/ RequestFails(c) PROVE TypeOK'
  BY <1>2, <1>b, ReturnType DEF IndexFails, RequestFails, TypeOK
<1>3. ASSUME NEW c \in Callers, NEW x \in Streams, IndexSession(c, x) PROVE TypeOK'
  <2>1. Hold(c, "store", x, TRUE)
    BY <1>3 DEF IndexSession
  <2>2. \A d \in Callers : caller'[d].pc \in {"store", "write", "pump"} => caller'[d].strm # None
    <3>1. caller'[c].strm = x /\ \A d \in Callers \ {c} : caller'[d] = caller[d]
      BY <2>1, HoldFacts
    <3> QED
      BY <3>1, NoneNotStream DEF TypeOK
  <2>3. caller' \in [Callers -> Caller]
    BY <2>1, HoldFacts
  <2> QED
    BY <1>3, <2>2, <2>3 DEF IndexSession, TypeOK
<1>4. ASSUME NEW c \in Callers, IndexPanics(c) PROVE TypeOK'
  BY <1>4, CallerTypes DEF IndexPanics, TypeOK
<1>5. ASSUME NEW c \in Callers, Store(c) PROVE TypeOK'
  BY <1>5, <1>a, GotoType DEF Store, At, TypeOK
<1>6. ASSUME NEW c \in Callers, Write(c) PROVE TypeOK'
  BY <1>6, <1>b, GotoType, ReturnType DEF Write, At, TypeOK
<1>7. ASSUME NEW c \in Callers, WriteFails(c) PROVE TypeOK'
  <2>1. caller[c].strm \in Streams
    BY <1>7, <1>a DEF WriteFails, At, TypeOK
  <2>2. (IF caller[c].new THEN {caller[c].strm} ELSE {}) \in SUBSET Streams
    BY <2>1
  <2>3. /\ client' \in [Streams -> {"none", "open", "closed"}]
        /\ udp' \in Streams \cup {None} /\ missed' \subseteq Streams
    BY <1>7, <2>2, CloseTypes DEF WriteFails
  <2> QED
    BY <1>7, <1>b, <2>3, ReturnType DEF WriteFails, TypeOK
<1>8. ASSUME NEW c \in Callers, StartPump(c) PROVE TypeOK'
  <2>1. pump' \in [Streams -> {"none", "read", "close", "end", "done"}]
    BY <1>8 DEF StartPump, TypeOK
  <2> QED
    BY <1>8, <1>b, <2>1, ReturnType DEF StartPump, TypeOK
<1>9. ASSUME NEW x \in Streams, PumpEnds(x) \/ PumpCloses(x) \/ EndPump(x) PROVE TypeOK'
  <2>1. {x} \in SUBSET Streams
    OBVIOUS
  <2> QED
    BY <1>9, <2>1, CloseTypes DEF PumpEnds, PumpCloses, EndPump, TypeOK
<1>10. ASSUME NEW x \in Streams, Relay(x) \/ UpEnds(x) \/ DownEnds(x) PROVE TypeOK'
  <2>1. CASE Accept(x) \/ Dial(x) \/ DialFails(x)
    BY <1>10, <2>1 DEF Accept, Dial, DialFails, TypeOK
  <2>2. CASE UpEnds(x) \/ DownEnds(x) \/ RelayReturns(x)
    <3>1. errCh \in [Streams -> 0..2] /\ errCh[x] \in 0..2
      BY DEF TypeOK
    <3>2. errCh' \in [Streams -> 0..2]
      <4>1. ASSUME NEW n \in 0..2, errCh' = [errCh EXCEPT ![x] = n]
            PROVE  errCh' \in [Streams -> 0..2]
        BY <3>1, <4>1
      <4>2. CASE Send(x)
        <5>1. errCh[x] + 1 \in 0..2
          BY <3>1, <4>2 DEF Send
        <5> QED
          BY <4>1, <4>2, <5>1 DEF Send
      <4>3. CASE RelayReturns(x)
        <5>1. errCh[x] - 1 \in 0..2
          BY <3>1, <4>3 DEF RelayReturns
        <5> QED
          BY <4>1, <4>3, <5>1 DEF RelayReturns
      <4> QED
        BY <2>2, <4>2, <4>3 DEF UpEnds, DownEnds
    <3>3. /\ up' \in [Streams -> BOOLEAN] /\ down' \in [Streams -> BOOLEAN]
          /\ relay' \in [Streams -> {"none", "dial", "run", "done"}]
      BY <2>2 DEF UpEnds, DownEnds, RelayReturns, TypeOK
    <3>4. UNCHANGED <<sessVars, clientVars>>
      BY <2>2 DEF UpEnds, DownEnds, RelayReturns
    <3> QED
      BY <3>2, <3>3, <3>4 DEF TypeOK
  <2> QED
    BY <1>10, <2>1, <2>2 DEF Relay
<1>11. CASE OtherCloses \/ OtherPumps \/ OtherEnds
  BY <1>11 DEF OtherCloses, OtherPumps, OtherEnds, CloseUDP, TypeOK
<1>12. CASE PoolClose \/ PoolNil \/ ClientSessionDies \/ ServerSessionDies
  BY <1>12 DEF PoolClose, PoolNil, ClientSessionDies, ServerSessionDies, CloseSession, TypeOK
<1>13. CASE UNCHANGED vars
  BY <1>13 DEF vars, TypeOK
<1> QED
  BY <1>1, <1>2, <1>3, <1>4, <1>5, <1>6, <1>7, <1>8, <1>9, <1>10, <1>11, <1>12, <1>13
  DEF Next, Call

\* The state of the pool, its callers, pumps and relays keeps its shape, and a
\* caller past openStream has a stream (OpenUDP, UDPHandle).
THEOREM TypeCorrect == Spec => []TypeOK
BY InitTypeOK, NextTypeOK, PTL DEF Spec

-----------------------------------------------------------------------------
(* SOCKS5: one pump per key *)

LEMMA InitOnePump == Init => OnePump
BY DEF Init, OnePump, Pumping

\* A step that starts and ends no pump.
LEMMA PumpsUnchanged ==
    ASSUME OnePump, UNCHANGED <<kind, pumps, other>>,
           \A x \in Streams : Pumping(x)' <=> Pumping(x)
    PROVE  OnePump'
BY DEF OnePump

\* Every step keeps h.pumps and the pumps in agreement.
LEMMA NextOnePump == TypeOK /\ OnePump /\ [Next]_vars => OnePump'
<1> SUFFICES ASSUME TypeOK, OnePump, [Next]_vars PROVE OnePump'
  OBVIOUS
<1> USE DEF sessVars, routeVars, clientVars, serverVars, copyVars
<1>a. pump \in [Streams -> {"none", "read", "close", "end", "done"}] /\ pumps \in BOOLEAN
  BY DEF TypeOK
<1>1. ASSUME UNCHANGED <<kind, pumps, other, pump>> PROVE OnePump'
  BY <1>1, PumpsUnchanged DEF Pumping
<1>2. ASSUME NEW c \in Callers, StartPump(c) PROVE OnePump'
  <2>1. caller[c].strm \in Streams
    BY <1>2 DEF StartPump, At, TypeOK, Caller
  <2>2. CASE kind = "socks5" /\ ~pumps
    <3>1. /\ pump' = [pump EXCEPT ![caller[c].strm] = "read"] /\ pumps' = TRUE
          /\ UNCHANGED <<kind, other>>
      BY <1>2, <2>2 DEF StartPump, MayPump
    <3>2. \A x \in Streams : Pumping(x)' <=> x = caller[c].strm
      BY <1>a, <2>1, <2>2, <3>1 DEF OnePump, Pumping
    <3> QED
      BY <2>1, <2>2, <3>1, <3>2 DEF OnePump
  <2>3. CASE kind = "socks5" /\ pumps
    BY <1>2, <1>a, <2>3, PumpsUnchanged DEF StartPump, MayPump, Pumping
  <2>4. CASE kind # "socks5"
    BY <1>2, <2>4 DEF StartPump, OnePump
  <2> QED
    BY <2>2, <2>3, <2>4
<1>3. ASSUME NEW x \in Streams, PumpEnds(x) PROVE OnePump'
  BY <1>3, <1>a, PumpsUnchanged DEF PumpEnds, Pumping
<1>4. ASSUME NEW x \in Streams, PumpCloses(x) PROVE OnePump'
  <2>1. CASE kind = "socks5"
    BY <1>4, <1>a, <2>1, PumpsUnchanged DEF PumpCloses, Pumping
  <2>2. CASE kind # "socks5"
    BY <1>4, <2>2 DEF PumpCloses, OnePump
  <2> QED
    BY <2>1, <2>2
<1>5. ASSUME NEW x \in Streams, EndPump(x) PROVE OnePump'
  <2>1. /\ Pumping(x) /\ pump' = [pump EXCEPT ![x] = "done"] /\ pumps' = FALSE
        /\ UNCHANGED <<kind, other>>
    BY <1>5 DEF EndPump, Pumping
  <2>2. kind = "socks5" => ~other /\ \A y \in Streams : ~Pumping(y)'
    BY <1>a, <2>1 DEF OnePump, Pumping
  <2> QED
    BY <2>1, <2>2 DEF OnePump
<1>6. ASSUME NEW c \in Callers, IndexPanics(c) PROVE OnePump'
  BY <1>6 DEF IndexPanics, OnePump, Pumping
<1>7. CASE OtherPumps \/ OtherEnds
  BY <1>7 DEF OtherPumps, OtherEnds, OnePump, Pumping
<1>8. ASSUME NEW c \in Callers,
             Packet(c) \/ IndexFails(c) \/ RequestFails(c) \/ Store(c)
                \/ Write(c) \/ WriteFails(c) \/ \E x \in Streams : IndexSession(c, x)
      PROVE  OnePump'
  BY <1>1, <1>8 DEF Packet, IndexFails, RequestFails, Store, Write, WriteFails,
                    IndexSession
<1>9. ASSUME NEW x \in Streams, Relay(x) \/ UpEnds(x) \/ DownEnds(x) PROVE OnePump'
  BY <1>1, <1>9 DEF Relay, Accept, Dial, DialFails, UpEnds, DownEnds, RelayReturns
<1>10. CASE OtherCloses \/ PoolClose \/ PoolNil \/ ClientSessionDies \/ ServerSessionDies
            \/ UNCHANGED vars
  BY <1>1, <1>10 DEF OtherCloses, PoolClose, PoolNil, ClientSessionDies, ServerSessionDies,
                     CloseSession, vars
<1> QED
  BY <1>2, <1>3, <1>4, <1>5, <1>6, <1>7, <1>8, <1>9, <1>10 DEF Next, Call

\* Over all pools SOCKS5 has at most one pump per key, and the key is in h.pumps
\* exactly as long as it has one (startPump, endPump).
THEOREM PumpsExclusive == Spec => []OnePump
BY InitOnePump, NextOnePump, TypeCorrect, PTL DEF Spec

-----------------------------------------------------------------------------
(* forward: streams and their pumps *)

\* What a caller holds at each step of OpenUDP and serveUDP.
CallerShape ==
    \A c \in Callers : /\ caller[c].pc \in {"idle", "index"} => ~caller[c].new
                       /\ caller[c].pc \in {"store", "pump"} => caller[c].new

\* The loop of the rule is alone, and finds the table as it left it until it
\* stores its stream, because nobody else stores one.
LoopAlone ==
    /\ \A c \in Callers \ {Loop} : caller[c] = IdleCaller
    /\ caller[Loop].pc \in {"index", "store"} => udp = None
    /\ \A x \in Streams : pump[x] # "end"

\* A closed session has no open stream.
SessionShape ==
    /\ phase # "open" => ~csess
    /\ ~csess => \A x \in Streams : client[x] # "open"

ForwardInv ==
    /\ CallerShape /\ SessionShape
    /\ kind = "forward" => LoopAlone
    /\ NoStreamLeak /\ ForwardPumped

LEMMA InitForward == Init => ForwardInv
BY LoopCaller, CallerTypes
DEF Init, ForwardInv, CallerShape, SessionShape, LoopAlone, NoStreamLeak, ForwardPumped

\* With forward, only the loop of the rule does anything.
LEMMA OnlyLoop ==
    ASSUME kind = "forward", LoopAlone, NEW c \in Callers, caller[c].pc # "idle"
    PROVE  c = Loop
BY CallerTypes DEF LoopAlone

\* What CloseUDP does to this pool, whichever pool it is routed to.
LEMMA CloseEffect ==
    ASSUME TypeOK, NEW X, (CloseUDP /\ UNCHANGED missed) \/ RouteCloseUDP(X)
    PROVE  /\ \A x \in Streams : client'[x] = "open" => client[x] = "open"
           /\ \/ udp' = None /\ \A x \in Streams : client'[x] = "open" => x # udp
              \/ /\ udp' = udp /\ UNCHANGED client
                 /\ kind = "forward" => missed' = missed \cup X
           /\ missed \subseteq missed'
BY DEF TypeOK, CloseUDP, RouteCloseUDP

\* A step of the pumps, of the server or of other pools: the callers stay.
LEMMA CallersUnchanged ==
    ASSUME TypeOK, ForwardInv, UNCHANGED <<kind, caller>>,
           phase' # "open" => phase # "open" \/ ~csess',
           csess' => csess,
           ~csess' => ~csess \/ \A x \in Streams : client'[x] # "open",
           udp' \in {udp, None},
           \A x \in Streams : client'[x] = "open" => client[x] = "open" /\ (udp' = udp \/ x # udp),
           kind = "forward" =>
              \A x \in Streams : /\ pump'[x] # "end"
                                 /\ pump[x] \in {"read", "close"} =>
                                       pump'[x] \in {"read", "close"} \/ udp' = None \/ x \in missed',
           missed \subseteq missed'
    PROVE  ForwardInv'
<1>1. CallerShape' /\ SessionShape'
  BY DEF ForwardInv, CallerShape, SessionShape
<1>2. kind = "forward" => LoopAlone'
  BY DEF ForwardInv, LoopAlone
<1>3. NoStreamLeak'
  BY DEF ForwardInv, NoStreamLeak
<1>4. ForwardPumped'
  BY NoneNotStream DEF ForwardInv, ForwardPumped, Pumped, TypeOK
<1> QED
  BY <1>1, <1>2, <1>3, <1>4 DEF ForwardInv

\* Every step keeps ForwardInv.
LEMMA NextForward == TypeOK /\ ForwardInv /\ [Next]_vars => ForwardInv'
<1> SUFFICES ASSUME TypeOK, ForwardInv, [Next]_vars PROVE ForwardInv'
  OBVIOUS
<1> USE DEF sessVars, routeVars, clientVars, serverVars, copyVars
<1>a. /\ CallerShape /\ SessionShape /\ NoStreamLeak /\ ForwardPumped
      /\ kind = "forward" => LoopAlone
  BY DEF ForwardInv
<1>b. /\ pump \in [Streams -> {"none", "read", "close", "end", "done"}]
      /\ udp \in Streams \cup {None} /\ caller \in [Callers -> Caller]
      /\ client \in [Streams -> {"none", "open", "closed"}]
  BY DEF TypeOK
<1>c. IdleCaller.pc = "idle" /\ IdleCaller.strm = None /\ IdleCaller.new = FALSE
  BY CallerTypes
<1>1. ASSUME NEW c \in Callers, Packet(c) PROVE ForwardInv'
  <2>1. /\ \/ udp # None /\ Hold(c, "write", udp, FALSE)
           \/ udp = None /\ Hold(c, "index", None, FALSE)
        /\ caller[c].pc = "idle"
    BY <1>1 DEF Packet, At
  <2>3. /\ \/ udp # None /\ caller'[c].pc = "write"
           \/ udp = None /\ caller'[c].pc = "index"
        /\ caller'[c].new = FALSE /\ \A d \in Callers \ {c} : caller'[d] = caller[d]
    BY <1>b, <2>1, HoldFacts
  <2>4. UNCHANGED <<kind, phase, csess, udp, client, pump, missed>>
    BY <1>1 DEF Packet
  <2>5. CallerShape' /\ SessionShape'
    BY <1>a, <2>3, <2>4 DEF CallerShape, SessionShape
  <2>6. kind = "forward" => c = Loop /\ LoopAlone'
    BY <1>1, <1>a, <2>3, <2>4, LoopCaller DEF LoopAlone, Packet
  <2>7. NoStreamLeak' /\ ForwardPumped'
    BY <1>a, <2>1, <2>3, <2>4 DEF NoStreamLeak, ForwardPumped, Pumped, CallerShape
  <2> QED
    BY <2>4, <2>5, <2>6, <2>7 DEF ForwardInv
<1>2. ASSUME NEW c \in Callers, IndexFails(c) PROVE ForwardInv'
  <2>1. /\ caller[c].pc = "index" /\ ~caller[c].new
        /\ UNCHANGED <<kind, phase, csess, udp, client, pump, missed>>
    BY <1>2, <1>a DEF IndexFails, At, CallerShape
  <2>2. /\ caller'[c].pc = "idle" /\ ~caller'[c].new
        /\ \A d \in Callers \ {c} : caller'[d] = caller[d]
    BY <1>2, <1>c, <2>1, ReturnType DEF IndexFails
  <2>3. kind = "forward" => c = Loop /\ LoopAlone'
    BY <1>a, <2>1, <2>2, OnlyLoop DEF LoopAlone
  <2>4. CallerShape' /\ SessionShape' /\ NoStreamLeak' /\ ForwardPumped'
    BY <1>a, <2>1, <2>2
    DEF CallerShape, SessionShape, NoStreamLeak, ForwardPumped, Pumped
  <2> QED
    BY <2>1, <2>3, <2>4 DEF ForwardInv
<1>3. ASSUME NEW c \in Callers, NEW x \in Streams, IndexSession(c, x) PROVE ForwardInv'
  <2>2. /\ Hold(c, "store", x, TRUE) /\ caller[c].pc = "index" /\ csess
        /\ client' = [client EXCEPT ![x] = "open"]
        /\ UNCHANGED <<kind, phase, csess, udp, pump, missed>>
    BY <1>3 DEF IndexSession, At
  <2>1. /\ caller'[c].pc = "store" /\ caller'[c].strm = x /\ caller'[c].new = TRUE
        /\ \A d \in Callers \ {c} : caller'[d] = caller[d]
    BY <2>2, HoldFacts
  <2>3. \A y \in Streams : client'[y] = "open" => y = x \/ client[y] = "open"
    BY <1>b, <2>2
  <2>4. CallerShape' /\ SessionShape'
    BY <1>a, <2>1, <2>2, <2>3 DEF CallerShape, SessionShape
  <2>5. kind = "forward" => c = Loop /\ udp = None /\ LoopAlone'
    BY <1>a, <2>1, <2>2, <2>3, OnlyLoop DEF LoopAlone
  <2>6. NoStreamLeak'
    BY <1>a, <2>1, <2>2, <2>3 DEF NoStreamLeak
  <2>7. ForwardPumped'
    BY <2>2, <2>5 DEF ForwardPumped
  <2> QED
    BY <2>2, <2>4, <2>5, <2>6, <2>7 DEF ForwardInv
<1>4. ASSUME NEW c \in Callers, IndexPanics(c) PROVE ForwardInv'
  <2>1. ~csess' /\ udp' = None /\ \A x \in Streams : client'[x] # "open"
    BY <1>4, <1>a DEF IndexPanics, SessionShape
  <2>2. /\ \A d \in Callers : caller'[d] = IdleCaller
        /\ \A x \in Streams : pump'[x] = "none"
    BY <1>4 DEF IndexPanics
  <2> QED
    BY <2>1, <2>2, <1>c, LoopCaller
    DEF ForwardInv, CallerShape, SessionShape, LoopAlone, NoStreamLeak, ForwardPumped
<1>5. ASSUME NEW c \in Callers, RequestFails(c) PROVE ForwardInv'
  <2>1. /\ caller[c].pc = "store" /\ ~csess
        /\ UNCHANGED <<kind, phase, csess, udp, client, pump, missed>>
    BY <1>5 DEF RequestFails, At
  <2>2. caller'[c] = IdleCaller /\ \A d \in Callers \ {c} : caller'[d] = caller[d]
    BY <1>5, ReturnType DEF RequestFails
  <2>3. kind = "forward" => c = Loop /\ udp = None /\ LoopAlone'
    BY <1>a, <1>c, <2>1, <2>2, OnlyLoop DEF LoopAlone
  <2>4. CallerShape' /\ SessionShape' /\ NoStreamLeak' /\ ForwardPumped'
    BY <1>a, <1>c, <2>1, <2>2, <2>3
    DEF CallerShape, SessionShape, NoStreamLeak, ForwardPumped
  <2> QED
    BY <2>1, <2>3, <2>4 DEF ForwardInv
<1>6. ASSUME NEW c \in Callers, Store(c) PROVE ForwardInv'
  <2>1. /\ caller[c].pc = "store" /\ caller[c].new /\ udp' = caller[c].strm
        /\ UNCHANGED <<kind, phase, csess, client, pump, missed>>
    BY <1>6, <1>a DEF Store, At, CallerShape
  <2>2. /\ caller'[c].pc = "write" /\ caller'[c].new = caller[c].new
        /\ caller'[c].strm = caller[c].strm
        /\ \A d \in Callers \ {c} : caller'[d] = caller[d]
    BY <1>6, GotoType DEF Store
  <2>3. kind = "forward" => c = Loop /\ udp = None /\ LoopAlone'
    BY <1>a, <2>1, <2>2, OnlyLoop DEF LoopAlone
  <2>4. CallerShape' /\ SessionShape'
    BY <1>a, <2>1, <2>2 DEF CallerShape, SessionShape
  <2>5. NoStreamLeak'
    BY <1>a, <1>c, <2>1, <2>2, <2>3, NoneNotStream DEF NoStreamLeak, LoopAlone
  <2>6. ForwardPumped'
    BY <2>1, <2>2 DEF ForwardPumped, Pumped
  <2> QED
    BY <2>1, <2>3, <2>4, <2>5, <2>6 DEF ForwardInv
<1>7. ASSUME NEW c \in Callers, Write(c) PROVE ForwardInv'
  <2>1. /\ caller[c].pc = "write"
        /\ UNCHANGED <<kind, phase, csess, udp, client, pump, missed>>
    BY <1>7 DEF Write, At
  <2>2. /\ \/ caller'[c] = IdleCaller /\ ~caller[c].new
           \/ /\ caller'[c].pc = "pump" /\ caller'[c].new = caller[c].new /\ caller[c].new
              /\ caller'[c].strm = caller[c].strm
        /\ \A d \in Callers \ {c} : caller'[d] = caller[d]
    BY <1>7, GotoType, ReturnType DEF Write
  <2>3. kind = "forward" => c = Loop /\ LoopAlone'
    BY <1>a, <1>c, <2>1, <2>2, OnlyLoop DEF LoopAlone
  <2>4. CallerShape' /\ SessionShape' /\ NoStreamLeak' /\ ForwardPumped'
    BY <1>a, <1>c, <2>1, <2>2
    DEF CallerShape, SessionShape, NoStreamLeak, ForwardPumped, Pumped
  <2> QED
    BY <2>1, <2>3, <2>4 DEF ForwardInv
<1>8. ASSUME NEW c \in Callers, WriteFails(c) PROVE ForwardInv'
  <2> DEFINE X == IF caller[c].new THEN {caller[c].strm} ELSE {}
  <2>1. /\ caller[c].pc = "write" /\ RouteCloseUDP(X)
        /\ UNCHANGED <<kind, phase, csess, pump>>
    BY <1>8 DEF WriteFails, At
  <2>2. caller'[c] = IdleCaller /\ \A d \in Callers \ {c} : caller'[d] = caller[d]
    BY <1>8, ReturnType DEF WriteFails
  <2>3. caller[c].new => caller[c].strm \in X
    OBVIOUS
  <2> HIDE DEF X
  <2>4. /\ \A x \in Streams : client'[x] = "open" => client[x] = "open"
        /\ \/ udp' = None /\ \A x \in Streams : client'[x] = "open" => x # udp
           \/ /\ udp' = udp /\ UNCHANGED client
              /\ kind = "forward" => missed' = missed \cup X
        /\ missed \subseteq missed'
    BY <2>1, CloseEffect
  <2>5. kind = "forward" => c = Loop /\ LoopAlone'
    BY <1>a, <1>c, <2>1, <2>2, OnlyLoop DEF LoopAlone
  <2>6. CallerShape' /\ SessionShape' /\ NoStreamLeak'
    BY <1>a, <1>c, <2>1, <2>2, <2>4 DEF CallerShape, SessionShape, NoStreamLeak
  <2>7. ForwardPumped'
    BY <1>a, <2>1, <2>2, <2>3, <2>4 DEF ForwardPumped, Pumped
  <2> QED
    BY <2>1, <2>5, <2>6, <2>7 DEF ForwardInv
<1>9. ASSUME NEW c \in Callers, StartPump(c) PROVE ForwardInv'
  <2>1. /\ caller[c].pc = "pump" /\ caller[c].strm \in Streams
        /\ UNCHANGED <<kind, phase, csess, udp, client, missed>>
    BY <1>9 DEF StartPump, At, TypeOK, Caller
  <2>2. caller'[c] = IdleCaller /\ \A d \in Callers \ {c} : caller'[d] = caller[d]
    BY <1>9, ReturnType DEF StartPump
  <2>3. kind = "forward" => pump' = [pump EXCEPT ![caller[c].strm] = "read"]
    BY <1>9 DEF StartPump, MayPump
  <2>4. kind = "forward" =>
           \A x \in Streams : pump'[x] = IF x = caller[c].strm THEN "read" ELSE pump[x]
    BY <1>b, <2>1, <2>3
  <2>5. kind = "forward" => c = Loop /\ LoopAlone'
    BY <1>a, <1>c, <2>1, <2>2, <2>4, OnlyLoop DEF LoopAlone
  <2>6. CallerShape' /\ SessionShape' /\ NoStreamLeak'
    BY <1>a, <1>c, <2>1, <2>2 DEF CallerShape, SessionShape, NoStreamLeak
  <2>7. ForwardPumped'
    BY <1>a, <1>b, <2>1, <2>2, <2>4 DEF ForwardPumped, Pumped
  <2> QED
    BY <2>1, <2>5, <2>6, <2>7 DEF ForwardInv
<1>10. ASSUME NEW x \in Streams, PumpEnds(x) PROVE ForwardInv'
  <2>1. \A y \in Streams : pump'[y] = IF y = x THEN "close" ELSE pump[y]
    BY <1>10, <1>b DEF PumpEnds
  <2> QED
    BY <1>10, <1>a, <2>1, CallersUnchanged DEF PumpEnds, LoopAlone
<1>11. ASSUME NEW x \in Streams, PumpCloses(x) PROVE ForwardInv'
  <2>1. kind = "forward" => \A y \in Streams : pump'[y] = IF y = x THEN "done" ELSE pump[y]
    BY <1>11, <1>b DEF PumpCloses
  <2>2. RouteCloseUDP({x}) /\ UNCHANGED <<kind, caller, phase, csess>>
    BY <1>11 DEF PumpCloses
  <2>3. /\ \A y \in Streams : client'[y] = "open" => client[y] = "open"
        /\ \/ udp' = None /\ \A y \in Streams : client'[y] = "open" => y # udp
           \/ /\ udp' = udp /\ UNCHANGED client
              /\ kind = "forward" => missed' = missed \cup {x}
        /\ missed \subseteq missed'
    BY <2>2, CloseEffect
  <2> QED
    BY <1>a, <2>1, <2>2, <2>3, CallersUnchanged DEF LoopAlone
<1>12. ASSUME NEW x \in Streams, EndPump(x) PROVE ForwardInv'
  <2>1. kind # "forward"
    BY <1>12, <1>a DEF EndPump, LoopAlone
  <2> QED
    BY <1>12, <2>1, CallersUnchanged DEF EndPump
<1>13. CASE OtherCloses
  <2>1. /\ \A y \in Streams : client'[y] = "open" => client[y] = "open"
        /\ udp' = None /\ \A y \in Streams : client'[y] = "open" => y # udp
    BY <1>13, <1>b DEF OtherCloses, CloseUDP
  <2> QED
    BY <1>13, <1>a, <2>1, CallersUnchanged DEF OtherCloses, LoopAlone
<1>14. CASE PoolClose \/ ClientSessionDies
  <2>1. \A y \in Streams : client'[y] # "open"
    BY <1>14, <1>b DEF PoolClose, ClientSessionDies, CloseSession
  <2> QED
    BY <1>14, <1>a, <2>1, CallersUnchanged
    DEF PoolClose, ClientSessionDies, CloseSession, LoopAlone
<1>15. CASE PoolNil \/ ServerSessionDies \/ OtherPumps \/ OtherEnds \/ UNCHANGED vars
  BY <1>15, <1>a, CallersUnchanged
  DEF PoolNil, ServerSessionDies, OtherPumps, OtherEnds, LoopAlone, vars
<1>16. ASSUME NEW x \in Streams, Relay(x) \/ UpEnds(x) \/ DownEnds(x) PROVE ForwardInv'
  BY <1>16, <1>a, CallersUnchanged
  DEF Relay, Accept, Dial, DialFails, UpEnds, DownEnds, RelayReturns, LoopAlone
<1> QED
  BY <1>1, <1>2, <1>3, <1>4, <1>5, <1>6, <1>7, <1>8, <1>9, <1>10, <1>11, <1>12, <1>13, <1>14,
     <1>15, <1>16
  DEF Next, Call

\* With forward no stream is lost: it is open only while the table has it, or
\* its caller is about to store it (OpenUDP, CloseUDP).
THEOREM StreamsKept == Spec => []NoStreamLeak
<1>1. ForwardInv => NoStreamLeak
  BY DEF ForwardInv
<1> QED
  BY <1>1, InitForward, NextForward, TypeCorrect, PTL DEF Spec

\* With forward packets go only to a stream that somebody reads, unless its
\* CloseUDP was routed to another pool (serveUDP, pumpUDP).
THEOREM StreamsPumped == Spec => []ForwardPumped
<1>1. ForwardInv => ForwardPumped
  BY DEF ForwardInv
<1> QED
  BY <1>1, InitForward, NextForward, TypeCorrect, PTL DEF Spec
=============================================================================
