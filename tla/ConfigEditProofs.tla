-------------------------- MODULE ConfigEditProofs --------------------------
(***************************************************************************)
(* Theorems about the configuration and its editor, for any strings, files *)
(* and number of upstreams, rules and users.                               *)
(***************************************************************************)
EXTENDS ConfigEdit, SequenceTheorems, FiniteSetTheorems, TLAPS

-----------------------------------------------------------------------------
(* What Validate makes of a configuration *)

\* The strings the defaults are made of.
LEMMA StringFacts ==
    /\ "" \in Strings /\ Mark \in Strings /\ "kcp" \in Strings /\ "tcp" \in Strings
    /\ "failover" \in Strings /\ "default" \in Strings /\ "info" \in Strings
    /\ "paqetpremium" \in Strings /\ "aes-128-gcm" \in Strings
    /\ ~Blank("kcp") /\ ~Blank("tcp") /\ ~Blank("failover") /\ ~Blank("info")
    /\ ~Blank("paqetpremium") /\ ~Blank("aes-128-gcm") /\ Blank("")
    /\ Fold["kcp"] = "kcp" /\ Trim[Mark] = Mark
BY StringAssumption DEF Blank, Blocks, Mark

\* A default is never blank, and is kept once it is set.
LEMMA DefaultFacts ==
    ASSUME NEW s \in Strings, NEW d \in Strings, ~Blank(d)
    PROVE  /\ Default(s, d) \in Strings /\ ~Blank(Default(s, d))
           /\ Default(Default(s, d), d) = Default(s, d)
           /\ ~Blank(s) => Default(s, d) = s
           /\ Blank(s) => Default(s, d) = d
BY DEF Default

\* validateTransport fills in what is missing, keeps protocol and key, and finds
\* nothing more to do on the result.
LEMMA NormTransportFacts ==
    ASSUME NEW t \in Transport
    PROVE  /\ NormTransport(t) \in Transport
           /\ Protocol(NormTransport(t)) = Protocol(t)
           /\ NormTransport(t).key = t.key
           /\ NormTransport(NormTransport(t)) = NormTransport(t)
           /\ TransportOK(t) => TransportOK(NormTransport(t))
<1> DEFINE n == NormTransport(t)
           kcp == Protocol(t) = "kcp"
           quic == Protocol(t) = "quic"
<1>0. /\ t.protocol \in Strings /\ t.block \in Strings /\ t.alpn \in Strings /\ t.conn \in Int
      /\ t.key \in Strings
  BY DEF Transport
<1> DEFINE p == Default(t.protocol, "kcp")
           c == IF t.conn < 1 THEN 6 ELSE t.conn
           b == IF kcp THEN Default(t.block, "aes-128-gcm") ELSE t.block
           a == IF quic THEN Default(t.alpn, "paqetpremium") ELSE t.alpn
<1>1. p \in Strings /\ c \in Int /\ b \in Strings /\ a \in Strings
  <2> HIDE DEF kcp, quic
  <2>1. p \in Strings
    BY <1>0, StringFacts, DefaultFacts
  <2>2. c \in Int
    BY <1>0
  <2>3. b \in Strings
    BY <1>0, StringFacts, DefaultFacts
  <2>4. a \in Strings
    BY <1>0, StringFacts, DefaultFacts
  <2> QED
    BY <2>1, <2>2, <2>3, <2>4
<1>2. /\ n \in Transport
      /\ n.protocol = p /\ n.conn = c /\ n.block = b /\ n.alpn = a
      /\ n.key = t.key /\ n.data = t.data /\ n.parity = t.parity
  <2>1. n = [t EXCEPT !.protocol = p, !.conn = c, !.block = b, !.alpn = a]
    BY DEF NormTransport
  <2> HIDE DEF n, p, c, b, a
  <2> QED
    BY <1>1, <2>1 DEF Transport
<1>3. Protocol(n) = Protocol(t)
  <2>1. ~Blank(p) /\ (Blank(t.protocol) => p = "kcp") /\ (~Blank(t.protocol) => p = t.protocol)
    BY <1>0, StringFacts, DefaultFacts
  <2> HIDE DEF n, p
  <2> QED
    BY <1>2, <2>1, StringFacts DEF Protocol
<1>4. NormTransport(n) = n
  <2>1. /\ Default(p, "kcp") = p /\ (IF c < 1 THEN 6 ELSE c) = c
        /\ (IF kcp THEN Default(b, "aes-128-gcm") ELSE b) = b
        /\ (IF quic THEN Default(a, "paqetpremium") ELSE a) = a
    <3> HIDE DEF kcp, quic
    <3>1. Default(p, "kcp") = p
      BY <1>0, StringFacts, DefaultFacts
    <3>2. (IF c < 1 THEN 6 ELSE c) = c
      BY <1>0
    <3>3. (IF kcp THEN Default(b, "aes-128-gcm") ELSE b) = b
      BY StringFacts DEF Default
    <3>4. (IF quic THEN Default(a, "paqetpremium") ELSE a) = a
      BY StringFacts DEF Default
    <3> QED
      BY <3>1, <3>2, <3>3, <3>4
  <2> HIDE DEF n, p, c, b, a
  <2>2. NormTransport(n) = [n EXCEPT !.protocol = p, !.conn = c, !.block = b, !.alpn = a]
    BY <1>2, <1>3, <2>1 DEF NormTransport
  <2> QED
    BY <1>2, <2>2 DEF Transport
<1>5. TransportOK(t) => TransportOK(n)
  BY <1>2, <1>3 DEF TransportOK
<1> QED
  BY <1>2, <1>3, <1>4, <1>5

\* The range block is normalised once.
LEMMA NormRangeFacts ==
    ASSUME NEW r \in RangeMode
    PROVE  /\ NormRange(r) \in RangeMode
           /\ NormRange(r).enabled = r.enabled /\ NormRange(r).bind = r.bind
           /\ NormRange(NormRange(r)) = NormRange(r)
           /\ RangeOK(r) => RangeOK(NormRange(r))
<1> DEFINE n == NormRange(r)
<1>1. CASE ~r.enabled
  BY <1>1 DEF NormRange, RangeOK
<1>2. CASE r.enabled
  <2>0. r.protocol \in Strings /\ r.ports \in Seq(Seq(Int)) /\ r.exclude \in Seq(Seq(Int))
    BY DEF RangeMode
  <2>1. AllPorts \in Seq(Seq(Int)) /\ SshPort \in Seq(Seq(Int))
    BY DEF AllPorts, SshPort
  <2>2. AllPorts # NoList /\ SshPort # NoList
    <3>1. /\ AllPorts[1] = <<1, 65535>> /\ SshPort[1] = <<22>> /\ NoList[1] = <<>>
          /\ Len(<<1, 65535>>) = 2 /\ Len(<<22>>) = 1 /\ Len(<<>>) = 0
      BY DEF AllPorts, SshPort, NoList
    <3> QED
      BY <3>1
  <2> DEFINE p == Default(r.protocol, "tcp")
             a == IF r.ports = NoList THEN AllPorts ELSE r.ports
             b == IF r.exclude = NoList THEN SshPort ELSE r.exclude
  <2>3. p \in Strings /\ a \in Seq(Seq(Int)) /\ b \in Seq(Seq(Int))
    <3>1. p \in Strings
      BY <2>0, StringFacts, DefaultFacts
    <3> QED
      BY <2>0, <2>1, <3>1
  <2>4. Default(p, "tcp") = p /\ a # NoList /\ b # NoList
    <3>1. Default(p, "tcp") = p
      BY <2>0, StringFacts, DefaultFacts
    <3> QED
      BY <2>2, <3>1
  <2>5. n = [r EXCEPT !.protocol = p, !.ports = a, !.exclude = b]
    BY <1>2 DEF NormRange
  <2> HIDE DEF n, p, a, b
  <2>6. /\ n \in RangeMode /\ n.protocol = p /\ n.ports = a /\ n.exclude = b
        /\ n.enabled = r.enabled /\ n.bind = r.bind
    BY <2>3, <2>5 DEF RangeMode
  <2>7. NormRange(n) = n
    <3>1. NormRange(n) = [n EXCEPT !.protocol = p, !.ports = a, !.exclude = b]
      BY <1>2, <2>4, <2>6 DEF NormRange
    <3> QED
      BY <2>6, <3>1 DEF RangeMode
  <2>8. RangeOK(r) => RangeOK(n)
    BY <1>2, <2>6, <2>7 DEF RangeOK, n
  <2> QED
    BY <2>6, <2>7, <2>8 DEF n
<1> QED
  BY <1>1, <1>2 DEF RangeMode

\* The fields Validate may change, and the ones it keeps.
LEMMA NormalFields ==
    ASSUME NEW c \in Config
    PROVE  /\ Normal(c) \in Config
           /\ Normal(c).role = Fold[c.role]
           /\ Normal(c).transport = NormTransport(c.transport)
           /\ Normal(c).strategy = Default(c.strategy, "failover")
           /\ Normal(c).range = (IF Fold[c.role] = "client" THEN NormRange(c.range) ELSE c.range)
           /\ Normal(c).level = Default(c.level, "info")
           /\ \A f \in {"network", "servers", "server", "forward", "socks5", "listen", "admin"} :
                 Normal(c)[f] = c[f]
<1> DEFINE n == Normal(c)
           r == Fold[c.role]
           t == NormTransport(c.transport)
           s == Default(c.strategy, "failover")
           g == IF Fold[c.role] = "client" THEN NormRange(c.range) ELSE c.range
           l == Default(c.level, "info")
<1>0. c \in Fields /\ Len(c.servers) <= MaxServers
  BY DEF Config
<1>1. /\ c.role \in Strings /\ c.transport \in Transport /\ c.strategy \in Strings
      /\ c.range \in RangeMode /\ c.level \in Strings
  BY <1>0 DEF Fields
<1>2. r \in Strings
  BY <1>1, StringAssumption
<1>3. t \in Transport
  BY <1>1, NormTransportFacts
<1>4. s \in Strings /\ l \in Strings
  BY <1>1, StringFacts, DefaultFacts
<1>5. g \in RangeMode
  BY <1>1, NormRangeFacts
<1>6. n = [c EXCEPT !.role = r, !.transport = t, !.strategy = s, !.range = g, !.level = l]
  BY DEF Normal
<1> HIDE DEF n, r, t, s, g, l
<1>7. n \in Fields /\ n.servers = c.servers
  BY <1>0, <1>2, <1>3, <1>4, <1>5, <1>6 DEF Fields
<1>8. n \in Config
  BY <1>0, <1>7 DEF Config
<1>9. n.role = r /\ n.transport = t /\ n.strategy = s /\ n.range = g /\ n.level = l
  BY <1>0, <1>6 DEF Fields
<1>10. /\ n.network = c.network /\ n.servers = c.servers /\ n.server = c.server
       /\ n.forward = c.forward /\ n.socks5 = c.socks5 /\ n.listen = c.listen
       /\ n.admin = c.admin
  BY <1>0, <1>6 DEF Fields
<1> QED
  BY <1>8, <1>9, <1>10 DEF n, r, t, s, g, l

\* Two configurations with the same fields are the same.
LEMMA SameConfig ==
    ASSUME NEW c \in Config, NEW d \in Config,
           c.role = d.role, c.network = d.network, c.transport = d.transport,
           c.strategy = d.strategy, c.servers = d.servers, c.server = d.server,
           c.forward = d.forward, c.socks5 = d.socks5, c.range = d.range,
           c.listen = d.listen, c.admin = d.admin, c.level = d.level
    PROVE  c = d
BY DEF Config, Fields

\* Validate accepts what it made, and does not change it again.
LEMMA NormalFacts ==
    ASSUME NEW c \in Config
    PROVE  /\ Normal(Normal(c)) = Normal(c)
           /\ Valid(c) => Valid(Normal(c))
<1> DEFINE n == Normal(c)
<1>0. /\ c \in Fields
      /\ c.role \in Strings /\ c.transport \in Transport /\ c.strategy \in Strings
      /\ c.range \in RangeMode /\ c.level \in Strings
  BY DEF Config, Fields
<1>1. /\ n \in Config /\ n.role = Fold[c.role] /\ n.transport = NormTransport(c.transport)
      /\ n.strategy = Default(c.strategy, "failover")
      /\ n.range = (IF Fold[c.role] = "client" THEN NormRange(c.range) ELSE c.range)
      /\ n.level = Default(c.level, "info")
  BY NormalFields
<1>2. /\ n.network = c.network /\ n.servers = c.servers /\ n.server = c.server
      /\ n.forward = c.forward /\ n.socks5 = c.socks5 /\ n.listen = c.listen
      /\ n.admin = c.admin
  BY NormalFields
<1>3. Fold[n.role] = n.role
  BY <1>0, <1>1, StringAssumption
<1> HIDE DEF n
<1>4. Normal(n) = n
  <2> DEFINE m == Normal(n)
  <2>1. /\ m \in Config /\ m.role = Fold[n.role] /\ m.transport = NormTransport(n.transport)
        /\ m.strategy = Default(n.strategy, "failover")
        /\ m.range = (IF Fold[n.role] = "client" THEN NormRange(n.range) ELSE n.range)
        /\ m.level = Default(n.level, "info")
    BY <1>1, NormalFields
  <2>2. /\ m.network = n.network /\ m.servers = n.servers /\ m.server = n.server
        /\ m.forward = n.forward /\ m.socks5 = n.socks5 /\ m.listen = n.listen
        /\ m.admin = n.admin
    BY <1>1, NormalFields
  <2> HIDE DEF m
  <2>3. m.role = n.role
    BY <1>3, <2>1
  <2>4. m.transport = n.transport
    BY <1>0, <1>1, <2>1, NormTransportFacts
  <2>5. m.strategy = n.strategy /\ m.level = n.level
    <3>1. Default(Default(c.strategy, "failover"), "failover") = Default(c.strategy, "failover")
      BY StringFacts DEF Default
    <3>2. Default(Default(c.level, "info"), "info") = Default(c.level, "info")
      BY StringFacts DEF Default
    <3> QED
      BY <1>1, <2>1, <3>1, <3>2
  <2>6. m.range = n.range
    BY <1>0, <1>1, <1>3, <2>1, NormRangeFacts
  <2> QED
    BY <1>1, <2>1, <2>2, <2>3, <2>4, <2>5, <2>6, SameConfig DEF m
<1>5. ASSUME Valid(c) PROVE Valid(n)
  <2>1. TransportOK(n.transport)
    BY <1>0, <1>1, <1>5, NormTransportFacts DEF Valid
  <2>2. upstreamNameSet(n) = upstreamNameSet(c)
    BY <1>2 DEF upstreamNameSet, NameOf
  <2>3. ASSUME Fold[n.role] = "client" PROVE ClientOK(n)
    <3>1. n.range = NormRange(c.range) /\ ClientOK(c)
      BY <1>1, <1>3, <1>5, <2>3 DEF Valid
    <3>2. RangeOK(n.range) /\ n.range.enabled = c.range.enabled /\ n.range.bind = c.range.bind
      BY <1>0, <3>1, NormRangeFacts DEF ClientOK
    <3>3. \A b : BindOK(n, b) <=> BindOK(c, b)
      BY <2>2 DEF BindOK
    <3> QED
      BY <1>2, <3>1, <3>2, <3>3 DEF ClientOK
  <2>4. ASSUME NEW i \in DOMAIN n.servers PROVE ServerOK(n, n.servers[i])
    <3>1. NormTransport(n.transport) = NormTransport(c.transport)
      BY <1>0, <1>1, NormTransportFacts
    <3>2. ServerOK(c, c.servers[i])
      BY <1>2, <1>5 DEF Valid
    <3> QED
      BY <1>2, <3>1, <3>2 DEF ServerOK
  <2> QED
    BY <1>1, <1>2, <1>3, <1>5, <2>1, <2>3, <2>4 DEF Valid
<1> QED
  BY <1>4, <1>5 DEF n

-----------------------------------------------------------------------------
(* The editor's copy *)

LEMMA RedactFacts ==
    ASSUME NEW s \in Strings
    PROVE  /\ Redact(s) \in Strings /\ isRedacted(Redact(s))
           /\ Redact("") = "" /\ isRedacted("") /\ isRedacted(Mark)
BY StringFacts DEF Redact, isRedacted, Blank

\* The types of the parts that hold secrets.
LEMMA ConfigParts ==
    ASSUME NEW c \in Config
    PROVE  /\ c \in Fields /\ Len(c.servers) <= MaxServers
           /\ c.transport \in Transport /\ c.transport.key \in Strings
           /\ c.admin \in Admin /\ c.admin.token \in Strings /\ c.admin.on \in BOOLEAN
           /\ (~c.admin.on => c.admin.token = "")
           /\ c.servers \in Seq(Server) /\ DOMAIN c.servers = 1..Len(c.servers)
           /\ \A i \in DOMAIN c.servers :
                 /\ c.servers[i] \in Server /\ c.servers[i].key \in Strings
                 /\ c.servers[i].name \in Strings
           /\ c.socks5 \in Seq(Socks) /\ DOMAIN c.socks5 = 1..Len(c.socks5)
           /\ \A i \in DOMAIN c.socks5 :
                 /\ c.socks5[i] \in Socks /\ c.socks5[i].pass \in Strings
                 /\ c.socks5[i].auth \in BOOLEAN
                 /\ ~c.socks5[i].auth => c.socks5[i].pass = ""
           /\ Len(c.servers) \in Nat /\ Len(c.socks5) \in Nat
<1>1. c \in Fields /\ Len(c.servers) <= MaxServers
  BY DEF Config
<1>2. /\ c.transport \in Transport /\ c.admin \in Admin
      /\ c.servers \in Seq(Server) /\ c.socks5 \in Seq(Socks)
  BY <1>1 DEF Fields
<1>3. c.transport.key \in Strings
  BY <1>2 DEF Transport
<1>4. c.admin.token \in Strings /\ c.admin.on \in BOOLEAN /\ (~c.admin.on => c.admin.token = "")
  BY <1>2, StringFacts DEF Admin
<1>5. \A s \in Server : s.key \in Strings /\ s.name \in Strings
  BY DEF Server
<1>6. \A k \in Socks : k.pass \in Strings /\ k.auth \in BOOLEAN /\ (~k.auth => k.pass = "")
  BY StringFacts DEF Socks
<1>7. /\ DOMAIN c.servers = 1..Len(c.servers) /\ \A i \in DOMAIN c.servers : c.servers[i] \in Server
      /\ DOMAIN c.socks5 = 1..Len(c.socks5) /\ \A i \in DOMAIN c.socks5 : c.socks5[i] \in Socks
      /\ Len(c.servers) \in Nat /\ Len(c.socks5) \in Nat
  BY <1>2
<1> QED
  BY <1>1, <1>2, <1>3, <1>4, <1>5, <1>6, <1>7

\* The other fields of two configurations are the same.
SameRest(c, d) ==
    /\ c.role = d.role /\ c.network = d.network /\ c.strategy = d.strategy
    /\ c.server = d.server /\ c.forward = d.forward /\ c.range = d.range
    /\ c.listen = d.listen /\ c.level = d.level

\* A configuration with other secrets.
With(c, t, a, S, K) ==
    [c EXCEPT !.transport = t, !.admin = a, !.servers = S, !.socks5 = K]

LEMMA WithFields ==
    ASSUME NEW c \in Config, NEW t \in Transport, NEW a \in Admin,
           NEW S \in Seq(Server), NEW K \in Seq(Socks), Len(S) <= MaxServers
    PROVE  LET d == With(c, t, a, S, K)
           IN  /\ d \in Config /\ SameRest(d, c)
               /\ d.transport = t /\ d.admin = a /\ d.servers = S /\ d.socks5 = K
<1> DEFINE d == With(c, t, a, S, K)
<1>0. c \in Fields
  BY DEF Config
<1>1. d \in Fields
  BY <1>0 DEF With, Fields
<1>2. d.transport = t /\ d.admin = a /\ d.servers = S /\ d.socks5 = K
  BY <1>0 DEF With, Fields
<1>3. SameRest(d, c)
  BY <1>0 DEF With, Fields, SameRest
<1> HIDE DEF d
<1> QED
  BY <1>1, <1>2, <1>3 DEF Config, d

\* A server, a rule or a block with another secret is one still.
LEMMA ReplaceServerKey ==
    ASSUME NEW s \in Server, NEW k \in Strings
    PROVE  /\ [s EXCEPT !.key = k] \in Server
           /\ [s EXCEPT !.key = k].key = k /\ [s EXCEPT !.key = k].name = s.name
           /\ [[s EXCEPT !.key = k] EXCEPT !.key = s.key] = s
BY DEF Server

LEMMA ReplacePass ==
    ASSUME NEW k \in Socks, NEW p \in Strings, ~k.auth => p = ""
    PROVE  /\ [k EXCEPT !.pass = p] \in Socks
           /\ [k EXCEPT !.pass = p].pass = p /\ [k EXCEPT !.pass = p].auth = k.auth
           /\ [k EXCEPT !.pass = p].user = k.user
           /\ [[k EXCEPT !.pass = p] EXCEPT !.pass = k.pass] = k
<1>1. CASE k \in [auth : {TRUE}, user : Strings, pass : Strings]
  BY <1>1 DEF Socks
<1>2. CASE k \in [auth : {FALSE}, user : {""}, pass : {""}]
  BY <1>2 DEF Socks
<1> QED
  BY <1>1, <1>2 DEF Socks

LEMMA ReplaceToken ==
    ASSUME NEW a \in Admin, NEW p \in Strings, ~a.on => p = ""
    PROVE  /\ [a EXCEPT !.token = p] \in Admin
           /\ [a EXCEPT !.token = p].token = p /\ [a EXCEPT !.token = p].on = a.on
           /\ [[a EXCEPT !.token = p] EXCEPT !.token = a.token] = a
<1>1. CASE a \in [on : {TRUE}, token : Strings]
  BY <1>1 DEF Admin
<1>2. CASE a \in [on : {FALSE}, token : {""}]
  BY <1>2 DEF Admin
<1> QED
  BY <1>1, <1>2 DEF Admin

LEMMA ReplaceKey ==
    ASSUME NEW t \in Transport, NEW p \in Strings
    PROVE  /\ [t EXCEPT !.key = p] \in Transport /\ [t EXCEPT !.key = p].key = p
           /\ [[t EXCEPT !.key = p] EXCEPT !.key = t.key] = t
BY DEF Transport

\* A function on 1..n is a sequence of length n.
LEMMA FunctionIsSeq ==
    ASSUME NEW T, NEW n \in Nat, NEW F \in [1..n -> T]
    PROVE  F \in Seq(T) /\ Len(F) = n
OBVIOUS

\* A set of naturals has a least element.
LEMMA LeastElement ==
    ASSUME NEW T \in SUBSET Nat, T # {}
    PROVE  \E j \in T : \A k \in T : j <= k
<1> DEFINE R == {p \in Nat \X Nat : p[1] < p[2]}
<1>1. R = OpToRel(<, Nat)
  BY DEF OpToRel
<1>2. IsWellFoundedOn(R, Nat)
  BY <1>1, NatLessThanWellFounded
<1>3. \E j \in T : \A k \in T : ~(<<k, j>> \in R)
  <2> HIDE DEF R
  <2> QED
    BY <1>2, WFMin
<1>4. \A k, j \in Nat : ~(<<k, j>> \in R) => j <= k
  OBVIOUS
<1> HIDE DEF R
<1> QED
  BY <1>3, <1>4

\* The redacted copy is a configuration, and has something redacted wherever the
\* original has a secret.
LEMMA RedactFields ==
    ASSUME NEW c \in Config
    PROVE  LET d == redactConfig(c)
           IN  /\ d \in Config /\ SameRest(d, c)
               /\ d.transport = [c.transport EXCEPT !.key = Redact(c.transport.key)]
               /\ d.admin = [c.admin EXCEPT !.token = Redact(c.admin.token)]
               /\ d.servers = [i \in DOMAIN c.servers |->
                                 [c.servers[i] EXCEPT !.key = Redact(c.servers[i].key)]]
               /\ d.socks5 = [i \in DOMAIN c.socks5 |->
                                [c.socks5[i] EXCEPT !.pass = IF c.socks5[i].pass = "" THEN ""
                                                             ELSE Mark]]
               /\ Len(d.servers) = Len(c.servers)
<1> DEFINE t == [c.transport EXCEPT !.key = Redact(c.transport.key)]
           a == [c.admin EXCEPT !.token = Redact(c.admin.token)]
           S == [i \in DOMAIN c.servers |->
                    [c.servers[i] EXCEPT !.key = Redact(c.servers[i].key)]]
           K == [i \in DOMAIN c.socks5 |->
                    [c.socks5[i] EXCEPT !.pass = IF c.socks5[i].pass = "" THEN "" ELSE Mark]]
<1>1. t \in Transport
  BY ConfigParts, RedactFacts, ReplaceKey
<1>2. a \in Admin
  BY ConfigParts, RedactFacts, ReplaceToken
<1>3. S \in Seq(Server) /\ Len(S) = Len(c.servers)
  <2>1. ASSUME NEW i \in DOMAIN c.servers
        PROVE  [c.servers[i] EXCEPT !.key = Redact(c.servers[i].key)] \in Server
    <3>1. c.servers[i] \in Server /\ Redact(c.servers[i].key) \in Strings
      BY ConfigParts, RedactFacts
    <3> QED
      BY <3>1, ReplaceServerKey
  <2>2. S \in [DOMAIN c.servers -> Server]
    BY <2>1
  <2> HIDE DEF S
  <2>3. S \in [1..Len(c.servers) -> Server] /\ Len(c.servers) \in Nat
    BY <2>2, ConfigParts
  <2> QED
    BY <2>3, FunctionIsSeq
<1>4. K \in Seq(Socks)
  <2>1. ASSUME NEW i \in DOMAIN c.socks5
        PROVE  [c.socks5[i] EXCEPT !.pass = IF c.socks5[i].pass = "" THEN "" ELSE Mark] \in Socks
    <3> DEFINE p == IF c.socks5[i].pass = "" THEN "" ELSE Mark
    <3>1. c.socks5[i] \in Socks /\ p \in Strings /\ (~c.socks5[i].auth => p = "")
      BY ConfigParts, StringFacts
    <3> HIDE DEF p
    <3>2. [c.socks5[i] EXCEPT !.pass = p] \in Socks
      BY <3>1, ReplacePass
    <3> QED
      BY <3>2 DEF p
  <2>2. K \in [DOMAIN c.socks5 -> Socks]
    BY <2>1
  <2> HIDE DEF K
  <2>3. K \in [1..Len(c.socks5) -> Socks] /\ Len(c.socks5) \in Nat
    BY <2>2, ConfigParts
  <2> QED
    BY <2>3, FunctionIsSeq
<1>5. redactConfig(c) = With(c, t, a, S, K)
  BY DEF redactConfig, With
<1>6. Len(S) <= MaxServers
  BY <1>3, ConfigParts
<1> HIDE DEF t, a, S, K
<1>7. /\ With(c, t, a, S, K) \in Config /\ SameRest(With(c, t, a, S, K), c)
      /\ With(c, t, a, S, K).transport = t /\ With(c, t, a, S, K).admin = a
      /\ With(c, t, a, S, K).servers = S /\ With(c, t, a, S, K).socks5 = K
  BY <1>1, <1>2, <1>3, <1>4, <1>6, WithFields
<1> QED
  BY <1>3, <1>5, <1>7 DEF t, a, S, K

\* A server's key is taken from the running configuration, or kept.
LEMMA LookupFacts ==
    ASSUME NEW S \in Seq(Server), NEW name, NEW i
    PROVE  /\ lookupUpstreamKey(S, name, i) \in Strings
           /\ Named(S, name) # {} => \E j \in Named(S, name) :
                 lookupUpstreamKey(S, name, i) = S[j].key
<1> DEFINE N == Named(S, name)
<1>0. DOMAIN S = 1..Len(S) /\ Len(S) \in Nat /\ \A j \in DOMAIN S : S[j] \in Server
  OBVIOUS
<1>1. N \subseteq DOMAIN S /\ N \in SUBSET Nat
  <2>1. N \subseteq DOMAIN S
    BY DEF Named
  <2>2. DOMAIN S \subseteq Nat
    BY <1>0
  <2> QED
    BY <2>1, <2>2
<1>2. \A j \in DOMAIN S : S[j].key \in Strings
  BY <1>0 DEF Server
<1>3. CASE N = {}
  BY <1>2, <1>3, StringFacts DEF lookupUpstreamKey
<1>4. CASE N # {}
  <2>1. \E j \in N : \A k \in N : j <= k
    <3> HIDE DEF N
    <3> QED
      BY <1>1, <1>4, LeastElement
  <2> DEFINE f == CHOOSE j \in N : \A k \in N : j <= k
  <2>2. f \in N
    BY <2>1
  <2>3. lookupUpstreamKey(S, name, i) = S[f].key
    BY <1>4 DEF lookupUpstreamKey
  <2> HIDE DEF f, N
  <2> QED
    BY <1>1, <1>2, <2>2, <2>3 DEF N
<1> QED
  BY <1>3, <1>4

\* What restoreSecrets makes of a copy is a configuration; only its secrets change.
LEMMA RestoreFields ==
    ASSUME NEW in \in Config, NEW cur \in Config
    PROVE  LET r == restoreSecrets(in, cur)
           IN  /\ r \in Config /\ SameRest(r, in)
               /\ r.transport = [in.transport EXCEPT !.key = IF isRedacted(in.transport.key)
                                    THEN cur.transport.key ELSE in.transport.key]
               /\ r.admin = [in.admin EXCEPT
                               !.token = IF in.admin.on /\ cur.admin.on /\ isRedacted(in.admin.token)
                                         THEN cur.admin.token ELSE in.admin.token]
               /\ r.servers = [i \in DOMAIN in.servers |-> [in.servers[i] EXCEPT
                                 !.key = restoreKey(in.servers[i], cur.servers, i)]]
               /\ r.socks5 = [i \in DOMAIN in.socks5 |-> [in.socks5[i] EXCEPT
                                !.pass = restorePass(in.socks5[i], cur.socks5, i)]]
<1> DEFINE tk == IF isRedacted(in.transport.key) THEN cur.transport.key ELSE in.transport.key
           ak == IF in.admin.on /\ cur.admin.on /\ isRedacted(in.admin.token)
                 THEN cur.admin.token ELSE in.admin.token
           t == [in.transport EXCEPT !.key = tk]
           a == [in.admin EXCEPT !.token = ak]
           S == [i \in DOMAIN in.servers |->
                   [in.servers[i] EXCEPT !.key = restoreKey(in.servers[i], cur.servers, i)]]
           K == [i \in DOMAIN in.socks5 |->
                   [in.socks5[i] EXCEPT !.pass = restorePass(in.socks5[i], cur.socks5, i)]]
<1>1. t \in Transport
  <2>1. tk \in Strings /\ in.transport \in Transport
    BY ConfigParts
  <2> HIDE DEF tk
  <2> QED
    BY <2>1, ReplaceKey
<1>2. a \in Admin
  <2>1. ak \in Strings /\ (~in.admin.on => ak = "") /\ in.admin \in Admin
    BY ConfigParts
  <2> HIDE DEF ak
  <2> QED
    BY <2>1, ReplaceToken
<1>3. S \in Seq(Server) /\ Len(S) = Len(in.servers)
  <2>1. ASSUME NEW i \in DOMAIN in.servers
        PROVE  [in.servers[i] EXCEPT !.key = restoreKey(in.servers[i], cur.servers, i)] \in Server
    <3>1. cur.servers \in Seq(Server) /\ in.servers[i] \in Server /\ in.servers[i].key \in Strings
      BY ConfigParts
    <3>2. restoreKey(in.servers[i], cur.servers, i) \in Strings
      BY <3>1, LookupFacts DEF restoreKey
    <3> QED
      BY <3>1, <3>2, ReplaceServerKey
  <2>2. S \in [DOMAIN in.servers -> Server]
    BY <2>1
  <2> HIDE DEF S
  <2>3. S \in [1..Len(in.servers) -> Server] /\ Len(in.servers) \in Nat
    BY <2>2, ConfigParts
  <2> QED
    BY <2>3, FunctionIsSeq
<1>4. K \in Seq(Socks)
  <2>1. ASSUME NEW i \in DOMAIN in.socks5
        PROVE  [in.socks5[i] EXCEPT !.pass = restorePass(in.socks5[i], cur.socks5, i)] \in Socks
    <3> DEFINE p == restorePass(in.socks5[i], cur.socks5, i)
    <3>1. in.socks5[i] \in Socks /\ p \in Strings /\ (~in.socks5[i].auth => p = "")
      BY ConfigParts DEF restorePass
    <3> HIDE DEF p
    <3>2. [in.socks5[i] EXCEPT !.pass = p] \in Socks
      BY <3>1, ReplacePass
    <3> QED
      BY <3>2 DEF p
  <2>2. K \in [DOMAIN in.socks5 -> Socks]
    BY <2>1
  <2> HIDE DEF K
  <2>3. K \in [1..Len(in.socks5) -> Socks] /\ Len(in.socks5) \in Nat
    BY <2>2, ConfigParts
  <2> QED
    BY <2>3, FunctionIsSeq
<1>5. restoreSecrets(in, cur) = With(in, t, a, S, K)
  BY DEF restoreSecrets, With
<1>6. Len(S) <= MaxServers
  BY <1>3, ConfigParts
<1> HIDE DEF t, a, S, K
<1>7. /\ With(in, t, a, S, K) \in Config /\ SameRest(With(in, t, a, S, K), in)
      /\ With(in, t, a, S, K).transport = t /\ With(in, t, a, S, K).admin = a
      /\ With(in, t, a, S, K).servers = S /\ With(in, t, a, S, K).socks5 = K
  BY <1>1, <1>2, <1>3, <1>4, <1>6, WithFields
<1> QED
  BY <1>5, <1>7 DEF t, a, S, K

\* A named server among servers of distinct names is found by its name; one
\* without name is found at its position.
LEMMA LookupOwn ==
    ASSUME NEW S \in Seq(Server), DistinctNames(S), NEW i \in DOMAIN S
    PROVE  lookupUpstreamKey(S, S[i].name, i) = S[i].key
<1> DEFINE N == Named(S, S[i].name)
<1>1. CASE S[i].name = ""
  <2>1. N = {}
    BY <1>1 DEF Named
  <2> QED
    BY <2>1 DEF lookupUpstreamKey
<1>2. CASE S[i].name # ""
  <2>1. N = {i}
    BY <1>2 DEF Named, DistinctNames
  <2>2. N # {}
    BY <2>1
  <2>3. \E j \in N : lookupUpstreamKey(S, S[i].name, i) = S[j].key
    BY <2>2, LookupFacts
  <2> HIDE DEF N
  <2> QED
    BY <2>1, <2>3
<1> QED
  BY <1>1, <1>2

\* A copy that comes back as it was handed out is the original again.
LEMMA RestoreRedacted ==
    ASSUME NEW c \in Config, DistinctNames(c.servers)
    PROVE  restoreSecrets(redactConfig(c), c) = c
<1> DEFINE d == redactConfig(c)
           r == restoreSecrets(d, c)
<1>1. /\ d \in Config /\ SameRest(d, c)
      /\ d.transport = [c.transport EXCEPT !.key = Redact(c.transport.key)]
      /\ d.admin = [c.admin EXCEPT !.token = Redact(c.admin.token)]
  BY RedactFields
<1>2. /\ d.servers = [i \in DOMAIN c.servers |->
                        [c.servers[i] EXCEPT !.key = Redact(c.servers[i].key)]]
      /\ d.socks5 = [i \in DOMAIN c.socks5 |->
                       [c.socks5[i] EXCEPT !.pass = IF c.socks5[i].pass = "" THEN "" ELSE Mark]]
  BY RedactFields
<1> HIDE DEF d
<1>3. /\ r \in Config /\ SameRest(r, d)
      /\ r.transport = [d.transport EXCEPT !.key = IF isRedacted(d.transport.key)
                          THEN c.transport.key ELSE d.transport.key]
      /\ r.admin = [d.admin EXCEPT
                      !.token = IF d.admin.on /\ c.admin.on /\ isRedacted(d.admin.token)
                                THEN c.admin.token ELSE d.admin.token]
  BY <1>1, RestoreFields
<1>4. /\ r.servers = [i \in DOMAIN d.servers |-> [d.servers[i] EXCEPT
                        !.key = restoreKey(d.servers[i], c.servers, i)]]
      /\ r.socks5 = [i \in DOMAIN d.socks5 |-> [d.socks5[i] EXCEPT
                       !.pass = restorePass(d.socks5[i], c.socks5, i)]]
  BY <1>1, RestoreFields
<1> HIDE DEF r
<1>5. r.transport = c.transport
  <2>1. c.transport \in Transport /\ Redact(c.transport.key) \in Strings
        /\ isRedacted(Redact(c.transport.key))
    BY ConfigParts, RedactFacts
  <2>2. d.transport.key = Redact(c.transport.key)
    BY <1>1, <2>1 DEF Transport
  <2>3. r.transport = [[c.transport EXCEPT !.key = Redact(c.transport.key)]
                         EXCEPT !.key = c.transport.key]
    BY <1>1, <1>3, <2>1, <2>2
  <2> QED
    BY <2>1, <2>3 DEF Transport
<1>6. r.admin = c.admin
  <2> DEFINE p == Redact(c.admin.token)
  <2>1. /\ c.admin \in Admin /\ p \in Strings /\ isRedacted(p) /\ c.admin.on \in BOOLEAN
        /\ ~c.admin.on => p = "" /\ c.admin.token = ""
    BY ConfigParts, RedactFacts
  <2> HIDE DEF p
  <2>2. /\ d.admin.token = p /\ d.admin.on = c.admin.on
        /\ [d.admin EXCEPT !.token = c.admin.token] = c.admin
    <3>1. d.admin = [c.admin EXCEPT !.token = p]
      BY <1>1 DEF p
    <3>2. CASE c.admin \in [on : {TRUE}, token : Strings]
      BY <2>1, <3>1, <3>2
    <3>3. CASE c.admin \in [on : {FALSE}, token : {""}]
      BY <2>1, <3>1, <3>3
    <3> QED
      BY <2>1, <3>2, <3>3 DEF Admin
  <2>3. r.admin = [d.admin EXCEPT !.token = c.admin.token]
    BY <1>3, <2>1, <2>2
  <2> QED
    BY <2>2, <2>3
<1>7. r.servers = c.servers
  <2>1. ASSUME NEW i \in DOMAIN c.servers
        PROVE  [d.servers[i] EXCEPT !.key = restoreKey(d.servers[i], c.servers, i)] = c.servers[i]
    <3> DEFINE s == c.servers[i]
               k == Redact(s.key)
    <3>1. /\ s \in Server /\ s.key \in Strings /\ k \in Strings /\ isRedacted(k)
          /\ c.servers \in Seq(Server)
      BY ConfigParts, RedactFacts
    <3>2. s.key = "" => k = ""
      BY <3>1, RedactFacts
    <3>3. d.servers[i] = [s EXCEPT !.key = k]
      BY <1>2
    <3>4. lookupUpstreamKey(c.servers, s.name, i) = s.key
      BY <3>1, LookupOwn
    <3> HIDE DEF s, k
    <3>5. d.servers[i].key = k /\ d.servers[i].name = s.name
          /\ [d.servers[i] EXCEPT !.key = s.key] = s
      BY <3>1, <3>3 DEF Server
    <3>6. restoreKey(d.servers[i], c.servers, i) = s.key
      BY <3>1, <3>2, <3>4, <3>5 DEF restoreKey
    <3> QED
      BY <3>5, <3>6 DEF s
  <2>2. DOMAIN d.servers = DOMAIN c.servers
    BY <1>2
  <2>3. r.servers = [i \in DOMAIN c.servers |-> c.servers[i]]
    BY <1>4, <2>1, <2>2
  <2>4. c.servers \in Seq(Server)
    BY ConfigParts
  <2> QED
    BY <2>3, <2>4
<1>8. r.socks5 = c.socks5
  <2>1. ASSUME NEW i \in DOMAIN c.socks5
        PROVE  [d.socks5[i] EXCEPT !.pass = restorePass(d.socks5[i], c.socks5, i)] = c.socks5[i]
    <3> DEFINE s == c.socks5[i]
               k == IF s.pass = "" THEN "" ELSE Mark
    <3>1. /\ s \in Socks /\ s.pass \in Strings /\ k \in Strings /\ isRedacted(k)
          /\ s.auth \in BOOLEAN /\ (~s.auth => k = "" /\ s.pass = "")
      BY ConfigParts, RedactFacts, StringFacts
    <3>2. d.socks5[i] = [s EXCEPT !.pass = k]
      BY <1>2
    <3> HIDE DEF k
    <3>3. /\ d.socks5[i].pass = k /\ d.socks5[i].auth = s.auth
          /\ [d.socks5[i] EXCEPT !.pass = s.pass] = s
      <4>1. CASE s \in [auth : {TRUE}, user : Strings, pass : Strings]
        BY <3>1, <3>2, <4>1
      <4>2. CASE s \in [auth : {FALSE}, user : {""}, pass : {""}]
        BY <3>1, <3>2, <4>2
      <4> QED
        BY <3>1, <4>1, <4>2 DEF Socks
    <3>4. restorePass(d.socks5[i], c.socks5, i) = s.pass
      BY <3>1, <3>3 DEF restorePass
    <3> QED
      BY <3>3, <3>4
  <2>2. DOMAIN d.socks5 = DOMAIN c.socks5
    BY <1>2
  <2>3. r.socks5 = [i \in DOMAIN c.socks5 |-> c.socks5[i]]
    BY <1>4, <2>1, <2>2
  <2>4. c.socks5 \in Seq(Socks)
    BY ConfigParts
  <2> QED
    BY <2>3, <2>4
<1>9. SameRest(r, c)
  BY <1>1, <1>3 DEF SameRest
<1> QED
  BY <1>3, <1>5, <1>6, <1>7, <1>8, <1>9, SameConfig DEF SameRest, r, d

-----------------------------------------------------------------------------
(* The process and its editors *)

\* Dropping an element shortens a sequence by one.
LEMMA WithoutType ==
    ASSUME NEW T, NEW S \in Seq(T), NEW i \in DOMAIN S
    PROVE  Without(S, i) \in Seq(T) /\ Len(Without(S, i)) = Len(S) - 1
<1>1. i \in 1..Len(S) /\ Len(S) \in Nat
  OBVIOUS
<1> DEFINE A == SubSeq(S, 1, i - 1)
           B == SubSeq(S, i + 1, Len(S))
<1>2. A \in Seq(T) /\ Len(A) = i - 1
  BY <1>1, SubSeqProperties
<1>3. B \in Seq(T) /\ Len(B) = Len(S) - i
  BY <1>1, SubSeqProperties
<1> HIDE DEF A, B
<1>4. A \o B \in Seq(T) /\ Len(A \o B) = Len(A) + Len(B)
  BY <1>2, <1>3, ConcatProperties
<1>5. Without(S, i) = A \o B
  BY DEF Without, A, B
<1> QED
  BY <1>1, <1>2, <1>3, <1>4, <1>5

\* A copy with other servers, SOCKS5 rules or bindings is a configuration.
LEMMA OtherServers ==
    ASSUME NEW d \in Config, NEW S \in Seq(Server), Len(S) <= MaxServers
    PROVE  [d EXCEPT !.servers = S] \in Config
BY DEF Config, Fields

LEMMA OtherRules ==
    ASSUME NEW d \in Config
    PROVE  /\ \A K \in Seq(Socks) : [d EXCEPT !.socks5 = K] \in Config
           /\ \A F \in Seq(Strings) : [d EXCEPT !.forward = F] \in Config
BY DEF Config, Fields

LEMMA TypedFacts ==
    /\ \A n \in Names : n \in Strings
    /\ \A k \in Keys : k \in Strings
BY NameAssumption

\* Every change of a copy leaves a configuration.
LEMMA ChangeKeepsType ==
    ASSUME NEW e \in Editors, editor[e].doc \in Config, Change(e)
    PROVE  /\ \E d \in Config : Changed(e, d)
           /\ UNCHANGED <<file, running, turns, granted, strays>>
<1> DEFINE d == editor[e].doc
           S == d.servers
<1>1. /\ S \in Seq(Server) /\ Len(S) \in Nat /\ Len(S) <= MaxServers
      /\ \A i \in DOMAIN S : S[i] \in Server
      /\ d.socks5 \in Seq(Socks) /\ MaxServers \in Nat /\ d \in Config
  BY ConfigParts, BoundAssumption
<1>2. d.forward \in Seq(Strings)
  BY DEF Config, Fields
<1>3. UNCHANGED <<file, running, turns, granted, strays>>
  BY DEF Change
<1>4. ASSUME NEW i \in DOMAIN S, Changed(e, [d EXCEPT !.servers = Without(S, i)])
      PROVE  \E x \in Config : Changed(e, x)
  <2>1. Without(S, i) \in Seq(Server) /\ Len(Without(S, i)) <= MaxServers
    BY <1>1, WithoutType
  <2>2. [d EXCEPT !.servers = Without(S, i)] \in Config
    BY <1>1, <2>1, OtherServers
  <2> QED
    BY <1>4, <2>2
<1>5. ASSUME NEW i \in DOMAIN S, Changed(e, [d EXCEPT !.servers = Without(S, i) \o <<S[i]>>])
      PROVE  \E x \in Config : Changed(e, x)
  <2>1. Without(S, i) \in Seq(Server) /\ Len(Without(S, i)) = Len(S) - 1
    BY <1>1, WithoutType
  <2>2. <<S[i]>> \in Seq(Server) /\ Len(<<S[i]>>) = 1
    BY <1>1
  <2> DEFINE W == Without(S, i) \o <<S[i]>>
  <2>3. W \in Seq(Server) /\ Len(W) <= MaxServers
    BY <1>1, <2>1, <2>2, ConcatProperties
  <2> HIDE DEF W
  <2>4. [d EXCEPT !.servers = W] \in Config
    BY <1>1, <2>3, OtherServers
  <2> QED
    BY <1>5, <2>4 DEF W
<1>6. ASSUME NEW i \in DOMAIN S, NEW n \in Names,
             Changed(e, [d EXCEPT !.servers[i].name = n])
      PROVE  \E x \in Config : Changed(e, x)
  <2> DEFINE W == [S EXCEPT ![i] = [S[i] EXCEPT !.name = n]]
  <2>1. [S[i] EXCEPT !.name = n] \in Server
    BY <1>1, TypedFacts DEF Server
  <2>2. W \in Seq(Server) /\ Len(W) <= MaxServers
    BY <1>1, <2>1, ExceptSeq
  <2>3. [d EXCEPT !.servers[i].name = n] = [d EXCEPT !.servers = W]
    BY DEF Config, Fields
  <2> HIDE DEF W
  <2>4. [d EXCEPT !.servers = W] \in Config
    BY <1>1, <2>2, OtherServers
  <2> QED
    BY <1>6, <2>3, <2>4
<1>7. ASSUME NEW i \in DOMAIN S, NEW k \in Keys,
             Changed(e, [d EXCEPT !.servers[i].key = k])
      PROVE  \E x \in Config : Changed(e, x)
  <2> DEFINE W == [S EXCEPT ![i] = [S[i] EXCEPT !.key = k]]
  <2>1. [S[i] EXCEPT !.key = k] \in Server
    BY <1>1, TypedFacts DEF Server
  <2>2. W \in Seq(Server) /\ Len(W) <= MaxServers
    BY <1>1, <2>1, ExceptSeq
  <2>3. [d EXCEPT !.servers[i].key = k] = [d EXCEPT !.servers = W]
    BY DEF Config, Fields
  <2> HIDE DEF W
  <2>4. [d EXCEPT !.servers = W] \in Config
    BY <1>1, <2>2, OtherServers
  <2> QED
    BY <1>7, <2>3, <2>4
<1>8. ASSUME NEW n \in Names, Len(S) < MaxServers,
             Changed(e, [d EXCEPT !.servers = S \o <<NewServer(n)>>])
      PROVE  \E x \in Config : Changed(e, x)
  <2>1. NewServer(n) \in Server
    <3>1. (CHOOSE x \in Addrs : TRUE) \in Strings
      BY StringAssumption
    <3> DEFINE a == CHOOSE x \in Addrs : TRUE
               k == "kcp"
               b == ""
               z == 0
               w == 1
               t == [protocol |-> k, conn |-> z, block |-> b, key |-> b, data |-> z,
                     parity |-> z, alpn |-> b]
    <3>2. /\ a \in Strings /\ n \in Strings /\ k \in Strings /\ b \in Strings
          /\ z \in Int /\ w \in Int
      <4>1. n \in Strings
        BY TypedFacts
      <4>2. k \in Strings /\ b \in Strings
        BY StringFacts
      <4>3. z \in Int /\ w \in Int
        OBVIOUS
      <4> HIDE DEF a, k, b, z, w
      <4>4. a \in Strings
        BY <3>1 DEF a
      <4> QED
        BY <4>1, <4>2, <4>3, <4>4
    <3>3. NewServer(n) = [name |-> n, addr |-> a, key |-> b, weight |-> w, priority |-> z,
                          transport |-> t]
      BY DEF NewServer
    <3> HIDE DEF a, k, b, z, w
    <3>4. t \in Transport
      BY <3>2 DEF Transport
    <3> HIDE DEF t
    <3> QED
      BY <3>2, <3>3, <3>4 DEF Server
  <2> DEFINE s == NewServer(n)
             W == S \o <<s>>
  <2> HIDE DEF s
  <2>2. <<s>> \in Seq(Server) /\ Len(<<s>>) = 1
    BY <2>1 DEF s
  <2>3. W \in Seq(Server) /\ Len(W) <= MaxServers
    BY <1>1, <1>8, <2>2, ConcatProperties
  <2> HIDE DEF W
  <2>4. [d EXCEPT !.servers = W] \in Config
    BY <1>1, <2>3, OtherServers
  <2> QED
    BY <1>8, <2>4 DEF W, s
<1>9. ASSUME NEW i \in DOMAIN d.socks5, Changed(e, [d EXCEPT !.socks5 = Without(d.socks5, i)])
      PROVE  \E x \in Config : Changed(e, x)
  <2>1. Without(d.socks5, i) \in Seq(Socks)
    BY <1>1, WithoutType
  <2>2. [d EXCEPT !.socks5 = Without(d.socks5, i)] \in Config
    BY <1>1, <2>1, OtherRules
  <2> QED
    BY <1>9, <2>2
<1>10. ASSUME NEW i \in DOMAIN d.forward, NEW n \in Names,
              Changed(e, [d EXCEPT !.forward[i] = n])
       PROVE  \E x \in Config : Changed(e, x)
  <2> DEFINE W == [d.forward EXCEPT ![i] = n]
  <2>1. W \in Seq(Strings)
    BY <1>2, TypedFacts, ExceptSeq
  <2>2. [d EXCEPT !.forward[i] = n] = [d EXCEPT !.forward = W]
    BY DEF Config, Fields
  <2> HIDE DEF W
  <2>3. [d EXCEPT !.forward = W] \in Config
    BY <1>1, <2>1, OtherRules
  <2> QED
    BY <1>10, <2>2, <2>3
<1> QED
  BY <1>3, <1>4, <1>5, <1>6, <1>7, <1>8, <1>9, <1>10 DEF Change

EditorState ==
    [pc : {"idle", "edit", "save", "reload"}, doc : Config, edits : Int]

\* The file and every copy are configurations; the running one is accepted by
\* Validate, which has nothing left to fill in.
ConfigInv ==
    /\ file \in Config
    /\ running \in Config /\ Valid(running) /\ Normal(running) = running
    /\ editor \in [Editors -> EditorState]

\* Every key in the file, in use or about to be saved was given to its name.
KeyInv ==
    /\ HasKeys(file) /\ HasKeys(running)
    /\ \A e \in Editors : At(e, "save") => HasKeys(editor[e].doc)

\* The editor moves on.
LEMMA GotoFacts ==
    ASSUME NEW e \in Editors, editor \in [Editors -> EditorState],
           NEW l \in {"idle", "edit", "save", "reload"}, NEW d \in Config, NEW n \in Int,
           Goto(e, l, d, n)
    PROVE  /\ editor' \in [Editors -> EditorState]
           /\ editor'[e].pc = l /\ editor'[e].doc = d /\ editor'[e].edits = n
           /\ \A x \in Editors \ {e} : editor'[x] = editor[x]
<1>1. [pc |-> l, doc |-> d, edits |-> n] \in EditorState
  BY DEF EditorState
<1> QED
  BY <1>1 DEF Goto

LEMMA ReturnFacts ==
    ASSUME NEW e \in Editors, editor \in [Editors -> EditorState], Return(e)
    PROVE  /\ editor' \in [Editors -> EditorState]
           /\ editor'[e].pc = "idle"
           /\ \A x \in Editors \ {e} : editor'[x] = editor[x]
<1>1. Boot \in Config
  BY FileAssumption
<1> QED
  BY <1>1, GotoFacts DEF Return

\* A configuration that dials is accepted, and so is what runs of it.
LEMMA RunsFacts ==
    ASSUME NEW c \in Config, Dialable(c)
    PROVE  /\ Normal(c) \in Config /\ Valid(Normal(c)) /\ Normal(Normal(c)) = Normal(c)
           /\ Normal(c).servers = c.servers
<1>1. Valid(c)
  BY DEF Dialable
<1> QED
  BY <1>1, NormalFacts, NormalFields

LEMMA InitConfig == Init => ConfigInv
<1> SUFFICES ASSUME Init PROVE ConfigInv
  OBVIOUS
<1>1. Boot \in Config
  BY FileAssumption
<1>2. running \in Config /\ Valid(running) /\ Normal(running) = running
  BY <1>1, RunsFacts DEF Init
<1>3. [pc |-> "idle", doc |-> Boot, edits |-> 0] \in EditorState
  <2> DEFINE z == 0
  <2>1. z \in Int
    OBVIOUS
  <2> HIDE DEF z
  <2>2. [pc |-> "idle", doc |-> Boot, edits |-> z] \in EditorState
    BY <1>1, <2>1 DEF EditorState
  <2> QED
    BY <2>2 DEF z
<1>4. editor \in [Editors -> EditorState]
  BY <1>3 DEF Init
<1> QED
  BY <1>1, <1>2, <1>4 DEF Init, ConfigInv

LEMMA NextConfig == ConfigInv /\ [Next]_vars => ConfigInv'
<1> SUFFICES ASSUME ConfigInv, [Next]_vars PROVE ConfigInv'
  OBVIOUS
<1>0. /\ file \in Config /\ running \in Config /\ editor \in [Editors -> EditorState]
      /\ \A e \in Editors : editor[e].doc \in Config /\ editor[e].edits \in Int
      /\ Boot \in Config
  BY FileAssumption DEF ConfigInv, EditorState
<1>1. ASSUME NEW e \in Editors, getConfigYAML(e) PROVE ConfigInv'
  <2>1. redactConfig(running) \in Config
    BY <1>0, RedactFields
  <2>2. Goto(e, "edit", redactConfig(running), 0)
    BY <1>1 DEF getConfigYAML
  <2>3. editor' \in [Editors -> EditorState]
    BY <1>0, <2>1, <2>2, GotoFacts
  <2> QED
    BY <1>1, <2>3 DEF ConfigInv, getConfigYAML
<1>2. ASSUME NEW e \in Editors, Change(e) PROVE ConfigInv'
  <2>1. PICK d \in Config : Changed(e, d)
    BY <1>0, <1>2, ChangeKeepsType
  <2>2. editor' \in [Editors -> EditorState]
    BY <1>0, <2>1, GotoFacts DEF Changed
  <2> QED
    BY <1>2, <2>2 DEF ConfigInv, Change
<1>3. ASSUME NEW e \in Editors, PutRestore(e) PROVE ConfigInv'
  <2>1. Restored(e) \in Config
    BY <1>0, RestoreFields DEF Restored
  <2>2. Normal(Restored(e)) \in Config
    BY <2>1, NormalFields
  <2>3. Goto(e, "save", Normal(Restored(e)), 0)
    BY <1>3 DEF PutRestore
  <2>4. editor' \in [Editors -> EditorState]
    BY <1>0, <2>2, <2>3, GotoFacts
  <2> QED
    BY <1>3, <2>4 DEF ConfigInv, PutRestore
<1>4. ASSUME NEW e \in Editors, PutRefused(e) PROVE ConfigInv'
  BY <1>0, <1>4, ReturnFacts DEF ConfigInv, PutRefused
<1>5. ASSUME NEW e \in Editors, writeConfigFile(e) PROVE ConfigInv'
  <2>1. Goto(e, "reload", Boot, 0)
    BY <1>5 DEF writeConfigFile
  <2>2. editor' \in [Editors -> EditorState]
    BY <1>0, <2>1, GotoFacts
  <2> QED
    BY <1>0, <1>5, <2>2 DEF ConfigInv, writeConfigFile
<1>6. ASSUME NEW e \in Editors, writeFails(e) PROVE ConfigInv'
  BY <1>0, <1>6, ReturnFacts DEF ConfigInv, writeFails
<1>7. ASSUME NEW e \in Editors, PutReload(e) PROVE ConfigInv'
  BY <1>0, <1>7, ReturnFacts, RunsFacts DEF ConfigInv, PutReload
<1>8. ASSUME NEW e \in Editors, PutReloadFails(e) PROVE ConfigInv'
  BY <1>0, <1>8, ReturnFacts DEF ConfigInv, PutReloadFails
<1>9. ASSUME NEW f \in Files, HandEdit(f) PROVE ConfigInv'
  BY <1>9, FileAssumption DEF ConfigInv, HandEdit
<1>10. ASSUME Reload PROVE ConfigInv'
  BY <1>0, <1>10, RunsFacts DEF ConfigInv, Reload
<1>11. ASSUME UNCHANGED vars PROVE ConfigInv'
  BY <1>11 DEF ConfigInv, vars
<1> QED
  BY <1>1, <1>2, <1>3, <1>4, <1>5, <1>6, <1>7, <1>8, <1>9, <1>10, <1>11 DEF Next

\* To GET the configuration and PUT it back unedited changes nothing: the copy
\* is restored to what runs, and Validate finds nothing to change in that.
THEOREM UneditedCopyIsKept == Spec => []UneditedPutKeeps
<1>1. ConfigInv => UneditedPutKeeps
  BY RestoreRedacted DEF ConfigInv, UneditedPutKeeps
<1> QED
  BY <1>1, InitConfig, NextConfig, PTL DEF Spec

-----------------------------------------------------------------------------
(* Whose key is it *)

USE DEF Known

\* Every named server of S has a key that G gives to its name.
Given(S, G) ==
    \A i \in DOMAIN S : S[i].name # "" => <<"key", S[i].name, S[i].key>> \in G

\* Keys in use are not blank.
LEMMA RunningKeys ==
    ASSUME ConfigInv, NEW j \in DOMAIN running.servers
    PROVE  running.servers[j].key # ""
<1>1. ServerOK(running, running.servers[j])
  BY DEF ConfigInv, Valid
<1> QED
  BY <1>1, StringFacts DEF ServerOK

\* A restored copy gives a name a key the name already has, or one that the
\* history takes down.
LEMMA RestoredKeys ==
    ASSUME ConfigInv, KeyInv, NEW e \in Editors, PutRestore(e)
    PROVE  /\ Known \subseteq Known'
           /\ Given(Restored(e).servers, Known')
<1> DEFINE d == editor[e].doc
           r == Restored(e)
           clear == {i \in DOMAIN d.servers : ~isRedacted(d.servers[i].key)}
           typed == {i \in DOMAIN d.socks5 : ~isRedacted(d.socks5[i].pass)}
           gone == {i \in DOMAIN d.servers \ clear : \A j \in DOMAIN running.servers :
                       running.servers[j].name # d.servers[i].name}
           left == {i \in DOMAIN d.socks5 \ typed : \A j \in DOMAIN running.socks5 :
                       running.socks5[j].user # d.socks5[i].user}
           given == [i \in clear |-> r.servers[i]]
           found == [i \in gone |-> r.servers[i]]
           passes == [i \in typed |-> r.socks5[i]]
           others == [i \in left |-> r.socks5[i]]
<1>1. granted' = granted \cup Grants(given, passes) /\ strays' = strays \cup Grants(found, others)
  BY DEF PutRestore
<1>2. d \in Config /\ running \in Config
  BY DEF ConfigInv, EditorState
<1>3. r.servers = [i \in DOMAIN d.servers |->
                     [d.servers[i] EXCEPT !.key = restoreKey(d.servers[i], running.servers, i)]]
  BY <1>2, RestoreFields DEF Restored
<1>4. /\ running.servers \in Seq(Server)
      /\ \A i \in DOMAIN d.servers : d.servers[i] \in Server /\ d.servers[i].key \in Strings
  BY <1>2, ConfigParts
<1> HIDE DEF r
<1>5. ASSUME NEW i \in DOMAIN r.servers, r.servers[i].name # ""
      PROVE  <<"key", r.servers[i].name, r.servers[i].key>> \in Known'
  <2> DEFINE s == d.servers[i]
             k == restoreKey(s, running.servers, i)
  <2>1. i \in DOMAIN d.servers /\ r.servers[i] = [s EXCEPT !.key = k] /\ s \in Server
    BY <1>3, <1>4
  <2>2. r.servers[i].name = s.name /\ r.servers[i].key = k
    <3> HIDE DEF s, k
    <3> QED
      BY <2>1 DEF Server
  <2>3. CASE i \in clear
    <3>1. i \in DOMAIN given /\ given[i] = r.servers[i]
      BY <2>3
    <3> HIDE DEF given, passes
    <3>2. <<"key", given[i].name, given[i].key>> \in Grants(given, passes)
      BY <3>1 DEF Grants
    <3> QED
      BY <1>1, <3>1, <3>2
  <2>5. CASE i \in gone
    <3>1. i \in DOMAIN found /\ found[i] = r.servers[i]
      BY <2>5
    <3> HIDE DEF found, others
    <3>2. <<"key", found[i].name, found[i].key>> \in Grants(found, others)
      BY <3>1 DEF Grants
    <3> QED
      BY <1>1, <3>1, <3>2
  <2>4. CASE i \notin clear /\ i \notin gone
    <3>1. isRedacted(s.key) /\ \E j \in DOMAIN running.servers : running.servers[j].name = s.name
      BY <2>1, <2>4
    <3>2. Named(running.servers, s.name) # {}
      BY <1>5, <2>2, <3>1 DEF Named
    <3>3. PICK j \in Named(running.servers, s.name) :
             lookupUpstreamKey(running.servers, s.name, i) = running.servers[j].key
      BY <1>4, <3>2, LookupFacts
    <3>4. j \in DOMAIN running.servers /\ running.servers[j].name = s.name
      BY DEF Named
    <3>5. k = running.servers[j].key
      BY <3>1, <3>3, <3>4, RunningKeys DEF restoreKey
    <3>6. <<"key", running.servers[j].name, running.servers[j].key>> \in Known
      BY <1>5, <2>2, <3>4 DEF KeyInv, HasKeys
    <3> QED
      BY <1>1, <2>2, <3>4, <3>5, <3>6
  <2> QED
    BY <2>3, <2>4, <2>5
<1> QED
  BY <1>1, <1>5 DEF Given, r

\* A key once given stays given, whatever the configuration is called next.
LEMMA StillGiven ==
    ASSUME NEW c, HasKeys(c), Known \subseteq Known'
    PROVE  Given(c.servers, Known')
BY DEF HasKeys, Given

LEMMA InitKeys == Init => KeyInv
<1> SUFFICES ASSUME Init PROVE KeyInv
  OBVIOUS
<1>1. Normal(Boot).servers = Boot.servers
  BY FileAssumption, NormalFields
<1>2. HasKeys(Boot)
  BY DEF Init, HasKeys, Grants
<1>3. HasKeys(running)
  BY <1>1, <1>2 DEF Init, HasKeys
<1> QED
  BY <1>2, <1>3 DEF Init, KeyInv, At

\* What a step has to show: the file, the running configuration and the copies
\* about to be saved have keys that were given.
LEMMA KeysKept ==
    ASSUME Given(file'.servers, Known'), Given(running'.servers, Known'),
           \A e \in Editors : editor'[e].pc = "save" => Given(editor'[e].doc.servers, Known')
    PROVE  KeyInv'
BY DEF KeyInv, HasKeys, At, Given

LEMMA NextKeys == ConfigInv /\ KeyInv /\ [Next]_vars => KeyInv'
<1> SUFFICES ASSUME ConfigInv, KeyInv, [Next]_vars PROVE KeyInv'
  OBVIOUS
<1>0. /\ file \in Config /\ running \in Config /\ editor \in [Editors -> EditorState]
      /\ \A e \in Editors : editor[e].doc \in Config /\ editor[e].edits \in Int
      /\ Boot \in Config
  BY FileAssumption DEF ConfigInv, EditorState
<1>1. ASSUME Known \subseteq Known'
      PROVE  /\ Given(file.servers, Known') /\ Given(running.servers, Known')
             /\ \A e \in Editors : editor[e].pc = "save" => Given(editor[e].doc.servers, Known')
  BY <1>1, StillGiven DEF KeyInv, At
\* The copy of an editor that is not about to save has no say.
<1>2. ASSUME NEW e \in Editors, editor'[e].pc # "save", Known' = Known,
             \A x \in Editors \ {e} : editor'[x] = editor[x]
      PROVE  \A x \in Editors : editor'[x].pc = "save" => Given(editor'[x].doc.servers, Known')
  BY <1>1, <1>2
<1>3. ASSUME NEW e \in Editors, getConfigYAML(e) PROVE KeyInv'
  <2>1. redactConfig(running) \in Config
    BY <1>0, RedactFields
  <2>2. Goto(e, "edit", redactConfig(running), 0)
    BY <1>3 DEF getConfigYAML
  <2>3. editor'[e].pc # "save" /\ \A x \in Editors \ {e} : editor'[x] = editor[x]
    BY <1>0, <2>1, <2>2, GotoFacts
  <2> QED
    BY <1>1, <1>2, <1>3, <2>3, KeysKept DEF getConfigYAML
<1>4. ASSUME NEW e \in Editors, Change(e) PROVE KeyInv'
  <2>1. PICK d \in Config : Changed(e, d)
    BY <1>0, <1>4, ChangeKeepsType
  <2>2. editor'[e].pc # "save" /\ \A x \in Editors \ {e} : editor'[x] = editor[x]
    BY <1>0, <2>1, GotoFacts DEF Changed
  <2>3. UNCHANGED <<file, running, turns, granted, strays>>
    BY <1>4 DEF Change
  <2> QED
    BY <1>1, <1>2, <2>2, <2>3, KeysKept
<1>5. ASSUME NEW e \in Editors, PutRestore(e) PROVE KeyInv'
  <2>1. Restored(e) \in Config
    BY <1>0, RestoreFields DEF Restored
  <2>2. Normal(Restored(e)) \in Config /\ Normal(Restored(e)).servers = Restored(e).servers
    BY <2>1, NormalFields
  <2>3. Goto(e, "save", Normal(Restored(e)), 0) /\ UNCHANGED <<file, running>>
    BY <1>5 DEF PutRestore
  <2>4. editor'[e].doc = Normal(Restored(e)) /\ \A x \in Editors \ {e} : editor'[x] = editor[x]
    BY <1>0, <2>2, <2>3, GotoFacts
  <2>5. Known \subseteq Known' /\ Given(Restored(e).servers, Known')
    BY <1>5, RestoredKeys
  <2>6. Given(editor'[e].doc.servers, Known')
    BY <2>2, <2>4, <2>5
  <2>7. \A x \in Editors : editor'[x].pc = "save" => Given(editor'[x].doc.servers, Known')
    BY <1>1, <2>4, <2>5, <2>6
  <2> QED
    BY <1>1, <2>3, <2>5, <2>7, KeysKept
<1>6. ASSUME NEW e \in Editors, PutRefused(e) \/ writeFails(e) \/ PutReloadFails(e)
      PROVE  KeyInv'
  <2>1. Return(e) /\ UNCHANGED <<file, running, turns, granted, strays>>
    BY <1>6 DEF PutRefused, writeFails, PutReloadFails
  <2>2. editor'[e].pc # "save" /\ \A x \in Editors \ {e} : editor'[x] = editor[x]
    BY <1>0, <2>1, ReturnFacts
  <2> QED
    BY <1>1, <1>2, <2>1, <2>2, KeysKept
<1>7. ASSUME NEW e \in Editors, writeConfigFile(e) PROVE KeyInv'
  <2>1. Goto(e, "reload", Boot, 0)
    BY <1>7 DEF writeConfigFile
  <2>2. editor'[e].pc # "save" /\ \A x \in Editors \ {e} : editor'[x] = editor[x]
    BY <1>0, <2>1, GotoFacts
  <2> QED
    BY <1>1, <1>2, <1>7, <2>2, KeysKept DEF writeConfigFile, At
<1>8. ASSUME NEW e \in Editors, PutReload(e) PROVE KeyInv'
  <2>1. Return(e) /\ running' = Normal(file) /\ UNCHANGED <<file, granted, strays>>
    BY <1>8 DEF PutReload
  <2>2. editor'[e].pc # "save" /\ \A x \in Editors \ {e} : editor'[x] = editor[x]
    BY <1>0, <2>1, ReturnFacts
  <2>3. running'.servers = file.servers
    BY <1>0, <2>1, NormalFields
  <2> QED
    BY <1>1, <1>2, <2>1, <2>2, <2>3, KeysKept
<1>9. ASSUME NEW f \in Files, HandEdit(f) PROVE KeyInv'
  <2>1. granted' = granted \cup Grants(f.servers, f.socks5) /\ file' = f
        /\ UNCHANGED <<running, editor, strays>>
    BY <1>9 DEF HandEdit
  <2>2. Given(f.servers, Grants(f.servers, f.socks5))
    BY DEF Given, Grants
  <2>3. Given(file'.servers, Known')
    BY <2>1, <2>2 DEF Given
  <2> QED
    BY <1>1, <2>1, <2>3, KeysKept
<1>10. ASSUME Reload PROVE KeyInv'
  <2>1. running'.servers = file.servers
    BY <1>0, <1>10, NormalFields DEF Reload
  <2> QED
    BY <1>1, <1>10, <2>1, KeysKept DEF Reload
<1>11. ASSUME UNCHANGED vars PROVE KeyInv'
  BY <1>11 DEF KeyInv, HasKeys, At, vars
<1> QED
  BY <1>3, <1>4, <1>5, <1>6, <1>7, <1>8, <1>9, <1>10, <1>11 DEF Next

\* A named upstream only has a key that was given to that name in clear, however many
\* editors work with stale, reordered and shortened copies, but for names that came
\* back redacted when they were not running.
THEOREM KeysFollowTheirNames == Spec => []KeysFollowNames
<1>1. KeyInv => KeysFollowNames
  BY DEF KeyInv, KeysFollowNames
<1> QED
  BY <1>1, InitConfig, NextConfig, InitKeys, NextKeys, PTL DEF Spec

-----------------------------------------------------------------------------
(* The order of the endpoints *)

\* A sequence of n endpoints, as far as the order goes.
Sortable(E, n) ==
    /\ n \in Nat /\ DOMAIN E = 1..n
    /\ \A i \in 1..n : E[i].priority \in Int /\ E[i].name \in Strings

Before(E, i) == {j \in DOMAIN E : Precedes(E, j, i)}

\* Precedes is a strict total order: by priority, name and position.
LEMMA PrecedesOrder ==
    ASSUME NEW E, NEW n, Sortable(E, n)
    PROVE  /\ \A i \in 1..n : ~Precedes(E, i, i)
           /\ \A i, j \in 1..n : i = j \/ Precedes(E, i, j) \/ Precedes(E, j, i)
           /\ \A i, j, k \in 1..n :
                 Precedes(E, i, j) /\ Precedes(E, j, k) => Precedes(E, i, k)
<1>0. n \in Nat
  BY DEF Sortable
<1>1. /\ \A s \in Strings : Rank[s] \in Int
      /\ \A s, t \in Strings : Rank[s] = Rank[t] => s = t
  BY NameAssumption
<1>2. \A i \in 1..n : i \in Int /\ E[i].priority \in Int /\ E[i].name \in Strings
                      /\ Rank[E[i].name] \in Int
  BY <1>0, <1>1 DEF Sortable
<1>3. ASSUME NEW i \in 1..n PROVE ~Precedes(E, i, i)
  BY <1>2 DEF Precedes
<1>4. ASSUME NEW i \in 1..n, NEW j \in 1..n
      PROVE  i = j \/ Precedes(E, i, j) \/ Precedes(E, j, i)
  <2>1. Rank[E[i].name] = Rank[E[j].name] => E[i].name = E[j].name
    BY <1>1, <1>2
  <2>2. /\ i \in Int /\ j \in Int /\ E[i].priority \in Int /\ E[j].priority \in Int
        /\ Rank[E[i].name] \in Int /\ Rank[E[j].name] \in Int
    BY <1>2
  <2> QED
    BY <2>1, <2>2 DEF Precedes
<1>5. ASSUME NEW i \in 1..n, NEW j \in 1..n, NEW k \in 1..n, Precedes(E, i, j), Precedes(E, j, k)
      PROVE  Precedes(E, i, k)
  <2>1. /\ i \in Int /\ j \in Int /\ k \in Int
        /\ E[i].priority \in Int /\ E[j].priority \in Int /\ E[k].priority \in Int
        /\ Rank[E[i].name] \in Int /\ Rank[E[j].name] \in Int /\ Rank[E[k].name] \in Int
    BY <1>2
  <2> QED
    BY <1>5, <2>1 DEF Precedes
<1> QED
  BY <1>3, <1>4, <1>5

\* Endpoints that come later have a later place.
LEMMA PlaceMonotonic ==
    ASSUME NEW E, NEW n, Sortable(E, n), NEW i \in 1..n, NEW j \in 1..n, Precedes(E, j, i)
    PROVE  Place(E, j) < Place(E, i) /\ Place(E, i) \in Int /\ Place(E, j) \in Int
<1>0. n \in Nat /\ DOMAIN E = 1..n
  BY DEF Sortable
<1>1. IsFiniteSet(1..n)
  BY <1>0, FS_Interval
<1>2. Before(E, i) \in SUBSET (1..n) /\ Before(E, j) \in SUBSET (1..n)
  BY <1>0 DEF Before
<1>3. IsFiniteSet(Before(E, i)) /\ IsFiniteSet(Before(E, j))
  BY <1>1, <1>2, FS_Subset
<1>4. j \notin Before(E, j) /\ Before(E, j) \cup {j} \in SUBSET Before(E, i)
  BY <1>0, PrecedesOrder DEF Before
<1>5. Cardinality(Before(E, j) \cup {j}) = Cardinality(Before(E, j)) + 1
  BY <1>3, <1>4, FS_AddElement
<1>6. Cardinality(Before(E, j) \cup {j}) <= Cardinality(Before(E, i))
  BY <1>3, <1>4, FS_Subset
<1>7. Cardinality(Before(E, i)) \in Nat /\ Cardinality(Before(E, j)) \in Nat
  BY <1>3, FS_CardinalityType
<1>8. Place(E, i) = 1 + Cardinality(Before(E, i)) /\ Place(E, j) = 1 + Cardinality(Before(E, j))
  BY DEF Place, Before
<1> QED
  BY <1>5, <1>6, <1>7, <1>8

\* The places are 1 to n.
LEMMA PlaceRange ==
    ASSUME NEW E, NEW n, Sortable(E, n), NEW i \in 1..n
    PROVE  Place(E, i) \in 1..n
<1>0. n \in Nat /\ DOMAIN E = 1..n
  BY DEF Sortable
<1>1. IsFiniteSet(1..n) /\ Cardinality(1..n) = n
  BY <1>0, FS_Interval
<1>2. Before(E, i) \cup {i} \in SUBSET (1..n) /\ i \notin Before(E, i)
  BY <1>0, PrecedesOrder DEF Before
<1>3. IsFiniteSet(Before(E, i))
  BY <1>1, <1>2, FS_Subset
<1>4. Cardinality(Before(E, i) \cup {i}) = Cardinality(Before(E, i)) + 1
  BY <1>2, <1>3, FS_AddElement
<1>5. Cardinality(Before(E, i) \cup {i}) <= n
  BY <1>1, <1>2, FS_Subset
<1>6. Cardinality(Before(E, i)) \in Nat
  BY <1>3, FS_CardinalityType
<1>7. Place(E, i) = 1 + Cardinality(Before(E, i))
  BY DEF Place, Before
<1> QED
  BY <1>0, <1>4, <1>5, <1>6, <1>7

\* No two endpoints have the same place, and none is left empty.
LEMMA PlaceBijective ==
    ASSUME NEW E, NEW n, Sortable(E, n)
    PROVE  /\ \A i, j \in 1..n : Place(E, i) = Place(E, j) => i = j
           /\ \A k \in 1..n : \E i \in 1..n : Place(E, i) = k
<1>0. n \in Nat
  BY DEF Sortable
<1>1. ASSUME NEW i \in 1..n, NEW j \in 1..n, Place(E, i) = Place(E, j) PROVE i = j
  <2>1. i = j \/ Precedes(E, i, j) \/ Precedes(E, j, i)
    BY PrecedesOrder
  <2>2. Place(E, i) \in Int /\ Place(E, j) \in Int
    BY <1>0, PlaceRange
  <2>3. ~(Place(E, i) < Place(E, j)) /\ ~(Place(E, j) < Place(E, i))
    BY <1>1, <2>2
  <2> QED
    BY <2>1, <2>3, PlaceMonotonic
<1> DEFINE P == [i \in 1..n |-> Place(E, i)]
<1>2. P \in [1..n -> 1..n]
  BY PlaceRange
<1>3. P \in Injection(1..n, 1..n)
  <2>1. ASSUME NEW a \in 1..n, NEW b \in 1..n, P[a] = P[b] PROVE a = b
    BY <1>1, <2>1
  <2> HIDE DEF P
  <2> QED
    BY <1>2, <2>1 DEF Injection, IsInjective
<1>4. IsFiniteSet(1..n)
  BY <1>0, FS_Interval
<1> HIDE DEF P
<1>5. P \in Surjection(1..n, 1..n)
  BY <1>3, <1>4, FS_Injection
<1>6. \A k \in 1..n : \E i \in 1..n : P[i] = k
  BY <1>5 DEF Surjection
<1> QED
  BY <1>1, <1>6 DEF P

\* The endpoint sorted to place k, by its position in the configuration.
Source(E, k) == CHOOSE i \in DOMAIN E : Place(E, i) = k

LEMMA SourceFacts ==
    ASSUME NEW E, NEW n, Sortable(E, n)
    PROVE  /\ \A k \in 1..n : Source(E, k) \in 1..n /\ Place(E, Source(E, k)) = k
           /\ \A i \in 1..n : Place(E, i) \in 1..n /\ Source(E, Place(E, i)) = i
<1>0. DOMAIN E = 1..n
  BY DEF Sortable
<1>1. ASSUME NEW k \in 1..n PROVE Source(E, k) \in 1..n /\ Place(E, Source(E, k)) = k
  <2>1. \E i \in DOMAIN E : Place(E, i) = k
    BY <1>0, PlaceBijective
  <2> QED
    BY <1>0, <2>1 DEF Source
<1>2. ASSUME NEW i \in 1..n PROVE Place(E, i) \in 1..n /\ Source(E, Place(E, i)) = i
  <2>1. Place(E, i) \in 1..n
    BY PlaceRange
  <2> QED
    BY <1>1, <2>1, PlaceBijective
<1> QED
  BY <1>1, <1>2

\* The endpoints of a configuration can be sorted.
LEMMA RawSortable ==
    ASSUME NEW c \in Config
    PROVE  \E n \in Nat : Sortable(RawEndpoints(c), n)
<1> DEFINE E == RawEndpoints(c)
<1>1. CASE c.servers # <<>>
  <2> DEFINE n == Len(c.servers)
  <2>1. n \in Nat /\ DOMAIN c.servers = 1..n /\ n <= MaxServers /\ MaxServers \in Nat
        /\ \A i \in 1..n : c.servers[i] \in Server
    BY ConfigParts, BoundAssumption
  <2>2. E = [i \in DOMAIN c.servers |-> Endpoint(c, i)]
    BY <1>1 DEF RawEndpoints
  <2>3. ASSUME NEW i \in 1..n PROVE E[i].priority \in Int /\ E[i].name \in Strings
    <3> DEFINE s == c.servers[i]
    <3>1. s \in Server /\ s.name \in Strings /\ s.priority \in Int /\ i \in Int
      BY <2>1 DEF Server
    <3>2. Trim[s.name] \in Strings
      BY <3>1, StringAssumption
    <3>3. DefaultName[i] \in Strings
      BY <2>1, NameAssumption
    <3>4. E[i] = Endpoint(c, i)
      BY <2>1, <2>2
    <3>5. /\ Endpoint(c, i).name = (IF Blank(s.name) THEN DefaultName[i] ELSE Trim[s.name])
          /\ Endpoint(c, i).priority = (IF s.priority < 1 THEN i ELSE s.priority)
      BY DEF Endpoint
    <3> QED
      BY <3>1, <3>2, <3>3, <3>4, <3>5
  <2>4. DOMAIN E = 1..n
    BY <2>1, <2>2
  <2> HIDE DEF E, n
  <2> QED
    BY <2>1, <2>3, <2>4 DEF Sortable, E
<1>2. CASE c.servers = <<>>
  <2> DEFINE x == [name |-> "default", addr |-> c.server, key |-> c.transport.key,
                   weight |-> 1, priority |-> 1, transport |-> c.transport]
  <2>1. E = <<x>>
    BY <1>2 DEF RawEndpoints
  <2>2. x.name \in Strings /\ x.priority \in Int
    <3>1. x.name = "default" /\ x.priority = 1
      OBVIOUS
    <3> HIDE DEF x
    <3>2. x.name \in Strings
      BY <3>1, StringFacts, Zenon
    <3>3. x.priority \in Int
      BY <3>1
    <3> QED
      BY <3>2, <3>3
  <2> HIDE DEF x
  <2>3. DOMAIN E = 1..1 /\ \A i \in 1..1 : E[i] = x
    BY <2>1
  <2> HIDE DEF E
  <2>4. Sortable(E, 1)
    BY <2>2, <2>3 DEF Sortable
  <2> QED
    BY <2>4 DEF E
<1> QED
  BY <1>1, <1>2

\* UpstreamEndpoints neither loses nor repeats an endpoint.
LEMMA EndpointsSorted ==
    ASSUME NEW c \in Config
    PROVE  LET E == RawEndpoints(c)
               U == UpstreamEndpoints(c)
           IN  /\ DOMAIN U = DOMAIN E
               /\ \A k \in DOMAIN U : Source(E, k) \in DOMAIN E /\ U[k] = E[Source(E, k)]
               /\ \A i \in DOMAIN E : Place(E, i) \in DOMAIN U /\ U[Place(E, i)] = E[i]
<1> DEFINE E == RawEndpoints(c)
           U == UpstreamEndpoints(c)
<1>1. PICK n \in Nat : Sortable(E, n)
  BY RawSortable
<1>2. DOMAIN E = 1..n
  BY <1>1 DEF Sortable
<1>3. U = [k \in DOMAIN E |-> E[Source(E, k)]]
  BY DEF UpstreamEndpoints, Source
<1> HIDE DEF E, U
<1>4. /\ \A k \in 1..n : Source(E, k) \in 1..n
      /\ \A i \in 1..n : Place(E, i) \in 1..n /\ Source(E, Place(E, i)) = i
  BY <1>1, SourceFacts
<1>5. /\ DOMAIN U = DOMAIN E
      /\ \A k \in DOMAIN U : Source(E, k) \in DOMAIN E /\ U[k] = E[Source(E, k)]
      /\ \A i \in DOMAIN E : Place(E, i) \in DOMAIN U /\ U[Place(E, i)] = E[i]
  BY <1>2, <1>3, <1>4
<1> QED
  BY <1>5 DEF E, U

\* The sort of config/upstream.go: an endpoint never stands before one of lower
\* priority number, nor among equals before one of an earlier name.
THEOREM EndpointsInOrder ==
    ASSUME NEW c \in Config,
           NEW k \in DOMAIN UpstreamEndpoints(c), NEW l \in DOMAIN UpstreamEndpoints(c), k < l
    PROVE  LET U == UpstreamEndpoints(c)
           IN  \/ U[k].priority < U[l].priority
               \/ U[k].priority = U[l].priority /\ Rank[U[k].name] <= Rank[U[l].name]
<1> DEFINE E == RawEndpoints(c)
           U == UpstreamEndpoints(c)
           i == Source(E, k)
           j == Source(E, l)
<1>1. PICK n \in Nat : Sortable(E, n)
  BY RawSortable
<1>2. DOMAIN E = 1..n /\ DOMAIN U = 1..n
  BY <1>1, EndpointsSorted DEF Sortable
<1>3. U[k] = E[i] /\ U[l] = E[j] /\ i \in 1..n /\ j \in 1..n
  BY <1>2, EndpointsSorted
<1> HIDE DEF E, U
<1>4. Place(E, i) = k /\ Place(E, j) = l
  BY <1>1, <1>2, SourceFacts DEF U
<1> HIDE DEF i, j
<1>5. k \in Int /\ l \in Int
  BY <1>2 DEF U
<1>6. Precedes(E, i, j)
  <2>1. i # j /\ ~(Place(E, j) < Place(E, i))
    BY <1>4, <1>5
  <2>2. ~Precedes(E, j, i)
    BY <1>1, <1>3, <2>1, PlaceMonotonic
  <2> QED
    BY <1>1, <1>3, <2>1, <2>2, PrecedesOrder
<1>7. \A x \in 1..n : E[x].priority \in Int /\ Rank[E[x].name] \in Int
  BY <1>1, NameAssumption DEF Sortable
<1>8. \/ E[i].priority < E[j].priority
      \/ E[i].priority = E[j].priority /\ Rank[E[i].name] <= Rank[E[j].name]
  BY <1>3, <1>6, <1>7 DEF Precedes
<1> QED
  BY <1>3, <1>8 DEF U

-----------------------------------------------------------------------------
(* What loads can be dialed *)

\* The key Validate found in a server is not blank without the space around it.
LEMMA TrimmedKey ==
    ASSUME NEW s \in Strings, ~Blank(s)
    PROVE  ~Blank(Trim[s])
BY StringAssumption DEF Blank

\* A normalised transport that speaks kcp names a block.
LEMMA NormalBlock ==
    ASSUME NEW t \in Transport, NormTransport(t) = t, Protocol(t) = "kcp"
    PROVE  t.block # ""
<1>1. t.block = Default(t.block, "aes-128-gcm")
  <2>1. NormTransport(t).block = Default(t.block, "aes-128-gcm")
    BY DEF NormTransport, Transport
  <2> QED
    BY <2>1
<1>2. Default("", "aes-128-gcm") = "aes-128-gcm"
  BY StringFacts DEF Default
<1>3. "aes-128-gcm" # ""
  OBVIOUS
<1> QED
  BY <1>1, <1>2, <1>3

\* The endpoint of a server that Validate accepts can be dialed, but for the
\* excepted case.
LEMMA ServerDials ==
    ASSUME NEW c \in Config, Valid(c), Normal(c) = c, KnownBlocks(c),
           NEW i \in DOMAIN c.servers
    PROVE  LET t == Endpoint(c, i).transport
           IN  OptionsFromConfig(t) \/ BlockMissing(c, t)
<1> DEFINE s == c.servers[i]
           m == mergeTransport(c.transport, s.transport)
           key == IF Blank(s.key) THEN c.transport.key ELSE Trim[s.key]
           t == [m EXCEPT !.key = key]
           v == [m EXCEPT !.key = s.key]
<1>0. Endpoint(c, i).transport = t
  BY DEF Endpoint
<1>1. NormTransport(c.transport) = c.transport /\ c.transport \in Transport
  BY NormalFields, ConfigParts
<1>2. ~Blank(s.key) /\ TransportOK(v)
  BY <1>1 DEF Valid, ServerOK
<1>3. s \in Server /\ s.key \in Strings
  BY ConfigParts
<1>4. key = Trim[s.key] /\ ~Blank(key)
  BY <1>2, <1>3, TrimmedKey
<1>5. /\ m.protocol = Over(c.transport.protocol, s.transport.protocol)
      /\ m.block = Over(c.transport.block, s.transport.block)
      /\ t.protocol = m.protocol /\ t.block = m.block /\ t.key = key /\ v.protocol = m.protocol
  BY DEF mergeTransport
<1> HIDE DEF t, v, m, key
<1>6. Protocol(t) = Protocol(v) /\ Protocol(v) \in {"kcp", "quic"}
  BY <1>2, <1>5 DEF Protocol, TransportOK
<1>7. CASE Protocol(t) = "quic"
  BY <1>0, <1>4, <1>5, <1>7 DEF OptionsFromConfig
<1>8. CASE Protocol(t) = "kcp"
  <2>1. s.transport.block \in Blocks \cup {""} /\ c.transport.block \in Blocks \cup {""}
    BY DEF KnownBlocks
  <2>2. t.block \in Blocks \/ (t.block = "" /\ c.transport.block = "")
    BY <1>5, <2>1 DEF Over
  <2>3. CASE t.block \in Blocks
    BY <1>0, <1>4, <1>5, <1>8, <2>3 DEF OptionsFromConfig
  <2>4. CASE t.block = "" /\ c.transport.block = ""
    <3>1. Protocol(c.transport) \in {"kcp", "quic"}
      BY DEF Valid, TransportOK
    <3>2. Protocol(c.transport) = "quic"
      BY <1>1, <2>4, <3>1, NormalBlock
    <3> QED
      BY <1>0, <1>8, <2>4, <3>2 DEF BlockMissing
  <2> QED
    BY <2>2, <2>3, <2>4
<1> QED
  BY <1>0, <1>6, <1>7, <1>8

\* So can the endpoint of the old form with one server.
LEMMA LegacyDials ==
    ASSUME NEW c \in Config, Valid(c), Normal(c) = c, KnownBlocks(c)
    PROVE  OptionsFromConfig(c.transport)
<1>1. NormTransport(c.transport) = c.transport /\ c.transport \in Transport
  BY NormalFields, ConfigParts
<1>2. ~Blank(c.transport.key) /\ Protocol(c.transport) \in {"kcp", "quic"}
  BY DEF Valid, TransportOK
<1>3. c.transport.block \in Blocks \cup {""}
  BY DEF KnownBlocks
<1> QED
  BY <1>1, <1>2, <1>3, NormalBlock DEF OptionsFromConfig

\* The names a rule may be bound to are those of the endpoints.
LEMMA NamesOfEndpoints ==
    ASSUME NEW c \in Config, ClientOK(c)
    PROVE  LET E == RawEndpoints(c) IN upstreamNameSet(c) = {E[i].name : i \in DOMAIN E}
<1> DEFINE E == RawEndpoints(c)
<1>1. CASE c.servers # <<>>
  <2>1. E = [i \in DOMAIN c.servers |-> Endpoint(c, i)]
    BY <1>1 DEF RawEndpoints
  <2>2. \A i \in DOMAIN c.servers : E[i].name = NameOf(c, i)
    BY <2>1 DEF Endpoint, NameOf
  <2>3. DOMAIN E = DOMAIN c.servers
    BY <2>1
  <2>4. upstreamNameSet(c) = {NameOf(c, i) : i \in DOMAIN c.servers}
    BY <1>1 DEF upstreamNameSet
  <2> HIDE DEF E
  <2> QED
    BY <2>2, <2>3, <2>4 DEF E
<1>2. CASE c.servers = <<>>
  <2> DEFINE x == [name |-> "default", addr |-> c.server, key |-> c.transport.key,
                   weight |-> 1, priority |-> 1, transport |-> c.transport]
  <2>1. E = <<x>>
    BY <1>2 DEF RawEndpoints
  <2>2. x.name = "default"
    OBVIOUS
  <2> HIDE DEF x
  <2>3. DOMAIN E = {1} /\ E[1].name = "default"
    BY <2>1, <2>2
  <2>4. upstreamNameSet(c) = {"default"}
    BY <1>2 DEF upstreamNameSet, ClientOK
  <2> HIDE DEF E
  <2> QED
    BY <2>3, <2>4 DEF E
<1> QED
  BY <1>1, <1>2

LEMMA RawDials ==
    ASSUME NEW c \in Config, Valid(c), Normal(c) = c, KnownBlocks(c)
    PROVE  LET E == RawEndpoints(c)
           IN  \A i \in DOMAIN E :
                  OptionsFromConfig(E[i].transport) \/ BlockMissing(c, E[i].transport)
<1> DEFINE E == RawEndpoints(c)
<1>1. CASE c.servers # <<>>
  <2>1. E = [i \in DOMAIN c.servers |-> Endpoint(c, i)]
    BY <1>1 DEF RawEndpoints
  <2>2. DOMAIN E = DOMAIN c.servers /\ \A i \in DOMAIN c.servers : E[i] = Endpoint(c, i)
    BY <2>1
  <2> HIDE DEF E
  <2> QED
    BY <2>2, ServerDials DEF E
<1>2. CASE c.servers = <<>>
  <2> DEFINE x == [name |-> "default", addr |-> c.server, key |-> c.transport.key,
                   weight |-> 1, priority |-> 1, transport |-> c.transport]
  <2>1. E = <<x>>
    BY <1>2 DEF RawEndpoints
  <2>2. x.transport = c.transport
    OBVIOUS
  <2> HIDE DEF x
  <2>3. DOMAIN E = {1} /\ E[1].transport = c.transport
    BY <2>1, <2>2
  <2> HIDE DEF E
  <2> QED
    BY <2>3, LegacyDials DEF E
<1> QED
  BY <1>1, <1>2

\* Every name a rule may be bound to is an endpoint, and every endpoint of a file
\* that loads can be dialed, for any file: sorting loses none, and Validate checks
\* what OptionsFromConfig asks for, but for the excepted case.
THEOREM LoadedFilesDial == Spec => []LoadableDials
<1>1. ConfigInv => LoadableDials
  <2> SUFFICES ASSUME ConfigInv, Valid(file), Fold[file.role] = "client"
               PROVE  LET c == Normal(file)
                          E == UpstreamEndpoints(c)
                      IN  /\ upstreamNameSet(c) = {E[i].name : i \in DOMAIN E}
                          /\ AddrsParse(c) /\ KnownBlocks(c) => \A i \in DOMAIN E :
                                OptionsFromConfig(E[i].transport)
                                   \/ BlockMissing(c, E[i].transport)
    BY DEF LoadableDials
  <2> DEFINE c == Normal(file)
             R == RawEndpoints(c)
             E == UpstreamEndpoints(c)
  <2>1. file \in Config
    BY DEF ConfigInv
  <2>2. c \in Config /\ Valid(c) /\ Normal(c) = c /\ c.role = Fold[file.role]
    BY <2>1, NormalFields, NormalFacts
  <2>3. Fold["client"] = "client"
    BY StringAssumption
  <2> HIDE DEF c
  <2>4. ClientOK(c)
    BY <2>2, <2>3 DEF Valid
  <2>5. upstreamNameSet(c) = {R[i].name : i \in DOMAIN R}
    BY <2>2, <2>4, NamesOfEndpoints
  <2>6. KnownBlocks(c) => \A i \in DOMAIN R :
           OptionsFromConfig(R[i].transport) \/ BlockMissing(c, R[i].transport)
    BY <2>2, RawDials
  <2>7. /\ \A k \in DOMAIN E : Source(R, k) \in DOMAIN R /\ E[k] = R[Source(R, k)]
        /\ \A i \in DOMAIN R : Place(R, i) \in DOMAIN E /\ E[Place(R, i)] = R[i]
    BY <2>2, EndpointsSorted
  <2> HIDE DEF R, E
  <2>8. upstreamNameSet(c) = {E[i].name : i \in DOMAIN E}
    BY <2>5, <2>7
  <2>9. KnownBlocks(c) => \A k \in DOMAIN E :
           OptionsFromConfig(E[k].transport) \/ BlockMissing(c, E[k].transport)
    BY <2>6, <2>7
  <2> QED
    BY <2>8, <2>9 DEF c, E
<1> QED
  BY <1>1, InitConfig, NextConfig, PTL DEF Spec
=============================================================================
