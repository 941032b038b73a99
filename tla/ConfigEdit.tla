----------------------------- MODULE ConfigEdit -----------------------------
(***************************************************************************)
(* The configuration of a client: what Validate accepts and fills in       *)
(* (config/config.go), the endpoints made from it (config/upstream.go),    *)
(* whether they can be dialed (transport/options.go), and the editor of    *)
(* the admin API (admin/config.go), which hands out a copy with redacted   *)
(* secrets and puts the secrets back when the copy is saved.               *)
(*                                                                         *)
(* Several people edit at a time: in the dashboard (Editors), and in the   *)
(* file itself, followed by a SIGHUP.  Of several fields that are treated  *)
(* alike one is kept: block stands for mode and mtu too, data and parity   *)
(* for the windows, alpn for the idle timeouts.  An absent YAML block is a *)
(* block of empty values.                                                  *)
(***************************************************************************)
EXTENDS Integers, Sequences, FiniteSets

CONSTANTS
    Strings,      \* the strings that occur in configurations
    Trim,         \* Trim[s]: s without white space around it
    Fold,         \* Fold[s]: the same in lower case
    Addrs,        \* the strings netutil.ParseUDPAddr accepts
    DefaultName,  \* DefaultName[i]: "upstream-<i>"
    Rank,         \* the alphabetical order of the strings
    Files,        \* the contents a hand-edited file may have
    Boot,         \* the file the client started from
    Names, Keys,  \* what an editor types for the name and key of an upstream
    Editors,      \* users of the dashboard
    MaxServers,   \* bound: upstreams of a configuration
    MaxEdits,     \* bound: changes between a GET and its PUT
    MaxTurns      \* bound: GETs, and edits of the file

Mark == "***REDACTED***"
Blank(s) == Trim[s] = ""

\* The names of encryption blocks NewBlockCrypt knows.
Blocks == {"aes", "aes-128", "aes-128-gcm", "aes-192", "salsa20", "aes-256", "none", "null"}

Transport == [protocol : Strings, conn : Int, block : Strings, key : Strings,
              data : Int, parity : Int, alpn : Strings]
Server == [name : Strings, addr : Strings, key : Strings, weight : Int,
           priority : Int, transport : Transport]
Socks == [auth : {TRUE}, user : Strings, pass : Strings]
            \cup [auth : {FALSE}, user : {""}, pass : {""}]
Admin == [on : {TRUE}, token : Strings] \cup [on : {FALSE}, token : {""}]
RangeMode == [enabled : BOOLEAN, protocol : Strings, ports : Seq(Seq(Int)),
              exclude : Seq(Seq(Int)), bind : Strings]

\* network: the interface, address and router of the network block are set.
\* server and listen: the addresses of the blocks of these names.  forward:
\* the bind_upstream of every rule.
Fields == [role : Strings, network : BOOLEAN, transport : Transport,
           strategy : Strings, servers : Seq(Server), server : Strings,
           forward : Seq(Strings), socks5 : Seq(Socks), range : RangeMode,
           listen : Strings, admin : Admin, level : Strings]
Config == {c \in Fields : Len(c.servers) <= MaxServers}

ASSUME StringAssumption ==
    /\ {"", Mark, "kcp", "quic", "tcp", "client", "server", "failover", "default",
        "info", "paqetpremium"} \cup Blocks \subseteq Strings
    /\ Trim \in [Strings -> Strings] /\ Fold \in [Strings -> Strings]
    /\ \A s \in Strings : Trim[Trim[s]] = Trim[s] /\ Fold[Fold[s]] = Fold[s]
    /\ \A s \in {"", Mark, "kcp", "quic", "tcp", "failover", "info", "paqetpremium"} \cup Blocks :
          Trim[s] = s
    /\ \A s \in {"", "kcp", "quic", "client", "server"} : Fold[s] = s
    /\ \A s \in Strings : Fold[s] = "" <=> Blank(s)
    /\ Addrs \subseteq Strings /\ Addrs # {} /\ \A s \in Addrs : ~Blank(s)
ASSUME NameAssumption ==
    /\ DefaultName \in [1..MaxServers -> Strings]
    /\ \A i \in 1..MaxServers : Trim[DefaultName[i]] = DefaultName[i]
    /\ Rank \in [Strings -> Int]
    /\ \A s, t \in Strings : Rank[s] = Rank[t] => s = t
    /\ Names \subseteq Strings /\ Keys \subseteq Strings
ASSUME FileAssumption == Boot \in Files /\ Files \subseteq Config
ASSUME BoundAssumption == MaxServers \in Nat /\ MaxEdits \in Nat /\ MaxTurns \in Nat

-----------------------------------------------------------------------------
(* validateTransport, mergeTransport *)

Protocol(t) == IF Blank(t.protocol) THEN "kcp" ELSE Fold[t.protocol]

\* The transport block is accepted.
TransportOK(t) ==
    /\ Protocol(t) \in {"kcp", "quic"}
    /\ ~Blank(t.key)
    /\ Protocol(t) = "kcp" =>
          /\ t.data >= 0 /\ t.parity >= 0
          /\ t.parity > 0 => t.data > 0
          /\ t.data + t.parity <= 255

Default(s, d) == IF Blank(s) THEN d ELSE s

\* What validateTransport makes of the block.
NormTransport(t) ==
    [t EXCEPT !.protocol = Default(t.protocol, "kcp"),
              !.conn = IF t.conn < 1 THEN 6 ELSE t.conn,
              !.block = IF Protocol(t) = "kcp" THEN Default(t.block, "aes-128-gcm") ELSE t.block,
              !.alpn = IF Protocol(t) = "quic" THEN Default(t.alpn, "paqetpremium") ELSE t.alpn]

Over(s, o) == IF o = "" THEN s ELSE o
OverInt(n, o) == IF o > 0 THEN o ELSE n

\* The fields of o that are set replace those of t.
mergeTransport(t, o) ==
    [protocol |-> Over(t.protocol, o.protocol), conn |-> OverInt(t.conn, o.conn),
     block |-> Over(t.block, o.block), key |-> Over(t.key, o.key),
     data |-> OverInt(t.data, o.data), parity |-> OverInt(t.parity, o.parity),
     alpn |-> Over(t.alpn, o.alpn)]

-----------------------------------------------------------------------------
(* Names and endpoints: upstreamNameSet, UpstreamEndpoints *)

\* Mutant of NameOf: no default name.
NameOfNoDefault(c, i) == Trim[c.servers[i].name]

NameOf(c, i) ==
    IF Blank(c.servers[i].name) THEN DefaultName[i] ELSE Trim[c.servers[i].name]

upstreamNameSet(c) ==
    IF c.servers # <<>> THEN {NameOf(c, i) : i \in DOMAIN c.servers}
    ELSE IF Blank(c.server) THEN {} ELSE {"default"}

\* The endpoint of the server at i.
Endpoint(c, i) ==
    LET s == c.servers[i]
        key == IF Blank(s.key) THEN c.transport.key ELSE Trim[s.key]
    IN  [name |-> IF Blank(s.name) THEN DefaultName[i] ELSE Trim[s.name],
         addr |-> s.addr, key |-> key,
         weight |-> IF s.weight < 1 THEN 1 ELSE s.weight,
         priority |-> IF s.priority < 1 THEN i ELSE s.priority,
         transport |-> [mergeTransport(c.transport, s.transport) EXCEPT !.key = key]]

\* The endpoints in the order of the configuration.
RawEndpoints(c) ==
    IF c.servers # <<>> THEN [i \in DOMAIN c.servers |-> Endpoint(c, i)]
    ELSE <<[name |-> "default", addr |-> c.server, key |-> c.transport.key,
            weight |-> 1, priority |-> 1, transport |-> c.transport]>>

\* The stable sort: E[j] comes before E[i].
Precedes(E, j, i) ==
    \/ E[j].priority < E[i].priority
    \/ /\ E[j].priority = E[i].priority
       /\ \/ Rank[E[j].name] < Rank[E[i].name]
          \/ E[j].name = E[i].name /\ j < i

Place(E, i) == 1 + Cardinality({j \in DOMAIN E : Precedes(E, j, i)})
UpstreamEndpoints(c) ==
    LET E == RawEndpoints(c)
    IN  [k \in DOMAIN E |-> E[CHOOSE i \in DOMAIN E : Place(E, i) = k]]

\* Every address of the configuration can be parsed.
AddrsParse(c) ==
    IF c.servers # <<>> THEN \A i \in DOMAIN c.servers : c.servers[i].addr \in Addrs
    ELSE c.server \in Addrs

\* OptionsFromConfig accepts the transport.
OptionsFromConfig(t) ==
    /\ ~Blank(t.key)
    /\ \/ Protocol(t) = "kcp" /\ t.block \in Blocks
       \/ Protocol(t) = "quic"

-----------------------------------------------------------------------------
(* Validate *)

\* The ports of a list.  A part is << >> if it is blank, <<lo, hi>> or <<port>>;
\* one that is not a number is written with the port 0, which is refused as well.
Parts(s) == {s[i] : i \in DOMAIN s} \ {<<>>}
Port(n) == 1 <= n /\ n <= 65535
PortRanges(s) ==
    /\ Parts(s) # {}
    /\ \A p \in Parts(s) : Port(p[1]) /\ Port(p[2]) /\ p[1] <= p[2]
ExcludePorts(s) == \A p \in Parts(s) : Port(p[1])

\* A blank list, and the lists that take its place.
NoList == <<<<>>>>
AllPorts == <<<<1, 65535>>>>
SshPort == <<<<22>>>>

NormRange(r) ==
    IF ~r.enabled THEN r
    ELSE [r EXCEPT !.protocol = Default(r.protocol, "tcp"),
                   !.ports = IF r.ports = NoList THEN AllPorts ELSE r.ports,
                   !.exclude = IF r.exclude = NoList THEN SshPort ELSE r.exclude]
RangeOK(r) ==
    r.enabled => /\ NormRange(r).protocol = "tcp"
                 /\ PortRanges(NormRange(r).ports)
                 /\ ExcludePorts(NormRange(r).exclude)

BindOK(c, bind) == Blank(bind) \/ Trim[bind] \in upstreamNameSet(c)

ClientOK(c) ==
    /\ c.servers # <<>> \/ ~Blank(c.server)
    /\ RangeOK(c.range)
    /\ c.forward # <<>> \/ c.socks5 # <<>> \/ c.range.enabled
    /\ \A i \in DOMAIN c.forward : BindOK(c, c.forward[i])
    /\ c.range.enabled => BindOK(c, c.range.bind)

\* The merged transport is checked with its defaults, which are not kept.
ServerOK(c, s) ==
    /\ ~Blank(s.addr)
    /\ ~Blank(s.key)
    /\ TransportOK([mergeTransport(NormTransport(c.transport), s.transport)
                       EXCEPT !.key = s.key])

Valid(c) ==
    /\ Fold[c.role] \in {"client", "server"}
    /\ c.network
    /\ TransportOK(c.transport)
    /\ Fold[c.role] = "server" => ~Blank(c.listen)
    /\ Fold[c.role] = "client" => ClientOK(c)
    /\ \A i \in DOMAIN c.servers : ServerOK(c, c.servers[i])

\* What Validate makes of a configuration it accepts.
Normal(c) ==
    [c EXCEPT !.role = Fold[c.role], !.transport = NormTransport(c.transport),
              !.strategy = Default(c.strategy, "failover"),
              !.range = IF Fold[c.role] = "client" THEN NormRange(c.range) ELSE c.range,
              !.level = Default(c.level, "info")]

\* ReloadFromDisk and NewManager get through with this file, if the network
\* lets them: it loads and every endpoint can be dialed.
Dialable(c) ==
    LET E == RawEndpoints(Normal(c))
    IN  /\ AddrsParse(c)
        /\ Valid(c)
        /\ \A i \in DOMAIN E : OptionsFromConfig(E[i].transport)

-----------------------------------------------------------------------------
(* redactConfig, restoreSecrets *)

isRedacted(s) == Trim[s] \in {"", Mark}
Redact(s) == IF Blank(s) THEN s ELSE Mark

redactConfig(c) ==
    [c EXCEPT !.transport = [c.transport EXCEPT !.key = Redact(c.transport.key)],
              !.admin = [c.admin EXCEPT !.token = Redact(c.admin.token)],
              !.servers = [i \in DOMAIN c.servers |->
                              [c.servers[i] EXCEPT !.key = Redact(c.servers[i].key)]],
              !.socks5 = [i \in DOMAIN c.socks5 |->
                             [c.socks5[i] EXCEPT !.pass = IF c.socks5[i].pass = "" THEN ""
                                                          ELSE Mark]]]

\* Mutant of Named: the empty name is looked up like any other.
NamedAny(S, name) == {j \in DOMAIN S : S[j].name = name}

Named(S, name) == {j \in DOMAIN S : name # "" /\ S[j].name = name}

\* Mutant of lookupUpstreamKey: by position only.
lookupUpstreamKeyByPosition(S, name, i) == IF i \in DOMAIN S THEN S[i].key ELSE ""

\* The key of the first server of that name, or of the one at that position.
lookupUpstreamKey(S, name, i) ==
    LET N == Named(S, name)
    IN  IF N # {} THEN S[CHOOSE j \in N : \A k \in N : j <= k].key
        ELSE IF i \in DOMAIN S THEN S[i].key ELSE ""

restoreKey(s, S, i) ==
    LET key == lookupUpstreamKey(S, s.name, i)
    IN  IF isRedacted(s.key) /\ key # "" THEN key ELSE s.key

restorePass(k, S, i) ==
    IF k.auth /\ isRedacted(k.pass) /\ i \in DOMAIN S /\ S[i].auth THEN S[i].pass ELSE k.pass

restoreSecrets(in, cur) ==
    [in EXCEPT
       !.transport = [in.transport EXCEPT !.key = IF isRedacted(in.transport.key)
                                                 THEN cur.transport.key ELSE in.transport.key],
       !.admin = [in.admin EXCEPT
                    !.token = IF in.admin.on /\ cur.admin.on /\ isRedacted(in.admin.token)
                              THEN cur.admin.token ELSE in.admin.token],
       !.servers = [i \in DOMAIN in.servers |->
                      [in.servers[i] EXCEPT !.key = restoreKey(in.servers[i], cur.servers, i)]],
       !.socks5 = [i \in DOMAIN in.socks5 |->
                     [in.socks5[i] EXCEPT !.pass = restorePass(in.socks5[i], cur.socks5, i)]]]

-----------------------------------------------------------------------------
(* The process and its editors *)

VARIABLES
    file,     \* the configuration file
    running,  \* the configuration in use
    editor,   \* editor[e]: where a user of the dashboard is, with which copy
    turns,    \* GETs and edits of the file so far
    granted,  \* which key was given in clear to which upstream, and which password
              \*   to which user (history)
    strays    \* the same for secrets that came back redacted under a name, or for a
              \*   user, that was not running (history)

vars == <<file, running, editor, turns, granted, strays>>

Grants(S, T) ==
    {<<"key", S[i].name, S[i].key>> : i \in DOMAIN S}
       \cup {<<"pass", T[i].user, T[i].pass>> : i \in DOMAIN T}

Init ==
    /\ file = Boot
    /\ Dialable(Boot)
    /\ running = Normal(Boot)
    /\ editor = [e \in Editors |-> [pc |-> "idle", doc |-> Boot, edits |-> 0]]
    /\ turns = 0
    /\ granted = Grants(Boot.servers, Boot.socks5)
    /\ strays = {}

At(e, l) == editor[e].pc = l
Goto(e, l, d, n) == editor' = [editor EXCEPT ![e] = [pc |-> l, doc |-> d, edits |-> n]]

\* The handler returns and the copy is gone.
Return(e) == Goto(e, "idle", Boot, 0)

Turn == turns < MaxTurns /\ turns' = turns + 1

\* GET /api/v1/config.
getConfigYAML(e) ==
    /\ At(e, "idle")
    /\ Turn
    /\ Goto(e, "edit", redactConfig(running), 0)
    /\ UNCHANGED <<file, running, granted, strays>>

Without(S, i) == SubSeq(S, 1, i - 1) \o SubSeq(S, i + 1, Len(S))

Changed(e, d) ==
    /\ At(e, "edit")
    /\ editor[e].edits < MaxEdits
    /\ Goto(e, "edit", d, editor[e].edits + 1)

\* A server without key, which speaks kcp whatever the others speak.
NewServer(n) ==
    [name |-> n, addr |-> CHOOSE x \in Addrs : TRUE, key |-> "", weight |-> 1, priority |-> 0,
     transport |-> [protocol |-> "kcp", conn |-> 0, block |-> "", key |-> "", data |-> 0,
                    parity |-> 0, alpn |-> ""]]

\* One change of a copy: a server is dropped, moved, renamed, given a key or
\* added without one; a SOCKS5 rule is dropped; a rule is bound to a server.
Change(e) ==
    LET d == editor[e].doc
        S == d.servers
    IN  /\ \/ \E i \in DOMAIN S :
                \/ Changed(e, [d EXCEPT !.servers = Without(S, i)])
                \/ Changed(e, [d EXCEPT !.servers = Without(S, i) \o <<S[i]>>])
                \/ \E n \in Names : Changed(e, [d EXCEPT !.servers[i].name = n])
                \/ \E k \in Keys : Changed(e, [d EXCEPT !.servers[i].key = k])
           \/ /\ Len(S) < MaxServers
              /\ \E n \in Names : Changed(e, [d EXCEPT !.servers = S \o <<NewServer(n)>>])
           \/ \E i \in DOMAIN d.socks5 : Changed(e, [d EXCEPT !.socks5 = Without(d.socks5, i)])
           \/ \E i \in DOMAIN d.forward, n \in Names : Changed(e, [d EXCEPT !.forward[i] = n])
        /\ UNCHANGED <<file, running, turns, granted, strays>>

\* The restored copy, as Validate leaves it.
Restored(e) == restoreSecrets(editor[e].doc, running)

\* PUT: the secrets are restored from the running configuration of this moment.
PutRestore(e) ==
    LET r == Restored(e)
        d == editor[e].doc
        clear == {i \in DOMAIN d.servers : ~isRedacted(d.servers[i].key)}
        typed == {i \in DOMAIN d.socks5 : ~isRedacted(d.socks5[i].pass)}
        gone == {i \in DOMAIN d.servers \ clear : \A j \in DOMAIN running.servers :
                    running.servers[j].name # d.servers[i].name}
        left == {i \in DOMAIN d.socks5 \ typed : \A j \in DOMAIN running.socks5 :
                    running.socks5[j].user # d.socks5[i].user}
    IN  /\ At(e, "edit")
        /\ Valid(r)
        /\ Goto(e, "save", Normal(r), 0)
        /\ granted' = granted \cup Grants([i \in clear |-> r.servers[i]],
                                          [i \in typed |-> r.socks5[i]])
        /\ strays' = strays \cup Grants([i \in gone |-> r.servers[i]],
                                        [i \in left |-> r.socks5[i]])
        /\ UNCHANGED <<file, running, turns>>

\* 400: the copy is refused and the user has to begin again.
PutRefused(e) ==
    /\ At(e, "edit")
    /\ ~Valid(Restored(e))
    /\ Return(e)
    /\ UNCHANGED <<file, running, turns, granted, strays>>

writeConfigFile(e) ==
    /\ At(e, "save")
    /\ file' = editor[e].doc
    /\ Goto(e, "reload", Boot, 0)
    /\ UNCHANGED <<running, turns, granted, strays>>

writeFails(e) ==
    /\ At(e, "save")
    /\ Return(e)
    /\ UNCHANGED <<file, running, turns, granted, strays>>

\* The reload of the PUT reads the file again.
PutReload(e) ==
    /\ At(e, "reload")
    /\ Dialable(file)
    /\ running' = Normal(file)
    /\ Return(e)
    /\ UNCHANGED <<file, turns, granted, strays>>

\* "saved, but reload failed": the file does not dial, or an upstream is down.
PutReloadFails(e) ==
    /\ At(e, "reload")
    /\ Return(e)
    /\ UNCHANGED <<file, running, turns, granted, strays>>

\* Somebody edits the file itself.
HandEdit(f) ==
    /\ Turn
    /\ file' = f
    /\ granted' = granted \cup Grants(f.servers, f.socks5)
    /\ UNCHANGED <<running, editor, strays>>

\* SIGHUP, POST /api/v1/reload or a restart.
Reload ==
    /\ Dialable(file)
    /\ running' = Normal(file)
    /\ UNCHANGED <<file, editor, turns, granted, strays>>

Next ==
    \/ \E e \in Editors :
          \/ getConfigYAML(e) \/ Change(e) \/ PutRestore(e) \/ PutRefused(e)
          \/ writeConfigFile(e) \/ writeFails(e) \/ PutReload(e) \/ PutReloadFails(e)
    \/ \E f \in Files : HandEdit(f)
    \/ Reload

Spec == Init /\ [][Next]_vars

-----------------------------------------------------------------------------
(* Properties *)

DistinctNames(S) ==
    \A i, j \in DOMAIN S : S[i].name = S[j].name => i = j \/ S[i].name = ""

\* "When a value comes back unchanged on save, the running secret is preserved":
\* to GET the configuration and PUT it back as it is changes nothing, whatever
\* was edited, saved and reloaded before, if the upstreams have distinct names.
UneditedPutKeeps ==
    DistinctNames(running.servers) =>
       /\ Valid(running)
       /\ Normal(restoreSecrets(redactConfig(running), running)) = running

Known == granted \cup strays

HasKeys(c) ==
    \A i \in DOMAIN c.servers : c.servers[i].name # "" =>
       <<"key", c.servers[i].name, c.servers[i].key>> \in Known

\* Upstream keys follow the names through every reordering, removal and copy that is
\* out of date: a named upstream only has a key that somebody gave to that name in
\* clear.  One case is excepted, in which the code does not hold this (strays): a
\* name that came back redacted when no running upstream had it, a new one or one
\* removed since the GET, has what lookupUpstreamKey found at its position, or the
\* mark.
KeysFollowNames == HasKeys(file) /\ HasKeys(running)

KnownBlocks(c) ==
    \A b \in {c.transport.block} \cup {c.servers[i].transport.block : i \in DOMAIN c.servers} :
       b \in Blocks \cup {""}
BlockMissing(c, t) == Protocol(c.transport) = "quic" /\ Protocol(t) = "kcp" /\ t.block = ""

\* Every upstream name a rule may be bound to is an endpoint, and an endpoint of
\* a configuration that loads can be dialed, if its addresses parse and its
\* blocks are known.  One case is excepted, in which the code does not hold this:
\* a server overrides quic by kcp and names no block.
LoadableDials ==
    LET c == Normal(file)
        E == UpstreamEndpoints(c)
    IN  Valid(file) /\ Fold[file.role] = "client" =>
          /\ upstreamNameSet(c) = {E[i].name : i \in DOMAIN E}
          /\ AddrsParse(c) /\ KnownBlocks(c) => \A i \in DOMAIN E :
                OptionsFromConfig(E[i].transport) \/ BlockMissing(c, E[i].transport)

\* "When a value comes back unchanged on save, the running secret is preserved"
\* (admin/config.go:12), said of the SOCKS5 passwords: a user who is in the running
\* configuration never gets a password that was not given to that user.
PassesFollowUsers ==
    \A i \in DOMAIN running.socks5 : running.socks5[i].auth =>
       <<"pass", running.socks5[i].user, running.socks5[i].pass>> \in Known

\* README.md:243 promises of an override "set just the protocol (or whatever
\* differs) and the rest comes from the global defaults": a file that loads, with
\* addresses that parse and known blocks, can be dialed without exception.
OverrideDials ==
    Valid(file) /\ AddrsParse(file) /\ KnownBlocks(file) => Dialable(file)

\* The weakest that the two promises say together: in no state are both broken.
\* One history of edits breaks both (restoreSecrets, Validate).
EditorPromises == PassesFollowUsers \/ OverrideDials
=============================================================================
