---------------------------- MODULE MCConfigEdit ----------------------------
(***************************************************************************)
(* A small instance of ConfigEdit: two SOCKS5 users, up to three upstreams *)
(* and files that differ in what the editor and Validate treat specially.  *)
(***************************************************************************)
EXTENDS ConfigEdit, TLC

\* The strings, in the order Go compares them.
InOrder ==
    <<"", " ", " a ", Mark, "Client", "QUIC", "QUIC ", "a", "addr", "aes", "aes-128",
      "aes-128-gcm", "aes-192", "aes-256", "b", "client", "default", "failover", "host",
      "info", "k1", "k2", "k3", "kcp", "none", "null", "p1", "p2", "paqetpremium", "quic",
      "salsa20", "server", "tcp", "u1", "u2", "upstream-1", "upstream-2", "upstream-3">>
AllStrings == {InOrder[i] : i \in DOMAIN InOrder}
Alphabet == [s \in AllStrings |-> CHOOSE i \in DOMAIN InOrder : InOrder[i] = s]

StringTable == (" " :> "" @@ " a " :> "a" @@ "QUIC " :> "QUIC") @@ [s \in AllStrings |-> s]
FoldTable == ("QUIC" :> "quic" @@ "QUIC " :> "quic" @@ "Client" :> "client") @@ StringTable
DefaultNames == <<"upstream-1", "upstream-2", "upstream-3">>

NoTransport == [protocol |-> "", conn |-> 0, block |-> "", key |-> "", data |-> 0,
                parity |-> 0, alpn |-> ""]
Quic == [NoTransport EXCEPT !.protocol = "QUIC ", !.key = "k1"]
Kcp == [NoTransport EXCEPT !.key = "k1", !.data = 10, !.parity = 3]
ToKcp == [NoTransport EXCEPT !.protocol = "kcp"]
Srv(n, k, t) == [name |-> n, addr |-> "addr", key |-> k, weight |-> 0, priority |-> 0,
                 transport |-> t]
User(u, p) == [auth |-> TRUE, user |-> u, pass |-> p]
NoRange == [enabled |-> FALSE, protocol |-> "", ports |-> <<<<>>>>, exclude |-> <<<<>>>>,
            bind |-> ""]

\* Two named upstreams over kcp, nearly everything left to the defaults.
TwoNamed ==
    [role |-> "Client", network |-> TRUE, transport |-> Kcp, strategy |-> "",
     servers |-> <<Srv("a", "k1", NoTransport), Srv("b", "k2", NoTransport)>>,
     server |-> "", forward |-> <<"a">>, socks5 |-> <<User("u1", "p1"), User("u2", "p2")>>,
     range |-> NoRange, listen |-> "", admin |-> [on |-> TRUE, token |-> "k3"],
     level |-> ""]

\* Unnamed upstreams over quic, bound by default name, and a port range.
Unnamed ==
    [TwoNamed EXCEPT !.transport = Quic,
       !.servers = <<Srv("", "k1", NoTransport), Srv("", "k2", Quic)>>,
       !.forward = <<"upstream-2">>,
       !.range = [NoRange EXCEPT !.enabled = TRUE, !.bind = "upstream-1"]]

\* The key of a is new; b overrides quic by kcp without a block.
Rekeyed ==
    [TwoNamed EXCEPT !.transport = Quic,
       !.servers = <<Srv("a", "k3", Quic), Srv("b", "k2", ToKcp)>>, !.forward = <<" a ">>]

\* The old form with one server, and only a port range.
Legacy ==
    [TwoNamed EXCEPT !.servers = <<>>, !.server = "addr", !.forward = <<>>, !.socks5 = <<>>,
       !.range = [NoRange EXCEPT !.enabled = TRUE, !.ports = <<<<80, 80>>, <<>>>>,
                                 !.exclude = <<<<22>>, <<80>>>>, !.bind = "default"]]

\* A file that Validate refuses.
NoPorts == [Legacy EXCEPT !.range.ports = <<<<>>, <<>>>>]

SomeFiles == {TwoNamed, Unnamed, Rekeyed, Legacy, NoPorts}

Symmetry == Permutations(Editors)
=============================================================================
