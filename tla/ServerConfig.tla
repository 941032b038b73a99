---------------------------- MODULE ServerConfig ----------------------------
(***************************************************************************)
(* The configuration of a running server: its file, the copy in memory and *)
(* the firewall rules.  Run, ReloadFromDisk and watchReload of             *)
(* tunnel/server.go, iptables/iptables_linux.go, and the configuration     *)
(* editor of admin/config.go.                                              *)
(*                                                                         *)
(* A configuration is its secret, what the listener was made from and a    *)
(* reload must not change (protocol, port, interface), and the IPv6 port,  *)
(* which a reload may change.                                              *)
(***************************************************************************)
EXTENDS Integers

CONSTANTS
    Keys,       \* values of transport.kcp.key
    Mark,       \* redactedMark
    Nets,       \* protocol, tunnel port and interface, as one value
    Ports6,     \* ports of network.ipv6.addr
    NoPort,     \* no network.ipv6
    Boot,       \* the configuration the server starts with
    Invalid,    \* contents of a file that does not load
    Cut,        \* contents of a file that is being written
    NoFile,     \* there is no file with the suffix .tmp
    Requests,   \* goroutines that reload: SIGHUP, POST /api/v1/reload
    Editors,    \* goroutines of PUT /api/v1/config, which may overlap
    Main,       \* the goroutine of Run
    NRules,     \* rules of a family; 3 in the code: NOTRACK in and out, RST
    MaxEdits    \* bound: edits of the file and requests in a behaviour

\* A configuration that loads.  The mark would be accepted as a key.
Config == [key : Keys \cup {Mark}, net : Nets, port6 : Ports6 \cup {NoPort}]
Contents == Config \cup {Invalid, Cut}

ASSUME BootAssumption == Boot \in Config /\ Boot.key # Mark
ASSUME ContentsAssumption == Config \cap {Invalid, Cut, NoFile} = {}
ASSUME ProcAssumption == Editors \cap Requests = {} /\ Main \notin Requests \cup Editors
ASSUME BoundAssumption == NRules \in Nat \ {0} /\ MaxEdits \in Nat

Procs == Requests \cup Editors \cup {Main}

\* A rule of IPv4, whose port is that of the listener, or of an IPv6 port.
Rule == (Ports6 \cup {NoPort}) \X (1..NRules)

VARIABLES
    file,     \* the configuration file
    tmp,      \* the file with the suffix .tmp, one for all editors
    fd,       \* fd[p]: the name that the file p has opened has now; "none": no longer any
    cfg,      \* s.cfg
    rules,    \* rules[r]: how many copies of r the firewall has
    server,   \* Run: "start", "serve", "remove", "exit"
    cleanup,  \* Run has deferred iptables.Remove
    failed,   \* an Apply has failed (history)
    stage,    \* Remove: how many tables it has listed
    listed,   \* Remove: listed[r]: lines of its listing for r still to be deleted
    spared,   \* copies of r a failed command of Remove left, or added after its listing (history)
    pc,       \* pc[p]: where goroutine p is
    old,      \* old[p]: the configuration p compares with
    new,      \* new[p]: the configuration p has loaded, or is to save
    next,     \* next[p]: the rule p is at, from 1
    edits     \* edits and requests so far

vars == <<file, tmp, fd, cfg, rules, server, cleanup, failed, stage, listed, spared, pc, old, new, next, edits>>
fileVars == <<file, tmp, fd>>
removeVars == <<stage, listed, spared>>
ruleVars == <<rules, failed, removeVars>>
runVars == <<server, cleanup>>

\* The rules of a configuration in the order of Apply: IPv4, then IPv6.
Count(c) == IF c.port6 = NoPort THEN NRules ELSE 2 * NRules
RuleAt(c, k) == IF k <= NRules THEN <<NoPort, k>> ELSE <<c.port6, k - NRules>>

Init ==
    /\ file = Boot
    /\ tmp = NoFile
    /\ fd = [p \in Editors |-> "none"]
    /\ cfg = Boot
    /\ rules = [r \in Rule |-> 0]
    /\ server = "start"
    /\ cleanup = FALSE
    /\ failed = FALSE
    /\ stage = 0
    /\ listed = [r \in Rule |-> 0]
    /\ spared = [r \in Rule |-> 0]
    /\ pc = [p \in Procs |-> IF p = Main THEN "apply" ELSE "idle"]
    /\ old = [p \in Procs |-> Boot]
    /\ new = [p \in Procs |-> Boot]
    /\ next = [p \in Procs |-> 1]
    /\ edits = 0

At(p, l) == server # "exit" /\ pc[p] = l
Goto(p, l) == pc' = [pc EXCEPT ![p] = l]

\* A handler returns; its local variables are gone.
Return(p) ==
    /\ Goto(p, "idle")
    /\ old' = [old EXCEPT ![p] = Boot]
    /\ new' = [new EXCEPT ![p] = Boot]
    /\ next' = [next EXCEPT ![p] = 1]

\* Tables in the order of Remove: raw and mangle of IPv4, raw and mangle of IPv6.  The
\* last rule of a family is the one in mangle.
InTable(r, n) ==
    /\ r[1] = NoPort <=> n \in {1, 2}
    /\ r[2] = NRules <=> n \in {2, 4}

\* Remove has been through the table of r.
Passed(r) == \E n \in 1..stage : InTable(r, n)

Edit == edits < MaxEdits /\ edits' = edits + 1

-----------------------------------------------------------------------------
(* ReloadFromDisk *)

\* s.cfg is read at the beginning.
BeginReload(p) ==
    /\ old' = [old EXCEPT ![p] = cfg]
    /\ Goto(p, "load")

\* SIGHUP or a POST.  The goroutines start with Run, and a reload may begin while
\* Run ends: nothing waits for them.
Reload(p) ==
    /\ At(p, "idle") /\ server # "start"
    /\ Edit
    /\ BeginReload(p)
    /\ UNCHANGED <<fileVars, cfg, ruleVars, runVars, new, next>>

\* Mutant of Restartless: the key is not compared.
RestartlessAnyKey(c, d) == c.net = d.net

\* What a reload may not change.
Restartless(c, d) == c.net = d.net /\ c.key = d.key

\* Mutant of Load: the error of config.Load is ignored.
LoadAnything(p) ==
    /\ At(p, "load")
    /\ new' = [new EXCEPT ![p] = file]
    /\ next' = [next EXCEPT ![p] = 1]
    /\ Goto(p, "apply")
    /\ UNCHANGED <<fileVars, cfg, ruleVars, runVars, old, edits>>

\* Mutant of Load: the configuration is stored before its rules are in place.
LoadStores(p) ==
    /\ At(p, "load")
    /\ file \in Config
    /\ Restartless(old[p], file)
    /\ new' = [new EXCEPT ![p] = file]
    /\ cfg' = file
    /\ next' = [next EXCEPT ![p] = 1]
    /\ Goto(p, "apply")
    /\ UNCHANGED <<fileVars, ruleVars, runVars, old, edits>>

\* The file is read, and a change that needs a restart is refused.
Load(p) ==
    /\ At(p, "load")
    /\ file \in Config
    /\ Restartless(old[p], file)
    /\ new' = [new EXCEPT ![p] = file]
    /\ next' = [next EXCEPT ![p] = 1]
    /\ Goto(p, "apply")
    /\ UNCHANGED <<fileVars, cfg, ruleVars, runVars, old, edits>>

\* The file is refused, or ResolveNetwork fails because the interface is gone.
LoadFails(p) ==
    /\ At(p, "load")
    /\ Return(p)
    /\ UNCHANGED <<fileVars, cfg, ruleVars, runVars, edits>>

\* Apply returns.  Run goes on in any case, and defers Remove if there was no error.
AfterApply(p, ok) ==
    IF p = Main
    THEN Goto(p, "idle") /\ server' = "serve" /\ cleanup' = ok
    ELSE Goto(p, "store") /\ UNCHANGED runVars

\* ensureRule asks for the rule with -C, whose error, for whatever reason, means that
\* the rule has to be added.
CheckRule(p) ==
    /\ At(p, "apply")
    /\ next[p] <= Count(new[p])
    /\ \/ /\ rules[RuleAt(new[p], next[p])] > 0
          /\ next' = [next EXCEPT ![p] = next[p] + 1]
          /\ UNCHANGED pc
       \/ Goto(p, "add") /\ UNCHANGED next
    /\ UNCHANGED <<fileVars, cfg, ruleVars, runVars, old, new, edits>>

\* It adds the rule with -A, although somebody may have added it since.
AddRule(p) ==
    /\ At(p, "add")
    /\ LET r == RuleAt(new[p], next[p])
       IN  /\ rules' = [rules EXCEPT ![r] = rules[r] + 1]
           /\ spared' = [spared EXCEPT ![r] = IF Passed(r) THEN spared[r] + 1 ELSE spared[r]]
    /\ next' = [next EXCEPT ![p] = next[p] + 1]
    /\ Goto(p, "apply")
    /\ UNCHANGED <<fileVars, cfg, failed, stage, listed, runVars, old, new, edits>>

ApplyDone(p) ==
    /\ At(p, "apply")
    /\ next[p] > Count(new[p])
    /\ AfterApply(p, TRUE)
    /\ UNCHANGED <<fileVars, cfg, ruleVars, old, new, next, edits>>

\* iptables or ip6tables is missing, or -A fails; the rules so far stay.
ApplyFails(p) ==
    /\ At(p, "apply") \/ At(p, "add")
    /\ next[p] <= Count(new[p])
    /\ failed' = TRUE
    /\ AfterApply(p, FALSE)
    /\ UNCHANGED <<fileVars, cfg, rules, removeVars, old, new, next, edits>>

\* The configuration is stored, whether or not Apply failed.
Store(p) ==
    /\ At(p, "store")
    /\ cfg' = new[p]
    /\ Return(p)
    /\ UNCHANGED <<fileVars, ruleVars, runVars, edits>>

-----------------------------------------------------------------------------
(* putConfigYAML *)

\* Mutant of RestoreSecrets: the key of the request is kept.
RestoreNothing(c) == c

\* A key that comes back redacted is the one in use.
RestoreSecrets(c) == IF c.key = Mark THEN [c EXCEPT !.key = cfg.key] ELSE c

\* A request that parses and is valid.
PutConfig(p, c) ==
    /\ At(p, "idle") /\ server # "start"
    /\ Edit
    /\ new' = [new EXCEPT ![p] = RestoreSecrets(c)]
    /\ Goto(p, "truncate")
    /\ UNCHANGED <<fileVars, cfg, ruleVars, runVars, old, next>>

\* os.WriteFile opens the temporary file and cuts it to nothing, another PUT's too.
Truncate(p) ==
    /\ At(p, "truncate")
    /\ tmp' = Cut
    /\ fd' = [fd EXCEPT ![p] = "tmp"]
    /\ Goto(p, "write")
    /\ UNCHANGED <<file, cfg, ruleVars, runVars, old, new, next, edits>>

\* What d written over c may give: d, or d followed by the rest of a longer c, which
\* may not load or load as something else.
Overlaid(c, d) ==
    IF c = Cut THEN {d} ELSE {d, Invalid} \cup {e \in Config : e.key # Mark}

\* It writes from the beginning to the file it has opened, whatever its name is now.
Write(p) ==
    /\ At(p, "write")
    /\ IF fd[p] = "tmp" THEN tmp' \in Overlaid(tmp, new[p]) ELSE UNCHANGED tmp
    /\ IF fd[p] = "file" THEN file' \in Overlaid(file, new[p]) ELSE UNCHANGED file
    /\ fd' = [fd EXCEPT ![p] = "none"]
    /\ Goto(p, "rename")
    /\ UNCHANGED <<cfg, ruleVars, runVars, old, new, next, edits>>

\* The disk is full, the directory not writable, or another PUT has renamed the file.
WriteFails(p) ==
    /\ At(p, "truncate") \/ At(p, "write") \/ At(p, "rename")
    /\ fd' = [fd EXCEPT ![p] = "none"]
    /\ Return(p)
    /\ UNCHANGED <<file, tmp, cfg, ruleVars, runVars, edits>>

\* The temporary file, whoever has written it, takes the place of the old one, and the
\* reload begins.
Rename(p) ==
    /\ At(p, "rename")
    /\ tmp # NoFile
    /\ file' = tmp
    /\ tmp' = NoFile
    /\ fd' = [q \in Editors |-> IF fd[q] = "tmp" THEN "file" ELSE "none"]
    /\ BeginReload(p)
    /\ UNCHANGED <<cfg, ruleVars, runVars, new, next, edits>>

-----------------------------------------------------------------------------
(* The operator, and the end of Run *)

\* The operator replaces the file, perhaps by one that does not load.
EditFile(c) ==
    /\ server # "exit"
    /\ Edit
    /\ file' = c
    /\ fd' = [p \in Editors |-> IF fd[p] = "file" THEN "none" ELSE fd[p]]
    /\ UNCHANGED <<tmp, cfg, ruleVars, runVars, pc, old, new, next>>

\* SIGTERM, or an error of pcap or of the listener.
RunReturns ==
    /\ server = "serve"
    /\ server' = IF cleanup THEN "remove" ELSE "exit"
    /\ UNCHANGED <<fileVars, cfg, ruleVars, cleanup, pc, old, new, next, edits>>

\* Mutant of Listing: a rule that is there twice is deleted once.
ListingOnce(n) == [r \in Rule |-> IF InTable(r, n) /\ rules[r] > 0 THEN 1 ELSE 0]

\* iptables -S: a line for every copy of a rule with the comment of the program,
\* whether or not it belongs to the configuration in use.
Listing(n) == [r \in Rule |-> IF InTable(r, n) THEN rules[r] ELSE 0]

\* Remove is done with the lines of a table.
NothingListed == \A r \in Rule : listed[r] = 0

\* removeCommented lists the next table.
List ==
    /\ server = "remove" /\ stage < 4 /\ NothingListed
    /\ stage' = stage + 1
    /\ listed' = Listing(stage + 1)
    /\ UNCHANGED <<fileVars, cfg, rules, failed, spared, runVars, pc, old, new, next, edits>>

\* The program of the family is missing, or the listing fails: the next table is passed over.
ListFails ==
    /\ server = "remove" /\ stage < 4 /\ NothingListed
    /\ stage' = stage + 1
    /\ spared' = [r \in Rule |-> spared[r] + Listing(stage + 1)[r]]
    /\ UNCHANGED <<fileVars, cfg, rules, failed, listed, runVars, pc, old, new, next, edits>>

\* -D for one line deletes one copy, or fails, which is ignored.
Delete(r) ==
    /\ server = "remove" /\ listed[r] > 0
    /\ listed' = [listed EXCEPT ![r] = listed[r] - 1]
    /\ \/ rules' = [rules EXCEPT ![r] = rules[r] - 1] /\ UNCHANGED spared
       \/ spared' = [spared EXCEPT ![r] = spared[r] + 1] /\ UNCHANGED rules
    /\ UNCHANGED <<fileVars, cfg, failed, stage, runVars, pc, old, new, next, edits>>

Exit ==
    /\ server = "remove" /\ stage = 4 /\ NothingListed
    /\ server' = "exit"
    /\ UNCHANGED <<fileVars, cfg, ruleVars, cleanup, pc, old, new, next, edits>>

-----------------------------------------------------------------------------

Next ==
    \/ \E p \in Requests : Reload(p)
    \/ \E p \in Requests \cup Editors : Load(p) \/ LoadFails(p) \/ Store(p)
    \/ \E p \in Procs : CheckRule(p) \/ AddRule(p) \/ ApplyDone(p) \/ ApplyFails(p)
    \/ \E p \in Editors : \E c \in Config : PutConfig(p, c)
    \/ \E p \in Editors : Truncate(p) \/ Write(p) \/ WriteFails(p) \/ Rename(p)
    \/ \E c \in {d \in Contents : d \notin Config \/ d.key # Mark} \ {Cut} : EditFile(c)
    \/ RunReturns \/ List \/ ListFails \/ (\E r \in Rule : Delete(r)) \/ Exit

Spec == Init /\ [][Next]_vars

-----------------------------------------------------------------------------
(* Properties *)

\* Every variable has its type.
TypeOK ==
    /\ file \in Contents /\ tmp \in Contents \cup {NoFile}
    /\ fd \in [Editors -> {"none", "tmp", "file"}]
    /\ cfg \in Config
    /\ rules \in [Rule -> Nat] /\ listed \in [Rule -> Nat] /\ spared \in [Rule -> Nat]
    /\ server \in {"start", "serve", "remove", "exit"}
    /\ cleanup \in BOOLEAN /\ failed \in BOOLEAN /\ stage \in 0..4
    /\ pc \in [Procs -> {"idle", "load", "apply", "add", "store", "truncate", "write", "rename"}]
    /\ old \in [Procs -> Config] /\ new \in [Procs -> Config]
    /\ next \in [Procs -> 1..(2 * NRules + 1)]
    /\ edits \in 0..MaxEdits

\* No sequence of edits and of reloads that overlap makes the running configuration
\* differ from the listener in what ReloadFromDisk calls "restart required", though
\* each compares with a copy of s.cfg that may be out of date when it stores.
ListenerMatchesConfig == cfg.net = Boot.net /\ cfg.key = Boot.key

\* Reloads that overlap, with different IPv6 ports, store a configuration only when
\* its rules are in place, unless iptables failed.
FirewallFollowsConfig ==
    server = "serve" /\ ~failed => \A k \in 1..Count(cfg) : rules[RuleAt(cfg, k)] > 0

\* What GET has redacted is never taken for the transport key, though PUTs overlap and
\* write over each other's file: the comment at admin/config.go:13 says "the running
\* secret is preserved".
MarkNeverSaved == cfg.key # Mark /\ (file \in Config => file.key # Mark)

\* When Run has deferred Remove, every copy of a rule is gone at the end but those whose
\* deletion or listing failed and those a reload added after the listing of their
\* table, although reloads have left rules of ports no longer configured and added some
\* rules twice.
RulesRemoved == server = "exit" /\ cleanup => \A r \in Rule : rules[r] <= spared[r]
=============================================================================
