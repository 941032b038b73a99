------------------------------ MODULE Upstream ------------------------------
(***************************************************************************)
(* The upstream manager of the client (internal/upstream/manager.go): it   *)
(* owns one tunnel pool per configured exit server, pings every pool from  *)
(* a health loop, rebuilds the pools of unhealthy upstreams in background  *)
(* goroutines, replaces everything on a hot reload and routes new streams. *)
(*                                                                         *)
(* Processes: the constructor, the health loop, the reconnect goroutines   *)
(* (Workers), the reload calls (Reloads, each with a configuration of its  *)
(* own), Close, the callers of poolFor, and the network.  m.mu is held     *)
(* over several steps only by the health loop, which pings under it; every *)
(* other critical section is one atomic step, enabled when the health loop *)
(* does not hold the lock (Unlocked).                                      *)
(***************************************************************************)
EXTENDS Integers, Sequences, FiniteSets

CONSTANTS
    Names,             \* upstream names
    NoName,            \* the empty name
    Pools,             \* pool objects; one may be used again once closed
    NoPool,            \* nil
    Workers,           \* reconnect goroutines that may exist at once (bound)
    InitCfg,           \* the configuration NewManager starts from
    Reloads,           \* the reload calls, each named after its configuration
    Order,             \* Order[c]: the upstreams of c sorted by priority
    FailThreshold,     \* FailThreshold[c], RecoverThreshold[c]: the health
    RecoverThreshold,  \*   settings of c
    Strategy           \* Strategy[c]: "failover", or "balanced" for the
                       \*   three strategies that spread over healthy ones

Configs == Reloads \cup {InitCfg}

\* NoName and NoPool are not names and pools; InitCfg is not a reload.
ASSUME NilAssumption ==
    /\ NoName \notin Names
    /\ NoPool \notin Pools
    /\ InitCfg \notin Reloads

\* UpstreamEndpoints returns at least one endpoint or an error.  A name may
\* occur twice: Validate does not look for that.
ASSUME OrderAssumption ==
    /\ Order \in [Configs -> Seq(Names)]
    /\ \A c \in Configs : Len(Order[c]) > 0

\* HealthSettings replaces thresholds below 1 by its defaults.
ASSUME ThresholdAssumption ==
    /\ FailThreshold \in [Configs -> Nat \ {0}]
    /\ RecoverThreshold \in [Configs -> Nat \ {0}]

ASSUME StrategyAssumption == Strategy \in [Configs -> {"failover", "balanced"}]

VARIABLES
    phase,         \* the life of the manager
    built,         \* endpoints the constructor has dialed
    ctxDone,       \* m.ctx is cancelled
    cfg,           \* the configuration behind m.cfg, m.health and m.order
    entries,       \* m.entries; an absent entry is NilEntry
    active,        \* m.active
    reconnecting,  \* entry objects whose reconnecting flag is set; an entry
                   \*   object is named by its configuration and its name
    pool,          \* the pool objects: their state and endpoint
    up,            \* up[n]: the server of n answers
    hpc, hTodo,    \* health loop: control state, entries still to ping
    rc,            \* reconnect goroutines
    rl,            \* reload calls
    streak,        \* history: how many pings of the health loop the entry
                   \*   answered in a row, or (negative) did not answer
    lost           \* history: pools whose entry a second endpoint of the
                   \*   same name overwrote

mgrVars == <<phase, built, ctxDone, streak, lost>>
vars == <<phase, built, ctxDone, cfg, entries, active, reconnecting, pool,
          up, hpc, hTodo, rc, rl, streak, lost>>

Entry == [pool : Pools \cup {NoPool}, healthy : BOOLEAN,
          failures : Nat, recovers : Nat]
NewEntry(p) == [pool |-> p, healthy |-> TRUE, failures |-> 0, recovers |-> 0]
NilEntry == [pool |-> NoPool, healthy |-> FALSE, failures |-> 0, recovers |-> 0]

\* live: some session is open and its peer knows it; mute: open here, but
\* forgotten by the peer (a server restart), so no ping is answered; dead:
\* every session closed itself (keepalive); closed: Pool.Close was called.
PoolState == [state : {"live", "mute", "dead", "closed"},
              cfg : Configs, name : Names \cup {NoName}]
ClosedPool == [state |-> "closed", cfg |-> InitCfg, name |-> NoName]

Worker == [pc : {"idle", "start", "check", "dial", "ping", "backoff", "swap",
                 "close", "exit"},
           name : Names \cup {NoName}, obj : Configs, ep : Configs,
           pool : Pools \cup {NoPool}]
IdleWorker == [pc |-> "idle", name |-> NoName, obj |-> InitCfg,
               ep |-> InitCfg, pool |-> NoPool]

Reloading == [pc : {"dial", "close"}, dialed : Nat,
              pools : [Names -> Pools \cup {NoPool}]]

Unlocked == hpc # "check"
Running == phase \notin {"new", "failed"}
Present(n) == n \in Names /\ entries[n].pool # NoPool
Healthy(n) == Present(n) /\ entries[n].healthy

\* Pool.Alive: some session is not closed locally.
Alive(p) == pool[p].state \in {"live", "mute"}

\* PingWithTimeout on the pool p of upstream n.
Answers(n, p) == pool[p].state = "live" /\ up[n]

Open(p, c, n) == [pool EXCEPT ![p] = [state |-> "live", cfg |-> c, name |-> n]]
ClosePools(P) == [p \in Pools |-> IF p \in P THEN ClosedPool ELSE pool[p]]
InstalledPools == {entries[n].pool : n \in Names} \ {NoPool}

\* The history.  A pool that was just installed counts as one that answered
\* often enough to be healthy.
Lose(p) == lost \cup ({p} \ {NoPool})
NoStreak == [n \in Names |-> 0]
Failed(n) == IF streak[n] > 0 THEN -1
             ELSE IF streak[n] > -FailThreshold[cfg] THEN streak[n] - 1
             ELSE streak[n]
Answered(n) == IF streak[n] < 0 THEN 1
               ELSE IF streak[n] < RecoverThreshold[cfg] THEN streak[n] + 1
               ELSE streak[n]

\* A dial may fail when the server does not answer or the context is done.
\* It may also succeed then: a KCP dial involves no handshake.
DialMayFail(n) == ~up[n] \/ ctxDone

Init ==
    /\ phase = "new"
    /\ built = 0
    /\ ctxDone = FALSE
    /\ cfg = InitCfg
    /\ entries = [n \in Names |-> NilEntry]
    /\ active = NoName
    /\ reconnecting = {}
    /\ pool = [p \in Pools |-> ClosedPool]
    /\ up \in [Names -> BOOLEAN]
    /\ hpc = "off"
    /\ hTodo = {}
    /\ rc = [r \in Workers |-> IdleWorker]
    /\ rl = [g \in Reloads |-> [pc |-> "dial", dialed |-> 0,
                                pools |-> [n \in Names |-> NoPool]]]
    /\ streak = NoStreak
    /\ lost = {}

-----------------------------------------------------------------------------
(* NewManager *)

\* A second endpoint of one name overwrites the entry of the first.
NewManagerDial(p) ==
    /\ phase = "new"
    /\ built < Len(Order[InitCfg])
    /\ pool[p].state = "closed"
    /\ LET n == Order[InitCfg][built + 1]
       IN  /\ pool' = Open(p, InitCfg, n)
           /\ entries' = [entries EXCEPT ![n] = NewEntry(p)]
           /\ lost' = Lose(entries[n].pool)
           /\ streak' = [streak EXCEPT ![n] = RecoverThreshold[InitCfg]]
    /\ built' = built + 1
    /\ UNCHANGED <<phase, ctxDone, cfg, active, reconnecting, up, hpc, hTodo,
                   rc, rl>>

\* A dial fails: m.Close() closes the pools dialed so far.
NewManagerFail ==
    /\ phase = "new"
    /\ built < Len(Order[InitCfg])
    /\ DialMayFail(Order[InitCfg][built + 1])
    /\ phase' = "failed"
    /\ ctxDone' = TRUE
    /\ pool' = ClosePools(InstalledPools)
    /\ entries' = [n \in Names |-> NilEntry]
    /\ streak' = NoStreak
    /\ UNCHANGED <<built, cfg, active, reconnecting, up, hpc, hTodo, rc, rl, lost>>

\* All endpoints are dialed.  The initial pingAll only logs.
NewManagerDone ==
    /\ phase = "new"
    /\ built = Len(Order[InitCfg])
    /\ phase' = "run"
    /\ active' = Order[InitCfg][1]
    /\ hpc' = "wait"
    /\ UNCHANGED <<built, ctxDone, cfg, entries, reconnecting, pool, up, hTodo,
                   rc, rl, streak, lost>>

-----------------------------------------------------------------------------
(* poolFor, pickLocked, failoverLocked *)

\* The first healthy upstream of E in the order of c, or d if there is none.
FirstHealthy(E, c, d) ==
    LET H == {i \in 1..Len(Order[c]) : E[Order[c][i]].healthy}
    IN  IF H = {} THEN d
        ELSE Order[c][CHOOSE i \in H : \A j \in H : i <= j]

failoverLocked(E) == FirstHealthy(E, cfg, active)

\* Mutant of pickActive: the active upstream is returned unchecked.
pickActiveUnchecked == active

\* The value of m.active after pickLocked.
pickActive ==
    IF Strategy[cfg] = "failover" /\ ~Healthy(active)
    THEN FirstHealthy(entries, cfg, active)
    ELSE active

\* The upstreams pickLocked may return.
pickLocked ==
    LET H == {n \in Names : Healthy(n)}
    IN  IF H = {} \/ Strategy[cfg] = "failover" THEN {pickActive} ELSE H

\* The upstreams a call with this bind may be routed to.
poolFor(bind) == IF Healthy(bind) THEN {bind} ELSE pickLocked

\* A call of poolFor for which the bound upstream, if any, is not healthy.
Route ==
    /\ Running
    /\ Unlocked
    /\ active' = pickActive
    /\ UNCHANGED <<mgrVars, cfg, entries, reconnecting, pool, up, hpc, hTodo,
                   rc, rl>>

-----------------------------------------------------------------------------
(* healthLoop and runHealthCheck *)

HealthLock ==
    /\ hpc = "wait"
    /\ hpc' = "check"
    /\ hTodo' = {n \in Names : Present(n)}
    /\ UNCHANGED <<mgrVars, cfg, entries, active, reconnecting, pool, up, rc, rl>>

\* failures keeps counting while the upstream is down; only the comparison
\* with the threshold is ever used, so the count saturates there.
FailedEntry(e) ==
    LET f == IF e.failures < FailThreshold[cfg] THEN e.failures + 1
             ELSE e.failures
    IN  [pool |-> e.pool, healthy |-> e.healthy /\ f < FailThreshold[cfg],
         failures |-> f, recovers |-> 0]

\* go m.reconnect(name).  When every worker is busy none is started: this is
\* where the number of goroutines is bounded.
SpawnReconnect(n) ==
    IF \E r \in Workers : rc[r].pc = "idle"
    THEN \E r \in Workers :
            /\ rc[r].pc = "idle"
            /\ rc' = [rc EXCEPT ![r] = [IdleWorker EXCEPT !.pc = "start",
                                                          !.name = n]]
    ELSE UNCHANGED rc

HealthPingFail(n) ==
    /\ n \in hTodo
    /\ ~Answers(n, entries[n].pool)
    /\ hTodo' = hTodo \ {n}
    /\ entries' = [entries EXCEPT ![n] = FailedEntry(entries[n])]
    /\ active' = IF active = n /\ entries[n].healthy /\ ~entries'[n].healthy
                 THEN failoverLocked(entries') ELSE active
    /\ IF ~entries'[n].healthy /\ <<cfg, n>> \notin reconnecting
       THEN SpawnReconnect(n) ELSE UNCHANGED rc
    /\ streak' = [streak EXCEPT ![n] = Failed(n)]
    /\ UNCHANGED <<phase, built, ctxDone, cfg, reconnecting, pool, up, hpc, rl, lost>>

\* Mutant of RecoveringEntry: the counter is compared before it is incremented.
RecoveringEntryTooLate(e) ==
    LET recovered == e.recovers > RecoverThreshold[cfg]
    IN  [pool |-> e.pool, healthy |-> e.healthy \/ recovered, failures |-> 0,
         recovers |-> IF e.healthy THEN e.recovers
                      ELSE IF recovered THEN 0 ELSE e.recovers + 1]

\* Mutant of RecoveringEntry: an answered ping leaves the failures counted.
RecoveringEntryKeepsFailures(e) ==
    LET recovered == e.recovers + 1 >= RecoverThreshold[cfg]
    IN  [pool |-> e.pool, healthy |-> e.healthy \/ recovered, failures |-> e.failures,
         recovers |-> IF e.healthy THEN e.recovers
                      ELSE IF recovered THEN 0 ELSE e.recovers + 1]

RecoveringEntry(e) ==
    LET recovered == e.recovers + 1 >= RecoverThreshold[cfg]
    IN  [pool |-> e.pool, healthy |-> e.healthy \/ recovered, failures |-> 0,
         recovers |-> IF e.healthy THEN e.recovers
                      ELSE IF recovered THEN 0 ELSE e.recovers + 1]

HealthPingOk(n) ==
    /\ n \in hTodo
    /\ Answers(n, entries[n].pool)
    /\ hTodo' = hTodo \ {n}
    /\ entries' = [entries EXCEPT ![n] = RecoveringEntry(entries[n])]
    /\ streak' = [streak EXCEPT ![n] = Answered(n)]
    /\ UNCHANGED <<phase, built, ctxDone, cfg, active, reconnecting, pool, up, hpc,
                   rc, rl, lost>>

HealthUnlock ==
    /\ hpc = "check"
    /\ hTodo = {}
    /\ hpc' = "wait"
    /\ UNCHANGED <<mgrVars, cfg, entries, active, reconnecting, pool, up, hTodo,
                   rc, rl>>

\* The select of healthLoop: when a tick is due as well, either may be taken.
HealthExit ==
    /\ hpc = "wait"
    /\ ctxDone
    /\ hpc' = "gone"
    /\ UNCHANGED <<mgrVars, cfg, entries, active, reconnecting, pool, up, hTodo,
                   rc, rl>>

-----------------------------------------------------------------------------
(* reconnect *)

\* Goroutine r continues at x, holding the pool p.
Goto(r, x, p) == [rc EXCEPT ![r] = [rc[r] EXCEPT !.pc = x, !.pool = p]]

\* Mutant of ReconnectStart: the flag is set without looking at it.
ReconnectStartUnguarded(r) ==
    LET n == rc[r].name
        won == Present(n)
    IN  /\ rc[r].pc = "start"
        /\ Unlocked
        /\ rc' = [rc EXCEPT ![r] = IF won THEN [rc[r] EXCEPT !.pc = "check", !.obj = cfg]
                                   ELSE IdleWorker]
        /\ reconnecting' = IF won THEN reconnecting \cup {<<cfg, n>>}
                           ELSE reconnecting
        /\ UNCHANGED <<mgrVars, cfg, entries, active, pool, up, hpc, hTodo, rl>>

\* Look the entry up and set its reconnecting flag unless it is set already.
\* The lookup and the compare-and-swap are one step: the goroutine keeps the
\* entry object it looked up, so nothing done in between can tell.
ReconnectStart(r) ==
    LET n == rc[r].name
        won == Present(n) /\ <<cfg, n>> \notin reconnecting
    IN  /\ rc[r].pc = "start"
        /\ Unlocked
        /\ rc' = [rc EXCEPT ![r] = IF won THEN [rc[r] EXCEPT !.pc = "check", !.obj = cfg]
                                   ELSE IdleWorker]
        /\ reconnecting' = IF won THEN reconnecting \cup {<<cfg, n>>}
                           ELSE reconnecting
        /\ UNCHANGED <<mgrVars, cfg, entries, active, pool, up, hpc, hTodo, rl>>

Settled(n) == Healthy(n) /\ Alive(entries[n].pool)

\* Mutant of ReconnectCheck: neither the context nor the entry is checked.
ReconnectCheckOnlySettled(r) ==
    LET n == rc[r].name
    IN  /\ rc[r].pc = "check"
        /\ Unlocked
        /\ rc' = [rc EXCEPT ![r] = IF Settled(n) THEN [rc[r] EXCEPT !.pc = "exit"]
                                   ELSE [rc[r] EXCEPT !.pc = "dial", !.ep = cfg]]
        /\ UNCHANGED <<mgrVars, cfg, entries, active, reconnecting, pool, up,
                       hpc, hTodo, rl>>

\* Top of the retry loop: stop when the context is done, the entry is gone
\* or the upstream works again; otherwise remember the endpoint to dial.
ReconnectCheck(r) ==
    LET n == rc[r].name
    IN  /\ rc[r].pc = "check"
        /\ Unlocked
        /\ rc' = [rc EXCEPT ![r] =
                     IF ctxDone \/ ~Present(n) \/ Settled(n)
                     THEN [rc[r] EXCEPT !.pc = "exit"]
                     ELSE [rc[r] EXCEPT !.pc = "dial", !.ep = cfg]]
        /\ UNCHANGED <<mgrVars, cfg, entries, active, reconnecting, pool, up,
                       hpc, hTodo, rl>>

ReconnectDial(r, p) ==
    /\ rc[r].pc = "dial"
    /\ pool[p].state = "closed"
    /\ pool' = Open(p, rc[r].ep, rc[r].name)
    /\ rc' = Goto(r, "ping", p)
    /\ UNCHANGED <<mgrVars, cfg, entries, active, reconnecting, up, hpc, hTodo, rl>>

ReconnectDialFail(r) ==
    /\ rc[r].pc = "dial"
    /\ DialMayFail(rc[r].name)
    /\ rc' = Goto(r, "backoff", NoPool)
    /\ UNCHANGED <<mgrVars, cfg, entries, active, reconnecting, pool, up, hpc,
                   hTodo, rl>>

\* Mutant of ReconnectPing: a pool that does not answer is not closed.
ReconnectPingNoClose(r) ==
    LET ok == Answers(rc[r].name, rc[r].pool)
    IN  /\ rc[r].pc = "ping"
        /\ rc' = IF ok THEN Goto(r, "swap", rc[r].pool)
                 ELSE Goto(r, "backoff", NoPool)
        /\ UNCHANGED <<mgrVars, cfg, entries, active, reconnecting, pool, up, hpc,
                       hTodo, rl>>

\* Ping the new pool; one that does not answer is closed.
ReconnectPing(r) ==
    LET p == rc[r].pool
        ok == Answers(rc[r].name, p)
    IN  /\ rc[r].pc = "ping"
        /\ rc' = IF ok THEN Goto(r, "swap", p) ELSE Goto(r, "backoff", NoPool)
        /\ pool' = IF ok THEN pool ELSE ClosePools({p})
        /\ UNCHANGED <<mgrVars, cfg, entries, active, reconnecting, up, hpc,
                       hTodo, rl>>

\* The context is done or the backoff timer fired.
ReconnectBackoff(r) ==
    /\ rc[r].pc = "backoff"
    /\ \/ rc' = Goto(r, "check", NoPool)
       \/ ctxDone /\ rc' = Goto(r, "exit", NoPool)
    /\ UNCHANGED <<mgrVars, cfg, entries, active, reconnecting, pool, up, hpc,
                   hTodo, rl>>

\* Mutant of ReconnectSwap: the new pool is closed instead of the old one.
ReconnectSwapClosesNew(r) ==
    LET n == rc[r].name
    IN  /\ rc[r].pc = "swap"
        /\ Unlocked
        /\ IF Present(n)
           THEN /\ entries' = [entries EXCEPT ![n] = NewEntry(rc[r].pool)]
                /\ streak' = [streak EXCEPT ![n] = RecoverThreshold[cfg]]
                /\ active' = IF Healthy(active) THEN active ELSE n
           ELSE UNCHANGED <<entries, active, streak>>
        /\ rc' = Goto(r, "close", rc[r].pool)
        /\ UNCHANGED <<phase, built, ctxDone, cfg, reconnecting, pool, up, hpc,
                       hTodo, rl, lost>>

\* Mutant of ReconnectSwap: the recovered upstream always becomes active.
ReconnectSwapTakesOver(r) ==
    LET n == rc[r].name
    IN  /\ rc[r].pc = "swap"
        /\ Unlocked
        /\ IF Present(n)
           THEN /\ entries' = [entries EXCEPT ![n] = NewEntry(rc[r].pool)]
                /\ streak' = [streak EXCEPT ![n] = RecoverThreshold[cfg]]
                /\ active' = n
                /\ rc' = Goto(r, "close", entries[n].pool)
           ELSE /\ rc' = Goto(r, "close", rc[r].pool)
                /\ UNCHANGED <<entries, active, streak>>
        /\ UNCHANGED <<phase, built, ctxDone, cfg, reconnecting, pool, up, hpc,
                       hTodo, rl, lost>>

\* Install the new pool in the entry the name has now.  The pool to close
\* is the one replaced, or the new one when the entry is gone.
ReconnectSwap(r) ==
    LET n == rc[r].name
    IN  /\ rc[r].pc = "swap"
        /\ Unlocked
        /\ IF Present(n)
           THEN /\ entries' = [entries EXCEPT ![n] = NewEntry(rc[r].pool)]
                /\ streak' = [streak EXCEPT ![n] = RecoverThreshold[cfg]]
                /\ active' = IF Healthy(active) THEN active ELSE n
                /\ rc' = Goto(r, "close", entries[n].pool)
           ELSE /\ rc' = Goto(r, "close", rc[r].pool)
                /\ UNCHANGED <<entries, active, streak>>
        /\ UNCHANGED <<phase, built, ctxDone, cfg, reconnecting, pool, up, hpc,
                       hTodo, rl, lost>>

ReconnectClose(r) ==
    /\ rc[r].pc = "close"
    /\ pool' = ClosePools({rc[r].pool})
    /\ rc' = Goto(r, "exit", NoPool)
    /\ UNCHANGED <<mgrVars, cfg, entries, active, reconnecting, up, hpc, hTodo, rl>>

\* Mutant of ReconnectExit: the flag stays set.
ReconnectExitKeepsFlag(r) ==
    /\ rc[r].pc = "exit"
    /\ rc' = [rc EXCEPT ![r] = IdleWorker]
    /\ UNCHANGED <<mgrVars, cfg, entries, active, reconnecting, pool, up, hpc,
                   hTodo, rl>>

\* The deferred e.reconnecting.Store(false).
ReconnectExit(r) ==
    /\ rc[r].pc = "exit"
    /\ reconnecting' = reconnecting \ {<<rc[r].obj, rc[r].name>>}
    /\ rc' = [rc EXCEPT ![r] = IdleWorker]
    /\ UNCHANGED <<mgrVars, cfg, entries, active, pool, up, hpc, hTodo, rl>>

-----------------------------------------------------------------------------
(* Reload *)

\* As in NewManager, a second endpoint of one name overwrites the first.
ReloadDial(g, p) ==
    /\ Running
    /\ rl[g].pc = "dial"
    /\ rl[g].dialed < Len(Order[g])
    /\ pool[p].state = "closed"
    /\ LET n == Order[g][rl[g].dialed + 1]
       IN  /\ pool' = Open(p, g, n)
           /\ rl' = [rl EXCEPT ![g] = [pc |-> "dial", dialed |-> rl[g].dialed + 1,
                                      pools |-> [rl[g].pools EXCEPT ![n] = p]]]
           /\ lost' = Lose(rl[g].pools[n])
    /\ UNCHANGED <<phase, built, ctxDone, cfg, entries, active, reconnecting, up,
                   hpc, hTodo, rc, streak>>

ReloadPools(g) == {rl[g].pools[n] : n \in Names} \ {NoPool}

\* A dial fails: the pools dialed so far are closed, the old ones stay.
ReloadFail(g) ==
    /\ Running
    /\ rl[g].pc = "dial"
    /\ rl[g].dialed < Len(Order[g])
    /\ DialMayFail(Order[g][rl[g].dialed + 1])
    /\ pool' = ClosePools(ReloadPools(g))
    /\ rl' = [rl EXCEPT ![g] = [rl[g] EXCEPT !.pc = "close",
                                              !.pools = [n \in Names |-> NoPool]]]
    /\ UNCHANGED <<mgrVars, cfg, entries, active, reconnecting, up, hpc, hTodo, rc>>

\* Mutant of ReloadSwap: m.active is not reset.
ReloadSwapKeepsActive(g) ==
    /\ Running
    /\ Unlocked
    /\ rl[g].pc = "dial"
    /\ rl[g].dialed = Len(Order[g])
    /\ cfg' = g
    /\ entries' = [n \in Names |-> IF rl[g].pools[n] = NoPool THEN NilEntry
                                   ELSE NewEntry(rl[g].pools[n])]
    /\ rl' = [rl EXCEPT ![g] = [rl[g] EXCEPT
                !.pc = "close", !.pools = [n \in Names |-> entries[n].pool]]]
    /\ streak' = [n \in Names |-> IF rl[g].pools[n] = NoPool THEN 0
                                  ELSE RecoverThreshold[g]]
    /\ UNCHANGED <<phase, built, ctxDone, lost, active, reconnecting, pool, up, hpc,
                   hTodo, rc>>

\* Install the new entries; the call keeps the old pools to close them.
ReloadSwap(g) ==
    /\ Running
    /\ Unlocked
    /\ rl[g].pc = "dial"
    /\ rl[g].dialed = Len(Order[g])
    /\ cfg' = g
    /\ entries' = [n \in Names |-> IF rl[g].pools[n] = NoPool THEN NilEntry
                                   ELSE NewEntry(rl[g].pools[n])]
    /\ active' = Order[g][1]
    /\ rl' = [rl EXCEPT ![g] = [rl[g] EXCEPT
                !.pc = "close", !.pools = [n \in Names |-> entries[n].pool]]]
    /\ streak' = [n \in Names |-> IF rl[g].pools[n] = NoPool THEN 0
                                  ELSE RecoverThreshold[g]]
    /\ UNCHANGED <<phase, built, ctxDone, lost, reconnecting, pool, up, hpc, hTodo, rc>>

ReloadClose(g, n) ==
    /\ rl[g].pc = "close"
    /\ rl[g].pools[n] # NoPool
    /\ pool' = ClosePools({rl[g].pools[n]})
    /\ rl' = [rl EXCEPT ![g].pools[n] = NoPool]
    /\ UNCHANGED <<mgrVars, cfg, entries, active, reconnecting, up, hpc, hTodo, rc>>

-----------------------------------------------------------------------------
(* Close *)

CloseCancel ==
    /\ phase = "run"
    /\ phase' = "closing"
    /\ ctxDone' = TRUE
    /\ UNCHANGED <<built, cfg, entries, active, reconnecting, pool, up, hpc,
                   hTodo, rc, rl, streak, lost>>

\* Mutant of CloseEntries: m.entries is not cleared.
CloseEntriesKeepsEntries ==
    /\ phase = "closing"
    /\ Unlocked
    /\ phase' = "closed"
    /\ pool' = ClosePools(InstalledPools)
    /\ UNCHANGED <<built, ctxDone, cfg, entries, active, reconnecting, up, hpc,
                   hTodo, rc, rl, streak, lost>>

CloseEntries ==
    /\ phase = "closing"
    /\ Unlocked
    /\ phase' = "closed"
    /\ pool' = ClosePools(InstalledPools)
    /\ entries' = [n \in Names |-> NilEntry]
    /\ streak' = NoStreak
    /\ UNCHANGED <<built, ctxDone, cfg, active, reconnecting, up, hpc, hTodo,
                   rc, rl, lost>>

-----------------------------------------------------------------------------
(* The network.  The sessions of a lost pool are not followed any further:  *)
(* nobody has a reference to it any more.                                   *)

Toggle(n) ==
    /\ up' = [up EXCEPT ![n] = ~@]
    /\ UNCHANGED <<mgrVars, cfg, entries, active, reconnecting, pool, hpc,
                   hTodo, rc, rl>>

\* The server loses its side of the sessions while it does not answer.
PeerForgets(p) ==
    /\ p \notin lost
    /\ pool[p].state = "live"
    /\ ~up[pool[p].name]
    /\ pool' = [pool EXCEPT ![p].state = "mute"]
    /\ UNCHANGED <<mgrVars, cfg, entries, active, reconnecting, up, hpc, hTodo,
                   rc, rl>>

\* The keepalive, or the end of the context, closes the sessions on this side.
SessionsDie(p) ==
    /\ p \notin lost
    /\ Alive(p)
    /\ pool[p].state = "mute" \/ ~up[pool[p].name] \/ ctxDone
    /\ pool' = [pool EXCEPT ![p].state = "dead"]
    /\ UNCHANGED <<mgrVars, cfg, entries, active, reconnecting, up, hpc, hTodo,
                   rc, rl>>

-----------------------------------------------------------------------------

NewManager == NewManagerFail \/ NewManagerDone \/ \E p \in Pools : NewManagerDial(p)

HealthPing(n) == HealthPingOk(n) \/ HealthPingFail(n)

Health == HealthLock \/ HealthUnlock \/ HealthExit \/ \E n \in Names : HealthPing(n)

Reconnect(r) ==
    \/ ReconnectStart(r) \/ ReconnectCheck(r)
    \/ ReconnectDialFail(r) \/ \E p \in Pools : ReconnectDial(r, p)
    \/ ReconnectPing(r) \/ ReconnectBackoff(r)
    \/ ReconnectSwap(r) \/ ReconnectClose(r) \/ ReconnectExit(r)

Reload(g) ==
    \/ ReloadFail(g) \/ ReloadSwap(g)
    \/ \E p \in Pools : ReloadDial(g, p)
    \/ \E n \in Names : ReloadClose(g, n)

Close == CloseCancel \/ CloseEntries

Network ==
    \/ \E n \in Names : Toggle(n)
    \/ \E p \in Pools : PeerForgets(p) \/ SessionsDie(p)

Next ==
    \/ NewManager
    \/ Route
    \/ Health
    \/ \E r \in Workers : Reconnect(r)
    \/ \E g \in Reloads : Reload(g)
    \/ Close
    \/ Network

Spec == Init /\ [][Next]_vars

(***************************************************************************)
(* Fairness.  The health loop and every goroutine keep running; m.mu is a  *)
(* sync.RWMutex, whose waiters are served in turn, so an operation that    *)
(* waits for the lock again and again gets it (strong fairness), and a     *)
(* select with two ready cases takes each of them sooner or later.  Close, *)
(* once called, goes on.  Nothing is assumed of the network, of reloads or *)
(* of when Close is called.                                                *)
(***************************************************************************)
Fairness ==
    /\ WF_vars(NewManager)
    /\ WF_vars(HealthLock) /\ WF_vars(HealthUnlock) /\ SF_vars(HealthExit)
    /\ \A n \in Names : WF_vars(HealthPing(n))
    /\ \A r \in Workers : SF_vars(Reconnect(r))
    /\ SF_vars(CloseEntries)

FairSpec == Spec /\ Fairness

-----------------------------------------------------------------------------
(* Properties *)

\* The shape of the state.  Health counters never pass the thresholds of
\* the running configuration (runHealthCheck).
TypeOK ==
    /\ phase \in {"new", "failed", "run", "closing", "closed"}
    /\ built \in 0..Len(Order[InitCfg])
    /\ ctxDone \in BOOLEAN
    /\ cfg \in Configs
    /\ entries \in [Names -> Entry]
    /\ \A n \in Names : /\ entries[n].failures <= FailThreshold[cfg]
                        /\ entries[n].recovers <= RecoverThreshold[cfg]
    /\ active \in Names \cup {NoName}
    /\ reconnecting \subseteq Configs \X Names
    /\ pool \in [Pools -> PoolState]
    /\ up \in [Names -> BOOLEAN]
    /\ hpc \in {"off", "wait", "check", "gone"}
    /\ hTodo \subseteq Names
    /\ rc \in [Workers -> Worker]
    /\ rl \in [Reloads -> Reloading]
    /\ \A g \in Reloads : rl[g].dialed <= Len(Order[g])
    /\ streak \in [Names -> Int]
    /\ lost \subseteq Pools

\* A pool that poolFor can hand out has not been closed, whichever of
\* reconnect, Reload and Close replaced or removed pools before.
InstalledPoolOpen ==
    \A n \in Names : Present(n) => pool[entries[n].pool].state # "closed"

EntryHolds(n, p) == entries[n].pool = p
WorkerHolds(r, p) == rc[r].pool = p
ReloadHolds(g, n, p) == rl[g].pools[n] = p
Held(p) == \/ \E n \in Names : EntryHolds(n, p)
           \/ \E r \in Workers : WorkerHolds(r, p)
           \/ \E g \in Reloads, n \in Names : ReloadHolds(g, n, p)

\* The configuration names two of its endpoints n.
Repeated(c, n) ==
    \E i, j \in 1..Len(Order[c]) : i # j /\ Order[c][i] = n /\ Order[c][j] = n

\* Every pool is held in at most one place: an entry, a reconnect goroutine
\* or a reload call.  Each closes what it holds, so no pool is closed twice
\* and none is closed under somebody who still uses it.
SingleOwner ==
    \A p \in Pools :
       /\ \A n, m \in Names : EntryHolds(n, p) /\ EntryHolds(m, p) => n = m
       /\ \A r, s \in Workers : WorkerHolds(r, p) /\ WorkerHolds(s, p) => r = s
       /\ \A g, h \in Reloads, n, m \in Names :
             ReloadHolds(g, n, p) /\ ReloadHolds(h, m, p) => g = h /\ n = m
       /\ \A n \in Names, r \in Workers : ~(EntryHolds(n, p) /\ WorkerHolds(r, p))
       /\ \A n \in Names, g \in Reloads, m \in Names :
             ~(EntryHolds(n, p) /\ ReloadHolds(g, m, p))
       /\ \A r \in Workers, g \in Reloads, m \in Names :
             ~(WorkerHolds(r, p) /\ ReloadHolds(g, m, p))

\* Every open pool is held by somebody who will use or close it: a failed
\* ping, a failed reload, a swap and Close lose none.
NoPoolLeak ==
    \A p \in Pools : pool[p].state # "closed" => Held(p) \/ p \in lost

\* The only pools that are lost are those of a name that its configuration
\* gives to two endpoints; they stay open, and nobody holds them again.
LostPools ==
    \A p \in lost : /\ pool[p].state # "closed"
                    /\ ~Held(p)
                    /\ Repeated(pool[p].cfg, pool[p].name)

\* A pool that somebody holds is open.
HeldOpen ==
    \A p \in Pools : pool[p].state = "closed" =>
       /\ \A n \in Names : ~EntryHolds(n, p)
       /\ \A r \in Workers : ~WorkerHolds(r, p)
       /\ \A g \in Reloads, n \in Names : ~ReloadHolds(g, n, p)

\* A goroutine holds a pool exactly from a dial to the close of what it
\* replaced.
WorkerPools ==
    \A r \in Workers : rc[r].pool # NoPool <=> rc[r].pc \in {"ping", "swap", "close"}

\* A reload that still dials holds the pools of the endpoints dialed so far,
\* and so does the constructor.
DialedPrefix ==
    /\ \A g \in Reloads : rl[g].pc = "dial" =>
          \A n \in Names :
             rl[g].pools[n] # NoPool <=> \E i \in 1..rl[g].dialed : Order[g][i] = n
    /\ phase = "new" =>
          \A n \in Names :
             entries[n].pool # NoPool <=> \E i \in 1..built : Order[InitCfg][i] = n

\* The pools that a dialing reload and the constructor hold were dialed for the
\* endpoints they stand for; nothing else runs before the constructor is done.
DialedFor ==
    /\ \A g \in Reloads, n \in Names :
          rl[g].pc = "dial" /\ rl[g].pools[n] # NoPool =>
             pool[rl[g].pools[n]].cfg = g /\ pool[rl[g].pools[n]].name = n
    /\ phase = "new" =>
          /\ hpc = "off" /\ hTodo = {}
          /\ \A r \in Workers : rc[r].pc = "idle"
          /\ \A n \in Names : Present(n) =>
                pool[entries[n].pool].cfg = InitCfg /\ pool[entries[n].pool].name = n

\* Who owns which pool at every step: inductive, and stronger than
\* InstalledPoolOpen, which it implies.
Holders == HeldOpen /\ SingleOwner /\ NoPoolLeak /\ WorkerPools /\ DialedPrefix
Ownership == Holders /\ DialedFor /\ LostPools

\* The goroutine is past the compare-and-swap of the flag of entry object o.
Reconnects(r, o) ==
    rc[r].pc \notin {"idle", "start"} /\ o = <<rc[r].obj, rc[r].name>>

\* "Guarded so only one reconnect runs per entry at a time"; and a set flag
\* always has its goroutine, so that it is cleared again one day.
SingleReconnect ==
    /\ \A r, s \in Workers, o \in Configs \X Names :
          Reconnects(r, o) /\ Reconnects(s, o) => r = s
    /\ \A o \in Configs \X Names :
          o \in reconnecting <=> \E r \in Workers : Reconnects(r, o)

\* The health of an entry follows the pings of the health loop, neither too
\* early nor too late: an entry turns unhealthy with the FailThreshold-th
\* ping in a row that fails and not before, turns healthy again with the
\* RecoverThreshold-th in a row that is answered and not before, and keeps
\* its health otherwise.  A pool installed by the constructor, a reload or a
\* reconnect (after one answered ping of its own) starts as healthy.
HealthFollowsPings ==
    [][\A n \in Names : entries'[n].pool # NoPool =>
          entries'[n].healthy =
             IF streak'[n] <= -FailThreshold[cfg'] THEN FALSE
             ELSE IF streak'[n] >= RecoverThreshold[cfg'] THEN TRUE
             ELSE entries[n].healthy]_vars

\* poolFor returns nil (which OpenTCP would dereference) only when the
\* manager has no entry at all: m.active always names an existing entry.
RouteNeverNil ==
    Running /\ (\E n \in Names : Present(n)) =>
       \A bind \in Names \cup {NoName} : \A n \in poolFor(bind) : Present(n)

\* As long as some upstream is healthy, no call on the default route is sent
\* to another.  (A port forward bound to an upstream that is not healthy is
\* rerouted as well, which is not what the documentation says of it.)
RouteHealthy ==
    Running /\ (\E n \in Names : Healthy(n)) =>
       \A n \in poolFor(NoName) : Healthy(n)

\* Within one configuration m.active moves away from an upstream only when
\* that upstream is not healthy: a recovered upstream of a better priority
\* does not take the traffic back.
StickyActive ==
    [][active' # active /\ cfg' = cfg /\ Present(active)
          => ~entries'[active].healthy]_vars

\* Self-healing: an upstream whose server answers from some time on ends up,
\* and stays, healthy with a live pool, unless the manager is closed or the
\* upstream is removed.
SelfHealing ==
    \A n \in Names :
       <>[](up[n] /\ Present(n) /\ ~ctxDone)
          => <>[](Healthy(n) /\ pool[entries[n].pool].state = "live")

\* After Close the health loop and every reconnect goroutine end for good.
ShutdownQuiesces ==
    (phase = "closing") ~> [](hpc = "gone" /\ \A r \in Workers : rc[r].pc = "idle")

\* After Close, and with no reload to bring entries back, every pool ends up
\* closed, also one a reconnect goroutine was dialing when Close was called.
CloseReleasesPools ==
    (phase = "closing") ~> [](\A p \in Pools \ lost : pool[p].state = "closed")

\* What "Reload replaces upstream pools from a new config" claims: the pools
\* in use were dialed with the configuration that is running.
PoolMatchesConfig ==
    \A n \in Names : Present(n) => pool[entries[n].pool].cfg = cfg

-----------------------------------------------------------------------------
(* The manager implements Registry *)

\* A goroutine or a reload call keeps p only to close it.
KeptToClose(p) ==
    \/ \E r \in Workers : rc[r].pc = "close" /\ WorkerHolds(r, p)
    \/ \E g \in Reloads, n \in Names : rl[g].pc = "close" /\ ReloadHolds(g, n, p)

\* The pool that serves the callers of n: none before NewManager returns.
Serving(n) == IF phase = "new" THEN NoPool ELSE entries[n].pool

Stage(p) ==
    IF pool[p].state = "closed" THEN "free"
    ELSE IF \E n \in Names : Serving(n) = p THEN "serving"
    ELSE IF KeptToClose(p) THEN "retired" ELSE "spare"

Reg == INSTANCE Registry WITH
          serving <- [n \in Names |-> Serving(n)],
          stage <- [p \in Pools |-> Stage(p)]

\* Through every interleaving of health checks, reconnects, reloads and Close
\* the pools behind poolFor behave as Registry says: a pool is closed only
\* once it serves nobody, and never serves again after it was replaced.
ImplementsRegistry == Reg!Spec
=============================================================================
