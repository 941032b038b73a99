--------------------------- MODULE RoutingProofs ----------------------------
(***************************************************************************)
(* Health and routing of the upstream manager: theorems for any number of  *)
(* upstreams, pools, reconnect goroutines and concurrent reloads.          *)
(***************************************************************************)
EXTENDS UpstreamProofs

Ordered(c, n) == \E i \in 1..Len(Order[c]) : Order[c][i] = n

(***************************************************************************)
(* What routing relies on: the health loop pings existing entries, since   *)
(* nothing removes one while it holds the lock; an entry that counts as    *)
(* healthy exists; the entries are upstreams of the running configuration; *)
(* m.active names an entry unless there is none; nothing but the           *)
(* constructor runs before it is done, and a reload installs only once.    *)
(***************************************************************************)
Pinged == /\ \A n \in hTodo : Present(n)
          /\ hpc # "check" => hTodo = {}
          /\ phase = "new" => hpc = "off"
HealthyExist == \A n \in Names : entries[n].healthy => Present(n)
EntriesOrdered == \A n \in Names : Present(n) => Ordered(cfg, n)
ActiveExists == Running /\ (\E n \in Names : Present(n)) => Present(active)
FreshStart == /\ phase = "new" => /\ cfg = InitCfg /\ active = NoName
                                  /\ \A r \in Workers : rc[r].pc = "idle"
              /\ cfg \in Reloads => rl[cfg].pc = "close"
Routing == Pinged /\ HealthyExist /\ EntriesOrdered /\ ActiveExists /\ FreshStart

\* The records the manager builds.
LEMMA EntryFields ==
    /\ \A p : /\ NewEntry(p).pool = p /\ NewEntry(p).healthy = TRUE
              /\ NewEntry(p).failures = 0 /\ NewEntry(p).recovers = 0
    /\ NilEntry.pool = NoPool /\ NilEntry.healthy = FALSE
    /\ \A e : FailedEntry(e).pool = e.pool /\ (FailedEntry(e).healthy => e.healthy)
    /\ \A e : RecoveringEntry(e).pool = e.pool
BY DEF NewEntry, NilEntry, FailedEntry, RecoveringEntry

-----------------------------------------------------------------------------
(* Routing *)

\* pickLocked and failoverLocked pick an entry that exists.
LEMMA PicksPresent ==
    ASSUME TypeOK, HealthyExist, Present(active)
    PROVE  /\ Present(pickActive)
           /\ pickActive # active => ~Healthy(active)
<1>1. cfg \in Configs
  BY DEF TypeOK
<1>2. \/ FirstHealthy(entries, cfg, active) = active
      \/ /\ FirstHealthy(entries, cfg, active) \in Names
         /\ entries[FirstHealthy(entries, cfg, active)].healthy
  BY <1>1, FirstHealthyResult
<1> QED
  BY <1>2 DEF pickActive, HealthyExist

\* The upstream that NewManager and Reload make active has been dialed.
LEMMA HeadDialed ==
    ASSUME TypeOK, Ownership
    PROVE  /\ phase = "new" /\ built = Len(Order[InitCfg]) => Present(Order[InitCfg][1])
           /\ \A g \in Reloads : rl[g].pc = "dial" /\ rl[g].dialed = Len(Order[g]) =>
                 /\ Order[g][1] \in Names /\ rl[g].pools[Order[g][1]] # NoPool
                 /\ \A n \in Names : rl[g].pools[n] # NoPool => Ordered(g, n)
<1>1. InitCfg \in Configs /\ \A g \in Reloads : g \in Configs
  BY DEF Configs
<1>2. \A c \in Configs : 1 \in 1..Len(Order[c]) /\ Order[c][1] \in Names
  BY OrderAssumption
<1>3. DialedPrefix
  BY DEF Ownership, Holders
<1> QED
  BY <1>1, <1>2, <1>3 DEF DialedPrefix, Present, Ordered

\* Before anything runs there is nothing to route to.
LEMMA InitRouting == Init => Routing
BY NilAssumption, EntryFields
DEF Init, Routing, Pinged, HealthyExist, EntriesOrdered, ActiveExists, FreshStart, Present,
    Running, IdleWorker

\* A step that changes only what routing does not look at.
LEMMA RoutingUnchanged ==
    ASSUME Routing, UNCHANGED <<cfg, entries, active>>,
           hpc # "check" \/ hpc' = "check" \/ hTodo = {},
           hTodo' \subseteq hTodo, hpc' # "check" => hpc # "check" \/ hTodo = {},
           phase' = "new" => phase = "new" /\ hpc' = hpc /\ UNCHANGED rc,
           Running' => Running,
           \A g \in Reloads : rl[g].pc = "close" => rl'[g].pc = "close"
    PROVE  Routing'
<1>1. Pinged' /\ HealthyExist' /\ EntriesOrdered' /\ ActiveExists'
  BY DEF Routing, Pinged, HealthyExist, EntriesOrdered, ActiveExists, Present, Ordered
<1>2. FreshStart'
  BY DEF Routing, FreshStart
<1> QED
  BY <1>1, <1>2 DEF Routing

\* Every step keeps what routing relies on.
LEMMA NextRouting == TypeOK /\ Ownership /\ Routing /\ [Next]_vars => Routing'
<1> SUFFICES ASSUME TypeOK, Ownership, Routing, [Next]_vars PROVE Routing'
  OBVIOUS
<1> USE DEF mgrVars
<1>a. /\ entries \in [Names -> Entry] /\ rc \in [Workers -> Worker]
      /\ rl \in [Reloads -> Reloading] /\ cfg \in Configs /\ hTodo \subseteq Names
  BY DEF TypeOK
<1>b. /\ InitCfg \in Configs /\ \A g \in Reloads : g \in Configs
      /\ \A c \in Configs : Len(Order[c]) \in Nat /\ Order[c][1] \in Names
      /\ NoName \notin Names /\ InitCfg \notin Reloads
  BY OrderHead, NilAssumption DEF Configs
<1>c. Pinged /\ HealthyExist /\ EntriesOrdered /\ ActiveExists /\ FreshStart
  BY DEF Routing
<1>1. ASSUME NEW p \in Pools, NewManagerDial(p) PROVE Routing'
  <2>1. built \in Nat /\ built + 1 \in 1..Len(Order[InitCfg])
    BY <1>1, <1>b DEF NewManagerDial, TypeOK
  <2>2. Order[InitCfg][built + 1] \in Names
    BY <1>b, <2>1, OrderName
  <2>3. PICK n \in Names : /\ n = Order[InitCfg][built + 1]
                           /\ entries' = [entries EXCEPT ![n] = NewEntry(p)]
    BY <1>1, <2>2 DEF NewManagerDial
  <2>4. \A m \in Names : entries'[m] = IF m = n THEN NewEntry(p) ELSE entries[m]
    BY <1>a, <2>3
  <2>5. Ordered(InitCfg, n) /\ p # NoPool /\ phase = "new" /\ cfg = InitCfg
    BY <1>1, <1>c, <2>1, <2>3, NilAssumption DEF Ordered, NewManagerDial, FreshStart
  <2>6. UNCHANGED <<phase, cfg, active, hpc, hTodo, rc, rl>>
    BY <1>1 DEF NewManagerDial
  <2>7. Pinged' /\ HealthyExist' /\ EntriesOrdered'
    BY <1>c, <2>4, <2>5, <2>6, EntryFields
    DEF Pinged, HealthyExist, EntriesOrdered, Present, Ordered
  <2>8. ActiveExists' /\ FreshStart'
    BY <1>c, <2>5, <2>6 DEF ActiveExists, FreshStart, Running
  <2> QED
    BY <2>7, <2>8 DEF Routing
<1>2. CASE NewManagerFail \/ CloseEntries
  <2>1. /\ \A n \in Names : entries'[n].pool = NoPool /\ ~entries'[n].healthy
        /\ phase' # "new" /\ hpc # "check" /\ UNCHANGED <<cfg, active, hpc, hTodo, rc, rl>>
    BY <1>2, <1>c, EntryFields DEF NewManagerFail, CloseEntries, Unlocked, Pinged
  <2> QED
    BY <1>c, <2>1 DEF Routing, Pinged, HealthyExist, EntriesOrdered, ActiveExists, FreshStart,
                      Present
<1>3. CASE NewManagerDone
  <2>1. Present(Order[InitCfg][1])
    BY <1>3, HeadDialed DEF NewManagerDone
  <2> QED
    BY <1>3, <1>b, <1>c, <2>1
    DEF NewManagerDone, Routing, Pinged, HealthyExist, EntriesOrdered, ActiveExists, FreshStart,
        Present, Ordered
<1>4. CASE Route
  <2>1. /\ active' = pickActive /\ Running
        /\ UNCHANGED <<phase, cfg, entries, hpc, hTodo, rc, rl>>
    BY <1>4 DEF Route
  <2>2. (\E n \in Names : Present(n)) => Present(pickActive)
    BY <1>c, <2>1, PicksPresent DEF ActiveExists
  <2> QED
    BY <1>c, <2>1, <2>2
    DEF Routing, Pinged, HealthyExist, EntriesOrdered, ActiveExists, FreshStart, Present,
        Ordered, Running
<1>5. CASE HealthLock
  BY <1>5, <1>c
  DEF HealthLock, Routing, Pinged, HealthyExist, EntriesOrdered, ActiveExists, FreshStart, Present,
      Ordered, Running
<1>6. ASSUME NEW n \in Names, HealthPing(n) PROVE Routing'
  <2>1. /\ n \in hTodo /\ Present(n) /\ phase # "new" /\ hpc = "check"
        /\ UNCHANGED <<phase, cfg, hpc, rl>> /\ hTodo' \subseteq hTodo
    BY <1>6, <1>c DEF HealthPing, HealthPingOk, HealthPingFail, Pinged
  <2>2. /\ \A m \in Names : entries'[m].pool = entries[m].pool
        /\ \A m \in Names : entries'[m].healthy => entries[m].healthy \/ m = n
    BY <1>6, <1>a, EntryFields DEF HealthPing, HealthPingOk, HealthPingFail
  <2>3. HealthyExist'
    BY <1>c, <2>1, <2>2 DEF HealthyExist, Present
  <2>4. Pinged' /\ EntriesOrdered' /\ FreshStart'
    BY <1>c, <2>1, <2>2 DEF Pinged, EntriesOrdered, FreshStart, Present, Ordered
  <2>5. \/ active' = active
        \/ active' \in Names /\ entries'[active'].healthy
    BY <1>6, <1>a, FirstHealthyResult
    DEF HealthPing, HealthPingOk, HealthPingFail, failoverLocked
  <2>6. ActiveExists'
    BY <1>c, <2>1, <2>2, <2>3, <2>5 DEF ActiveExists, HealthyExist, Present, Running
  <2> QED
    BY <2>3, <2>4, <2>6 DEF Routing
<1>7. CASE HealthUnlock \/ HealthExit \/ CloseCancel \/ Network \/ UNCHANGED vars
  BY <1>7, <1>c, RoutingUnchanged
  DEF HealthUnlock, HealthExit, CloseCancel, Network, Toggle, PeerForgets, SessionsDie, vars,
      Running, Pinged
<1>8. ASSUME NEW r \in Workers, Reconnect(r) PROVE Routing'
  <2>1. CASE ReconnectSwap(r) /\ Present(rc[r].name)
    <3>1. PICK n \in Names : /\ n = rc[r].name /\ Present(n)
                             /\ entries' = [entries EXCEPT ![n] = NewEntry(rc[r].pool)]
                             /\ active' = IF Healthy(active) THEN active ELSE n
      BY <2>1 DEF ReconnectSwap, Present
    <3>2. rc[r].pool # NoPool /\ phase # "new" /\ hpc # "check"
      BY <1>c, <2>1 DEF ReconnectSwap, Unlocked, Ownership, Holders, WorkerPools, FreshStart
    <3>3. UNCHANGED <<phase, cfg, hpc, hTodo, rl>>
      BY <2>1 DEF ReconnectSwap
    <3>4. \A m \in Names : entries'[m] = IF m = n THEN NewEntry(rc[r].pool) ELSE entries[m]
      BY <1>a, <3>1
    <3>5. \A m \in Names : /\ entries'[m].pool # NoPool <=> entries[m].pool # NoPool
                           /\ entries'[m].healthy => entries[m].healthy \/ m = n
      <4> SUFFICES ASSUME NEW m \in Names
                   PROVE  /\ entries'[m].pool # NoPool <=> entries[m].pool # NoPool
                          /\ entries'[m].healthy => entries[m].healthy \/ m = n
        OBVIOUS
      <4>1. CASE m = n
        BY <3>1, <3>2, <3>4, <4>1, EntryFields DEF Present
      <4>2. CASE m # n
        BY <3>4, <4>2
      <4> QED
        BY <4>1, <4>2
    <3>6. /\ n \in Names /\ entries[n].pool # NoPool
          /\ active' = active \/ active' = n
      BY <3>1 DEF Present
    <3>7. Pinged' /\ HealthyExist' /\ EntriesOrdered'
      BY <1>c, <3>2, <3>3, <3>5, <3>6 DEF Pinged, HealthyExist, EntriesOrdered, Present, Ordered
    <3>8. ActiveExists' /\ FreshStart'
      BY <1>c, <3>2, <3>3, <3>5, <3>6 DEF ActiveExists, FreshStart, Present, Running
    <3> QED
      BY <3>7, <3>8 DEF Routing
  <2>2. CASE ~(ReconnectSwap(r) /\ Present(rc[r].name))
    <3>1. /\ UNCHANGED <<phase, cfg, entries, active, hpc, hTodo, rl>>
          /\ rc[r].pc # "idle"
      BY <1>8, <2>2
      DEF Reconnect, ReconnectStart, ReconnectCheck, ReconnectDialFail, ReconnectDial,
          ReconnectPing, ReconnectBackoff, ReconnectSwap, ReconnectClose, ReconnectExit
    <3>2. phase # "new"
      BY <1>c, <3>1 DEF FreshStart
    <3> QED
      BY <3>1, <3>2, RoutingUnchanged DEF Running
  <2> QED
    BY <2>1, <2>2
<1>9. ASSUME NEW g \in Reloads, ReloadSwap(g) PROVE Routing'
  <2>1. /\ Running /\ hpc # "check" /\ rl[g].pc = "dial" /\ rl[g].dialed = Len(Order[g])
        /\ cfg' = g /\ active' = Order[g][1] /\ UNCHANGED <<phase, hpc, hTodo, rc>>
        /\ rl' = [rl EXCEPT ![g] = [rl[g] EXCEPT
                      !.pc = "close", !.pools = [n \in Names |-> entries[n].pool]]]
    BY <1>9 DEF ReloadSwap, Unlocked
  <2>2. \A n \in Names : /\ entries'[n].pool # NoPool <=> rl[g].pools[n] # NoPool
                         /\ entries'[n].healthy => rl[g].pools[n] # NoPool
    <3> SUFFICES ASSUME NEW n \in Names
                 PROVE  /\ entries'[n].pool # NoPool <=> rl[g].pools[n] # NoPool
                        /\ entries'[n].healthy => rl[g].pools[n] # NoPool
      OBVIOUS
    <3>1. CASE rl[g].pools[n] = NoPool
      BY <1>9, <3>1, EntryFields DEF ReloadSwap
    <3>2. CASE rl[g].pools[n] # NoPool
      BY <1>9, <3>2, EntryFields DEF ReloadSwap
    <3> QED
      BY <3>1, <3>2
  <2>3. /\ Order[g][1] \in Names /\ rl[g].pools[Order[g][1]] # NoPool
        /\ \A n \in Names : rl[g].pools[n] # NoPool => Ordered(g, n)
    BY <2>1, HeadDialed
  <2>4. rl'[g].pc = "close"
    BY <1>a, <2>1 DEF Reloading
  <2>5. HealthyExist' /\ EntriesOrdered' /\ ActiveExists'
    <3>1. cfg' = g /\ active' = Order[g][1]
      BY <2>1
    <3>2. HealthyExist' /\ ActiveExists'
      BY <3>1, <2>2, <2>3 DEF HealthyExist, ActiveExists, Present
    <3>3. EntriesOrdered'
      BY <3>1, <2>2, <2>3 DEF EntriesOrdered, Present, Ordered
    <3> QED
      BY <3>2, <3>3
  <2>6. Pinged' /\ FreshStart'
    BY <1>c, <2>1, <2>4 DEF Pinged, FreshStart, Running
  <2> QED
    BY <2>5, <2>6 DEF Routing
<1>10. ASSUME NEW g \in Reloads, Reload(g), ~ReloadSwap(g) PROVE Routing'
  <2>1. UNCHANGED <<phase, cfg, entries, active, hpc, hTodo, rc>>
    BY <1>10 DEF Reload, ReloadFail, ReloadDial, ReloadClose
  <2>2. \A h \in Reloads : rl[h].pc = "close" => rl'[h].pc = "close"
    BY <1>10, <1>a DEF Reload, ReloadFail, ReloadDial, ReloadClose, Reloading
  <2> QED
    BY <2>1, <2>2, RoutingUnchanged DEF Running
<1> QED
  BY <1>1, <1>2, <1>3, <1>4, <1>5, <1>6, <1>7, <1>8, <1>9, <1>10
  DEF Next, NewManager, Health, Close

\* The facts routing relies on hold in every reachable state.
LEMMA RoutingInvariant == Spec => [](TypeOK /\ Routing)
BY InitRouting, NextRouting, TypeCorrect, PoolOwnership, PTL DEF Spec

\* poolFor returns nil only when the manager has no entry at all, whatever
\* reconnects and reloads did to m.active before (poolFor, OpenTCP).
THEOREM RoutesExist == Spec => []RouteNeverNil
<1>1. TypeOK /\ Routing => RouteNeverNil
  <2> SUFFICES ASSUME TypeOK, Routing, Present(active), NEW bind, NEW n \in poolFor(bind)
               PROVE  Present(n)
    BY DEF RouteNeverNil, Routing, ActiveExists
  <2>1. Present(pickActive)
    BY PicksPresent DEF Routing
  <2> QED
    BY <2>1 DEF poolFor, pickLocked, Healthy
<1> QED
  BY <1>1, RoutingInvariant, PTL

\* While some upstream is healthy no call on the default route is sent to
\* another one, with every strategy (poolFor, pickLocked).
THEOREM RoutesHealthy == Spec => []RouteHealthy
<1>1. TypeOK /\ Routing => RouteHealthy
  <2> SUFFICES ASSUME TypeOK, Routing, NEW m \in Names, Healthy(m),
                      NEW n \in poolFor(NoName)
               PROVE  Healthy(n)
    BY DEF RouteHealthy
  <2>1. cfg \in Configs /\ Ordered(cfg, m) /\ entries[m].healthy
    BY DEF TypeOK, Routing, EntriesOrdered, Healthy
  <2>2. /\ FirstHealthy(entries, cfg, active) \in Names
        /\ entries[FirstHealthy(entries, cfg, active)].healthy
    BY <2>1, FirstHealthyResult DEF Ordered
  <2>3. Healthy(FirstHealthy(entries, cfg, active))
    BY <2>2 DEF Healthy, Routing, HealthyExist
  <2> QED
    BY <2>3 DEF poolFor, pickLocked, pickActive
<1> QED
  BY <1>1, RoutingInvariant, PTL

\* Within one configuration traffic leaves an upstream only when it is not
\* healthy (failoverLocked, pickLocked and the swap of reconnect).
THEOREM ActiveSticks == Spec => StickyActive
<1>1. TypeOK /\ Routing /\ [Next]_vars =>
         [active' # active /\ cfg' = cfg /\ Present(active) => ~entries'[active].healthy]_vars
  <2> SUFFICES ASSUME TypeOK, Routing, Next, active' # active, cfg' = cfg, Present(active)
               PROVE  ~entries'[active].healthy
    BY DEF vars
  <2> USE DEF mgrVars
  <2>a. entries \in [Names -> Entry] /\ active \in Names
    BY DEF TypeOK, Present
  <2>1. CASE Route
    BY <2>1, PicksPresent DEF Route, Healthy, Routing
  <2>2. ASSUME NEW n \in Names, HealthPingFail(n) PROVE ~entries'[active].healthy
    BY <2>2 DEF HealthPingFail
  <2>3. ASSUME NEW r \in Workers, ReconnectSwap(r) PROVE ~entries'[active].healthy
    BY <2>3, <2>a DEF ReconnectSwap, Healthy
  <2>4. ASSUME NEW g \in Reloads, ReloadSwap(g) PROVE FALSE
    BY <2>4 DEF ReloadSwap, Routing, FreshStart
  <2>5. ASSUME NewManagerDone PROVE FALSE
    BY <2>5, NilAssumption DEF NewManagerDone, Routing, FreshStart, Present
  <2>6. \/ Route \/ NewManagerDone \/ \E n \in Names : HealthPingFail(n)
        \/ \E r \in Workers : ReconnectSwap(r)
        \/ \E g \in Reloads : ReloadSwap(g)
    BY DEF Next, NewManager, NewManagerFail, NewManagerDial, Health, HealthLock, HealthUnlock,
       HealthExit, HealthPing, HealthPingOk, Reconnect, ReconnectStart, ReconnectCheck,
       ReconnectDialFail, ReconnectDial, ReconnectPing, ReconnectBackoff, ReconnectClose,
       ReconnectExit, Reload, ReloadFail, ReloadDial, ReloadClose, Close, CloseCancel, CloseEntries,
       Network, Toggle, PeerForgets, SessionsDie
  <2> QED
    BY <2>1, <2>2, <2>3, <2>4, <2>5, <2>6
<1> QED
  BY <1>1, RoutingInvariant, PTL DEF Spec, StickyActive

-----------------------------------------------------------------------------
(* Health *)

(***************************************************************************)
(* The counters of an entry tell its streak: k pings in a row were         *)
(* answered, or -k failed.  HealthFollowsPings needs this to know that the *)
(* threshold a counter reaches is the threshold the streak reaches.        *)
(***************************************************************************)
Tally(e, k, c) ==
    IF e.healthy
    THEN /\ e.recovers = 0 /\ e.failures < FailThreshold[c]
         /\ IF e.failures = 0 THEN k > 0 ELSE k = -e.failures
    ELSE /\ e.recovers < RecoverThreshold[c]
         /\ IF e.failures = 0 THEN k = e.recovers /\ k > 0
            ELSE k = -e.failures /\ e.recovers = 0
Tallied == \A n \in Names : Present(n) => Tally(entries[n], streak[n], cfg)

\* The health that the streak k demands of an entry that was healthy or not.
HealthOf(k, c, old) ==
    IF k <= -FailThreshold[c] THEN FALSE
    ELSE IF k >= RecoverThreshold[c] THEN TRUE ELSE old

\* An entry keeps its health while its streak reaches no threshold.
LEMMA TallyHealth ==
    ASSUME NEW e \in Entry, NEW c \in Configs, NEW k \in Int, Tally(e, k, c)
    PROVE  e.healthy = HealthOf(k, c, e.healthy)
<1>1. /\ FailThreshold[c] \in Nat \ {0} /\ RecoverThreshold[c] \in Nat \ {0}
      /\ e.failures \in Nat /\ e.recovers \in Nat /\ e.healthy \in BOOLEAN
  BY ThresholdAssumption DEF Entry
<1>2. CASE e.healthy
  <2>1. e.failures < FailThreshold[c] /\ (k > 0 \/ k = -e.failures)
    BY <1>2 DEF Tally
  <2>2. ~(k <= -FailThreshold[c])
    BY <1>1, <2>1
  <2> QED
    BY <1>2, <2>2 DEF HealthOf
<1>3. CASE ~e.healthy
  <2>1. e.recovers < RecoverThreshold[c] /\ (k = e.recovers \/ (k = -e.failures /\ e.failures > 0))
    BY <1>1, <1>3 DEF Tally
  <2>2. ~(k >= RecoverThreshold[c])
    BY <1>1, <2>1
  <2> QED
    BY <1>1, <1>3, <2>2 DEF HealthOf
<1> QED
  BY <1>1, <1>2, <1>3

\* A ping that fails.
LEMMA TallyFailed ==
    ASSUME TypeOK, NEW n \in Names, Tally(entries[n], streak[n], cfg)
    PROVE  /\ Tally(FailedEntry(entries[n]), Failed(n), cfg)
           /\ FailedEntry(entries[n]).healthy = HealthOf(Failed(n), cfg, entries[n].healthy)
<1> DEFINE e == entries[n]
           F == FailThreshold[cfg]
           R == RecoverThreshold[cfg]
           f == IF e.failures < F THEN e.failures + 1 ELSE e.failures
<1>1. /\ F \in Nat \ {0} /\ R \in Nat \ {0} /\ e.failures \in Nat /\ e.recovers \in Nat
      /\ e.healthy \in BOOLEAN /\ e.failures <= F /\ streak[n] \in Int
  BY ThresholdAssumption DEF TypeOK, Entry
<1>2. /\ FailedEntry(e).healthy = (e.healthy /\ f < F)
      /\ FailedEntry(e).failures = f /\ FailedEntry(e).recovers = 0
  BY DEF FailedEntry
<1>3. \/ e.failures = 0 /\ streak[n] > 0
      \/ e.failures > 0 /\ streak[n] = -e.failures
  BY <1>1 DEF Tally
<1>4. f \in Nat /\ f > 0 /\ f <= F /\ Failed(n) = -f
  <2>1. CASE e.failures = 0 /\ streak[n] > 0
    BY <1>1, <2>1 DEF Failed
  <2>2. CASE e.failures > 0 /\ streak[n] = -e.failures
    BY <1>1, <2>2 DEF Failed
  <2> QED
    BY <1>3, <2>1, <2>2
<1>5. e.healthy => e.failures < F
  BY DEF Tally
<1> HIDE DEF f
<1>6. CASE f < F
  <2>1. ~(Failed(n) <= -F) /\ ~(Failed(n) >= R) /\ FailedEntry(e).healthy = e.healthy
    BY <1>1, <1>2, <1>4, <1>6
  <2> QED
    BY <1>1, <1>2, <1>4, <1>6, <2>1 DEF Tally, HealthOf
<1>7. CASE f = F
  <2>1. Failed(n) <= -F /\ ~(f < F)
    BY <1>1, <1>4, <1>7
  <2>2. ~FailedEntry(e).healthy /\ (FailedEntry(e).healthy <=> FALSE)
    BY <1>2, <2>1
  <2>3. Tally(FailedEntry(e), Failed(n), cfg)
    BY <1>1, <1>2, <1>4, <2>2 DEF Tally
  <2>4. HealthOf(Failed(n), cfg, e.healthy) = FALSE
    BY <2>1 DEF HealthOf
  <2>5. FailedEntry(e).healthy = FALSE
    BY <1>2, <2>1, Zenon
  <2> QED
    BY <2>3, <2>4, <2>5
<1> QED
  BY <1>1, <1>4, <1>6, <1>7

\* A ping that is answered.
LEMMA TallyAnswered ==
    ASSUME TypeOK, NEW n \in Names, Tally(entries[n], streak[n], cfg)
    PROVE  /\ Tally(RecoveringEntry(entries[n]), Answered(n), cfg)
           /\ RecoveringEntry(entries[n]).healthy = HealthOf(Answered(n), cfg, entries[n].healthy)
<1> DEFINE e == entries[n]
           F == FailThreshold[cfg]
           R == RecoverThreshold[cfg]
           g == RecoveringEntry(e)
<1>1. /\ F \in Nat \ {0} /\ R \in Nat \ {0} /\ e.failures \in Nat /\ e.recovers \in Nat
      /\ e.healthy \in BOOLEAN /\ streak[n] \in Int
  BY ThresholdAssumption DEF TypeOK, Entry
<1>2. CASE e.healthy
  <2>1. g.healthy = TRUE /\ g.failures = 0 /\ g.recovers = e.recovers
    BY <1>1, <1>2 DEF RecoveringEntry
  <2>2. Answered(n) \in Int /\ Answered(n) > 0 /\ e.recovers = 0
    BY <1>1, <1>2 DEF Answered, Tally
  <2> HIDE DEF g
  <2>3. Tally(g, Answered(n), cfg)
    BY <1>1, <2>1, <2>2 DEF Tally
  <2>4. HealthOf(Answered(n), cfg, e.healthy) = TRUE
    BY <1>1, <1>2, <2>2 DEF HealthOf
  <2> QED
    BY <2>1, <2>3, <2>4 DEF g
<1>3. CASE ~e.healthy
  <2>1. e.recovers < R /\ Answered(n) = e.recovers + 1
    <3>1. \/ e.failures = 0 /\ streak[n] = e.recovers /\ streak[n] > 0
          \/ e.failures > 0 /\ streak[n] = -e.failures /\ e.recovers = 0
      BY <1>1, <1>3 DEF Tally
    <3>2. e.recovers < R
      BY <1>3 DEF Tally
    <3> QED
      BY <1>1, <3>1, <3>2 DEF Answered
  <2>2. CASE e.recovers + 1 >= R
    <3>1. g.healthy = TRUE /\ g.failures = 0 /\ g.recovers = 0
      BY <1>3, <2>2 DEF RecoveringEntry
    <3> HIDE DEF g
    <3>2. Tally(g, Answered(n), cfg)
      BY <1>1, <2>1, <3>1 DEF Tally
    <3>3. HealthOf(Answered(n), cfg, e.healthy) = TRUE
      BY <1>1, <2>1, <2>2 DEF HealthOf
    <3> QED
      BY <3>1, <3>2, <3>3 DEF g
  <2>3. CASE ~(e.recovers + 1 >= R)
    <3>1. g.healthy = FALSE /\ g.failures = 0 /\ g.recovers = e.recovers + 1
      BY <1>1, <1>3, <2>3 DEF RecoveringEntry
    <3> HIDE DEF g
    <3>2. Tally(g, Answered(n), cfg)
      BY <1>1, <2>1, <2>3, <3>1 DEF Tally
    <3>3. HealthOf(Answered(n), cfg, e.healthy) = FALSE
      BY <1>1, <1>3, <2>1, <2>3 DEF HealthOf
    <3> QED
      BY <3>1, <3>2, <3>3 DEF g
  <2> QED
    BY <2>2, <2>3
<1> QED
  BY <1>1, <1>2, <1>3

\* A new entry starts as healthy.
LEMMA TallyNew ==
    ASSUME NEW c \in Configs, NEW p, NEW old
    PROVE  /\ Tally(NewEntry(p), RecoverThreshold[c], c)
           /\ NewEntry(p).healthy = HealthOf(RecoverThreshold[c], c, old)
<1>1. FailThreshold[c] \in Nat \ {0} /\ RecoverThreshold[c] \in Nat \ {0}
  BY ThresholdAssumption
<1> QED
  <2>1. Tally(NewEntry(p), RecoverThreshold[c], c)
    BY <1>1, EntryFields DEF Tally
  <2>2. HealthOf(RecoverThreshold[c], c, old) = TRUE
    BY <1>1 DEF HealthOf
  <2> QED
    BY <2>1, <2>2, EntryFields

\* What a step does to the health of the upstreams.
HealthStep ==
    \A n \in Names : entries'[n].pool # NoPool =>
       /\ Tally(entries'[n], streak'[n], cfg')
       /\ entries'[n].healthy = HealthOf(streak'[n], cfg', entries[n].healthy)

\* Every step moves the health of an entry only as its streak demands.
LEMMA NextHealth == TypeOK /\ Routing /\ Tallied /\ [Next]_vars => HealthStep
<1> SUFFICES ASSUME TypeOK, Routing, Tallied, [Next]_vars PROVE HealthStep
  OBVIOUS
<1> USE DEF mgrVars
<1>1. /\ entries \in [Names -> Entry] /\ cfg \in Configs /\ InitCfg \in Configs
      /\ streak \in [Names -> Int] /\ \A g \in Reloads : g \in Configs
  BY DEF TypeOK, Configs
<1>2. \A n \in Names : entries[n].pool # NoPool =>
         /\ Tally(entries[n], streak[n], cfg)
         /\ entries[n].healthy = HealthOf(streak[n], cfg, entries[n].healthy)
  <2>1. \A n \in Names : entries[n].pool # NoPool => Tally(entries[n], streak[n], cfg)
    BY DEF Tallied, Present
  <2>2. \A n \in Names : entries[n] \in Entry /\ streak[n] \in Int
    BY <1>1
  <2> QED
    BY <1>1, <2>1, <2>2, TallyHealth
<1>4. CASE UNCHANGED <<entries, cfg, streak>>
  BY <1>2, <1>4 DEF HealthStep
<1>5. ASSUME NEW n \in Names, NEW e, NEW k, entries' = [entries EXCEPT ![n] = e],
             streak' = [streak EXCEPT ![n] = k], UNCHANGED cfg, Tally(e, k, cfg),
             e.healthy = HealthOf(k, cfg, entries[n].healthy)
      PROVE  HealthStep
  <2>1. \A m \in Names \ {n} : entries'[m] = entries[m] /\ streak'[m] = streak[m]
    BY <1>1, <1>5
  <2>2. entries'[n] = e /\ streak'[n] = k
    BY <1>1, <1>5
  <2> QED
    BY <1>2, <1>5, <2>1, <2>2 DEF HealthStep
<1>6. ASSUME NEW n \in Names, HealthPing(n) PROVE HealthStep
  <2>1. Tally(entries[n], streak[n], cfg)
    BY <1>2, <1>6 DEF HealthPing, HealthPingOk, HealthPingFail, Routing, Pinged, Present
  <2>2. CASE HealthPingOk(n)
    BY <1>5, <2>1, <2>2, TallyAnswered DEF HealthPingOk
  <2>3. CASE HealthPingFail(n)
    BY <1>5, <2>1, <2>3, TallyFailed DEF HealthPingFail
  <2> QED
    BY <1>6, <2>2, <2>3 DEF HealthPing
<1>7. ASSUME NEW p \in Pools, NewManagerDial(p) PROVE HealthStep
  <2>1. built \in Nat /\ Len(Order[InitCfg]) \in Nat /\ built + 1 \in 1..Len(Order[InitCfg])
    BY <1>7, <1>1, OrderHead DEF NewManagerDial, TypeOK
  <2>2. Order[InitCfg][built + 1] \in Names /\ cfg = InitCfg
    BY <1>1, <1>7, <2>1, OrderName DEF NewManagerDial, Routing, FreshStart
  <2> QED
    BY <1>1, <1>5, <1>7, <2>2, TallyNew DEF NewManagerDial
<1>8. ASSUME NEW r \in Workers, ReconnectSwap(r) PROVE HealthStep
  <2>1. CASE Present(rc[r].name)
    BY <1>1, <1>5, <1>8, <2>1, TallyNew DEF ReconnectSwap, Present
  <2>2. CASE ~Present(rc[r].name)
    BY <1>4, <1>8, <2>2 DEF ReconnectSwap
  <2> QED
    BY <2>1, <2>2
<1>9. ASSUME NEW g \in Reloads, ReloadSwap(g) PROVE HealthStep
  <2>1. \A n \in Names : entries'[n].pool # NoPool =>
           (\E p : entries'[n] = NewEntry(p)) /\ streak'[n] = RecoverThreshold[g]
    BY <1>9, EntryFields DEF ReloadSwap
  <2>2. cfg' = g
    BY <1>9 DEF ReloadSwap
  <2> SUFFICES ASSUME NEW n \in Names, entries'[n].pool # NoPool
               PROVE  /\ Tally(entries'[n], streak'[n], cfg')
                      /\ entries'[n].healthy = HealthOf(streak'[n], cfg', entries[n].healthy)
    BY DEF HealthStep
  <2>3. PICK p : entries'[n] = NewEntry(p)
    BY <2>1
  <2>4. /\ Tally(NewEntry(p), RecoverThreshold[g], g)
        /\ NewEntry(p).healthy = HealthOf(RecoverThreshold[g], g, entries[n].healthy)
    BY <1>1, TallyNew
  <2>5. streak'[n] = RecoverThreshold[g]
    BY <2>1
  <2> QED
    BY <2>2, <2>3, <2>4, <2>5
<1>10. CASE NewManagerFail \/ CloseEntries
  BY <1>10, EntryFields DEF NewManagerFail, CloseEntries, HealthStep
<1>11. ASSUME NEW r \in Workers, Reconnect(r) PROVE HealthStep
  BY <1>4, <1>8, <1>11 DEF Reconnect, ReconnectStart, ReconnectCheck, ReconnectDialFail,
     ReconnectDial, ReconnectPing, ReconnectBackoff, ReconnectClose, ReconnectExit
<1>12. ASSUME NEW g \in Reloads, Reload(g) PROVE HealthStep
  BY <1>4, <1>9, <1>12 DEF Reload, ReloadFail, ReloadDial, ReloadClose
<1>13. CASE Route \/ NewManagerDone \/ HealthLock \/ HealthUnlock \/ HealthExit
            \/ CloseCancel \/ Network \/ UNCHANGED vars
  BY <1>4, <1>13 DEF Route, NewManagerDone, HealthLock, HealthUnlock, HealthExit,
     CloseCancel, Network, Toggle, PeerForgets, SessionsDie, vars
<1> QED
  BY <1>6, <1>7, <1>10, <1>11, <1>12, <1>13 DEF Next, NewManager, Health, Close

\* Through health checks, reconnects and reloads an entry turns unhealthy with
\* the FailThreshold-th ping in a row that fails and healthy with the
\* RecoverThreshold-th that is answered, or when a new pool is installed, and
\* at no other moment (runHealthCheck, reconnect).
THEOREM HealthTold == Spec => HealthFollowsPings
<1>1. Init => Tallied
  BY DEF Init, Tallied, Present, NilEntry
<1>2. TypeOK /\ Routing /\ Tallied /\ [Next]_vars => Tallied'
  <2>1. HealthStep => Tallied'
    BY DEF HealthStep, Tallied, Present
  <2> QED
    BY <2>1, NextHealth
<1>3. TypeOK /\ Routing /\ Tallied /\ [Next]_vars =>
         [\A n \in Names : entries'[n].pool # NoPool =>
             entries'[n].healthy =
                IF streak'[n] <= -FailThreshold[cfg'] THEN FALSE
                ELSE IF streak'[n] >= RecoverThreshold[cfg'] THEN TRUE
                ELSE entries[n].healthy]_vars
  BY NextHealth DEF HealthStep, HealthOf
<1> QED
  BY <1>1, <1>2, <1>3, RoutingInvariant, PTL DEF Spec, HealthFollowsPings
=============================================================================
