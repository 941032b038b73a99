--------------------------- MODULE UpstreamProofs ---------------------------
(***************************************************************************)
(* Theorems about the upstream manager, for any number of upstreams,       *)
(* pools, reconnect goroutines and concurrent reloads.                     *)
(***************************************************************************)
EXTENDS Upstream, WellFoundedInduction, TLAPS

\* The endpoints of a configuration are names.
LEMMA OrderName ==
    ASSUME NEW c \in Configs, NEW i \in 1..Len(Order[c])
    PROVE  Order[c][i] \in Names
BY OrderAssumption

\* Every configuration has an endpoint to start with.
LEMMA OrderHead ==
    ASSUME NEW c \in Configs
    PROVE  Len(Order[c]) \in Nat /\ Order[c][1] \in Names
BY OrderAssumption

\* A non-empty set of naturals has a least element.
LEMMA LeastNatural ==
    ASSUME NEW H, H \subseteq Nat, H # {}
    PROVE  \E i \in H : \A j \in H : i <= j
<1> DEFINE R == OpToRel(<, Nat)
<1>1. IsWellFoundedOn(R, Nat)
  BY NatLessThanWellFounded
<1>2. \A i, j \in Nat : j < i => <<j, i>> \in R
  BY DEF OpToRel
<1> HIDE DEF R
<1>3. \E i \in H : \A j \in H : ~(<<j, i>> \in R)
  BY <1>1, WFMin, Zenon
<1>4. PICK i \in H : \A j \in H : ~(<<j, i>> \in R)
  BY <1>3
<1>5. ASSUME NEW j \in H PROVE i <= j
  <2>1. i \in Nat /\ j \in Nat
    OBVIOUS
  <2>2. ~(j < i)
    BY <1>2, <1>4, <2>1, Zenon
  <2> QED
    BY <2>1, <2>2
<1> QED
  BY <1>5

\* FirstHealthy returns a healthy endpoint if there is one, and otherwise
\* the default.
LEMMA FirstHealthyResult ==
    ASSUME NEW c \in Configs, NEW E, NEW d
    PROVE  \/ /\ FirstHealthy(E, c, d) = d
              /\ \A i \in 1..Len(Order[c]) : ~E[Order[c][i]].healthy
           \/ /\ FirstHealthy(E, c, d) \in Names
              /\ \E i \in 1..Len(Order[c]) : FirstHealthy(E, c, d) = Order[c][i]
              /\ E[FirstHealthy(E, c, d)].healthy
<1> DEFINE H == {i \in 1..Len(Order[c]) : E[Order[c][i]].healthy}
           k == CHOOSE i \in H : \A j \in H : i <= j
<1>1. CASE H = {}
  BY <1>1 DEF FirstHealthy
<1>2. CASE H # {}
  <2>1. H \subseteq Nat
    BY OrderHead
  <2>2. k \in H
    BY <1>2, <2>1, LeastNatural, Zenon
  <2>3. FirstHealthy(E, c, d) = Order[c][k]
    BY <1>2 DEF FirstHealthy
  <2>4. Order[c][k] \in Names
    BY <2>2, OrderName
  <2> QED
    BY <2>2, <2>3, <2>4
<1> QED
  BY <1>1, <1>2

-----------------------------------------------------------------------------
(* Type correctness *)

\* Facts about the types of the records the actions build.
LEMMA RecordTypes ==
    /\ NilEntry \in Entry
    /\ \A p \in Pools : NewEntry(p) \in Entry
    /\ ClosedPool \in PoolState
    /\ IdleWorker \in Worker
BY DEF NilEntry, NewEntry, Entry, ClosedPool, PoolState, IdleWorker, Worker, Configs

\* Closing pools, and opening one, keeps the pool table well typed.
LEMMA PoolTypes ==
    ASSUME TypeOK
    PROVE  /\ \A P : ClosePools(P) \in [Pools -> PoolState]
           /\ \A p \in Pools, c \in Configs, n \in Names :
                 Open(p, c, n) \in [Pools -> PoolState]
BY RecordTypes DEF TypeOK, ClosePools, Open, PoolState

\* A goroutine that moves on keeps its name and entry object.
LEMMA GotoType ==
    ASSUME TypeOK, NEW r \in Workers, NEW p \in Pools \cup {NoPool},
           NEW x \in {"check", "dial", "ping", "backoff", "swap", "close", "exit"}
    PROVE  /\ Goto(r, x, p) \in [Workers -> Worker]
           /\ Goto(r, x, p)[r].pc = x
           /\ Goto(r, x, p)[r].pool = p
           /\ Goto(r, x, p)[r].name = rc[r].name
           /\ Goto(r, x, p)[r].obj = rc[r].obj
           /\ \A s \in Workers \ {r} : Goto(r, x, p)[s] = rc[s]
<1>1. rc[r] \in Worker /\ rc \in [Workers -> Worker]
  BY DEF TypeOK
<1> DEFINE w == [rc[r] EXCEPT !.pc = x, !.pool = p]
<1>2. /\ w \in Worker
      /\ w.pc = x /\ w.pool = p /\ w.name = rc[r].name /\ w.obj = rc[r].obj
  BY <1>1 DEF Worker
<1> HIDE DEF w
<1>3. Goto(r, x, p) = [rc EXCEPT ![r] = w]
  BY DEF Goto, w
<1> QED
  BY <1>1, <1>2, <1>3

\* FailedEntry and RecoveringEntry keep the counters within the thresholds.
LEMMA EntryTypes ==
    ASSUME TypeOK, NEW n \in Names
    PROVE  /\ FailedEntry(entries[n]) \in Entry
           /\ FailedEntry(entries[n]).failures <= FailThreshold[cfg]
           /\ FailedEntry(entries[n]).recovers <= RecoverThreshold[cfg]
           /\ FailedEntry(entries[n]).pool = entries[n].pool
           /\ RecoveringEntry(entries[n]) \in Entry
           /\ RecoveringEntry(entries[n]).failures <= FailThreshold[cfg]
           /\ RecoveringEntry(entries[n]).recovers <= RecoverThreshold[cfg]
           /\ RecoveringEntry(entries[n]).pool = entries[n].pool
<1>1. /\ FailThreshold[cfg] \in Nat \ {0}
      /\ RecoverThreshold[cfg] \in Nat \ {0}
      /\ entries[n] \in Entry
      /\ entries[n].failures <= FailThreshold[cfg]
      /\ entries[n].recovers <= RecoverThreshold[cfg]
  BY ThresholdAssumption DEF TypeOK
<1>2. /\ FailedEntry(entries[n]) \in Entry
      /\ FailedEntry(entries[n]).failures <= FailThreshold[cfg]
      /\ FailedEntry(entries[n]).recovers <= RecoverThreshold[cfg]
      /\ FailedEntry(entries[n]).pool = entries[n].pool
  BY <1>1 DEF FailedEntry, Entry
<1>3. /\ RecoveringEntry(entries[n]) \in Entry
      /\ RecoveringEntry(entries[n]).failures <= FailThreshold[cfg]
      /\ RecoveringEntry(entries[n]).recovers <= RecoverThreshold[cfg]
      /\ RecoveringEntry(entries[n]).pool = entries[n].pool
  BY <1>1 DEF RecoveringEntry, Entry
<1> QED
  BY <1>2, <1>3

\* Init establishes the type invariant.
LEMMA InitTypeOK == Init => TypeOK
<1> SUFFICES ASSUME Init PROVE TypeOK
  OBVIOUS
<1>1. InitCfg \in Configs /\ \A g \in Reloads : g \in Configs
  BY DEF Configs
<1>2. \A c \in Configs : Len(Order[c]) \in Nat
  BY OrderHead
<1>3. /\ FailThreshold[InitCfg] \in Nat
      /\ RecoverThreshold[InitCfg] \in Nat
  BY <1>1, ThresholdAssumption
<1>4. rl \in [Reloads -> Reloading] /\ \A g \in Reloads : rl[g].dialed = 0
  BY DEF Init, Reloading
<1>5. entries \in [Names -> Entry]
  BY RecordTypes DEF Init
<1>6. \A n \in Names : entries[n].failures = 0 /\ entries[n].recovers = 0
  BY DEF Init, NilEntry
<1>7. /\ \A n \in Names : /\ entries[n].failures <= FailThreshold[cfg]
                           /\ entries[n].recovers <= RecoverThreshold[cfg]
      /\ \A g \in Reloads : rl[g].dialed <= Len(Order[g])
  BY <1>1, <1>2, <1>3, <1>4, <1>6 DEF Init
<1>8. /\ pool \in [Pools -> PoolState]
      /\ rc \in [Workers -> Worker]
      /\ cfg \in Configs
      /\ built \in 0..Len(Order[InitCfg])
  BY <1>1, <1>2, RecordTypes DEF Init
<1>9. streak \in [Names -> Int] /\ lost \subseteq Pools
  BY DEF Init, NoStreak
<1> QED
  BY <1>4, <1>5, <1>7, <1>8, <1>9 DEF Init, TypeOK

\* The history keeps its shape.
LEMMA HistoryTypes ==
    ASSUME TypeOK, [Next]_vars
    PROVE  streak' \in [Names -> Int] /\ lost' \subseteq Pools
<1> USE DEF mgrVars
<1>1. /\ streak \in [Names -> Int] /\ lost \subseteq Pools /\ cfg \in Configs
      /\ \A n \in Names : entries[n].pool \in Pools \cup {NoPool}
      /\ \A g \in Reloads, n \in Names : rl[g].pools[n] \in Pools \cup {NoPool}
      /\ InitCfg \in Configs /\ \A g \in Reloads : g \in Configs
      /\ \A c \in Configs : /\ FailThreshold[c] \in Nat \ {0} /\ RecoverThreshold[c] \in Nat \ {0}
                            /\ Len(Order[c]) \in Nat
  BY ThresholdAssumption, OrderHead DEF TypeOK, Entry, Reloading, Configs
<1>2. NoStreak \in [Names -> Int] /\ \A n \in Names : Failed(n) \in Int /\ Answered(n) \in Int
  BY <1>1 DEF NoStreak, Failed, Answered
<1>3. ASSUME NEW n \in Names, NEW k \in Int, streak' = [streak EXCEPT ![n] = k], UNCHANGED lost
      PROVE  streak' \in [Names -> Int] /\ lost' \subseteq Pools
  BY <1>1, <1>3
<1>4. ASSUME NEW p \in Pools, NewManagerDial(p)
      PROVE  streak' \in [Names -> Int] /\ lost' \subseteq Pools
  <2>1. built + 1 \in 1..Len(Order[InitCfg])
    BY <1>1, <1>4 DEF NewManagerDial, TypeOK
  <2>2. Order[InitCfg][built + 1] \in Names
    BY <1>1, <2>1, OrderName
  <2> QED
    BY <1>1, <1>4, <2>2 DEF NewManagerDial, Lose
<1>5. ASSUME NEW g \in Reloads, NEW p \in Pools, ReloadDial(g, p)
      PROVE  streak' \in [Names -> Int] /\ lost' \subseteq Pools
  <2>1. rl[g].dialed + 1 \in 1..Len(Order[g])
    BY <1>1, <1>5 DEF ReloadDial, TypeOK, Reloading
  <2>2. Order[g][rl[g].dialed + 1] \in Names
    BY <1>1, <2>1, OrderName
  <2> QED
    BY <1>1, <1>5, <2>2 DEF ReloadDial, Lose
<1>6. ASSUME NEW n \in Names, HealthPing(n)
      PROVE  streak' \in [Names -> Int] /\ lost' \subseteq Pools
  BY <1>2, <1>3, <1>6 DEF HealthPing, HealthPingOk, HealthPingFail
<1>7. ASSUME NEW r \in Workers, ReconnectSwap(r)
      PROVE  streak' \in [Names -> Int] /\ lost' \subseteq Pools
  BY <1>1, <1>3, <1>7 DEF ReconnectSwap, Present
<1>8. ASSUME NEW g \in Reloads, ReloadSwap(g)
      PROVE  streak' \in [Names -> Int] /\ lost' \subseteq Pools
  BY <1>1, <1>8 DEF ReloadSwap
<1>9. CASE NewManagerFail \/ CloseEntries
  BY <1>1, <1>2, <1>9 DEF NewManagerFail, CloseEntries
<1>10. ASSUME UNCHANGED <<streak, lost>>
       PROVE  streak' \in [Names -> Int] /\ lost' \subseteq Pools
  BY <1>1, <1>10
<1>11. ASSUME NEW r \in Workers, Reconnect(r)
       PROVE  streak' \in [Names -> Int] /\ lost' \subseteq Pools
  BY <1>7, <1>10, <1>11 DEF Reconnect, ReconnectStart, ReconnectCheck, ReconnectDialFail,
     ReconnectDial, ReconnectPing, ReconnectBackoff, ReconnectClose, ReconnectExit
<1>12. ASSUME NEW g \in Reloads, Reload(g)
       PROVE  streak' \in [Names -> Int] /\ lost' \subseteq Pools
  BY <1>5, <1>8, <1>10, <1>12 DEF Reload, ReloadFail, ReloadClose
<1>13. CASE Route \/ NewManagerDone \/ HealthLock \/ HealthUnlock \/ HealthExit
            \/ CloseCancel \/ Network \/ UNCHANGED vars
  BY <1>10, <1>13 DEF Route, NewManagerDone, HealthLock, HealthUnlock, HealthExit, CloseCancel,
     Network, Toggle, PeerForgets, SessionsDie, vars
<1> QED
  BY <1>4, <1>6, <1>9, <1>11, <1>12, <1>13 DEF Next, NewManager, Health, Close

\* Every step keeps the type invariant.
LEMMA NextTypeOK == TypeOK /\ [Next]_vars => TypeOK'
<1> SUFFICES ASSUME TypeOK, [Next]_vars PROVE TypeOK'
  OBVIOUS
<1> USE DEF mgrVars
<1>a. /\ InitCfg \in Configs
      /\ \A g \in Reloads : g \in Configs
      /\ \A c \in Configs : Len(Order[c]) \in Nat /\ Order[c][1] \in Names
      /\ \A c \in Configs : FailThreshold[c] \in Nat /\ RecoverThreshold[c] \in Nat
  BY OrderHead, ThresholdAssumption DEF Configs
<1>b. \A p \in Pools : NewEntry(p).failures = 0 /\ NewEntry(p).recovers = 0
  BY DEF NewEntry
<1>c. NilEntry.failures = 0 /\ NilEntry.recovers = 0
  BY DEF NilEntry
<1>d. \A r \in Workers : rc[r].pool \in Pools \cup {NoPool}
  BY DEF TypeOK, Worker
<1>e. \A n \in Names : entries[n].pool \in Pools \cup {NoPool}
  BY DEF TypeOK, Entry
<1>h. streak' \in [Names -> Int] /\ lost' \subseteq Pools
  BY HistoryTypes
<1>1. ASSUME NEW p \in Pools, NewManagerDial(p) PROVE TypeOK'
  <2>1. Order[InitCfg][built + 1] \in Names
    BY <1>1, <1>a, OrderName DEF NewManagerDial, TypeOK
  <2> QED
    BY <1>h, <1>1, <1>a, <1>b, <2>1, RecordTypes, PoolTypes DEF NewManagerDial, TypeOK
<1>2. CASE NewManagerFail
  BY <1>h, <1>2, <1>a, <1>c, RecordTypes, PoolTypes DEF NewManagerFail, TypeOK
<1>3. CASE NewManagerDone
  BY <1>3, <1>a DEF NewManagerDone, TypeOK
<1>4. CASE Route
  <2>1. pickActive \in Names \cup {NoName}
    BY FirstHealthyResult DEF pickActive, TypeOK
  <2> QED
    BY <1>4, <2>1 DEF Route, TypeOK
<1>5. CASE HealthLock
  BY <1>5 DEF HealthLock, TypeOK
<1>6. ASSUME NEW n \in Names, HealthPingOk(n) PROVE TypeOK'
  BY <1>h, <1>6, EntryTypes DEF HealthPingOk, TypeOK
<1>7. ASSUME NEW n \in Names, HealthPingFail(n) PROVE TypeOK'
  <2>1. active' \in Names \cup {NoName}
    BY <1>7, FirstHealthyResult DEF HealthPingFail, failoverLocked, TypeOK
  <2>2. rc' \in [Workers -> Worker]
    <3>1. CASE UNCHANGED rc
      BY <3>1 DEF TypeOK
    <3>2. CASE SpawnReconnect(n)
      <4>1. [IdleWorker EXCEPT !.pc = "start", !.name = n] \in Worker
        BY RecordTypes DEF Worker
      <4> QED
        BY <3>2, <4>1 DEF SpawnReconnect, TypeOK
    <3> QED
      BY <1>7, <3>1, <3>2 DEF HealthPingFail
  <2> QED
    BY <1>h, <1>7, <2>1, <2>2, EntryTypes DEF HealthPingFail, TypeOK
<1>8. CASE HealthUnlock
  BY <1>8 DEF HealthUnlock, TypeOK
<1>9. CASE HealthExit
  BY <1>9 DEF HealthExit, TypeOK
<1>10. ASSUME NEW r \in Workers, Reconnect(r) PROVE TypeOK'
  <2>1. CASE ReconnectStart(r)
    <3>1. rc' \in [Workers -> Worker]
      <4>1. rc[r] \in Worker /\ rc \in [Workers -> Worker] /\ cfg \in Configs
        BY DEF TypeOK
      <4>2. [rc[r] EXCEPT !.pc = "check", !.obj = cfg] \in Worker
        BY <4>1 DEF Worker
      <4> QED
        BY <2>1, <4>1, <4>2, RecordTypes DEF ReconnectStart
    <3>2. reconnecting' \subseteq Configs \X Names
      BY <2>1 DEF ReconnectStart, TypeOK, Present
    <3> QED
      BY <2>1, <3>1, <3>2 DEF ReconnectStart, TypeOK
  <2>2. CASE ReconnectCheck(r)
    <3>1. rc[r] \in Worker /\ rc \in [Workers -> Worker] /\ cfg \in Configs
      BY DEF TypeOK
    <3>2. /\ [rc[r] EXCEPT !.pc = "dial", !.ep = cfg] \in Worker
          /\ [rc[r] EXCEPT !.pc = "exit"] \in Worker
      BY <3>1 DEF Worker
    <3>3. rc' \in [Workers -> Worker]
      BY <2>2, <3>1, <3>2 DEF ReconnectCheck
    <3> QED
      BY <2>2, <3>3 DEF ReconnectCheck, TypeOK
  <2>3. CASE ReconnectDialFail(r)
    BY <2>3, GotoType DEF ReconnectDialFail, TypeOK
  <2>4. ASSUME NEW p \in Pools, ReconnectDial(r, p) PROVE TypeOK'
    <3>1. rc' \in [Workers -> Worker]
      BY <2>4, GotoType DEF ReconnectDial
    <3>2. pool' \in [Pools -> PoolState]
      BY <2>4 DEF ReconnectDial, Open, TypeOK, Worker, PoolState
    <3> QED
      BY <2>4, <3>1, <3>2 DEF ReconnectDial, TypeOK
  <2>5. CASE ReconnectPing(r)
    <3>1. rc' \in [Workers -> Worker]
      BY <2>5, <1>d, GotoType DEF ReconnectPing
    <3>2. pool' \in [Pools -> PoolState]
      BY <2>5, PoolTypes DEF ReconnectPing, TypeOK
    <3> QED
      BY <2>5, <3>1, <3>2 DEF ReconnectPing, TypeOK
  <2>6. CASE ReconnectBackoff(r)
    BY <2>6, GotoType DEF ReconnectBackoff, TypeOK
  <2>7. CASE ReconnectSwap(r)
    <3>1. CASE ~Present(rc[r].name)
      BY <2>7, <3>1, <1>d, GotoType DEF ReconnectSwap, TypeOK
    <3>2. CASE Present(rc[r].name)
      <4> DEFINE n == rc[r].name
      <4>1. n \in Names
        BY <3>2 DEF Present
      <4>2. rc' \in [Workers -> Worker]
        BY <2>7, <3>2, <4>1, <1>e, GotoType DEF ReconnectSwap
      <4>3. /\ entries' \in [Names -> Entry]
            /\ \A m \in Names : /\ entries'[m].failures <= FailThreshold[cfg]
                                /\ entries'[m].recovers <= RecoverThreshold[cfg]
        <5>1. /\ NewEntry(rc[r].pool) \in Entry
              /\ NewEntry(rc[r].pool).failures = 0
              /\ NewEntry(rc[r].pool).recovers = 0
          BY <1>d DEF NewEntry, Entry
        <5>2. entries' = [entries EXCEPT ![n] = NewEntry(rc[r].pool)]
          BY <2>7, <3>2 DEF ReconnectSwap
        <5> QED
          BY <4>1, <5>1, <5>2, <1>a DEF TypeOK
      <4>4. active' \in Names \cup {NoName}
        BY <2>7, <3>2, <4>1 DEF ReconnectSwap, TypeOK
      <4> QED
        BY <1>h, <2>7, <4>2, <4>3, <4>4 DEF ReconnectSwap, TypeOK
    <3> QED
      BY <3>1, <3>2
  <2>8. CASE ReconnectClose(r)
    <3>1. rc' \in [Workers -> Worker]
      BY <2>8, GotoType DEF ReconnectClose
    <3> QED
      BY <2>8, <3>1, PoolTypes DEF ReconnectClose, TypeOK
  <2>9. CASE ReconnectExit(r)
    BY <2>9, RecordTypes DEF ReconnectExit, TypeOK
  <2> QED
    BY <1>10, <2>1, <2>2, <2>3, <2>4, <2>5, <2>6, <2>7, <2>8, <2>9 DEF Reconnect
<1>11. ASSUME NEW g \in Reloads, Reload(g) PROVE TypeOK'
  <2>1. CASE ReloadFail(g)
    <3>1. rl' \in [Reloads -> Reloading] /\ \A h \in Reloads : rl'[h].dialed = rl[h].dialed
      BY <2>1 DEF ReloadFail, TypeOK, Reloading
    <3> QED
      BY <2>1, <3>1, PoolTypes DEF ReloadFail, TypeOK
  <2>2. CASE ReloadSwap(g)
    <3>1. rl' \in [Reloads -> Reloading] /\ \A h \in Reloads : rl'[h].dialed = rl[h].dialed
      BY <2>2 DEF ReloadSwap, TypeOK, Reloading, Entry
    <3>2. \A n \in Names : rl[g].pools[n] \in Pools \cup {NoPool}
      BY DEF TypeOK, Reloading
    <3>3. /\ entries' \in [Names -> Entry]
          /\ \A n \in Names : entries'[n].failures = 0 /\ entries'[n].recovers = 0
      BY <2>2, <3>2, <1>b, <1>c, RecordTypes DEF ReloadSwap
    <3> QED
      BY <1>h, <2>2, <3>1, <3>3, <1>a DEF ReloadSwap, TypeOK
  <2>3. ASSUME NEW p \in Pools, ReloadDial(g, p) PROVE TypeOK'
    <3>1. rl[g].dialed \in Nat /\ rl[g].dialed + 1 \in 1..Len(Order[g])
      BY <2>3, <1>a DEF ReloadDial, TypeOK, Reloading
    <3>2. Order[g][rl[g].dialed + 1] \in Names
      BY <3>1, <1>a, OrderName
    <3>3. /\ rl' \in [Reloads -> Reloading]
          /\ \A h \in Reloads : rl'[h].dialed <= Len(Order[h])
      <4> DEFINE n == Order[g][rl[g].dialed + 1]
                 l == [pc |-> "dial", dialed |-> rl[g].dialed + 1,
                       pools |-> [rl[g].pools EXCEPT ![n] = p]]
      <4>1. rl[g] \in Reloading /\ rl \in [Reloads -> Reloading]
        BY DEF TypeOK
      <4>2. l \in Reloading /\ l.dialed = rl[g].dialed + 1
        BY <3>1, <3>2, <4>1 DEF Reloading
      <4>3. rl' = [rl EXCEPT ![g] = l]
        BY <2>3 DEF ReloadDial
      <4> HIDE DEF l
      <4> QED
        BY <3>1, <4>1, <4>2, <4>3 DEF TypeOK
    <3> QED
      BY <1>h, <2>3, <3>2, <3>3, <1>a, PoolTypes DEF ReloadDial, TypeOK
  <2>4. ASSUME NEW n \in Names, ReloadClose(g, n) PROVE TypeOK'
    <3>1. rl' \in [Reloads -> Reloading] /\ \A h \in Reloads : rl'[h].dialed = rl[h].dialed
      BY <2>4 DEF ReloadClose, TypeOK, Reloading
    <3> QED
      BY <2>4, <3>1, PoolTypes DEF ReloadClose, TypeOK
  <2> QED
    BY <1>11, <2>1, <2>2, <2>3, <2>4 DEF Reload
<1>12. CASE CloseCancel
  BY <1>12 DEF CloseCancel, TypeOK
<1>13. CASE CloseEntries
  BY <1>h, <1>13, <1>a, <1>c, RecordTypes, PoolTypes DEF CloseEntries, TypeOK
<1>14. CASE Network
  <2>1. ASSUME NEW n \in Names, Toggle(n) PROVE TypeOK'
    BY <2>1 DEF Toggle, TypeOK
  <2>2. ASSUME NEW p \in Pools, PeerForgets(p) PROVE TypeOK'
    BY <2>2 DEF PeerForgets, TypeOK, PoolState
  <2>3. ASSUME NEW p \in Pools, SessionsDie(p) PROVE TypeOK'
    BY <2>3 DEF SessionsDie, TypeOK, PoolState
  <2> QED
    BY <1>14, <2>1, <2>2, <2>3 DEF Network
<1>15. CASE UNCHANGED vars
  BY <1>15 DEF vars, TypeOK
<1> QED
  BY <1>1, <1>2, <1>3, <1>4, <1>5, <1>6, <1>7, <1>8, <1>9, <1>10, <1>11,
     <1>12, <1>13, <1>14, <1>15
  DEF Next, NewManager, Health, HealthPing, Close

\* The type invariant holds in every reachable state.
THEOREM TypeCorrect == Spec => []TypeOK
BY InitTypeOK, NextTypeOK, PTL DEF Spec

-----------------------------------------------------------------------------
(* Ownership of pools *)

\* The ownership invariant holds initially: there is no open pool.
LEMMA InitHolders == Init => Holders
<1> SUFFICES ASSUME Init PROVE Holders
  OBVIOUS
<1>1. /\ \A n \in Names : entries[n].pool = NoPool
      /\ \A r \in Workers : rc[r].pool = NoPool /\ rc[r].pc = "idle"
      /\ \A g \in Reloads : rl[g].dialed = 0 /\ \A n \in Names : rl[g].pools[n] = NoPool
      /\ \A p \in Pools : pool[p].state = "closed"
      /\ built = 0
  BY DEF Init, NilEntry, IdleWorker, ClosedPool
<1>2. \A p \in Pools : p # NoPool
  BY NilAssumption
<1>3. HeldOpen /\ SingleOwner /\ NoPoolLeak
  BY <1>1, <1>2 DEF HeldOpen, SingleOwner, NoPoolLeak, Held, EntryHolds, WorkerHolds,
                    ReloadHolds
<1>4. WorkerPools /\ DialedPrefix
  BY <1>1 DEF WorkerPools, DialedPrefix
<1> QED
  BY <1>3, <1>4 DEF Holders

\* A step that moves, opens and closes no pool keeps the ownership invariant.
LEMMA HoldersUnchanged ==
    ASSUME Holders,
           \A n \in Names : entries'[n].pool = entries[n].pool,
           \A r \in Workers :
              /\ rc'[r].pool = rc[r].pool
              /\ rc'[r].pc = rc[r].pc
                 \/ {rc'[r].pc, rc[r].pc} \cap {"ping", "swap", "close"} = {},
           UNCHANGED rl,
           \A p \in Pools : pool'[p].state = "closed" <=> pool[p].state = "closed",
           phase' = "new" => phase = "new" /\ built' = built,
           lost \subseteq lost'
    PROVE  Holders'
<1>1. HeldOpen' /\ SingleOwner' /\ NoPoolLeak'
  BY DEF Holders, HeldOpen, SingleOwner, NoPoolLeak, Held, EntryHolds, WorkerHolds,
         ReloadHolds
<1>2. WorkerPools'
  BY DEF Holders, WorkerPools
<1>3. DialedPrefix'
  BY DEF Holders, DialedPrefix
<1> QED
  BY <1>1, <1>2, <1>3 DEF Holders

\* What opening and closing pools does to the pool table.
LEMMA PoolUpdates ==
    ASSUME TypeOK
    PROVE  /\ \A P : \A p \in Pools :
                 ClosePools(P)[p].state = "closed" <=> p \in P \/ pool[p].state = "closed"
           /\ \A c, n : \A q, p \in Pools :
                 Open(q, c, n)[p].state = "closed" <=> p # q /\ pool[p].state = "closed"
<1>1. pool \in [Pools -> PoolState]
  BY DEF TypeOK
<1>2. ASSUME NEW P, NEW p \in Pools
      PROVE  ClosePools(P)[p].state = "closed" <=> p \in P \/ pool[p].state = "closed"
  BY DEF ClosePools, ClosedPool
<1>3. ASSUME NEW q \in Pools, NEW c, NEW n, NEW p \in Pools
      PROVE  Open(q, c, n)[p].state = "closed" <=> p # q /\ pool[p].state = "closed"
  BY <1>1 DEF Open
<1> QED
  BY <1>2, <1>3

\* A lost pool stays lost: it was never closed and can never be opened again.
LEMMA LostGrows == [Next]_vars => lost \subseteq lost'
BY DEF Next, NewManager, NewManagerDial, NewManagerFail, NewManagerDone, Route, Health,
   HealthLock, HealthUnlock, HealthExit, HealthPing, HealthPingOk, HealthPingFail, Reconnect,
   ReconnectStart, ReconnectCheck, ReconnectDialFail, ReconnectDial, ReconnectPing,
   ReconnectBackoff, ReconnectSwap, ReconnectClose, ReconnectExit, Reload, ReloadFail,
   ReloadSwap, ReloadDial, ReloadClose, Close, CloseCancel, CloseEntries, Network, Toggle,
   PeerForgets, SessionsDie, Lose, mgrVars, vars

\* Every step keeps the ownership invariant.
LEMMA NextHolders == TypeOK /\ Holders /\ [Next]_vars => Holders'
<1> SUFFICES ASSUME TypeOK, Holders, [Next]_vars PROVE Holders'
  OBVIOUS
<1> USE DEF mgrVars
<1>a. \A p \in Pools : p # NoPool
  BY NilAssumption
<1>b. /\ InitCfg \in Configs
      /\ \A g \in Reloads : g \in Configs
      /\ \A c \in Configs : Len(Order[c]) \in Nat
  BY OrderHead DEF Configs
<1>c. /\ \A n \in Names : entries[n].pool \in Pools \cup {NoPool}
      /\ \A r \in Workers : rc[r].pool \in Pools \cup {NoPool}
      /\ \A g \in Reloads, n \in Names : rl[g].pools[n] \in Pools \cup {NoPool}
  BY DEF TypeOK, Entry, Worker, Reloading
<1>d. /\ \A p : NewEntry(p).pool = p
      /\ NilEntry.pool = NoPool
      /\ IdleWorker.pool = NoPool /\ IdleWorker.pc = "idle"
  BY DEF NewEntry, NilEntry, IdleWorker
<1>e. HeldOpen /\ SingleOwner /\ NoPoolLeak /\ WorkerPools /\ DialedPrefix
  BY DEF Holders
<1>f. lost \subseteq lost'
  BY LostGrows
<1>1. ASSUME NEW p \in Pools, NewManagerDial(p) PROVE Holders'
  <2> DEFINE n == Order[InitCfg][built + 1]
  <2>1. built \in Nat /\ built + 1 \in 1..Len(Order[InitCfg])
    BY <1>1, <1>b DEF NewManagerDial, TypeOK
  <2>2. n \in Names /\ (entries[n].pool = NoPool \/ entries[n].pool \in lost')
    <3>1. n \in Names
      BY <2>1, <1>b, OrderName
    <3> QED
      BY <1>1, <3>1 DEF NewManagerDial, Lose
  <2>3. /\ entries'[n].pool = p
        /\ \A m \in Names \ {n} : entries'[m] = entries[m]
        /\ UNCHANGED <<rc, rl>>
    BY <1>1, <1>d, <2>2 DEF NewManagerDial, TypeOK
  <2>4. \A q \in Pools : pool'[q].state = "closed" <=> q # p /\ pool[q].state = "closed"
    BY <1>1, PoolUpdates DEF NewManagerDial
  <2>5. pool[p].state = "closed"
    BY <1>1 DEF NewManagerDial
  <2> HIDE DEF n
  <2>6. HeldOpen'
    BY <1>e, <2>2, <2>3, <2>4 DEF HeldOpen, EntryHolds, WorkerHolds, ReloadHolds
  <2>7. SingleOwner'
    BY <1>e, <2>2, <2>3, <2>5 DEF HeldOpen, SingleOwner, EntryHolds, WorkerHolds,
                                  ReloadHolds
  <2>8. NoPoolLeak'
    BY <1>f, <1>a, <1>e, <2>2, <2>3, <2>4 DEF NoPoolLeak, Held, EntryHolds, WorkerHolds, ReloadHolds
  <2>9. WorkerPools'
    BY <1>e, <2>3 DEF WorkerPools
  <2>10. DialedPrefix'
    <3>1. built' = built + 1 /\ phase = "new"
      BY <1>1 DEF NewManagerDial
    <3>2. \A m \in Names : (\E i \in 1..built' : Order[InitCfg][i] = m)
                           <=> m = n \/ \E i \in 1..built : Order[InitCfg][i] = m
      BY <2>1, <3>1 DEF n
    <3> QED
      BY <1>a, <1>e, <2>2, <2>3, <3>1, <3>2 DEF DialedPrefix
  <2> QED
    BY <2>6, <2>7, <2>8, <2>9, <2>10 DEF Holders
<1>2. ASSUME pool' = ClosePools(InstalledPools),
             entries' = [n \in Names |-> NilEntry],
             UNCHANGED <<rc, rl>>, phase' # "new"
      PROVE  Holders'
  <2>1. \A n \in Names : entries'[n].pool = NoPool
    BY <1>2, <1>d
  <2>2. \A p \in Pools : pool'[p].state = "closed" <=>
           pool[p].state = "closed" \/ \E n \in Names : entries[n].pool = p
    BY <1>2, <1>a, PoolUpdates DEF InstalledPools
  <2>3. HeldOpen'
    BY <1>2, <1>a, <1>e, <2>1, <2>2 DEF HeldOpen, SingleOwner, EntryHolds,
       WorkerHolds, ReloadHolds
  <2>4. SingleOwner' /\ NoPoolLeak'
    BY <1>f, <1>2, <1>a, <1>e, <2>1, <2>2 DEF SingleOwner, NoPoolLeak, Held, EntryHolds,
       WorkerHolds, ReloadHolds
  <2>5. WorkerPools' /\ DialedPrefix'
    BY <1>2, <1>e DEF WorkerPools, DialedPrefix
  <2> QED
    BY <2>3, <2>4, <2>5 DEF Holders
<1>3. CASE NewManagerFail
  BY <1>3, <1>2 DEF NewManagerFail
<1>4. CASE CloseEntries
  BY <1>4, <1>2 DEF CloseEntries
<1>5. CASE NewManagerDone \/ Route \/ HealthLock \/ HealthUnlock \/ HealthExit
           \/ CloseCancel \/ UNCHANGED vars
  BY <1>f, <1>5, HoldersUnchanged DEF NewManagerDone, Route, HealthLock, HealthUnlock,
     HealthExit, CloseCancel, vars
<1>6. ASSUME NEW n \in Names, HealthPingOk(n) PROVE Holders'
  <2>1. \A m \in Names : entries'[m].pool = entries[m].pool
    BY <1>6, EntryTypes DEF HealthPingOk, TypeOK
  <2> QED
    BY <1>f, <1>6, <2>1, HoldersUnchanged DEF HealthPingOk
<1>7. ASSUME NEW n \in Names, HealthPingFail(n) PROVE Holders'
  <2>1. \A m \in Names : entries'[m].pool = entries[m].pool
    BY <1>7, EntryTypes DEF HealthPingFail, TypeOK
  <2>2. \A r \in Workers : rc'[r] = rc[r] \/ /\ rc[r].pc = "idle"
                                             /\ rc'[r].pc = "start"
                                             /\ rc'[r].pool = NoPool
    <3>1. LET w == [IdleWorker EXCEPT !.pc = "start", !.name = n]
          IN  w.pc = "start" /\ w.pool = NoPool
      BY DEF IdleWorker
    <3> QED
      BY <1>7, <3>1 DEF HealthPingFail, SpawnReconnect, TypeOK
  <2>3. \A r \in Workers :
           /\ rc'[r].pool = rc[r].pool
           /\ rc'[r].pc = rc[r].pc
              \/ {rc'[r].pc, rc[r].pc} \cap {"ping", "swap", "close"} = {}
    BY <1>e, <2>2 DEF WorkerPools
  <2> QED
    BY <1>f, <1>7, <2>1, <2>3, HoldersUnchanged DEF HealthPingFail
<1>8. CASE Network
  <2>1. ASSUME NEW n \in Names, Toggle(n) PROVE Holders'
    BY <1>f, <2>1, HoldersUnchanged DEF Toggle
  <2>2. ASSUME NEW p \in Pools, PeerForgets(p) \/ SessionsDie(p) PROVE Holders'
    <3>1. \A q \in Pools : pool'[q].state = "closed" <=> pool[q].state = "closed"
      BY <2>2 DEF PeerForgets, SessionsDie, Alive, TypeOK, PoolState
    <3> QED
      BY <1>f, <2>2, <3>1, HoldersUnchanged DEF PeerForgets, SessionsDie
  <2> QED
    BY <1>8, <2>1, <2>2 DEF Network
<1>9. ASSUME NEW r \in Workers, Reconnect(r) PROVE Holders'
  <2> USE DEF EntryHolds, WorkerHolds, ReloadHolds
  <2>1. CASE ReconnectStart(r) \/ ReconnectCheck(r) \/ ReconnectDialFail(r)
             \/ ReconnectBackoff(r) \/ ReconnectExit(r)
    <3>1. \A s \in Workers \ {r} : rc'[s] = rc[s]
      BY <2>1, GotoType DEF ReconnectStart, ReconnectCheck, ReconnectDialFail,
         ReconnectBackoff, ReconnectExit, TypeOK
    <3>2. /\ rc[r].pc \notin {"ping", "swap", "close"}
          /\ rc'[r].pc \notin {"ping", "swap", "close"}
          /\ rc'[r].pool = NoPool
      <4>1. rc[r].pc \notin {"ping", "swap", "close"} /\ rc[r].pool = NoPool
        BY <2>1, <1>e DEF WorkerPools, ReconnectStart, ReconnectCheck,
           ReconnectDialFail, ReconnectBackoff, ReconnectExit
      <4>2. /\ LET w == [rc[r] EXCEPT !.pc = "check", !.obj = cfg]
               IN  w.pc = "check" /\ w.pool = rc[r].pool
            /\ LET w == [rc[r] EXCEPT !.pc = "exit"]
               IN  w.pc = "exit" /\ w.pool = rc[r].pool
            /\ LET w == [rc[r] EXCEPT !.pc = "dial", !.ep = cfg]
               IN  w.pc = "dial" /\ w.pool = rc[r].pool
        BY DEF TypeOK, Worker
      <4>3. CASE ReconnectStart(r)
        BY <4>1, <4>2, <4>3, <1>d DEF ReconnectStart, TypeOK
      <4>4. CASE ReconnectCheck(r)
        BY <4>1, <4>2, <4>4 DEF ReconnectCheck, TypeOK
      <4>5. CASE ReconnectDialFail(r) \/ ReconnectBackoff(r)
        BY <4>1, <4>5, GotoType DEF ReconnectDialFail, ReconnectBackoff
      <4>6. CASE ReconnectExit(r)
        BY <4>1, <4>6, <1>d DEF ReconnectExit, TypeOK
      <4> QED
        BY <2>1, <4>1, <4>3, <4>4, <4>5, <4>6
    <3>3. \A s \in Workers :
             /\ rc'[s].pool = rc[s].pool
             /\ rc'[s].pc = rc[s].pc
                \/ {rc'[s].pc, rc[s].pc} \cap {"ping", "swap", "close"} = {}
      BY <3>1, <3>2, <1>e DEF WorkerPools
    <3> QED
      BY <1>f, <2>1, <3>3, HoldersUnchanged DEF ReconnectStart, ReconnectCheck,
         ReconnectDialFail, ReconnectBackoff, ReconnectExit
  <2>2. ASSUME NEW p \in Pools, ReconnectDial(r, p) PROVE Holders'
    <3>1. /\ rc'[r].pool = p /\ rc'[r].pc = "ping"
          /\ \A s \in Workers \ {r} : rc'[s] = rc[s]
          /\ UNCHANGED <<entries, rl, phase, built>>
      BY <2>2, GotoType DEF ReconnectDial
    <3>2. \A q \in Pools : pool'[q].state = "closed" <=> q # p /\ pool[q].state = "closed"
      BY <2>2, PoolUpdates DEF ReconnectDial
    <3>3. pool[p].state = "closed" /\ rc[r].pool = NoPool
      BY <2>2, <1>e DEF ReconnectDial, WorkerPools
    <3>4. HeldOpen' /\ NoPoolLeak'
      BY <1>f, <1>a, <1>e, <3>1, <3>2, <3>3 DEF HeldOpen, NoPoolLeak, Held
    <3>5. SingleOwner'
      BY <1>e, <3>1, <3>3 DEF HeldOpen, SingleOwner
    <3>6. WorkerPools' /\ DialedPrefix'
      BY <1>a, <1>e, <3>1 DEF WorkerPools, DialedPrefix
    <3> QED
      BY <3>4, <3>5, <3>6 DEF Holders
  <2>3. ASSUME NEW p \in Pools, rc[r].pool = p, pool' = ClosePools({p}),
               rc'[r].pool = NoPool, rc'[r].pc \in {"backoff", "exit"},
               \A s \in Workers \ {r} : rc'[s] = rc[s],
               UNCHANGED <<entries, rl, phase, built>>
        PROVE  Holders'
    <3>1. \A q \in Pools : pool'[q].state = "closed" <=> q = p \/ pool[q].state = "closed"
      BY <2>3, PoolUpdates
    <3>a. /\ \A n \in Names : entries'[n].pool = entries[n].pool
          /\ \A h \in Reloads, n \in Names : rl'[h].pools[n] = rl[h].pools[n]
          /\ \A s \in Workers : rc'[s].pool = IF s = r THEN NoPool ELSE rc[s].pool
          /\ rc[r].pool = p /\ p # NoPool
      BY <2>3, <1>a
    <3>2. HeldOpen'
      BY <1>a, <1>e, <3>a, <3>1 DEF HeldOpen, SingleOwner
    <3>3. NoPoolLeak'
      BY <1>f, <1>a, <1>e, <3>a, <3>1 DEF NoPoolLeak, Held
    <3>4. SingleOwner'
      BY <1>a, <1>e, <2>3 DEF SingleOwner
    <3>5. WorkerPools' /\ DialedPrefix'
      BY <1>e, <2>3 DEF WorkerPools, DialedPrefix
    <3> QED
      BY <3>2, <3>3, <3>4, <3>5 DEF Holders
  <2>4. CASE ReconnectPing(r)
    <3>1. rc[r].pool \in Pools
      BY <2>4, <1>c, <1>e DEF ReconnectPing, WorkerPools
    <3>2. CASE Answers(rc[r].name, rc[r].pool)
      <4>1. /\ rc'[r].pool = rc[r].pool /\ rc'[r].pc = "swap" /\ rc[r].pc = "ping"
            /\ \A s \in Workers \ {r} : rc'[s] = rc[s]
            /\ UNCHANGED <<entries, rl, phase, built, pool>>
        BY <2>4, <3>1, <3>2, GotoType DEF ReconnectPing
      <4>2. HeldOpen' /\ SingleOwner' /\ NoPoolLeak'
        BY <1>f, <1>e, <4>1 DEF HeldOpen, SingleOwner, NoPoolLeak, Held
      <4>3. WorkerPools' /\ DialedPrefix'
        BY <1>e, <4>1 DEF WorkerPools, DialedPrefix
      <4> QED
        BY <4>2, <4>3 DEF Holders
    <3>3. CASE ~Answers(rc[r].name, rc[r].pool)
      <4>1. rc' = Goto(r, "backoff", NoPool)
        BY <2>4, <3>3 DEF ReconnectPing
      <4>2. /\ rc'[r].pool = NoPool /\ rc'[r].pc = "backoff"
            /\ \A s \in Workers \ {r} : rc'[s] = rc[s]
        BY <4>1, GotoType
      <4>3. pool' = ClosePools({rc[r].pool}) /\ UNCHANGED <<entries, rl, phase, built>>
        BY <2>4, <3>3 DEF ReconnectPing
      <4> QED
        BY <3>1, <4>2, <4>3, <2>3
    <3> QED
      BY <3>2, <3>3
  <2>5. CASE ReconnectClose(r)
    <3>1. rc[r].pool \in Pools
      BY <2>5, <1>c, <1>e DEF ReconnectClose, WorkerPools
    <3>2. /\ rc'[r].pool = NoPool /\ rc'[r].pc = "exit"
          /\ \A s \in Workers \ {r} : rc'[s] = rc[s]
      BY <2>5, GotoType DEF ReconnectClose
    <3>3. pool' = ClosePools({rc[r].pool}) /\ UNCHANGED <<entries, rl, phase, built>>
      BY <2>5 DEF ReconnectClose
    <3> QED
      BY <3>1, <3>2, <3>3, <2>3
  <2>6. CASE ReconnectSwap(r)
    <3> DEFINE n == rc[r].name
    <3>1. rc[r].pool \in Pools /\ rc[r].pc = "swap"
      BY <2>6, <1>c, <1>e DEF ReconnectSwap, WorkerPools
    <3>2. CASE Present(n)
      <4>1. n \in Names /\ entries[n].pool \in Pools
        BY <3>2, <1>c DEF Present
      <4>2. /\ rc'[r].pool = entries[n].pool /\ rc'[r].pc = "close"
            /\ \A s \in Workers \ {r} : rc'[s] = rc[s]
        BY <2>6, <3>2, <4>1, GotoType DEF ReconnectSwap
      <4>3. /\ entries'[n].pool = rc[r].pool
            /\ \A m \in Names \ {n} : entries'[m] = entries[m]
            /\ UNCHANGED <<rl, pool, phase, built>>
        BY <2>6, <3>2, <4>1, <1>d DEF ReconnectSwap, TypeOK
      <4> HIDE DEF n
      <4>4. HeldOpen' /\ NoPoolLeak'
        BY <1>f, <1>e, <4>1, <4>2, <4>3 DEF HeldOpen, NoPoolLeak, Held
      <4>5. SingleOwner'
        BY <1>e, <3>1, <4>1, <4>2, <4>3 DEF SingleOwner
      <4>6. WorkerPools'
        BY <1>a, <1>e, <3>1, <4>1, <4>2 DEF WorkerPools
      <4>7. DialedPrefix'
        BY <1>a, <1>e, <3>1, <4>1, <4>3 DEF DialedPrefix
      <4> QED
        BY <4>4, <4>5, <4>6, <4>7 DEF Holders
    <3>3. CASE ~Present(n)
      <4>1. /\ rc'[r].pool = rc[r].pool /\ rc'[r].pc = "close"
            /\ \A s \in Workers \ {r} : rc'[s] = rc[s]
            /\ UNCHANGED <<entries, rl, phase, built, pool>>
        BY <2>6, <3>1, <3>3, GotoType DEF ReconnectSwap
      <4>2. HeldOpen' /\ SingleOwner' /\ NoPoolLeak'
        BY <1>f, <1>e, <4>1 DEF HeldOpen, SingleOwner, NoPoolLeak, Held
      <4>3. WorkerPools' /\ DialedPrefix'
        BY <1>e, <3>1, <4>1 DEF WorkerPools, DialedPrefix
      <4> QED
        BY <4>2, <4>3 DEF Holders
    <3> QED
      BY <3>2, <3>3
  <2> QED
    BY <1>9, <2>1, <2>2, <2>4, <2>5, <2>6 DEF Reconnect
<1>10. ASSUME NEW g \in Reloads, Reload(g) PROVE Holders'
  <2> USE DEF EntryHolds, WorkerHolds, ReloadHolds
  <2>1. rl[g] \in Reloading /\ rl \in [Reloads -> Reloading]
    BY DEF TypeOK
  <2>2. ASSUME NEW p \in Pools, ReloadDial(g, p) PROVE Holders'
    <3> DEFINE n == Order[g][rl[g].dialed + 1]
               d == rl[g].dialed
    <3>1. d \in Nat /\ d + 1 \in 1..Len(Order[g]) /\ rl[g].pc = "dial"
      BY <2>1, <2>2, <1>b DEF ReloadDial, TypeOK, Reloading
    <3>2. n \in Names
      BY <3>1, <1>b, OrderName
    <3>4. rl[g].pools[n] = NoPool \/ rl[g].pools[n] \in lost'
      BY <2>2 DEF ReloadDial, Lose
    <3>5. /\ rl'[g].pc = "dial" /\ rl'[g].dialed = d + 1
          /\ rl'[g].pools[n] = p
          /\ \A m \in Names \ {n} : rl'[g].pools[m] = rl[g].pools[m]
          /\ \A h \in Reloads \ {g} : rl'[h] = rl[h]
          /\ UNCHANGED <<entries, rc, phase, built>>
      BY <2>1, <2>2, <3>2 DEF ReloadDial, Reloading
    <3>6. \A q \in Pools : pool'[q].state = "closed" <=> q # p /\ pool[q].state = "closed"
      BY <2>2, PoolUpdates DEF ReloadDial
    <3>7. pool[p].state = "closed"
      BY <2>2 DEF ReloadDial
    <3> HIDE DEF n, d
    <3>8. HeldOpen'
      BY <1>e, <3>2, <3>5, <3>6 DEF HeldOpen
    <3>9. NoPoolLeak'
      BY <1>f, <1>a, <1>e, <3>2, <3>4, <3>5, <3>6 DEF NoPoolLeak, Held
    <3>10. SingleOwner'
      BY <1>e, <3>2, <3>5, <3>7 DEF HeldOpen, SingleOwner
    <3>11. WorkerPools'
      BY <1>e, <3>5 DEF WorkerPools
    <3>12. DialedPrefix'
      <4>1. \A m \in Names : (\E i \in 1..(d + 1) : Order[g][i] = m)
                             <=> m = n \/ \E i \in 1..d : Order[g][i] = m
        BY <3>1 DEF n, d
      <4>2. \A m \in Names : rl'[g].pools[m] # NoPool
                             <=> \E i \in 1..(d + 1) : Order[g][i] = m
        BY <1>a, <1>e, <3>1, <3>2, <3>5, <4>1 DEF DialedPrefix, d
      <4> QED
        BY <1>e, <3>5, <4>2 DEF DialedPrefix
    <3> QED
      BY <3>8, <3>9, <3>10, <3>11, <3>12 DEF Holders
  <2>3. CASE ReloadFail(g)
    <3>1. /\ rl'[g].pc = "close"
          /\ \A m \in Names : rl'[g].pools[m] = NoPool
          /\ \A h \in Reloads \ {g} : rl'[h] = rl[h]
          /\ UNCHANGED <<entries, rc, phase, built>>
      BY <2>1, <2>3 DEF ReloadFail, Reloading
    <3>2. \A p \in Pools : pool'[p].state = "closed" <=>
             pool[p].state = "closed" \/ \E n \in Names : rl[g].pools[n] = p
      BY <2>3, <1>a, PoolUpdates DEF ReloadFail, ReloadPools
    <3>3. HeldOpen' /\ NoPoolLeak'
      BY <1>f, <1>a, <1>e, <3>1, <3>2 DEF HeldOpen, SingleOwner, NoPoolLeak, Held
    <3>4. SingleOwner'
      BY <1>a, <1>e, <3>1 DEF SingleOwner
    <3>5. WorkerPools' /\ DialedPrefix'
      BY <1>e, <3>1 DEF WorkerPools, DialedPrefix
    <3> QED
      BY <3>3, <3>4, <3>5 DEF Holders
  <2>4. ASSUME NEW n \in Names, ReloadClose(g, n) PROVE Holders'
    <3>1. rl[g].pools[n] \in Pools
      BY <2>4, <1>c DEF ReloadClose
    <3>2. /\ rl'[g].pc = "close"
          /\ rl'[g].pools[n] = NoPool
          /\ \A m \in Names \ {n} : rl'[g].pools[m] = rl[g].pools[m]
          /\ \A h \in Reloads \ {g} : rl'[h] = rl[h]
          /\ UNCHANGED <<entries, rc, phase, built>>
      BY <2>1, <2>4 DEF ReloadClose, Reloading
    <3>3. \A p \in Pools : pool'[p].state = "closed" <=>
             pool[p].state = "closed" \/ p = rl[g].pools[n]
      BY <2>4, PoolUpdates DEF ReloadClose
    <3>4. HeldOpen'
      BY <1>a, <1>e, <3>1, <3>2, <3>3 DEF HeldOpen, SingleOwner
    <3>5. NoPoolLeak'
      BY <1>f, <1>a, <1>e, <3>1, <3>2, <3>3 DEF NoPoolLeak, Held
    <3>6. SingleOwner'
      BY <1>a, <1>e, <3>2 DEF SingleOwner
    <3>7. WorkerPools' /\ DialedPrefix'
      BY <1>e, <3>2 DEF WorkerPools, DialedPrefix
    <3> QED
      BY <3>4, <3>5, <3>6, <3>7 DEF Holders
  <2>5. CASE ReloadSwap(g)
    <3>1. /\ rl'[g].pc = "close"
          /\ \A m \in Names : rl'[g].pools[m] = entries[m].pool
          /\ \A h \in Reloads \ {g} : rl'[h] = rl[h]
          /\ UNCHANGED <<pool, rc, phase, built>>
          /\ phase # "new"
      BY <2>1, <2>5 DEF ReloadSwap, Reloading, Running
    <3>2. \A m \in Names : entries'[m].pool = rl[g].pools[m]
      BY <2>5, <1>d DEF ReloadSwap
    <3>3. HeldOpen' /\ NoPoolLeak'
      BY <1>f, <1>e, <3>1, <3>2 DEF HeldOpen, NoPoolLeak, Held
    <3>4. SingleOwner'
      BY <1>e, <3>1, <3>2 DEF SingleOwner
    <3>5. WorkerPools' /\ DialedPrefix'
      BY <1>e, <3>1 DEF WorkerPools, DialedPrefix
    <3> QED
      BY <3>3, <3>4, <3>5 DEF Holders
  <2> QED
    BY <1>10, <2>2, <2>3, <2>4, <2>5 DEF Reload
<1> QED
  BY <1>1, <1>3, <1>4, <1>5, <1>6, <1>7, <1>8, <1>9, <1>10
  DEF Next, NewManager, Health, HealthPing, Close

\* What a step does to pools: it closes or changes only pools that somebody
\* holds, opens only closed ones, and hands nobody a pool that is open and
\* that nobody holds.
PoolStep ==
    \A p \in Pools : pool[p].state # "closed" /\ ~Held(p) =>
       ~Held(p)' /\ (pool'[p] = pool[p] \/ p \notin lost)

\* A step that loses no more pools keeps the lost ones as they are.
LEMMA LostKept ==
    ASSUME TypeOK, LostPools, UNCHANGED lost, PoolStep
    PROVE  LostPools'
<1>1. \A p \in lost : p \in Pools /\ pool[p].state # "closed" /\ ~Held(p)
  BY DEF TypeOK, LostPools
<1>2. \A p \in lost : pool'[p] = pool[p] /\ ~Held(p)'
  BY <1>1 DEF PoolStep
<1>3. \A p \in lost : Repeated(pool[p].cfg, pool[p].name)
  BY DEF LostPools
<1> QED
  BY <1>1, <1>2, <1>3 DEF LostPools, Repeated

\* A pool that a second endpoint of its name replaces was dialed for a
\* repeated name.
LEMMA LostOne ==
    ASSUME TypeOK, LostPools, NEW q \in Pools \cup {NoPool}, NEW p \in Pools,
           q # NoPool => pool[q].state # "closed" /\ Repeated(pool[q].cfg, pool[q].name),
           pool[p].state = "closed", lost' = Lose(q),
           \A x \in Pools \ {p} : pool'[x] = pool[x],
           q # NoPool => ~Held(q)',
           \A x \in lost : Held(x)' => Held(x)
    PROVE  LostPools'
<1>1. \A x \in lost : /\ x \in Pools /\ x # p /\ pool'[x] = pool[x] /\ pool[x].state # "closed"
                      /\ ~Held(x)' /\ Repeated(pool[x].cfg, pool[x].name)
  BY DEF TypeOK, LostPools
<1>2. CASE q = NoPool
  BY <1>1, <1>2 DEF LostPools, Repeated, Lose
<1>3. CASE q # NoPool
  <2>1. q \in Pools /\ pool'[q] = pool[q]
    BY <1>3
  <2>2. \A x \in lost' : x \in lost \/ x = q
    BY DEF Lose
  <2>3. \A x \in lost' : /\ pool'[x] = pool[x] /\ pool[x].state # "closed" /\ ~Held(x)'
                         /\ Repeated(pool[x].cfg, pool[x].name)
    BY <1>1, <1>3, <2>1, <2>2
  <2> QED
    BY <2>3 DEF LostPools, Repeated
<1> QED
  BY <1>2, <1>3

\* An endpoint whose name occurs before it makes that name a repeated one.
LEMMA RepeatedHere ==
    ASSUME NEW c \in Configs, NEW n, NEW d \in Nat, d + 1 \in 1..Len(Order[c]),
           Order[c][d + 1] = n, \E i \in 1..d : Order[c][i] = n
    PROVE  Repeated(c, n)
<1>1. PICK i \in 1..d : Order[c][i] = n
  OBVIOUS
<1>2. i \in 1..Len(Order[c]) /\ i # d + 1
  BY OrderHead
<1> QED
  BY <1>1, <1>2 DEF Repeated

\* What the dials of the constructor and of reloads are for is kept by a step
\* that keeps their pools and dials no other.
LEMMA DialedForKept ==
    ASSUME DialedFor, Holders,
           \A g \in Reloads : rl'[g].pc = "dial" =>
              rl[g].pc = "dial" /\ \A n \in Names : rl'[g].pools[n] = rl[g].pools[n],
           phase' = "new" =>
              /\ phase = "new" /\ UNCHANGED <<hpc, hTodo, rc>>
              /\ \A n \in Names : entries'[n].pool = entries[n].pool,
           \A g \in Reloads, n \in Names :
              rl[g].pc = "dial" /\ rl[g].pools[n] # NoPool =>
                 /\ pool'[rl[g].pools[n]].cfg = pool[rl[g].pools[n]].cfg
                 /\ pool'[rl[g].pools[n]].name = pool[rl[g].pools[n]].name,
           phase' = "new" => \A n \in Names : Present(n) =>
              /\ pool'[entries[n].pool].cfg = pool[entries[n].pool].cfg
              /\ pool'[entries[n].pool].name = pool[entries[n].pool].name
    PROVE  DialedFor'
<1>1. \A g \in Reloads, n \in Names :
         rl'[g].pc = "dial" /\ rl'[g].pools[n] # NoPool =>
            pool'[rl'[g].pools[n]].cfg = g /\ pool'[rl'[g].pools[n]].name = n
  BY DEF DialedFor
<1>2. phase' = "new" =>
          /\ hpc' = "off" /\ hTodo' = {}
          /\ \A r \in Workers : rc'[r].pc = "idle"
          /\ \A n \in Names : entries'[n].pool # NoPool =>
                pool'[entries'[n].pool].cfg = InitCfg /\ pool'[entries'[n].pool].name = n
  BY DEF DialedFor, Present
<1> QED
  BY <1>1, <1>2 DEF DialedFor, Present

\* Every step keeps the lost pools, and what the dials were for.
LEMMA NextLostPools == TypeOK /\ Ownership /\ [Next]_vars => (DialedFor /\ LostPools)'
<1> SUFFICES ASSUME TypeOK, Ownership, [Next]_vars PROVE DialedFor' /\ LostPools'
  OBVIOUS
<1> USE DEF mgrVars
<1>a. /\ \A p \in Pools : p # NoPool
      /\ InitCfg \in Configs /\ \A g \in Reloads : g \in Configs
      /\ \A c \in Configs : Len(Order[c]) \in Nat
  BY NilAssumption, OrderHead DEF Configs
<1>b. /\ entries \in [Names -> Entry] /\ \A n \in Names : entries[n].pool \in Pools \cup {NoPool}
      /\ rc \in [Workers -> Worker] /\ \A r \in Workers : rc[r].pool \in Pools \cup {NoPool}
      /\ rl \in [Reloads -> Reloading]
      /\ \A g \in Reloads, n \in Names : rl[g].pools[n] \in Pools \cup {NoPool}
      /\ pool \in [Pools -> PoolState] /\ lost \subseteq Pools
  BY DEF TypeOK, Entry, Worker, Reloading
<1>c. /\ \A p : NewEntry(p).pool = p
      /\ NilEntry.pool = NoPool
      /\ IdleWorker.pool = NoPool
      /\ [IdleWorker EXCEPT !.pc = "start"].pool = NoPool
      /\ \A n : [IdleWorker EXCEPT !.pc = "start", !.name = n].pool = NoPool
  BY DEF NewEntry, NilEntry, IdleWorker
<1>d. /\ HeldOpen /\ SingleOwner /\ WorkerPools /\ DialedPrefix
      /\ Holders /\ DialedFor /\ LostPools
  BY DEF Ownership, Holders
<1>e. \A P : \A p \in Pools \ P : ClosePools(P)[p] = pool[p]
  BY DEF ClosePools
<1>f. \A c, n : \A p \in Pools : /\ \A q \in Pools \ {p} : Open(p, c, n)[q] = pool[q]
                                 /\ Open(p, c, n)[p].cfg = c /\ Open(p, c, n)[p].name = n
  BY <1>b DEF Open
\* A step that leaves the pools, who holds them and the phase alone.
<1>1. ASSUME UNCHANGED <<pool, lost, rl>>,
             \A n \in Names : entries'[n].pool = entries[n].pool,
             \A r \in Workers : rc'[r].pool = rc[r].pool,
             phase' = "new" => phase = "new" /\ UNCHANGED <<hpc, hTodo, rc>>
      PROVE  DialedFor' /\ LostPools'
  <2>1. PoolStep
    BY <1>1 DEF PoolStep, Held, EntryHolds, WorkerHolds, ReloadHolds
  <2> QED
    BY <1>1, <1>d, <2>1, LostKept, DialedForKept
<1>2. CASE NewManagerDone \/ Route \/ HealthLock \/ HealthUnlock \/ HealthExit
           \/ CloseCancel \/ UNCHANGED vars
  BY <1>1, <1>2, <1>d DEF NewManagerDone, Route, HealthLock, HealthUnlock, HealthExit, CloseCancel,
     vars, DialedFor
<1>3. ASSUME NEW n \in Names, HealthPingOk(n) PROVE DialedFor' /\ LostPools'
  <2>1. \A m \in Names : entries'[m].pool = entries[m].pool
    BY <1>3, EntryTypes DEF HealthPingOk, TypeOK
  <2> QED
    BY <1>1, <1>3, <1>d, <2>1 DEF HealthPingOk, DialedFor
<1>4. ASSUME NEW n \in Names, HealthPingFail(n) PROVE DialedFor' /\ LostPools'
  <2>1. \A m \in Names : entries'[m].pool = entries[m].pool
    BY <1>4, EntryTypes DEF HealthPingFail, TypeOK
  <2>2. \A r \in Workers : rc'[r] = rc[r] \/ (rc[r].pc = "idle" /\ rc'[r].pool = NoPool)
    <3> DEFINE w == [IdleWorker EXCEPT !.pc = "start", !.name = n]
    <3>1. \/ UNCHANGED rc
          \/ \E r \in Workers : rc[r].pc = "idle" /\ rc' = [rc EXCEPT ![r] = w]
      BY <1>4 DEF HealthPingFail, SpawnReconnect
    <3>2. w.pool = NoPool
      BY <1>c
    <3> HIDE DEF w
    <3>3. CASE UNCHANGED rc
      BY <3>3
    <3>4. ASSUME NEW r \in Workers, rc[r].pc = "idle", rc' = [rc EXCEPT ![r] = w]
          PROVE  \A s \in Workers : rc'[s] = rc[s] \/ (rc[s].pc = "idle" /\ rc'[s].pool = NoPool)
      <4>1. rc'[r] = w /\ \A s \in Workers \ {r} : rc'[s] = rc[s]
        BY <1>b, <3>4
      <4> QED
        BY <3>2, <3>4, <4>1
    <3> QED
      BY <3>1, <3>3, <3>4
  <2>3. \A r \in Workers : rc'[r].pool = rc[r].pool
    BY <1>d, <2>2 DEF WorkerPools
  <2> QED
    BY <1>1, <1>4, <1>d, <2>1, <2>3 DEF HealthPingFail, DialedFor
<1>5. CASE Network
  <2>1. ASSUME NEW n \in Names, Toggle(n) PROVE DialedFor' /\ LostPools'
    BY <1>1, <2>1 DEF Toggle
  <2>2. ASSUME NEW p \in Pools, PeerForgets(p) \/ SessionsDie(p) PROVE DialedFor' /\ LostPools'
    <3>1. /\ UNCHANGED <<lost, rl, rc, entries, phase, hpc, hTodo>> /\ p \notin lost
          /\ \A q \in Pools : /\ q # p => pool'[q] = pool[q]
                              /\ pool'[q].cfg = pool[q].cfg /\ pool'[q].name = pool[q].name
      BY <1>b, <2>2 DEF PeerForgets, SessionsDie, PoolState
    <3>2. PoolStep
      BY <3>1 DEF PoolStep, Held, EntryHolds, WorkerHolds, ReloadHolds
    <3> QED
      BY <1>b, <1>d, <3>1, <3>2, LostKept, DialedForKept DEF Present
  <2> QED
    BY <1>5, <2>1, <2>2 DEF Network
<1>6. CASE NewManagerFail \/ CloseEntries
  <2>1. /\ pool' = ClosePools(InstalledPools) /\ phase' # "new" /\ UNCHANGED <<lost, rl, rc>>
        /\ \A n \in Names : entries'[n].pool = NoPool
    BY <1>6, <1>c DEF NewManagerFail, CloseEntries
  <2>2. \A p \in Pools : p \in InstalledPools => \E n \in Names : EntryHolds(n, p)
    BY DEF InstalledPools, EntryHolds
  <2>3. PoolStep
    BY <1>a, <1>e, <2>1, <2>2 DEF PoolStep, Held, EntryHolds, WorkerHolds, ReloadHolds
  <2>4. \A g \in Reloads, n \in Names : rl[g].pools[n] # NoPool =>
           pool'[rl[g].pools[n]] = pool[rl[g].pools[n]]
    BY <1>b, <1>d, <1>e, <2>1, <2>2 DEF SingleOwner, EntryHolds, ReloadHolds
  <2> QED
    BY <1>d, <2>1, <2>3, <2>4, LostKept, DialedForKept
<1>7. ASSUME NEW p \in Pools, NewManagerDial(p) PROVE DialedFor' /\ LostPools'
  <2>1. built \in Nat /\ built + 1 \in 1..Len(Order[InitCfg]) /\ phase = "new"
    BY <1>7, <1>a DEF NewManagerDial, TypeOK
  <2>2. Order[InitCfg][built + 1] \in Names
    BY <1>a, <2>1, OrderName
  <2> SUFFICES ASSUME NEW n \in Names, n = Order[InitCfg][built + 1], NEW d \in Nat, d = built,
                      NEW q \in Pools \cup {NoPool}, q = entries[n].pool
               PROVE  DialedFor' /\ LostPools'
    BY <1>b, <2>1, <2>2
  <2>3. /\ entries' = [entries EXCEPT ![n] = NewEntry(p)] /\ pool' = Open(p, InitCfg, n)
        /\ lost' = Lose(entries[n].pool) /\ pool[p].state = "closed"
        /\ UNCHANGED <<rc, rl, phase, hpc, hTodo>>
    BY <1>7 DEF NewManagerDial
  <2>4. entries'[n].pool = p /\ \A m \in Names \ {n} : entries'[m].pool = entries[m].pool
    BY <1>b, <1>c, <2>3
  <2>5. /\ \A x \in Pools \ {p} : pool'[x] = pool[x]
        /\ pool'[p].cfg = InitCfg /\ pool'[p].name = n
    BY <1>f, <2>3
  <2>6. /\ \A m \in Names : entries[m].pool # p
        /\ \A g \in Reloads, m \in Names : rl[g].pools[m] # p
    BY <1>d, <2>3 DEF HeldOpen, EntryHolds, ReloadHolds
  <2>7. DialedFor'
    <3>1. \A g \in Reloads, m \in Names :
             rl'[g].pc = "dial" /\ rl'[g].pools[m] # NoPool =>
                pool'[rl'[g].pools[m]].cfg = g /\ pool'[rl'[g].pools[m]].name = m
      BY <1>b, <1>d, <2>3, <2>5, <2>6 DEF DialedFor
    <3>2. \A m \in Names : entries'[m].pool # NoPool =>
             pool'[entries'[m].pool].cfg = InitCfg /\ pool'[entries'[m].pool].name = m
      BY <1>b, <1>d, <2>1, <2>4, <2>5, <2>6 DEF DialedFor, Present
    <3> QED
      BY <1>d, <2>1, <2>3, <3>1, <3>2 DEF DialedFor, Present
  <2>8. q # NoPool => /\ pool[q].state # "closed" /\ pool[q].cfg = InitCfg /\ pool[q].name = n
                      /\ \E i \in 1..built : Order[InitCfg][i] = n
    <3> SUFFICES ASSUME q # NoPool
                 PROVE  /\ pool[q].state # "closed" /\ pool[q].cfg = InitCfg /\ pool[q].name = n
                        /\ \E i \in 1..built : Order[InitCfg][i] = n
      OBVIOUS
    <3>1. q \in Pools /\ pool[q].state # "closed"
      BY <1>b, <1>d DEF HeldOpen, EntryHolds
    <3>2. pool[q].cfg = InitCfg /\ pool[q].name = n
      BY <1>d, <2>1 DEF DialedFor, Present
    <3>3. \E i \in 1..built : Order[InitCfg][i] = n
      BY <1>d, <2>1 DEF DialedPrefix
    <3> QED
      BY <3>1, <3>2, <3>3
  <2>9. q # NoPool => ~Held(q)'
    BY <1>b, <1>d, <2>3, <2>4, <2>6
    DEF SingleOwner, Held, EntryHolds, WorkerHolds, ReloadHolds
  <2>10. \A x \in lost : Held(x)' => Held(x)
    BY <1>d, <2>3, <2>4 DEF LostPools, Held, EntryHolds, WorkerHolds, ReloadHolds
  <2>11. q # NoPool => Repeated(pool[q].cfg, pool[q].name)
    BY <2>1, <2>8, RepeatedHere DEF Configs
  <2>12. LostPools'
    BY <1>a, <1>d, <2>3, <2>5, <2>8, <2>9, <2>10, <2>11, LostOne
  <2> QED
    BY <2>7, <2>12
<1>8. ASSUME NEW g \in Reloads, NEW p \in Pools, ReloadDial(g, p) PROVE DialedFor' /\ LostPools'
  <2>1. /\ rl[g].dialed \in Nat /\ rl[g].dialed + 1 \in 1..Len(Order[g])
        /\ rl[g].pc = "dial"
    BY <1>8, <1>a DEF ReloadDial, TypeOK, Reloading
  <2>2. Order[g][rl[g].dialed + 1] \in Names
    BY <1>a, <2>1, OrderName
  <2> SUFFICES ASSUME NEW n \in Names, n = Order[g][rl[g].dialed + 1],
                      NEW d \in Nat, d = rl[g].dialed, NEW q \in Pools \cup {NoPool}, q = rl[g].pools[n]
               PROVE  DialedFor' /\ LostPools'
    BY <1>b, <2>1, <2>2
  <2>3. /\ pool' = Open(p, g, n) /\ lost' = Lose(rl[g].pools[n]) /\ pool[p].state = "closed"
        /\ UNCHANGED <<entries, rc, phase, hpc, hTodo>>
    BY <1>8 DEF ReloadDial
  <2>4. /\ rl'[g].pc = "dial" /\ rl'[g].pools[n] = p
        /\ \A m \in Names \ {n} : rl'[g].pools[m] = rl[g].pools[m]
        /\ \A h \in Reloads \ {g} : rl'[h] = rl[h]
    BY <1>8, <1>b DEF ReloadDial, Reloading
  <2>5. /\ \A x \in Pools \ {p} : pool'[x] = pool[x]
        /\ pool'[p].cfg = g /\ pool'[p].name = n
    BY <1>f, <2>3
  <2>6. /\ \A m \in Names : entries[m].pool # p
        /\ \A h \in Reloads, m \in Names : rl[h].pools[m] # p
    BY <1>d, <2>3 DEF HeldOpen, EntryHolds, ReloadHolds
  <2>7. DialedFor'
    <3>1. \A h \in Reloads, m \in Names :
             rl'[h].pc = "dial" /\ rl'[h].pools[m] # NoPool =>
                pool'[rl'[h].pools[m]].cfg = h /\ pool'[rl'[h].pools[m]].name = m
      BY <1>b, <1>d, <2>1, <2>4, <2>5, <2>6 DEF DialedFor
    <3>2. phase = "new" => \A m \in Names : entries[m].pool # NoPool =>
             pool'[entries[m].pool].cfg = InitCfg /\ pool'[entries[m].pool].name = m
      BY <1>b, <1>d, <2>5, <2>6 DEF DialedFor, Present
    <3> QED
      BY <1>d, <2>3, <3>1, <3>2 DEF DialedFor, Present
  <2>8. q # NoPool => /\ pool[q].state # "closed" /\ pool[q].cfg = g /\ pool[q].name = n
                      /\ \E i \in 1..d : Order[g][i] = n
    <3> SUFFICES ASSUME q # NoPool
                 PROVE  /\ pool[q].state # "closed" /\ pool[q].cfg = g /\ pool[q].name = n
                        /\ \E i \in 1..d : Order[g][i] = n
      OBVIOUS
    <3>1. q \in Pools /\ pool[q].state # "closed"
      BY <1>b, <1>d DEF HeldOpen, ReloadHolds
    <3>2. pool[q].cfg = g /\ pool[q].name = n
      BY <1>d, <2>1 DEF DialedFor
    <3>3. \E i \in 1..d : Order[g][i] = n
      BY <1>d, <2>1 DEF DialedPrefix
    <3> QED
      BY <3>1, <3>2, <3>3
  <2>9. q # NoPool => ~Held(q)'
    <3> SUFFICES ASSUME q # NoPool PROVE ~Held(q)'
      OBVIOUS
    <3>1. q \in Pools /\ q # p /\ ReloadHolds(g, n, q)
      BY <2>6 DEF ReloadHolds
    <3>2. /\ \A m \in Names : ~EntryHolds(m, q)
          /\ \A r \in Workers : ~WorkerHolds(r, q)
          /\ \A h \in Reloads, m \in Names : ReloadHolds(h, m, q) => h = g /\ m = n
      BY <1>d, <3>1 DEF SingleOwner
    <3>3. (\A m \in Names : ~EntryHolds(m, q)') /\ \A r \in Workers : ~WorkerHolds(r, q)'
      BY <2>3, <3>2 DEF EntryHolds, WorkerHolds
    <3>4. \A h \in Reloads, m \in Names : ~ReloadHolds(h, m, q)'
      <4> SUFFICES ASSUME NEW h \in Reloads, NEW m \in Names, ReloadHolds(h, m, q)' PROVE FALSE
        OBVIOUS
      <4>1. CASE h = g /\ m = n
        BY <2>4, <3>1, <4>1 DEF ReloadHolds
      <4>2. CASE ~(h = g /\ m = n)
        BY <2>4, <3>2, <4>2 DEF ReloadHolds
      <4> QED
        BY <4>1, <4>2
    <3> QED
      BY <3>3, <3>4 DEF Held
  <2>10. \A x \in lost : Held(x)' => Held(x)
    BY <1>d, <2>3, <2>4 DEF LostPools, Held, EntryHolds, WorkerHolds, ReloadHolds
  <2>11. q # NoPool => Repeated(pool[q].cfg, pool[q].name)
    <3>1. g \in Configs /\ d + 1 \in 1..Len(Order[g]) /\ Order[g][d + 1] = n
      BY <2>1 DEF Configs
    <3>2. q # NoPool => Repeated(g, n)
      BY <2>8, <3>1, RepeatedHere
    <3> QED
      BY <2>8, <3>2
  <2>12. LostPools'
    BY <1>a, <1>d, <2>3, <2>5, <2>8, <2>9, <2>10, <2>11, LostOne
  <2> QED
    BY <2>7, <2>12
<1>9. ASSUME NEW g \in Reloads, ReloadFail(g) \/ ReloadSwap(g) \/ \E n \in Names : ReloadClose(g, n)
      PROVE  DialedFor' /\ LostPools'
  <2>1. /\ rl'[g].pc = "close" /\ \A h \in Reloads \ {g} : rl'[h] = rl[h]
        /\ UNCHANGED <<lost, rc, phase, hpc, hTodo>>
        /\ phase = "new" => UNCHANGED entries
    BY <1>9, <1>b DEF ReloadFail, ReloadSwap, ReloadClose, Reloading, Running
  <2>2. \A p \in Pools : ~(\E n \in Names : rl[g].pools[n] = p) => pool'[p] = pool[p]
    <3>1. CASE ReloadFail(g)
      BY <1>e, <3>1 DEF ReloadFail, ReloadPools
    <3>2. CASE ReloadSwap(g)
      BY <3>2 DEF ReloadSwap
    <3>3. ASSUME NEW n \in Names, ReloadClose(g, n)
          PROVE  \A p \in Pools : p # rl[g].pools[n] => pool'[p] = pool[p]
      BY <1>e, <3>3 DEF ReloadClose
    <3> QED
      BY <1>9, <3>1, <3>2, <3>3
  <2>3. \A p \in Pools : Held(p)' => Held(p)
    <3>1. CASE ReloadFail(g)
      <4>1. (\A n \in Names : rl'[g].pools[n] = NoPool) /\ UNCHANGED entries
        BY <1>b, <3>1 DEF ReloadFail, Reloading
      <4> QED
        BY <1>a, <2>1, <4>1 DEF Held, EntryHolds, WorkerHolds, ReloadHolds
    <3>2. CASE ReloadSwap(g)
      <4>1. \A n \in Names : /\ rl'[g].pools[n] = entries[n].pool
                             /\ entries'[n].pool = rl[g].pools[n]
        BY <1>b, <1>c, <3>2 DEF ReloadSwap, Reloading
      <4> QED
        BY <1>a, <2>1, <4>1 DEF Held, EntryHolds, WorkerHolds, ReloadHolds
    <3>3. ASSUME NEW n \in Names, ReloadClose(g, n) PROVE \A p \in Pools : Held(p)' => Held(p)
      <4>1. /\ rl'[g].pools[n] = NoPool /\ UNCHANGED entries
            /\ \A m \in Names \ {n} : rl'[g].pools[m] = rl[g].pools[m]
        BY <1>b, <3>3 DEF ReloadClose, Reloading
      <4> QED
        BY <1>a, <2>1, <4>1 DEF Held, EntryHolds, WorkerHolds, ReloadHolds
    <3> QED
      BY <1>9, <3>1, <3>2, <3>3
  <2>4. PoolStep
    BY <2>2, <2>3 DEF PoolStep, Held, ReloadHolds
  <2>5. /\ \A h \in Reloads \ {g}, n \in Names : rl[h].pools[n] # NoPool =>
              pool'[rl[h].pools[n]] = pool[rl[h].pools[n]]
        /\ \A n \in Names : entries[n].pool # NoPool =>
              pool'[entries[n].pool] = pool[entries[n].pool]
    BY <1>b, <1>d, <2>2 DEF SingleOwner, EntryHolds, ReloadHolds
  <2>6. \A h \in Reloads, n \in Names : rl'[h].pc = "dial" /\ rl'[h].pools[n] # NoPool =>
           pool'[rl'[h].pools[n]].cfg = h /\ pool'[rl'[h].pools[n]].name = n
    BY <1>d, <2>1, <2>5 DEF DialedFor
  <2>7. DialedFor'
    BY <1>d, <2>1, <2>5, <2>6 DEF DialedFor, Present
  <2> QED
    BY <1>d, <2>1, <2>4, <2>7, LostKept
<1>10. ASSUME NEW r \in Workers, Reconnect(r) PROVE DialedFor' /\ LostPools'
  <2>1. /\ UNCHANGED <<lost, rl, phase, hpc, hTodo>> /\ rc[r].pc # "idle"
        /\ \A s \in Workers \ {r} : rc'[s] = rc[s]
    <3>1. \A x, p : \A s \in Workers \ {r} : Goto(r, x, p)[s] = rc[s]
      BY <1>b DEF Goto
    <3>2. CASE ReconnectStart(r) \/ ReconnectCheck(r) \/ ReconnectExit(r)
      BY <1>b, <3>2 DEF ReconnectStart, ReconnectCheck, ReconnectExit
    <3>3. CASE ReconnectDialFail(r) \/ ReconnectBackoff(r) \/ ReconnectPing(r)
               \/ ReconnectClose(r) \/ \E p \in Pools : ReconnectDial(r, p)
      BY <3>1, <3>3 DEF ReconnectDialFail, ReconnectBackoff, ReconnectPing, ReconnectClose,
         ReconnectDial
    <3>4. CASE ReconnectSwap(r)
      BY <3>1, <3>4 DEF ReconnectSwap
    <3> QED
      BY <1>10, <3>2, <3>3, <3>4 DEF Reconnect
  <2>2. phase # "new"
    BY <1>d, <2>1 DEF DialedFor
  <2>3. ASSUME PoolStep,
               \A g \in Reloads, n \in Names : rl[g].pools[n] # NoPool =>
                  pool'[rl[g].pools[n]] = pool[rl[g].pools[n]]
        PROVE  DialedFor' /\ LostPools'
    BY <1>d, <2>1, <2>2, <2>3, LostKept, DialedForKept
  <2>4. CASE ReconnectStart(r) \/ ReconnectCheck(r) \/ ReconnectDialFail(r)
             \/ ReconnectBackoff(r) \/ ReconnectExit(r)
    <3>1. UNCHANGED <<entries, pool>> /\ rc'[r].pool \in {NoPool, rc[r].pool}
      <4>1. /\ [rc[r] EXCEPT !.pc = "check", !.obj = cfg].pool = rc[r].pool
            /\ [rc[r] EXCEPT !.pc = "exit"].pool = rc[r].pool
            /\ [rc[r] EXCEPT !.pc = "dial", !.ep = cfg].pool = rc[r].pool
        BY <1>b DEF Worker
      <4>2. CASE ReconnectStart(r) \/ ReconnectCheck(r) \/ ReconnectExit(r)
        BY <1>b, <1>c, <4>1, <4>2 DEF ReconnectStart, ReconnectCheck, ReconnectExit
      <4>3. CASE ReconnectDialFail(r) \/ ReconnectBackoff(r)
        BY <4>3, GotoType DEF ReconnectDialFail, ReconnectBackoff
      <4> QED
        BY <2>4, <4>2, <4>3
    <3>2. PoolStep
      BY <1>a, <2>1, <3>1 DEF PoolStep, Held, EntryHolds, WorkerHolds, ReloadHolds
    <3> QED
      BY <2>3, <3>1, <3>2
  <2>5. ASSUME NEW p \in Pools, ReconnectDial(r, p) PROVE DialedFor' /\ LostPools'
    <3>1. /\ UNCHANGED entries /\ rc'[r].pool = p /\ pool[p].state = "closed"
          /\ \A q \in Pools \ {p} : pool'[q] = pool[q]
      BY <1>f, <2>5, GotoType DEF ReconnectDial
    <3>2. PoolStep
      BY <2>1, <3>1 DEF PoolStep, Held, EntryHolds, WorkerHolds, ReloadHolds
    <3> QED
      BY <1>b, <1>d, <2>3, <3>1, <3>2 DEF HeldOpen, ReloadHolds
  <2>6. CASE ReconnectPing(r) \/ ReconnectClose(r)
    <3>1. /\ UNCHANGED entries /\ rc'[r].pool \in {NoPool, rc[r].pool}
          /\ \A q \in Pools : q # rc[r].pool => pool'[q] = pool[q]
      BY <1>b, <1>e, <2>6, GotoType DEF ReconnectPing, ReconnectClose
    <3>2. PoolStep
      BY <1>a, <2>1, <3>1 DEF PoolStep, Held, EntryHolds, WorkerHolds, ReloadHolds
    <3> QED
      BY <1>b, <1>d, <2>3, <3>1, <3>2 DEF SingleOwner, WorkerHolds, ReloadHolds
  <2>7. CASE ReconnectSwap(r)
    <3>1. /\ UNCHANGED pool
          /\ \/ UNCHANGED entries /\ rc'[r].pool = rc[r].pool
             \/ \E n \in Names : /\ entries' = [entries EXCEPT ![n] = NewEntry(rc[r].pool)]
                                 /\ rc'[r].pool = entries[n].pool
      BY <1>b, <2>7, GotoType DEF ReconnectSwap, Present
    <3>2. \/ UNCHANGED entries /\ rc'[r].pool = rc[r].pool
          \/ \E n \in Names : /\ entries'[n].pool = rc[r].pool
                              /\ \A m \in Names \ {n} : entries'[m] = entries[m]
                              /\ rc'[r].pool = entries[n].pool
      BY <1>b, <1>c, <3>1
    <3>3. PoolStep
      BY <2>1, <3>1, <3>2 DEF PoolStep, Held, EntryHolds, WorkerHolds, ReloadHolds
    <3> QED
      BY <2>3, <3>1, <3>3
  <2> QED
    BY <1>10, <2>4, <2>5, <2>6, <2>7 DEF Reconnect
<1> QED
  BY <1>2, <1>3, <1>4, <1>5, <1>6, <1>7, <1>8, <1>9, <1>10
  DEF Next, NewManager, Health, HealthPing, Reload, Close

\* In every reachable state, each open pool has exactly one owner.
THEOREM PoolOwnership == Spec => []Ownership
<1>1. TypeOK /\ Ownership /\ [Next]_vars => (TypeOK /\ Ownership)'
  BY NextTypeOK, NextHolders, NextLostPools DEF Ownership
<1>2. Init => Ownership
  BY InitHolders DEF Init, Ownership, LostPools, DialedFor, NilEntry, IdleWorker, Present
<1> QED
  BY <1>1, <1>2, InitTypeOK, PTL DEF Spec

\* No reconnect, reload or Close, in any interleaving, closes a pool that
\* poolFor can still hand out.
THEOREM InstalledPoolsStayOpen == Spec => []InstalledPoolOpen
<1>1. TypeOK /\ Ownership => InstalledPoolOpen
  <2> SUFFICES ASSUME TypeOK, Ownership, NEW n \in Names, Present(n)
               PROVE  pool[entries[n].pool].state # "closed"
    BY DEF InstalledPoolOpen
  <2>1. entries[n].pool \in Pools
    BY DEF TypeOK, Entry, Present
  <2> QED
    BY <2>1 DEF Ownership, Holders, HeldOpen, EntryHolds
<1> QED
  BY <1>1, TypeCorrect, PoolOwnership, PTL

-----------------------------------------------------------------------------
(* One reconnect per entry *)

\* Steps that keep every goroutine on its side of the compare-and-swap, with
\* its entry object, and leave the flags alone, keep SingleReconnect.
LEMMA ReconnectsUnchanged ==
    ASSUME SingleReconnect, UNCHANGED reconnecting,
           \A r \in Workers, o \in Configs \X Names : Reconnects(r, o)' <=> Reconnects(r, o)
    PROVE  SingleReconnect'
BY DEF SingleReconnect

\* Every step keeps SingleReconnect.
LEMMA NextSingleReconnect == TypeOK /\ SingleReconnect /\ [Next]_vars => SingleReconnect'
<1> SUFFICES ASSUME TypeOK, SingleReconnect, [Next]_vars PROVE SingleReconnect'
  OBVIOUS
<1> USE DEF mgrVars
<1>1. CASE UNCHANGED <<rc, reconnecting>>
  <2>1. \A r \in Workers, o \in Configs \X Names : Reconnects(r, o)' <=> Reconnects(r, o)
    BY <1>1 DEF Reconnects
  <2> QED
    BY <1>1, <2>1, ReconnectsUnchanged
<1>2. ASSUME NEW n \in Names, HealthPingFail(n) PROVE SingleReconnect'
  <2>1. \A r \in Workers : \/ rc'[r] = rc[r]
                           \/ rc[r].pc = "idle" /\ rc'[r].pc = "start"
    <3> DEFINE w == [IdleWorker EXCEPT !.pc = "start", !.name = n]
    <3>1. w.pc = "start"
      BY DEF IdleWorker
    <3>2. \/ UNCHANGED rc
          \/ \E r \in Workers : rc[r].pc = "idle" /\ rc' = [rc EXCEPT ![r] = w]
      BY <1>2 DEF HealthPingFail, SpawnReconnect
    <3> HIDE DEF w
    <3> QED
      BY <3>1, <3>2 DEF TypeOK
  <2>2. \A r \in Workers, o \in Configs \X Names : Reconnects(r, o)' <=> Reconnects(r, o)
    BY <2>1 DEF Reconnects
  <2> QED
    BY <1>2, <2>2, ReconnectsUnchanged DEF HealthPingFail
<1>3. ASSUME NEW r \in Workers, Reconnect(r) PROVE SingleReconnect'
  <2>1. CASE ReconnectStart(r)
    <3> DEFINE n == rc[r].name
               w == [rc[r] EXCEPT !.pc = "check", !.obj = cfg]
    <3>1. rc[r].pc = "start" /\ rc[r] \in Worker /\ rc \in [Workers -> Worker]
      BY <2>1 DEF ReconnectStart, TypeOK
    <3>2. CASE Present(n) /\ <<cfg, n>> \notin reconnecting
      <4>1. w.pc = "check" /\ w.obj = cfg /\ w.name = n
        BY <3>1 DEF Worker
      <4>2. rc' = [rc EXCEPT ![r] = w] /\ reconnecting' = reconnecting \cup {<<cfg, n>>}
        BY <2>1, <3>2 DEF ReconnectStart
      <4>3. <<cfg, n>> \in Configs \X Names
        BY <3>2 DEF Present, TypeOK
      <4>4. rc'[r].pc = "check" /\ rc'[r].obj = cfg /\ rc'[r].name = n
        BY <3>1, <4>1, <4>2
      <4>5. \A s \in Workers \ {r} : rc'[s] = rc[s]
        BY <3>1, <4>2
      <4>6. \A o \in Configs \X Names : Reconnects(r, o)' <=> o = <<cfg, n>>
        BY <4>4 DEF Reconnects
      <4>7. \A s \in Workers \ {r}, o \in Configs \X Names :
               Reconnects(s, o)' <=> Reconnects(s, o)
        BY <4>5 DEF Reconnects
      <4>8. \A o \in Configs \X Names : ~Reconnects(r, o)
        BY <3>1 DEF Reconnects
      <4>9. \A s \in Workers : ~Reconnects(s, <<cfg, n>>)
        BY <3>2, <4>3 DEF SingleReconnect
      <4> HIDE DEF n
      <4> QED
        BY <4>2, <4>6, <4>7, <4>8, <4>9 DEF SingleReconnect
    <3>3. CASE ~(Present(n) /\ <<cfg, n>> \notin reconnecting)
      <4>1. rc' = [rc EXCEPT ![r] = IdleWorker] /\ UNCHANGED reconnecting
        BY <2>1, <3>3 DEF ReconnectStart
      <4>2. \A s \in Workers, o \in Configs \X Names : Reconnects(s, o)' <=> Reconnects(s, o)
        BY <3>1, <4>1 DEF Reconnects, IdleWorker
      <4> QED
        BY <4>1, <4>2, ReconnectsUnchanged
    <3> QED
      BY <3>2, <3>3
  <2>2. CASE ReconnectExit(r)
    <3> DEFINE o == <<rc[r].obj, rc[r].name>>
    <3>1. /\ rc[r].pc = "exit" /\ rc \in [Workers -> Worker]
          /\ rc' = [rc EXCEPT ![r] = IdleWorker]
          /\ reconnecting' = reconnecting \ {o}
      BY <2>2 DEF ReconnectExit, TypeOK
    <3>2. \A q \in Configs \X Names : ~Reconnects(r, q)'
      BY <3>1 DEF Reconnects, IdleWorker
    <3>3. \A s \in Workers \ {r}, q \in Configs \X Names :
             Reconnects(s, q)' <=> Reconnects(s, q)
      BY <3>1 DEF Reconnects
    <3>4. \A q \in Configs \X Names : Reconnects(r, q) <=> q = o
      BY <3>1 DEF Reconnects
    <3> HIDE DEF o
    <3> QED
      BY <3>1, <3>2, <3>3, <3>4 DEF SingleReconnect
  <2>3. ASSUME rc[r].pc \notin {"idle", "start"}, rc'[r].pc \notin {"idle", "start"},
               rc'[r].obj = rc[r].obj, rc'[r].name = rc[r].name,
               \A s \in Workers \ {r} : rc'[s] = rc[s],
               UNCHANGED reconnecting
        PROVE  SingleReconnect'
    <3>1. \A s \in Workers, o \in Configs \X Names : Reconnects(s, o)' <=> Reconnects(s, o)
      BY <2>3 DEF Reconnects
    <3> QED
      BY <2>3, <3>1, ReconnectsUnchanged
  <2>4. CASE ReconnectCheck(r)
    <3>1. rc[r] \in Worker /\ rc \in [Workers -> Worker]
      BY DEF TypeOK
    <3>2. /\ LET w == [rc[r] EXCEPT !.pc = "exit"]
             IN  w.pc = "exit" /\ w.obj = rc[r].obj /\ w.name = rc[r].name
          /\ LET w == [rc[r] EXCEPT !.pc = "dial", !.ep = cfg]
             IN  w.pc = "dial" /\ w.obj = rc[r].obj /\ w.name = rc[r].name
      BY <3>1 DEF Worker
    <3>3. /\ rc[r].pc = "check" /\ rc'[r].pc \in {"exit", "dial"}
          /\ rc'[r].obj = rc[r].obj /\ rc'[r].name = rc[r].name
          /\ \A s \in Workers \ {r} : rc'[s] = rc[s]
          /\ UNCHANGED reconnecting
      BY <2>4, <3>1, <3>2 DEF ReconnectCheck
    <3> QED
      BY <3>3, <2>3
  <2>5. ASSUME NEW x \in {"ping", "backoff", "swap", "close", "exit", "check"},
               NEW p \in Pools \cup {NoPool},
               rc' = Goto(r, x, p), rc[r].pc \notin {"idle", "start"},
               UNCHANGED reconnecting
        PROVE  SingleReconnect'
    BY <2>3, <2>5, GotoType
  <2>6. rc[r].pool \in Pools \cup {NoPool}
    BY DEF TypeOK, Worker
  <2>7. CASE ReconnectDialFail(r) \/ ReconnectBackoff(r) \/ ReconnectClose(r)
    BY <2>5, <2>7 DEF ReconnectDialFail, ReconnectBackoff, ReconnectClose
  <2>8. ASSUME NEW p \in Pools, ReconnectDial(r, p) PROVE SingleReconnect'
    BY <2>5, <2>8 DEF ReconnectDial
  <2>9. CASE ReconnectPing(r)
    BY <2>5, <2>6, <2>9 DEF ReconnectPing
  <2>10. CASE ReconnectSwap(r)
    <3>1. CASE Present(rc[r].name)
      <4>1. entries[rc[r].name].pool \in Pools \cup {NoPool}
        BY <3>1 DEF Present, TypeOK, Entry
      <4> QED
        BY <2>5, <2>10, <3>1, <4>1 DEF ReconnectSwap
    <3>2. CASE ~Present(rc[r].name)
      BY <2>5, <2>6, <2>10, <3>2 DEF ReconnectSwap
    <3> QED
      BY <3>1, <3>2
  <2> QED
    BY <1>3, <2>1, <2>2, <2>4, <2>7, <2>8, <2>9, <2>10 DEF Reconnect
<1>4. CASE NewManager \/ Route \/ Close \/ Network \/ UNCHANGED vars
  BY <1>1, <1>4 DEF NewManager, NewManagerDial, NewManagerFail, NewManagerDone,
     Route, Close, CloseCancel, CloseEntries, Network, Toggle, PeerForgets,
     SessionsDie, vars
<1>5. CASE Health
  <2>1. ASSUME NEW n \in Names, HealthPingOk(n) PROVE SingleReconnect'
    BY <1>1, <2>1 DEF HealthPingOk
  <2> QED
    BY <1>1, <1>2, <1>5, <2>1 DEF Health, HealthPing, HealthLock, HealthUnlock, HealthExit
<1>6. ASSUME NEW g \in Reloads, Reload(g) PROVE SingleReconnect'
  BY <1>1, <1>6 DEF Reload, ReloadFail, ReloadSwap, ReloadDial, ReloadClose
<1> QED
  BY <1>3, <1>4, <1>5, <1>6 DEF Next

\* At most one reconnect runs per entry object, and a flag is set only while
\* its goroutine runs, however reloads and health checks interleave with it.
THEOREM ReconnectExclusion == Spec => []SingleReconnect
<1>1. Init => SingleReconnect
  BY DEF Init, SingleReconnect, Reconnects, IdleWorker
<1>2. TypeOK /\ SingleReconnect /\ [Next]_vars => (TypeOK /\ SingleReconnect)'
  BY NextTypeOK, NextSingleReconnect
<1> QED
  BY <1>1, <1>2, InitTypeOK, PTL DEF Spec
=============================================================================
