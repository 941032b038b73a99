--------------------------- MODULE RegistryProofs ---------------------------
(***************************************************************************)
(* The upstream manager implements Registry, for any number of upstreams,  *)
(* pools, reconnect goroutines and concurrent reloads.                     *)
(***************************************************************************)
EXTENDS UpstreamProofs

Serves(p) == \E n \in Names : Serving(n) = p

\* Under the ownership invariant the stage of a pool is told by who holds it.
StageFacts ==
    \A p \in Pools :
       /\ Stage(p) \in {"free", "spare", "serving", "retired"}
       /\ Stage(p) = "free" <=> pool[p].state = "closed"
       /\ Stage(p) = "serving" <=> Serves(p)
       /\ Stage(p) = "retired" <=> KeptToClose(p)

LEMMA StagesTold == Ownership => StageFacts
<1> SUFFICES ASSUME Ownership, NEW p \in Pools
             PROVE  /\ Stage(p) \in {"free", "spare", "serving", "retired"}
                    /\ Stage(p) = "free" <=> pool[p].state = "closed"
                    /\ Stage(p) = "serving" <=> Serves(p)
                    /\ Stage(p) = "retired" <=> KeptToClose(p)
  BY DEF StageFacts
<1>1. Serves(p) => \E n \in Names : EntryHolds(n, p)
  BY NilAssumption DEF Serves, Serving, EntryHolds
<1>2. pool[p].state = "closed" => ~KeptToClose(p) /\ ~Serves(p)
  BY <1>1 DEF Ownership, Holders, HeldOpen, KeptToClose
<1>3. KeptToClose(p) => ~Serves(p)
  BY <1>1 DEF Ownership, Holders, SingleOwner, KeptToClose
<1> QED
  BY <1>2, <1>3 DEF Stage, Serves

\* A step that installs nothing, puts only spares aside and drops what it put
\* aside only by closing it, is a step of Age.
LEMMA Aging ==
    ASSUME StageFacts, StageFacts',
           \A n \in Names : Serving(n)' = Serving(n),
           \A p \in Pools : /\ KeptToClose(p)' => pool[p].state # "closed"
                            /\ KeptToClose(p) => KeptToClose(p)' \/ pool'[p].state = "closed"
    PROVE  Reg!Next
<1>1. \A p \in Pools : Serves(p)' <=> Serves(p)
  BY DEF Serves
<1>2. \A p \in Pools :
         \/ Stage(p)' = Stage(p)
         \/ <<Stage(p), Stage(p)'>> \in {<<"free", "spare">>, <<"spare", "retired">>,
                                        <<"spare", "free">>, <<"retired", "free">>}
  BY <1>1 DEF StageFacts
<1>3. \A p \in Pools : Stage(p)' \in Reg!Stages
  BY DEF StageFacts, Reg!Stages
<1>4. Reg!Age
  BY <1>2, <1>3 DEF Reg!Age
<1> QED
  BY <1>4 DEF Reg!Next

\* The same for a step that takes no goroutine and no reload into or out of
\* the part that closes pools.
LEMMA AgingUnkept ==
    ASSUME StageFacts, StageFacts',
           \A n \in Names : Serving(n)' = Serving(n),
           \A r \in Workers : /\ rc'[r].pc = "close" <=> rc[r].pc = "close"
                              /\ rc[r].pc = "close" => rc'[r] = rc[r],
           \A g \in Reloads, n \in Names, p \in Pools :
              rl'[g].pc = "close" /\ rl'[g].pools[n] = p
                 <=> rl[g].pc = "close" /\ rl[g].pools[n] = p
    PROVE  Reg!Next
<1>1. \A p \in Pools : KeptToClose(p)' <=> KeptToClose(p)
  BY DEF KeptToClose, WorkerHolds, ReloadHolds
<1>2. \A p \in Pools : KeptToClose(p) => pool[p].state # "closed"
  BY DEF StageFacts
<1> QED
  BY <1>1, <1>2, Aging


\* Every step of the manager is a step of Registry, or changes nothing there.
LEMMA NextRegistry ==
    TypeOK /\ Ownership /\ Ownership' /\ [Next]_vars => [Reg!Next]_(Reg!vars)
<1> SUFFICES ASSUME TypeOK, Ownership, Ownership', [Next]_vars
             PROVE  Reg!Next \/ UNCHANGED Reg!vars
  OBVIOUS
<1> USE DEF mgrVars
<1>a. StageFacts /\ StageFacts'
  BY StagesTold, PTL
<1>b. /\ \A n \in Names : entries[n].pool \in Pools \cup {NoPool}
      /\ \A r \in Workers : rc[r].pool \in Pools \cup {NoPool}
      /\ \A g \in Reloads, n \in Names : rl[g].pools[n] \in Pools \cup {NoPool}
      /\ rc \in [Workers -> Worker] /\ \A r \in Workers : rc[r] \in Worker
      /\ entries \in [Names -> Entry] /\ rl \in [Reloads -> Reloading]
  BY DEF TypeOK, Entry, Worker, Reloading
<1>c. /\ \A p : NewEntry(p).pool = p
      /\ NilEntry.pool = NoPool
      /\ IdleWorker.pool = NoPool /\ IdleWorker.pc = "idle"
  BY DEF NewEntry, NilEntry, IdleWorker
<1>d. /\ InitCfg \in Configs
      /\ \A g \in Reloads : g \in Configs
      /\ \A c \in Configs : Len(Order[c]) \in Nat
  BY OrderHead DEF Configs
<1>e. \A p \in Pools : p # NoPool
  BY NilAssumption
<1>f. ASSUME \A n \in Names : entries'[n].pool = entries[n].pool,
             phase' = "new" <=> phase = "new"
      PROVE  \A n \in Names : Serving(n)' = Serving(n)
  BY <1>f DEF Serving
<1>1. ASSUME \A n \in Names : entries'[n].pool = entries[n].pool, UNCHANGED <<rc, rl>>,
             phase' = "new" <=> phase = "new"
      PROVE  Reg!Next
  BY <1>1, <1>a, <1>f, AgingUnkept
<1>2. CASE Route \/ HealthLock \/ HealthUnlock \/ HealthExit
           \/ CloseCancel \/ Network \/ UNCHANGED vars
  BY <1>1, <1>2 DEF Route, HealthLock, HealthUnlock, HealthExit,
     CloseCancel, Network, Toggle, PeerForgets, SessionsDie, vars
<1>3. ASSUME NEW n \in Names, HealthPingOk(n) PROVE Reg!Next
  <2>1. RecoveringEntry(entries[n]).pool = entries[n].pool
    BY DEF RecoveringEntry
  <2> QED
    BY <1>1, <1>3, <1>b, <2>1 DEF HealthPingOk
<1>4. ASSUME NEW n \in Names, HealthPingFail(n) PROVE Reg!Next
  <2>1. FailedEntry(entries[n]).pool = entries[n].pool
    BY DEF FailedEntry
  <2>2. \A m \in Names : entries'[m].pool = entries[m].pool
    BY <1>4, <1>b, <2>1 DEF HealthPingFail
  <2>3. UNCHANGED <<rl, phase>> /\ (UNCHANGED rc \/ SpawnReconnect(n))
    BY <1>4 DEF HealthPingFail
  <2>4. CASE UNCHANGED rc
    BY <1>1, <2>2, <2>3, <2>4
  <2>5. CASE ~UNCHANGED rc
    <3>1. PICK r \in Workers : /\ rc[r].pc = "idle"
                              /\ rc' = [rc EXCEPT ![r] = [IdleWorker EXCEPT !.pc = "start",
                                                                           !.name = n]]
      BY <2>3, <2>5 DEF SpawnReconnect
    <3>2. [IdleWorker EXCEPT !.pc = "start", !.name = n].pc = "start"
      BY DEF IdleWorker
    <3>3. rc'[r].pc = "start" /\ \A s \in Workers \ {r} : rc'[s] = rc[s]
      BY <1>b, <3>1, <3>2
    <3> QED
      BY <1>a, <1>f, <2>2, <2>3, <3>1, <3>3, AgingUnkept
  <2> QED
    BY <2>4, <2>5
<1>5. ASSUME NEW r \in Workers, rc[r].pc # "close", rc'[r].pc # "close",
             \A s \in Workers \ {r} : rc'[s] = rc[s], UNCHANGED <<entries, rl, phase>>
      PROVE  Reg!Next
  BY <1>5, <1>a, <1>f, AgingUnkept
<1>6. ASSUME NEW r \in Workers, NEW x \in {"ping", "backoff", "swap", "exit", "check"},
             NEW p \in Pools \cup {NoPool}, rc' = Goto(r, x, p), rc[r].pc # "close",
             UNCHANGED <<entries, rl, phase>>
      PROVE  Reg!Next
  <2>1. rc'[r].pc # "close" /\ \A s \in Workers \ {r} : rc'[s] = rc[s]
    BY <1>6, GotoType
  <2> QED
    BY <1>5, <1>6, <2>1
<1>7. ASSUME NEW r \in Workers, ReconnectStart(r) PROVE Reg!Next
  <2>1. [rc[r] EXCEPT !.pc = "check", !.obj = cfg].pc = "check"
    BY <1>b DEF Worker
  <2>2. rc[r].pc = "start" /\ rc'[r].pc \in {"check", "idle"}
        /\ \A s \in Workers \ {r} : rc'[s] = rc[s]
    BY <1>7, <1>b, <1>c, <2>1 DEF ReconnectStart
  <2> QED
    BY <1>5, <1>7, <2>2 DEF ReconnectStart
<1>8. ASSUME NEW r \in Workers, ReconnectCheck(r) PROVE Reg!Next
  <2>1. /\ [rc[r] EXCEPT !.pc = "exit"].pc = "exit"
        /\ [rc[r] EXCEPT !.pc = "dial", !.ep = cfg].pc = "dial"
    BY <1>b DEF Worker
  <2>2. rc[r].pc = "check" /\ rc'[r].pc \in {"exit", "dial"}
        /\ \A s \in Workers \ {r} : rc'[s] = rc[s]
    BY <1>8, <1>b, <2>1 DEF ReconnectCheck
  <2> QED
    BY <1>5, <1>8, <2>2 DEF ReconnectCheck
<1>9. ASSUME NEW r \in Workers,
             ReconnectDialFail(r) \/ ReconnectBackoff(r) \/ ReconnectPing(r)
               \/ \E p \in Pools : ReconnectDial(r, p)
      PROVE  Reg!Next
  BY <1>6, <1>9, <1>b DEF ReconnectDialFail, ReconnectBackoff, ReconnectPing, ReconnectDial
<1>10. ASSUME NEW r \in Workers, ReconnectExit(r) PROVE Reg!Next
  <2>1. rc[r].pc = "exit" /\ rc'[r].pc = "idle" /\ \A s \in Workers \ {r} : rc'[s] = rc[s]
    BY <1>10, <1>b, <1>c DEF ReconnectExit
  <2> QED
    BY <1>5, <1>10, <2>1 DEF ReconnectExit
<1>11. ASSUME NEW r \in Workers, ReconnectClose(r) PROVE Reg!Next
  <2>1. /\ rc[r].pc = "close" /\ UNCHANGED <<entries, rl, phase>>
        /\ rc' = Goto(r, "exit", NoPool) /\ pool' = ClosePools({rc[r].pool})
    BY <1>11 DEF ReconnectClose
  <2>2. rc'[r].pc = "exit" /\ \A s \in Workers \ {r} : rc'[s] = rc[s]
    BY <2>1, GotoType
  <2>3. \A p \in Pools : pool'[p].state = "closed" <=> p = rc[r].pool \/ pool[p].state = "closed"
    BY <2>1, PoolUpdates
  <2>4. \A p \in Pools : KeptToClose(p)' => KeptToClose(p)
    BY <2>1, <2>2 DEF KeptToClose, WorkerHolds, ReloadHolds
  <2>5. \A p \in Pools : KeptToClose(p) => KeptToClose(p)' \/ p = rc[r].pool
    BY <2>1, <2>2 DEF KeptToClose, WorkerHolds, ReloadHolds
  <2>6. \A p \in Pools : KeptToClose(p) => pool[p].state # "closed"
    BY <1>a DEF StageFacts
  <2> QED
    BY <1>a, <1>f, <2>1, <2>3, <2>4, <2>5, <2>6, Aging
<1>12. ASSUME NEW g \in Reloads, NEW p \in Pools, ReloadDial(g, p) PROVE Reg!Next
  <2>1. rl[g].pc = "dial" /\ rl'[g].pc = "dial" /\ \A h \in Reloads \ {g} : rl'[h] = rl[h]
    BY <1>12, <1>b DEF ReloadDial
  <2> QED
    BY <1>12, <1>a, <1>f, <2>1, AgingUnkept DEF ReloadDial
<1>13. ASSUME NEW g \in Reloads, ReloadFail(g) PROVE Reg!Next
  <2> DEFINE none == [n \in Names |-> NoPool]
             w == [rl[g] EXCEPT !.pc = "close", !.pools = none]
  <2>1. rl[g] \in Reloading /\ rl[g].pc = "dial" /\ rl' = [rl EXCEPT ![g] = w]
    BY <1>13, <1>b DEF ReloadFail
  <2>2. w.pools = none
    BY <2>1 DEF Reloading
  <2> HIDE DEF w
  <2>3. rl'[g] = w /\ \A h \in Reloads \ {g} : rl'[h] = rl[h]
    BY <2>1, <1>b
  <2>4. \A n \in Names : rl'[g].pools[n] = NoPool
    BY <2>2, <2>3
  <2> QED
    BY <1>13, <1>a, <1>e, <1>f, <2>1, <2>3, <2>4, AgingUnkept DEF ReloadFail
<1>14. ASSUME NEW g \in Reloads, NEW n \in Names, ReloadClose(g, n) PROVE Reg!Next
  <2>1. /\ rl[g] \in Reloading /\ rl[g].pc = "close" /\ UNCHANGED <<entries, rc, phase>>
        /\ pool' = ClosePools({rl[g].pools[n]})
        /\ rl' = [rl EXCEPT ![g].pools[n] = NoPool]
    BY <1>14, <1>b DEF ReloadClose
  <2>2. /\ rl'[g].pc = "close" /\ rl'[g].pools[n] = NoPool
        /\ \A m \in Names \ {n} : rl'[g].pools[m] = rl[g].pools[m]
        /\ \A h \in Reloads \ {g} : rl'[h] = rl[h]
    BY <2>1, <1>b DEF Reloading
  <2>3. \A p \in Pools :
           pool'[p].state = "closed" <=> p = rl[g].pools[n] \/ pool[p].state = "closed"
    BY <2>1, PoolUpdates
  <2>4. \A p \in Pools : KeptToClose(p)' => KeptToClose(p)
    BY <2>1, <2>2, <1>e DEF KeptToClose, WorkerHolds, ReloadHolds
  <2>5. \A p \in Pools : KeptToClose(p) => KeptToClose(p)' \/ p = rl[g].pools[n]
    BY <2>1, <2>2 DEF KeptToClose, WorkerHolds, ReloadHolds
  <2>6. \A p \in Pools : KeptToClose(p) => pool[p].state # "closed"
    BY <1>a DEF StageFacts
  <2> QED
    BY <1>a, <1>f, <2>1, <2>3, <2>4, <2>5, <2>6, Aging
<1>15. ASSUME NEW r \in Workers, ReconnectSwap(r), ~Present(rc[r].name) PROVE Reg!Next
  <2>1. /\ rc[r].pc = "swap" /\ rc' = Goto(r, "close", rc[r].pool)
        /\ UNCHANGED <<entries, pool, rl, phase>>
    BY <1>15 DEF ReconnectSwap
  <2>2. /\ rc'[r].pc = "close" /\ rc'[r].pool = rc[r].pool
        /\ \A s \in Workers \ {r} : rc'[s] = rc[s]
    BY <2>1, <1>b, GotoType
  <2>3. \A p \in Pools : KeptToClose(p)' <=> KeptToClose(p) \/ p = rc[r].pool
    BY <2>1, <2>2 DEF KeptToClose, WorkerHolds, ReloadHolds
  <2>4. \A p \in Pools : p = rc[r].pool => pool[p].state # "closed"
    BY DEF Ownership, Holders, HeldOpen, WorkerHolds
  <2>5. \A p \in Pools : KeptToClose(p) => pool[p].state # "closed"
    BY <1>a DEF StageFacts
  <2> QED
    BY <1>a, <1>f, <2>1, <2>3, <2>4, <2>5, Aging
<1>16. ASSUME NEW r \in Workers, ReconnectSwap(r), Present(rc[r].name) PROVE Reg!Next
  <2>0. rc[r].name \in Names /\ rc[r].pool \in Pools /\ entries[rc[r].name].pool \in Pools
    BY <1>16, <1>b DEF ReconnectSwap, Present, Ownership, Holders, WorkerPools
  <2> SUFFICES ASSUME NEW n \in Names, NEW p \in Pools, NEW q \in Pools,
                      n = rc[r].name, p = rc[r].pool, q = entries[n].pool
               PROVE  Reg!Next
    BY <2>0
  <2>1. /\ rc[r].pc = "swap" /\ rc' = Goto(r, "close", q)
        /\ entries' = [entries EXCEPT ![n] = NewEntry(p)]
        /\ UNCHANGED <<pool, rl, phase>>
    BY <1>16 DEF ReconnectSwap
  <2>2. phase # "new" /\ phase' # "new"
    BY <2>1 DEF Ownership, DialedFor
  <2>3. /\ rc'[r].pc = "close" /\ rc'[r].pool = q
        /\ \A s \in Workers \ {r} : rc'[s] = rc[s]
    BY <2>1, GotoType
  <2>4. /\ entries'[n].pool = p
        /\ \A m \in Names \ {n} : entries'[m].pool = entries[m].pool
    BY <2>1, <1>b, <1>c
  <2>5. pool[p].state # "closed" /\ ~KeptToClose(p) /\ \A m \in Names : ~EntryHolds(m, p)
    BY <2>1 DEF Ownership, Holders, HeldOpen, SingleOwner, WorkerHolds, KeptToClose
  <2>6. Stage(p) = "spare"
    BY <2>2, <2>5, <1>a DEF StageFacts, Serves, Serving, EntryHolds
  <2>7. \A x \in Pools : KeptToClose(x)' <=> KeptToClose(x) \/ x = q
    BY <2>1, <2>3 DEF KeptToClose, WorkerHolds, ReloadHolds
  <2>8. \A x \in Pools \ {p, q} : Serves(x)' <=> Serves(x)
    BY <2>2, <2>4 DEF Serves, Serving
  <2>9. \A x \in Pools \ {p, q} : Stage(x)' = Stage(x)
    BY <2>1, <2>7, <2>8, <1>a DEF StageFacts
  <2>10. Stage(p)' = "serving" /\ Stage(q)' = "retired" /\ p # q
    <3>1. Serves(p)'
      BY <2>2, <2>4 DEF Serves, Serving
    <3>2. EntryHolds(n, q)
      BY DEF EntryHolds
    <3>3. p # q
      BY <2>5, <3>2
    <3>4. KeptToClose(q)'
      BY <2>7
    <3> QED
      BY <3>1, <3>3, <3>4, <1>a DEF StageFacts
  <2> DEFINE S == [m \in Names |-> Serving(m)]
             T == [x \in Pools |-> Stage(x)]
  <2>11. S' = [S EXCEPT ![n] = p] /\ S[n] = q
    BY <2>2, <2>4 DEF Serving
  <2>12. T' = [T EXCEPT ![q] = "retired", ![p] = "serving"] /\ T[p] = "spare"
    BY <2>6, <2>9, <2>10
  <2>13. Reg!Install(n, p)
    BY <2>11, <2>12, <1>e DEF Reg!Install
  <2> QED
    BY <2>13 DEF Reg!Next
<1>17. ASSUME NEW q \in Pools, NewManagerDial(q) PROVE Reg!Next
  <2>1. \A m \in Names : Serving(m)' = Serving(m)
    BY <1>17 DEF NewManagerDial, Serving
  <2> QED
    BY <1>17, <1>a, <2>1, AgingUnkept DEF NewManagerDial
<1>18. CASE NewManagerFail
  <2>1. \A m \in Names : Serving(m)' = Serving(m)
    BY <1>18, <1>c DEF NewManagerFail, Serving
  <2> QED
    BY <1>18, <1>a, <2>1, AgingUnkept DEF NewManagerFail
<1>19. CASE CloseEntries
  <2>0. /\ pool' = ClosePools(InstalledPools) /\ UNCHANGED <<rc, rl>>
        /\ \A n \in Names : Serving(n) = entries[n].pool
    BY <1>19 DEF CloseEntries, Serving
  <2>1. \A n \in Names : Serving(n)' = NoPool
    BY <1>19, <1>c DEF CloseEntries, Serving
  <2>2. \A x \in Pools : x \in InstalledPools <=> Serves(x)
    BY <2>0, <1>e DEF InstalledPools, Serves
  <2>3. \A x \in Pools : pool'[x].state = "closed" <=> pool[x].state = "closed" \/ Serves(x)
    BY <2>0, <2>2, PoolUpdates
  <2>4. \A x \in Pools : KeptToClose(x)' <=> KeptToClose(x)
    BY <2>0 DEF KeptToClose, WorkerHolds, ReloadHolds
  <2>5. \A x \in Pools : ~Serves(x)'
    BY <2>1, <1>e DEF Serves
  <2>6. \A x \in Pools : Stage(x)' = IF Stage(x) = "serving" THEN "free" ELSE Stage(x)
    BY <2>3, <2>4, <2>5, <1>a DEF StageFacts
  <2>7. Reg!Shutdown
    BY <2>1, <2>6 DEF Reg!Shutdown
  <2> QED
    BY <2>7 DEF Reg!Next
<1>23. CASE NewManagerDone
  <2>1. /\ UNCHANGED <<pool, rc, rl, entries>>
        /\ \A n \in Names : Serving(n) = NoPool /\ Serving(n)' = entries[n].pool
    BY <1>23 DEF NewManagerDone, Serving
  <2>2. \A x \in Pools : (KeptToClose(x)' <=> KeptToClose(x)) /\ ~Serves(x)
    BY <1>e, <2>1 DEF KeptToClose, WorkerHolds, ReloadHolds, Serves
  <2>3. \A n \in Names : entries[n].pool # NoPool =>
           pool[entries[n].pool].state # "closed" /\ ~KeptToClose(entries[n].pool)
    BY <1>b DEF Ownership, Holders, HeldOpen, SingleOwner, KeptToClose, EntryHolds
  <2>4. \A n \in Names : entries[n].pool # NoPool => Stage(entries[n].pool) = "spare"
    BY <1>a, <1>b, <2>2, <2>3 DEF StageFacts
  <2>5. \A x \in Pools : Stage(x)' = IF Serves(x)' THEN "serving" ELSE Stage(x)
    BY <1>a, <2>1, <2>2 DEF StageFacts
  <2> DEFINE S == [n \in Names |-> Serving(n)]
             T == [x \in Pools |-> Stage(x)]
             Spares == {x \in Pools : T[x] = "spare"}
  <2>6. S' \in [Names -> Spares \cup {NoPool}]
    BY <1>b, <2>1, <2>4
  <2>7. \A m, n \in Names : S'[m] = S'[n] => m = n \/ S'[m] = NoPool
    BY <1>b, <2>1 DEF Ownership, Holders, SingleOwner, EntryHolds
  <2>8. \A x \in Pools : x \in Reg!Users(S') <=> Serves(x)'
    BY <1>e DEF Reg!Users, Serves
  <2>9. T' = [x \in Pools |-> IF x \in Reg!Users(S') THEN "serving"
                              ELSE IF T[x] = "serving" THEN "retired" ELSE T[x]]
    BY <1>a, <2>2, <2>5, <2>8 DEF StageFacts
  <2>10. Reg!Replace
    BY <2>6, <2>7, <2>9 DEF Reg!Replace
  <2> QED
    BY <2>10 DEF Reg!Next
<1>20. ASSUME NEW g \in Reloads, ReloadSwap(g) PROVE Reg!Next
  <2> DEFINE old == [n \in Names |-> entries[n].pool]
             w == [rl[g] EXCEPT !.pc = "close", !.pools = old]
  <2>1. /\ rl[g] \in Reloading /\ rl[g].pc = "dial" /\ rl' = [rl EXCEPT ![g] = w]
        /\ UNCHANGED <<pool, rc>>
    BY <1>20, <1>b DEF ReloadSwap
  <2>2. w.pc = "close" /\ w.pools = old
    BY <2>1 DEF Reloading
  <2> HIDE DEF w
  <2>3. rl'[g] = w /\ \A h \in Reloads \ {g} : rl'[h] = rl[h]
    BY <2>1, <1>b
  <2>4. /\ rl'[g].pc = "close" /\ \A n \in Names : rl'[g].pools[n] = entries[n].pool
        /\ \A h \in Reloads \ {g} : rl'[h] = rl[h]
    BY <2>2, <2>3
  <2>5. \A n \in Names : entries'[n].pool = rl[g].pools[n]
    BY <1>20, <1>c DEF ReloadSwap
  <2>a. \A n \in Names : Serving(n) = entries[n].pool /\ Serving(n)' = entries'[n].pool
    BY <1>20 DEF ReloadSwap, Running, Serving
  <2>6. \A x \in Pools : KeptToClose(x)' <=> KeptToClose(x) \/ Serves(x)
    BY <2>1, <2>4, <2>a DEF KeptToClose, WorkerHolds, ReloadHolds, Serves
  <2>7. \A x \in Pools : Serves(x)' <=> \E n \in Names : ReloadHolds(g, n, x)
    BY <2>5, <2>a DEF Serves, ReloadHolds
  <2>8. \A n \in Names, x \in Pools : ReloadHolds(g, n, x) =>
           /\ pool[x].state # "closed" /\ ~KeptToClose(x) /\ ~Serves(x)
    <3>1. \A x \in Pools : Serves(x) => \E m \in Names : EntryHolds(m, x)
      BY <2>a DEF Serves, EntryHolds
    <3> QED
      BY <2>1, <3>1 DEF Ownership, Holders, HeldOpen, SingleOwner, KeptToClose
  <2>9. \A n \in Names, x \in Pools : ReloadHolds(g, n, x) => Stage(x) = "spare"
    BY <2>8, <1>a DEF StageFacts
  <2>10. \A x \in Pools : Stage(x)' =
            IF \E n \in Names : ReloadHolds(g, n, x) THEN "serving"
            ELSE IF Stage(x) = "serving" THEN "retired" ELSE Stage(x)
    <3> TAKE x \in Pools
    <3>1. CASE \E n \in Names : ReloadHolds(g, n, x)
      BY <3>1, <2>7, <1>a DEF StageFacts
    <3>2. CASE ~\E n \in Names : ReloadHolds(g, n, x)
      BY <3>2, <2>1, <2>6, <2>7, <1>a DEF StageFacts
    <3> QED
      BY <3>1, <3>2
  <2> DEFINE S == [n \in Names |-> Serving(n)]
             T == [x \in Pools |-> Stage(x)]
             Spares == {x \in Pools : T[x] = "spare"}
  <2>11. S' \in [Names -> Spares \cup {NoPool}]
    <3>1. \A n \in Names : rl[g].pools[n] \in Spares \cup {NoPool}
      BY <2>9, <1>b DEF ReloadHolds
    <3> QED
      BY <2>5, <2>a, <3>1
  <2>12. \A m, n \in Names : S'[m] = S'[n] => m = n \/ S'[m] = NoPool
    <3> TAKE m, n \in Names
    <3>1. S'[m] = rl[g].pools[m] /\ S'[n] = rl[g].pools[n]
      BY <2>5, <2>a
    <3>2. rl[g].pools[m] \in Pools /\ rl[g].pools[n] = rl[g].pools[m] => m = n
      BY DEF Ownership, Holders, SingleOwner, ReloadHolds
    <3> QED
      BY <3>1, <3>2, <1>b
  <2>13. \A x \in Pools : x \in Reg!Users(S') <=> \E n \in Names : ReloadHolds(g, n, x)
    BY <2>5, <2>a, <1>e DEF Reg!Users, ReloadHolds
  <2>14. T' = [x \in Pools |-> IF x \in Reg!Users(S') THEN "serving"
                               ELSE IF T[x] = "serving" THEN "retired" ELSE T[x]]
    BY <2>10, <2>13
  <2>15. Reg!Replace
    BY <2>11, <2>12, <2>14 DEF Reg!Replace
  <2> QED
    BY <2>15 DEF Reg!Next
<1>21. ASSUME NEW r \in Workers, Reconnect(r) PROVE Reg!Next
  BY <1>21, <1>7, <1>8, <1>9, <1>10, <1>11, <1>15, <1>16 DEF Reconnect
<1>22. ASSUME NEW g \in Reloads, Reload(g) PROVE Reg!Next
  BY <1>22, <1>12, <1>13, <1>14, <1>20 DEF Reload
<1> QED
  BY <1>2, <1>3, <1>4, <1>17, <1>18, <1>19, <1>21, <1>22, <1>23
  DEF Next, NewManager, Health, HealthPing, Close

\* The detailed manager implements Registry: whatever goroutines, reloads and
\* Close do, its pools pass from free to spare, serving and retired as Registry
\* says.
THEOREM RegistryRefined == Spec => ImplementsRegistry
<1>1. Init => Reg!Init
  <2> SUFFICES ASSUME Init PROVE Reg!Init
    OBVIOUS
  <2>1. \A n \in Names : Serving(n) = NoPool
    BY DEF Init, Serving
  <2>2. \A p \in Pools : Stage(p) = "free"
    BY DEF Init, Stage, ClosedPool
  <2> QED
    BY <2>1, <2>2 DEF Reg!Init
<1> QED
  BY <1>1, NextRegistry, TypeCorrect, PoolOwnership, PTL DEF Spec, ImplementsRegistry, Reg!Spec
=============================================================================
