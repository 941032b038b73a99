------------------------ MODULE ClientServicesProofs ------------------------
(***************************************************************************)
(* Theorems about the client's services and their reload, for any number   *)
(* of configurations, generations and callers of ReloadFromDisk.           *)
(***************************************************************************)
EXTENDS ClientServices, FiniteSetTheorems, TLAPS

-----------------------------------------------------------------------------
(* Type correctness *)

Labels == {"idle", "load", "reload", "store", "stop", "wait", "context",
           "forward", "socks5", "new", "flush", "fill", "unhook", "hook",
           "listen", "undo-unhook", "undo-flush", "undo-delete",
           "run", "close", "exited"}

\* TypeOK, but for the bound on the jumps.
TypeInv ==
    /\ ctxDone \in BOOLEAN
    /\ cfg \in Configs /\ upCfg \in Configs
    /\ svcCancel \in 0..MaxGen
    /\ proc \in [Procs -> Proc]
    /\ gen \in [Gens -> Generation]
    /\ lastGen \in 0..MaxGen
    /\ chain \in -1..MaxGen
    /\ stuck \in 0..MaxFails
    /\ hooks \in Nat

\* The configuration and the generation of a process.
LEMMA ProcType ==
    ASSUME proc \in [Procs -> Proc], NEW p \in Procs
    PROVE  /\ proc[p].cfg \in Configs /\ proc[p].gen \in 0..MaxGen
           /\ proc[p].pc \in Labels /\ proc[p].crowded \in BOOLEAN
BY DEF Proc, Labels

\* A process keeps its configuration, its generation and its history.
Same(p) ==
    /\ proc'[p].cfg = proc[p].cfg /\ proc'[p].gen = proc[p].gen
    /\ proc'[p].crowded = proc[p].crowded

\* A process moves on and nothing else of it changes.
LEMMA GotoFacts ==
    ASSUME proc \in [Procs -> Proc], NEW p \in Procs, NEW x \in Labels, Goto(p, x)
    PROVE  /\ proc' \in [Procs -> Proc]
           /\ proc'[p].pc = x /\ Same(p)
           /\ \A q \in Procs \ {p} : proc'[q] = proc[q]
<1>1. proc[p] \in Proc
  OBVIOUS
<1> DEFINE y == [proc[p] EXCEPT !.pc = x]
<1>2. /\ y \in Proc /\ y.pc = x /\ y.cfg = proc[p].cfg /\ y.gen = proc[p].gen
      /\ y.crowded = proc[p].crowded
  BY <1>1 DEF Proc, Labels
<1>3. proc' = [proc EXCEPT ![p] = y]
  BY DEF Goto
<1> HIDE DEF y
<1> QED
  BY <1>2, <1>3 DEF Same

LEMMA IdleType ==
    IdleProc \in Proc /\ IdleProc.pc = "idle" /\ IdleProc.gen = 0 /\ IdleProc.crowded = FALSE
<1> DEFINE z == 0
           i == "idle"
           f == FirstCfg
           b == FALSE
<1>1. z \in 0..MaxGen /\ f \in Configs /\ i \in Labels /\ b \in BOOLEAN
  BY BoundAssumption, ConfigAssumption DEF Labels
<1>2. IdleProc = [pc |-> i, cfg |-> f, gen |-> z, crowded |-> b]
  BY DEF IdleProc
<1>3. IdleProc.pc = "idle" /\ IdleProc.gen = 0 /\ IdleProc.crowded = FALSE
  BY DEF IdleProc
<1> HIDE DEF z, i, f, b
<1>4. [pc |-> i, cfg |-> f, gen |-> z, crowded |-> b]
        \in [pc : Labels, cfg : Configs, gen : 0..MaxGen, crowded : BOOLEAN]
  BY <1>1
<1> QED
  BY <1>2, <1>3, <1>4 DEF Proc, Labels

\* startServices returns: Run keeps what it knows, a reload forgets it.
LEMMA ReturnFacts ==
    ASSUME proc \in [Procs -> Proc], NEW p \in Procs, Return(p)
    PROVE  /\ proc' \in [Procs -> Proc]
           /\ proc'[p].pc = (IF p = Main THEN "run" ELSE "idle")
           /\ proc'[p].gen \in {0, proc[p].gen}
           /\ p = Main => Same(p)
           /\ \A q \in Procs \ {p} : proc'[q] = proc[q]
<1>1. CASE p = Main
  <2>1. Goto(p, "run") /\ "run" \in Labels
    BY <1>1 DEF Return, Goto, Labels
  <2> QED
    BY <1>1, <2>1, GotoFacts DEF Same
<1>2. CASE p # Main
  BY <1>2, IdleType DEF Return
<1> QED
  BY <1>1, <1>2

\* The states of a generation's services.
Forwards == {"off", "start", "listen", "closing", "done", "failed"}
Socks5s == {"off", "start", "listen", "done", "failed"}
Ranges == {"off", "listen", "done"}
Rules == {"none", "wait", "unhook", "flush", "delete"}

LEMMA GenerationType ==
    Generation = [cfg : Configs, cancelled : BOOLEAN, shared : BOOLEAN, forward : Forwards,
                  socks5 : Socks5s, range : Ranges, accept : BOOLEAN, rules : Rules]
BY DEF Generation, Forwards, Socks5s, Ranges, Rules

LEMMA NewGenerationFacts ==
    ASSUME NEW c \in Configs, NEW s \in BOOLEAN
    PROVE  LET n == NewGeneration(c, s)
           IN  /\ n \in Generation /\ n.cfg = c /\ n.cancelled = FALSE /\ n.forward = "off"
               /\ n.rules = "none" /\ n.shared = s
<1> DEFINE n == NewGeneration(c, s)
           o == "off"
           x == "none"
           b == FALSE
<1>1. /\ n.cfg = c /\ n.cancelled = FALSE /\ n.forward = "off" /\ n.rules = "none"
      /\ n.shared = s
  BY DEF NewGeneration
<1>2. o \in Forwards /\ o \in Socks5s /\ o \in Ranges /\ x \in Rules /\ b \in BOOLEAN
  BY DEF Forwards, Socks5s, Ranges, Rules
<1>3. n = [cfg |-> c, cancelled |-> b, shared |-> s, forward |-> o, socks5 |-> o, range |-> o,
           accept |-> b, rules |-> x]
  BY DEF NewGeneration
<1> HIDE DEF o, x, b, n
<1>4. n \in Generation
  BY <1>2, <1>3, GenerationType
<1> QED
  BY <1>1, <1>4 DEF n

\* A generation is replaced by another value.
LEMMA SetFacts ==
    ASSUME gen \in [Gens -> Generation], NEW g \in Gens, NEW v \in Generation,
           gen' = [gen EXCEPT ![g] = v]
    PROVE  /\ gen' \in [Gens -> Generation] /\ gen'[g] = v
           /\ \A h \in Gens \ {g} : gen'[h] = gen[h]
OBVIOUS

\* Run is about to stop and start, nothing else has happened.
LEMMA InitFacts ==
    ASSUME Init
    PROVE  /\ proc \in [Procs -> Proc] /\ proc[Main].pc = "stop" /\ proc[Main].cfg = FirstCfg
           /\ \A p \in Procs : /\ proc[p].gen = 0 /\ proc[p].crowded = FALSE
                               /\ p # Main => proc[p].pc = "idle"
           /\ gen \in [Gens -> Generation]
           /\ \A g \in Gens : gen[g].forward = "off" /\ gen[g].rules = "none"
<1> DEFINE y == [IdleProc EXCEPT !.pc = "stop"]
<1>1. y \in Proc /\ y.pc = "stop" /\ y.gen = 0 /\ y.crowded = FALSE /\ y.cfg = FirstCfg
  BY IdleType DEF Proc, IdleProc
<1>2. proc = [p \in Procs |-> IF p = Main THEN y ELSE IdleProc] /\ Main \in Procs
  BY DEF Init, Procs
<1> HIDE DEF y
<1>3. /\ proc \in [Procs -> Proc] /\ proc[Main] = y
      /\ \A p \in Procs : p # Main => proc[p] = IdleProc
  BY <1>1, <1>2, IdleType
<1> DEFINE n == NewGeneration(FirstCfg, FALSE)
<1>4. n \in Generation /\ n.forward = "off" /\ n.rules = "none"
  BY ConfigAssumption, NewGenerationFacts
<1>5. gen = [g \in Gens |-> n]
  BY DEF Init
<1> HIDE DEF n
<1> QED
  BY <1>1, <1>3, <1>4, <1>5, IdleType

LEMMA InitType == Init => TypeInv
<1> SUFFICES ASSUME Init PROVE TypeInv
  OBVIOUS
<1>1. FirstCfg \in Configs /\ MaxGen \in Nat /\ MaxFails \in Nat
  BY ConfigAssumption, BoundAssumption
<1>2. chain \in -1..MaxGen /\ hooks \in Nat /\ stuck \in 0..MaxFails
  BY <1>1 DEF Init, Absent
<1>3. svcCancel \in 0..MaxGen /\ lastGen \in 0..MaxGen
  BY <1>1 DEF Init
<1> QED
  BY <1>1, <1>2, <1>3, InitFacts DEF Init, TypeInv


-----------------------------------------------------------------------------
(* What the steps do *)

\* The steps of a generation's goroutines keep its configuration and context,
\* and touch no other generation and no process.
LEMMA GoroutineFacts ==
    ASSUME TypeInv, NEW g \in Gens, Goroutine(g)
    PROVE  /\ gen' \in [Gens -> Generation]
           /\ \A h \in Gens \ {g} : gen'[h] = gen[h]
           /\ gen'[g].cfg = gen[g].cfg /\ gen'[g].cancelled = gen[g].cancelled
           /\ gen'[g].shared = gen[g].shared
           /\ UNCHANGED <<ctxDone, cfg, upCfg, svcCancel, proc, lastGen>>
<1>1. gen[g] \in Generation /\ gen \in [Gens -> Generation]
  BY DEF TypeInv
<1>2. ASSUME NEW v, v \in Generation, v.cfg = gen[g].cfg, v.cancelled = gen[g].cancelled,
             v.shared = gen[g].shared, Set(g, v), UNCHANGED <<ctxDone, cfg, upCfg, svcCancel, proc, lastGen>>
      PROVE  /\ gen' \in [Gens -> Generation]
             /\ \A h \in Gens \ {g} : gen'[h] = gen[h]
             /\ gen'[g].cfg = gen[g].cfg /\ gen'[g].cancelled = gen[g].cancelled
           /\ gen'[g].shared = gen[g].shared
             /\ UNCHANGED <<ctxDone, cfg, upCfg, svcCancel, proc, lastGen>>
  BY <1>1, <1>2, SetFacts DEF Set
<1>3. CASE Forward(g)
  <2>1. PICK f \in Forwards : Set(g, [gen[g] EXCEPT !.forward = f])
    BY <1>3 DEF Forward, ForwardListen, ForwardClose, ForwardReturn, Forwards
  <2> DEFINE v == [gen[g] EXCEPT !.forward = f]
  <2>2. /\ v \in Generation /\ v.cfg = gen[g].cfg
        /\ v.cancelled = gen[g].cancelled /\ v.shared = gen[g].shared
    BY <1>1, GenerationType
  <2>3. UNCHANGED <<ctxDone, cfg, upCfg, svcCancel, proc, lastGen>>
    BY <1>3 DEF Forward, ForwardListen, ForwardClose, ForwardReturn, configs
  <2> HIDE DEF v
  <2> QED
    BY <1>2, <2>1, <2>2, <2>3 DEF v
<1>4. CASE Socks(g)
  <2>1. PICK f \in Socks5s : Set(g, [gen[g] EXCEPT !.socks5 = f])
    BY <1>4 DEF Socks, SocksListen, SocksShutdown, Socks5s
  <2> DEFINE v == [gen[g] EXCEPT !.socks5 = f]
  <2>2. /\ v \in Generation /\ v.cfg = gen[g].cfg
        /\ v.cancelled = gen[g].cancelled /\ v.shared = gen[g].shared
    BY <1>1, GenerationType
  <2>3. UNCHANGED <<ctxDone, cfg, upCfg, svcCancel, proc, lastGen>>
    BY <1>4 DEF Socks, SocksListen, SocksShutdown, configs
  <2> HIDE DEF v
  <2> QED
    BY <1>2, <2>1, <2>2, <2>3 DEF v
<1>5. CASE RangeClose(g)
  <2> DEFINE d == "done"
             u == "unhook"
             v == [gen[g] EXCEPT !.range = d, !.rules = u]
  <2>1. d \in Ranges /\ u \in Rules
    BY DEF Ranges, Rules
  <2>2. Set(g, v) /\ UNCHANGED <<ctxDone, cfg, upCfg, svcCancel, proc, lastGen>>
    BY <1>5 DEF RangeClose, configs
  <2> HIDE DEF d, u
  <2>3. /\ v \in Generation /\ v.cfg = gen[g].cfg
        /\ v.cancelled = gen[g].cancelled /\ v.shared = gen[g].shared
    BY <1>1, <2>1, GenerationType
  <2> HIDE DEF v
  <2> QED
    BY <1>2, <2>2, <2>3
<1>6. CASE RangeReturn(g)
  <2> DEFINE v == [gen[g] EXCEPT !.accept = FALSE]
  <2>1. Set(g, v) /\ UNCHANGED <<ctxDone, cfg, upCfg, svcCancel, proc, lastGen>>
    BY <1>6 DEF RangeReturn, configs
  <2>2. /\ v \in Generation /\ v.cfg = gen[g].cfg
        /\ v.cancelled = gen[g].cancelled /\ v.shared = gen[g].shared
    BY <1>1, GenerationType
  <2> HIDE DEF v
  <2> QED
    BY <1>2, <2>1, <2>2
<1>7. CASE RemoveRules(g)
  <2>1. PICK x \in Rules : Set(g, [gen[g] EXCEPT !.rules = x])
    BY <1>7 DEF RemoveRules, Rules
  <2> DEFINE v == [gen[g] EXCEPT !.rules = x]
  <2>2. /\ v \in Generation /\ v.cfg = gen[g].cfg
        /\ v.cancelled = gen[g].cancelled /\ v.shared = gen[g].shared
    BY <1>1, GenerationType
  <2>3. UNCHANGED <<ctxDone, cfg, upCfg, svcCancel, proc, lastGen>>
    BY <1>7 DEF RemoveRules, configs
  <2> HIDE DEF v
  <2> QED
    BY <1>2, <2>1, <2>2, <2>3 DEF v
<1> QED
  BY <1>3, <1>4, <1>5, <1>6, <1>7 DEF Goroutine

\* stopServices cancels the generation whose cancel function is stored.
LEMMA StopFacts ==
    ASSUME TypeInv, NEW p \in Procs, StopServices(p)
    PROVE  /\ gen' \in [Gens -> Generation] /\ proc' \in [Procs -> Proc]
           /\ \A h \in Gens :
                 /\ gen'[h].cfg = gen[h].cfg /\ gen'[h].forward = gen[h].forward
                 /\ gen'[h].range = gen[h].range /\ gen'[h].rules = gen[h].rules
                 /\ gen'[h].cancelled = (gen[h].cancelled \/ h = svcCancel)
                 /\ gen'[h].shared = gen[h].shared
           /\ svcCancel' = 0
           /\ proc[p].pc = "stop"
           /\ proc'[p].pc = (IF svcCancel = 0 THEN AfterStop(p) ELSE "wait")
           /\ Same(p)
           /\ \A q \in Procs \ {p} : proc'[q] = proc[q]
           /\ UNCHANGED <<ctxDone, cfg, upCfg, lastGen, chain, hooks, stuck>>
<1>1. gen \in [Gens -> Generation] /\ proc \in [Procs -> Proc]
  BY DEF TypeInv
<1>2. /\ gen' \in [Gens -> Generation]
      /\ \A h \in Gens :
            /\ gen'[h].cfg = gen[h].cfg /\ gen'[h].forward = gen[h].forward
            /\ gen'[h].range = gen[h].range /\ gen'[h].rules = gen[h].rules
            /\ gen'[h].cancelled = (gen[h].cancelled \/ h = svcCancel)
                 /\ gen'[h].shared = gen[h].shared
  <2>0. \A h \in Gens : gen[h] \in Generation /\ gen[h].cancelled \in BOOLEAN
    BY <1>1, GenerationType
  <2>1. CASE svcCancel = 0
    <3>1. gen' = gen /\ \A h \in Gens : h # svcCancel
      BY <2>1, BoundAssumption DEF StopServices, Gens
    <3> QED
      BY <1>1, <2>0, <3>1
  <2>2. CASE svcCancel # 0
    <3>1. svcCancel \in Gens
      BY <2>2, BoundAssumption DEF TypeInv, Gens
    <3> DEFINE v == [gen[svcCancel] EXCEPT !.cancelled = TRUE]
    <3>2. /\ v \in Generation /\ v.cfg = gen[svcCancel].cfg /\ v.forward = gen[svcCancel].forward
          /\ v.range = gen[svcCancel].range /\ v.rules = gen[svcCancel].rules /\ v.cancelled = TRUE
          /\ v.shared = gen[svcCancel].shared
      BY <2>0, <3>1, GenerationType
    <3>3. gen' = [gen EXCEPT ![svcCancel] = v]
      BY <2>2 DEF StopServices
    <3> HIDE DEF v
    <3>4. /\ gen' \in [Gens -> Generation] /\ gen'[svcCancel] = v
          /\ \A h \in Gens \ {svcCancel} : gen'[h] = gen[h]
      BY <1>1, <3>1, <3>2, <3>3, SetFacts
    <3> QED
      BY <2>0, <3>1, <3>2, <3>4
  <2> QED
    BY <2>1, <2>2
<1> DEFINE x == IF svcCancel = 0 THEN AfterStop(p) ELSE "wait"
<1>3. x \in Labels /\ Goto(p, x)
  BY DEF StopServices, AfterStop, Labels
<1> HIDE DEF x
<1>4. /\ proc' \in [Procs -> Proc] /\ proc'[p].pc = x
      /\ Same(p)
      /\ \A q \in Procs \ {p} : proc'[q] = proc[q]
  BY <1>1, <1>3, GotoFacts
<1>5. svcCancel' = 0 /\ UNCHANGED <<ctxDone, cfg, upCfg, lastGen, chain, hooks, stuck>>
      /\ proc[p].pc = "stop"
  BY DEF StopServices, configs, nat, At
<1> QED
  BY <1>2, <1>4, <1>5 DEF x

\* The new generation is the next one, and the process remembers it.
LEMMA NewContextFacts ==
    ASSUME TypeInv, NEW p \in Procs, NewContext(p)
    PROVE  /\ gen' \in [Gens -> Generation] /\ proc' \in [Procs -> Proc]
           /\ lastGen' = lastGen + 1 /\ lastGen' \in Gens /\ svcCancel' = lastGen'
           /\ gen'[lastGen'] = NewGeneration(proc[p].cfg, proc[p].crowded)
           /\ \A h \in Gens \ {lastGen'} : gen'[h] = gen[h]
           /\ proc[p].pc = "context" /\ proc'[p].pc = "forward" /\ proc'[p].gen = lastGen'
           /\ proc'[p].cfg = proc[p].cfg /\ proc'[p].crowded = proc[p].crowded
           /\ \A q \in Procs \ {p} : proc'[q] = proc[q]
           /\ UNCHANGED <<ctxDone, cfg, upCfg, chain, hooks, stuck>>
<1>1. gen \in [Gens -> Generation] /\ proc \in [Procs -> Proc] /\ proc[p] \in Proc
  BY DEF TypeInv
<1>2. lastGen + 1 \in Gens /\ lastGen + 1 \in 0..MaxGen
  BY BoundAssumption DEF NewContext, TypeInv, Gens
<1>3. NewGeneration(proc[p].cfg, proc[p].crowded) \in Generation
  BY <1>1, ProcType, NewGenerationFacts
<1>4. lastGen' = lastGen + 1 /\ svcCancel' = lastGen' /\ proc[p].pc = "context"
      /\ UNCHANGED <<ctxDone, cfg, upCfg, chain, hooks, stuck>>
      /\ gen' = [gen EXCEPT ![lastGen + 1] = NewGeneration(proc[p].cfg, proc[p].crowded)]
  BY DEF NewContext, configs, nat, At
<1>5. /\ gen' \in [Gens -> Generation] /\ gen'[lastGen + 1] = NewGeneration(proc[p].cfg, proc[p].crowded)
      /\ \A h \in Gens \ {lastGen + 1} : gen'[h] = gen[h]
  BY <1>1, <1>2, <1>3, <1>4, SetFacts
<1> DEFINE f == "forward"
           n == lastGen + 1
           y == [proc[p] EXCEPT !.pc = f, !.gen = n]
<1>6. f \in Labels /\ n \in 0..MaxGen /\ proc' = [proc EXCEPT ![p] = y]
  BY <1>2 DEF Labels, NewContext
<1> HIDE DEF f, n
<1>7. /\ y \in Proc /\ y.pc = f /\ y.gen = n /\ y.cfg = proc[p].cfg
      /\ y.crowded = proc[p].crowded
  BY <1>1, <1>6 DEF Proc, Labels
<1> HIDE DEF y
<1>8. /\ proc' \in [Procs -> Proc] /\ proc'[p] = y
      /\ \A q \in Procs \ {p} : proc'[q] = proc[q]
  BY <1>1, <1>6, <1>7
<1> QED
  BY <1>2, <1>4, <1>5, <1>7, <1>8 DEF f, n

\* startServices starts forward, then socks5, in the generation of the process.
LEMMA StartForwardFacts ==
    ASSUME TypeInv, NEW p \in Procs, proc[p].gen \in Gens, StartForward(p)
    PROVE  /\ gen' \in [Gens -> Generation] /\ proc' \in [Procs -> Proc]
           /\ \A h \in Gens \ {proc[p].gen} : gen'[h] = gen[h]
           /\ LET v == gen'[proc[p].gen]
                  w == gen[proc[p].gen]
              IN  /\ v.cfg = w.cfg /\ v.cancelled = w.cancelled /\ v.shared = w.shared
                  /\ v.range = w.range /\ v.rules = w.rules /\ v.forward \in {"start", "off"}
           /\ proc[p].pc = "forward" /\ proc'[p].pc = "socks5"
           /\ Same(p)
           /\ \A q \in Procs \ {p} : proc'[q] = proc[q]
           /\ UNCHANGED <<ctxDone, cfg, upCfg, svcCancel, lastGen, chain, hooks, stuck>>
<1> DEFINE g == proc[p].gen
           f == IF "forward" \in Enabled[proc[p].cfg] THEN "start" ELSE "off"
           v == [gen[g] EXCEPT !.forward = f]
<1>1. gen \in [Gens -> Generation] /\ proc \in [Procs -> Proc] /\ gen[g] \in Generation
  BY DEF TypeInv
<1>2. f \in Forwards /\ f \in {"start", "off"} /\ gen' = [gen EXCEPT ![g] = v]
  BY DEF StartForward, Forwards
<1> HIDE DEF f, g
<1>3. /\ v \in Generation /\ v.cfg = gen[g].cfg /\ v.cancelled = gen[g].cancelled
      /\ v.shared = gen[g].shared
      /\ v.range = gen[g].range /\ v.rules = gen[g].rules /\ v.forward = f
  BY <1>1, <1>2, GenerationType
<1> HIDE DEF v
<1>4. gen' \in [Gens -> Generation] /\ gen'[g] = v /\ \A h \in Gens \ {g} : gen'[h] = gen[h]
  BY <1>1, <1>2, <1>3, SetFacts DEF g
<1>5. Goto(p, "socks5") /\ "socks5" \in Labels /\ proc[p].pc = "forward"
      /\ UNCHANGED <<ctxDone, cfg, upCfg, svcCancel, lastGen, chain, hooks, stuck>>
  BY DEF StartForward, Labels, At, configs, nat
<1>6. /\ proc' \in [Procs -> Proc] /\ proc'[p].pc = "socks5"
      /\ Same(p)
      /\ \A q \in Procs \ {p} : proc'[q] = proc[q]
  BY <1>1, <1>5, GotoFacts
<1> QED
  BY <1>2, <1>3, <1>4, <1>5, <1>6 DEF g

LEMMA StartSocksFacts ==
    ASSUME TypeInv, NEW p \in Procs, proc[p].gen \in Gens, StartSocks(p)
    PROVE  /\ gen' \in [Gens -> Generation] /\ proc' \in [Procs -> Proc]
           /\ \A h \in Gens :
                 /\ gen'[h].cfg = gen[h].cfg /\ gen'[h].cancelled = gen[h].cancelled
                 /\ gen'[h].range = gen[h].range /\ gen'[h].rules = gen[h].rules
                 /\ gen'[h].forward = gen[h].forward /\ gen'[h].shared = gen[h].shared
           /\ proc[p].pc = "socks5" /\ proc'[p].pc \in {"idle", "run", "new"}
           /\ proc'[p].pc # "idle" => Same(p)
           /\ proc'[p].gen \in {0, proc[p].gen}
           /\ \A q \in Procs \ {p} : proc'[q] = proc[q]
           /\ UNCHANGED <<ctxDone, cfg, upCfg, svcCancel, lastGen, chain, hooks, stuck>>
<1> DEFINE g == proc[p].gen
           f == IF "socks5" \in Enabled[proc[p].cfg] THEN "start" ELSE "off"
           v == [gen[g] EXCEPT !.socks5 = f]
<1>1. gen \in [Gens -> Generation] /\ proc \in [Procs -> Proc] /\ gen[g] \in Generation
  BY DEF TypeInv
<1>2. f \in Socks5s /\ gen' = [gen EXCEPT ![g] = v]
  BY DEF StartSocks, Socks5s
<1> HIDE DEF f, g
<1>3. /\ v \in Generation /\ v.cfg = gen[g].cfg /\ v.cancelled = gen[g].cancelled
      /\ v.shared = gen[g].shared
      /\ v.range = gen[g].range /\ v.rules = gen[g].rules /\ v.forward = gen[g].forward
  BY <1>1, <1>2, GenerationType
<1> HIDE DEF v
<1>4. gen' \in [Gens -> Generation] /\ gen'[g] = v /\ \A h \in Gens \ {g} : gen'[h] = gen[h]
  BY <1>1, <1>2, <1>3, SetFacts DEF g
<1>5. /\ Goto(p, "new") \/ Return(p)
      /\ "new" \in Labels /\ proc[p].pc = "socks5"
      /\ UNCHANGED <<ctxDone, cfg, upCfg, svcCancel, lastGen, chain, hooks, stuck>>
  BY DEF StartSocks, Labels, At, configs, nat
<1>6. /\ proc' \in [Procs -> Proc] /\ proc'[p].pc \in {"idle", "run", "new"}
      /\ proc'[p].pc # "idle" => Same(p)
      /\ proc'[p].gen \in {0, proc[p].gen}
      /\ \A q \in Procs \ {p} : proc'[q] = proc[q]
  <2>1. CASE Goto(p, "new")
    BY <1>1, <1>5, <2>1, GotoFacts DEF Same
  <2>2. CASE Return(p)
    BY <1>1, <2>2, ReturnFacts
  <2> QED
    BY <1>5, <2>1, <2>2
<1>7. \A h \in Gens :
         /\ gen'[h].cfg = gen[h].cfg /\ gen'[h].cancelled = gen[h].cancelled
         /\ gen'[h].range = gen[h].range /\ gen'[h].rules = gen[h].rules
         /\ gen'[h].forward = gen[h].forward /\ gen'[h].shared = gen[h].shared
  BY <1>3, <1>4
<1> QED
  BY <1>4, <1>5, <1>6, <1>7

\* redirect listens, and a goroutine waits to remove its rules.
LEMMA RangeListenFacts ==
    ASSUME TypeInv, NEW p \in Procs, proc[p].gen \in Gens, RangeListen(p)
    PROVE  /\ gen' \in [Gens -> Generation] /\ proc' \in [Procs -> Proc]
           /\ \A h \in Gens \ {proc[p].gen} : gen'[h] = gen[h]
           /\ LET v == gen'[proc[p].gen]
                  w == gen[proc[p].gen]
              IN  /\ v.cfg = w.cfg /\ v.cancelled = w.cancelled /\ v.shared = w.shared
                  /\ v.forward = w.forward /\ v.range = "listen" /\ v.rules = "wait"
           /\ proc[p].pc = "listen" /\ proc'[p].pc \in {"idle", "run"}
           /\ proc'[p].pc # "idle" => Same(p)
           /\ proc'[p].gen \in {0, proc[p].gen}
           /\ \A q \in Procs \ {p} : proc'[q] = proc[q]
           /\ UNCHANGED <<ctxDone, cfg, upCfg, svcCancel, lastGen, chain, hooks, stuck>>
<1> DEFINE g == proc[p].gen
           l == "listen"
           x == "wait"
           b == TRUE
           v == [gen[g] EXCEPT !.range = l, !.accept = b, !.rules = x]
<1>1. gen \in [Gens -> Generation] /\ proc \in [Procs -> Proc] /\ gen[g] \in Generation
  BY DEF TypeInv
<1>2. l \in Ranges /\ x \in Rules /\ b \in BOOLEAN /\ gen' = [gen EXCEPT ![g] = v]
  BY DEF RangeListen, Ranges, Rules
<1> HIDE DEF l, x, b, g
<1>3. /\ v \in Generation /\ v.cfg = gen[g].cfg /\ v.cancelled = gen[g].cancelled
      /\ v.shared = gen[g].shared
      /\ v.forward = gen[g].forward /\ v.range = l /\ v.rules = x
  BY <1>1, <1>2, GenerationType
<1> HIDE DEF v
<1>4. gen' \in [Gens -> Generation] /\ gen'[g] = v /\ \A h \in Gens \ {g} : gen'[h] = gen[h]
  BY <1>1, <1>2, <1>3, SetFacts DEF g
<1>5. Return(p) /\ proc[p].pc = "listen"
      /\ UNCHANGED <<ctxDone, cfg, upCfg, svcCancel, lastGen, chain, hooks, stuck>>
  BY DEF RangeListen, At, configs, nat
<1>6. /\ proc' \in [Procs -> Proc] /\ proc'[p].pc \in {"idle", "run"}
      /\ proc'[p].pc # "idle" => Same(p)
      /\ proc'[p].gen \in {0, proc[p].gen}
      /\ \A q \in Procs \ {p} : proc'[q] = proc[q]
  BY <1>1, <1>5, ReturnFacts
<1> QED
  BY <1>3, <1>4, <1>5, <1>6 DEF g, l, x

\* The steps that only move a process, with the places it moves from and to.
Moves(p, from, to) ==
    /\ proc[p].pc \in from /\ proc'[p].pc \in to
    /\ proc'[p].pc # "idle" => Same(p)
    /\ proc'[p].gen \in {0, proc[p].gen}
    /\ \A q \in Procs \ {p} : proc'[q] = proc[q]
    /\ proc' \in [Procs -> Proc]

LEMMA GotoMoves ==
    ASSUME TypeInv, NEW p \in Procs, NEW x \in Labels, NEW y, At(p, y), Goto(p, x)
    PROVE  Moves(p, {y}, {x})
BY GotoFacts DEF TypeInv, Moves, At, Same

LEMMA ReturnMoves ==
    ASSUME TypeInv, NEW p \in Procs, NEW from, proc[p].pc \in from, Return(p)
    PROVE  Moves(p, from, {"idle", "run"})
BY ReturnFacts DEF TypeInv, Moves

\* Every step of applyRules and removeRules in startServices.
LEMMA RulesFacts ==
    ASSUME TypeInv, NEW p \in Procs,
           NewChain(p) \/ Flush(p) \/ Fill(p) \/ Unhook(p) \/ Hook(p) \/ ApplyFails(p)
             \/ RangeListenFails(p) \/ UndoRules(p)
    PROVE  /\ UNCHANGED <<ctxDone, cfg, upCfg, svcCancel, gen, lastGen>>
           /\ chain' \in -1..MaxGen /\ hooks' \in Nat /\ stuck' \in 0..MaxFails
           /\ \/ Moves(p, {"new"}, {"flush"}) /\ UNCHANGED <<hooks, stuck>>
              \/ Moves(p, {"flush"}, {"fill"}) /\ UNCHANGED <<hooks, stuck>>
              \/ Moves(p, {"fill"}, {"unhook"}) /\ UNCHANGED <<hooks, stuck>>
              \/ Moves(p, {"unhook"}, {"hook"}) /\ (DeleteHook \/ HookStays)
              \/ Moves(p, {"hook"}, {"listen"}) /\ hooks' = hooks + 1 /\ stuck' = stuck
              \/ Moves(p, {"flush", "fill", "hook"}, {"idle", "run"}) /\ UNCHANGED <<hooks, stuck>>
              \/ Moves(p, {"listen"}, {"undo-unhook"}) /\ UNCHANGED <<hooks, stuck>>
              \/ Moves(p, {"undo-unhook"}, {"undo-flush"}) /\ (DeleteHook \/ HookStays)
              \/ Moves(p, {"undo-flush"}, {"undo-delete"}) /\ UNCHANGED <<hooks, stuck>>
              \/ Moves(p, {"undo-delete"}, {"idle", "run"}) /\ UNCHANGED <<hooks, stuck>>
<1>0. /\ MaxGen \in Nat /\ chain \in -1..MaxGen /\ hooks \in Nat /\ proc[p].gen \in 0..MaxGen
      /\ MaxFails \in Nat /\ stuck \in 0..MaxFails
  BY BoundAssumption, ProcType DEF TypeInv
<1>1. DeleteHook \/ HookStays => hooks' \in Nat /\ stuck' \in 0..MaxFails
  BY <1>0 DEF DeleteHook, HookStays
<1>2. CASE NewChain(p)
  <2>1. chain' \in -1..MaxGen
    BY <1>0, <1>2 DEF NewChain, CreateChain, Absent, Empty
  <2>2. Moves(p, {"new"}, {"flush"})
    BY <1>2, GotoMoves DEF NewChain, Labels
  <2> QED
    BY <1>0, <1>2, <2>1, <2>2 DEF NewChain, configs, services
<1>3. CASE Flush(p)
  <2>1. chain' \in -1..MaxGen
    BY <1>0, <1>3 DEF Flush, FlushChain, Absent, Empty
  <2>2. Moves(p, {"flush"}, {"fill"})
    BY <1>3, GotoMoves DEF Flush, Labels
  <2> QED
    BY <1>0, <1>3, <2>1, <2>2 DEF Flush, configs, services
<1>4. CASE Fill(p)
  <2>1. chain' \in -1..MaxGen
    BY <1>0, <1>4 DEF Fill
  <2>2. Moves(p, {"fill"}, {"unhook"})
    BY <1>4, GotoMoves DEF Fill, Labels
  <2> QED
    BY <1>0, <1>4, <2>1, <2>2 DEF Fill, configs, services
<1>5. CASE Unhook(p)
  <2>1. Moves(p, {"unhook"}, {"hook"})
    BY <1>5, GotoMoves DEF Unhook, Labels
  <2> QED
    BY <1>0, <1>1, <1>5, <2>1 DEF Unhook, IgnoredDeleteHook, configs, services
<1>6. CASE Hook(p)
  <2>1. Moves(p, {"hook"}, {"listen"})
    BY <1>6, GotoMoves DEF Hook, Labels
  <2> QED
    BY <1>0, <1>6, <2>1 DEF Hook, configs, services
<1>7. CASE ApplyFails(p)
  <2>1. Moves(p, {"flush", "fill", "hook"}, {"idle", "run"})
    BY <1>7, ReturnMoves DEF ApplyFails, At
  <2> QED
    BY <1>0, <1>7, <2>1 DEF ApplyFails, configs, services, nat
<1>8. CASE RangeListenFails(p)
  <2>1. Moves(p, {"listen"}, {"undo-unhook"})
    BY <1>8, GotoMoves DEF RangeListenFails, Labels
  <2> QED
    BY <1>0, <1>8, <2>1 DEF RangeListenFails, configs, services, nat
<1>9. CASE UndoRules(p)
  <2>0. UNCHANGED <<ctxDone, cfg, upCfg, svcCancel, gen, lastGen>>
    BY <1>9 DEF UndoRules, configs, services
  <2>1. CASE At(p, "undo-unhook") /\ IgnoredDeleteHook /\ Goto(p, "undo-flush")
    <3>1. Moves(p, {"undo-unhook"}, {"undo-flush"})
      BY <2>1, GotoMoves DEF Labels
    <3> QED
      BY <1>0, <1>1, <2>0, <2>1, <3>1 DEF IgnoredDeleteHook
  <2>2. CASE At(p, "undo-flush") /\ IgnoredFlush /\ Goto(p, "undo-delete")
    <3>1. Moves(p, {"undo-flush"}, {"undo-delete"})
      BY <2>2, GotoMoves DEF Labels
    <3>2. chain' \in -1..MaxGen
      BY <1>0, <2>2 DEF IgnoredFlush, FlushChain, Absent, Empty
    <3> QED
      BY <1>0, <2>0, <2>2, <3>1, <3>2 DEF IgnoredFlush
  <2>3. CASE At(p, "undo-delete") /\ IgnoredDelete /\ Return(p)
    <3>1. Moves(p, {"undo-delete"}, {"idle", "run"})
      BY <2>3, ReturnMoves DEF At
    <3>2. chain' \in -1..MaxGen
      BY <1>0, <2>3 DEF IgnoredDelete, DeleteChain, Absent, Empty
    <3> QED
      BY <1>0, <2>0, <2>3, <3>1, <3>2 DEF IgnoredDelete
  <2> QED
    BY <1>9, <2>1, <2>2, <2>3 DEF UndoRules
<1> QED
  BY <1>2, <1>3, <1>4, <1>5, <1>6, <1>7, <1>8, <1>9

\* A reload begins: it marks every call in progress, and every generation that
\* one of them has made, as overlapped.
Others(r) == {q \in Procs \ {r} : InCall(q)}

LEMMA BeginFacts ==
    ASSUME TypeInv, NEW r \in Reloaders, ReloadFromDisk(r)
    PROVE  /\ proc' \in [Procs -> Proc] /\ gen' \in [Gens -> Generation]
           /\ proc[r].pc = "idle" /\ proc'[r].pc = "load" /\ proc'[r].gen = 0
           /\ proc'[r].crowded = (Others(r) # {})
           /\ \A q \in Procs \ {r} :
                 /\ proc'[q].pc = proc[q].pc /\ proc'[q].cfg = proc[q].cfg
                 /\ proc'[q].gen = proc[q].gen
                 /\ proc'[q].crowded = (InCall(q) \/ proc[q].crowded)
           /\ \A g \in Gens :
                 /\ gen'[g].cfg = gen[g].cfg /\ gen'[g].cancelled = gen[g].cancelled
                 /\ gen'[g].forward = gen[g].forward
                 /\ gen'[g].range = gen[g].range /\ gen'[g].rules = gen[g].rules
                 /\ gen'[g].shared = ((\E q \in Others(r) : proc[q].gen = g) \/ gen[g].shared)
           /\ UNCHANGED <<ctxDone, cfg, upCfg, svcCancel, lastGen, chain, hooks, stuck>>
<1>0. /\ r \in Procs /\ proc \in [Procs -> Proc] /\ gen \in [Gens -> Generation]
      /\ \A q \in Procs : proc[q] \in Proc /\ proc[q].crowded \in BOOLEAN
      /\ \A g \in Gens : gen[g] \in Generation /\ gen[g].shared \in BOOLEAN
  BY GenerationType DEF Procs, TypeInv, Proc
<1> DEFINE l == "load"
           b == Others(r) # {}
           y == [IdleProc EXCEPT !.pc = l, !.crowded = b]
           Mark(q) == [proc[q] EXCEPT !.crowded = TRUE]
           Share(g) == [gen[g] EXCEPT !.shared = TRUE]
<1>1. /\ proc' = [q \in Procs |-> IF q = r THEN y ELSE IF q \in Others(r) THEN Mark(q) ELSE proc[q]]
      /\ gen' = [g \in Gens |-> IF \E q \in Others(r) : proc[q].gen = g THEN Share(g) ELSE gen[g]]
      /\ proc[r].pc = "idle"
      /\ UNCHANGED <<ctxDone, cfg, upCfg, svcCancel, lastGen, chain, hooks, stuck>>
  BY DEF ReloadFromDisk, Others, At, configs, nat
<1>2. l \in Labels /\ b \in BOOLEAN
  BY DEF Labels
<1> HIDE DEF l, b
<1>3. y \in Proc /\ y.pc = l /\ y.gen = 0 /\ y.crowded = b
  BY <1>2, IdleType DEF Proc, Labels
<1> HIDE DEF y
<1>4. \A q \in Procs : /\ Mark(q) \in Proc /\ Mark(q).pc = proc[q].pc /\ Mark(q).cfg = proc[q].cfg
                       /\ Mark(q).gen = proc[q].gen /\ Mark(q).crowded = TRUE
  BY <1>0 DEF Proc
<1>5. \A g \in Gens :
         /\ Share(g) \in Generation /\ Share(g).cfg = gen[g].cfg
         /\ Share(g).cancelled = gen[g].cancelled /\ Share(g).forward = gen[g].forward
         /\ Share(g).range = gen[g].range /\ Share(g).rules = gen[g].rules
         /\ Share(g).shared = TRUE
  BY <1>0, GenerationType
<1> HIDE DEF Mark, Share
<1>6. /\ proc' \in [Procs -> Proc] /\ proc'[r] = y
      /\ \A q \in Procs \ {r} : proc'[q] = IF q \in Others(r) THEN Mark(q) ELSE proc[q]
  BY <1>0, <1>1, <1>3, <1>4
<1>7. \A q \in Procs \ {r} : q \in Others(r) <=> InCall(q)
  BY DEF Others
<1>8. \A q \in Procs \ {r} :
         /\ proc'[q].pc = proc[q].pc /\ proc'[q].cfg = proc[q].cfg
         /\ proc'[q].gen = proc[q].gen
         /\ proc'[q].crowded = (InCall(q) \/ proc[q].crowded)
  <2> SUFFICES ASSUME NEW q \in Procs \ {r}
               PROVE  /\ proc'[q].pc = proc[q].pc /\ proc'[q].cfg = proc[q].cfg
                      /\ proc'[q].gen = proc[q].gen
                      /\ proc'[q].crowded = (InCall(q) \/ proc[q].crowded)
    OBVIOUS
  <2>1. CASE InCall(q)
    BY <1>4, <1>6, <1>7, <2>1
  <2>2. CASE ~InCall(q)
    BY <1>0, <1>6, <1>7, <2>2
  <2> QED
    BY <2>1, <2>2
<1>9. /\ gen' \in [Gens -> Generation]
      /\ \A g \in Gens : gen'[g] = IF \E q \in Others(r) : proc[q].gen = g THEN Share(g) ELSE gen[g]
  BY <1>0, <1>1, <1>5
<1>10. \A g \in Gens :
          /\ gen'[g].cfg = gen[g].cfg /\ gen'[g].cancelled = gen[g].cancelled
          /\ gen'[g].forward = gen[g].forward
          /\ gen'[g].range = gen[g].range /\ gen'[g].rules = gen[g].rules
          /\ gen'[g].shared = ((\E q \in Others(r) : proc[q].gen = g) \/ gen[g].shared)
  <2> SUFFICES ASSUME NEW g \in Gens
               PROVE  /\ gen'[g].cfg = gen[g].cfg /\ gen'[g].cancelled = gen[g].cancelled
                      /\ gen'[g].forward = gen[g].forward
                      /\ gen'[g].range = gen[g].range /\ gen'[g].rules = gen[g].rules
                      /\ gen'[g].shared = ((\E q \in Others(r) : proc[q].gen = g) \/ gen[g].shared)
    OBVIOUS
  <2>1. CASE \E q \in Others(r) : proc[q].gen = g
    BY <1>5, <1>9, <2>1
  <2>2. CASE ~\E q \in Others(r) : proc[q].gen = g
    BY <1>0, <1>9, <2>2
  <2> QED
    BY <2>1, <2>2
<1> QED
  BY <1>1, <1>3, <1>6, <1>8, <1>9, <1>10 DEF l, b

\* The other steps of ReloadFromDisk before stopServices.
LEMMA ReloadFacts ==
    ASSUME TypeInv, NEW r \in Reloaders
    PROVE  /\ Load(r) =>
                 /\ proc[r].pc = "load" /\ proc'[r].pc = "reload" /\ proc' \in [Procs -> Proc]
                 /\ proc'[r].gen = proc[r].gen /\ proc'[r].crowded = proc[r].crowded
                 /\ \A q \in Procs \ {r} : proc'[q] = proc[q]
                 /\ UNCHANGED <<ctxDone, cfg, upCfg, svcCancel, gen, lastGen, chain, hooks, stuck>>
           /\ ReloadFails(r) =>
                 /\ Moves(r, {"load", "reload"}, {"idle"})
                 /\ UNCHANGED <<ctxDone, cfg, upCfg, svcCancel, gen, lastGen, chain, hooks, stuck>>
           /\ UpReload(r) =>
                 /\ Moves(r, {"reload"}, {"store"}) /\ upCfg' = proc[r].cfg
                 /\ UNCHANGED <<ctxDone, cfg, svcCancel, gen, lastGen, chain, hooks, stuck>>
           /\ StoreConfig(r) =>
                 /\ Moves(r, {"store"}, {"stop"}) /\ cfg' = proc[r].cfg
                 /\ UNCHANGED <<ctxDone, upCfg, svcCancel, gen, lastGen, chain, hooks, stuck>>
<1>0. r \in Procs /\ r # Main /\ proc \in [Procs -> Proc] /\ proc[r] \in Proc
  BY ProcAssumption DEF Procs, TypeInv
<1>2. ASSUME Load(r)
      PROVE  /\ proc[r].pc = "load" /\ proc'[r].pc = "reload" /\ proc' \in [Procs -> Proc]
             /\ proc'[r].gen = proc[r].gen /\ proc'[r].crowded = proc[r].crowded
             /\ \A q \in Procs \ {r} : proc'[q] = proc[q]
             /\ UNCHANGED <<ctxDone, cfg, upCfg, svcCancel, gen, lastGen, chain, hooks, stuck>>
  <2>0. PICK d \in Configs : proc' = [proc EXCEPT ![r] = [proc[r] EXCEPT !.pc = "reload", !.cfg = d]]
    BY <1>2 DEF Load
  <2> DEFINE x == "reload"
             y == [proc[r] EXCEPT !.pc = x, !.cfg = d]
  <2>1. x \in Labels /\ proc' = [proc EXCEPT ![r] = y] /\ proc[r].pc = "load"
    BY <1>2, <2>0 DEF Labels, Load, At
  <2> HIDE DEF x
  <2>2. y \in Proc /\ y.pc = x /\ y.gen = proc[r].gen /\ y.crowded = proc[r].crowded
    BY <1>0, <2>1 DEF Proc, Labels
  <2> HIDE DEF y
  <2>3. proc'[r] = y /\ proc' \in [Procs -> Proc] /\ \A q \in Procs \ {r} : proc'[q] = proc[q]
    BY <1>0, <2>1, <2>2
  <2> QED
    BY <1>2, <2>1, <2>2, <2>3 DEF x, Load, configs, services, nat
<1>3. ASSUME ReloadFails(r)
      PROVE  /\ Moves(r, {"load", "reload"}, {"idle"})
             /\ UNCHANGED <<ctxDone, cfg, upCfg, svcCancel, gen, lastGen, chain, hooks, stuck>>
  <2>1. Return(r) /\ proc[r].pc \in {"load", "reload"}
    BY <1>3 DEF ReloadFails, At
  <2>2. Moves(r, {"load", "reload"}, {"idle"})
    BY <1>0, <2>1, ReturnFacts DEF Moves
  <2> QED
    BY <1>3, <2>2 DEF ReloadFails, configs, services, nat
<1>4. ASSUME UpReload(r)
      PROVE  /\ Moves(r, {"reload"}, {"store"}) /\ upCfg' = proc[r].cfg
             /\ UNCHANGED <<ctxDone, cfg, svcCancel, gen, lastGen, chain, hooks, stuck>>
  <2>1. Moves(r, {"reload"}, {"store"})
    BY <1>0, <1>4, GotoMoves DEF UpReload, Labels
  <2> QED
    BY <1>4, <2>1 DEF UpReload, services, nat
<1>5. ASSUME StoreConfig(r)
      PROVE  /\ Moves(r, {"store"}, {"stop"}) /\ cfg' = proc[r].cfg
             /\ UNCHANGED <<ctxDone, upCfg, svcCancel, gen, lastGen, chain, hooks, stuck>>
  <2>1. Moves(r, {"store"}, {"stop"})
    BY <1>0, <1>5, GotoMoves DEF StoreConfig, Labels
  <2> QED
    BY <1>5, <2>1 DEF StoreConfig, services, nat
<1> QED
  BY <1>2, <1>3, <1>4, <1>5

LEMMA WaitFacts ==
    ASSUME TypeInv, NEW p \in Procs, Wait(p)
    PROVE  /\ Moves(p, {"wait"}, {AfterStop(p)})
           /\ \A g \in Gens : ~InWaitGroup(g)
           /\ UNCHANGED <<ctxDone, cfg, upCfg, svcCancel, gen, lastGen, chain, hooks, stuck>>
<1>1. AfterStop(p) \in Labels
  BY DEF AfterStop, Labels
<1>2. Moves(p, {"wait"}, {AfterStop(p)})
  BY <1>1, GotoMoves DEF Wait
<1> QED
  BY <1>2 DEF Wait, configs, services, nat

LEMMA MainFacts ==
    ASSUME TypeInv
    PROVE  /\ MainStop =>
                 /\ Moves(Main, {"run"}, {"stop"}) /\ ctxDone
                 /\ UNCHANGED <<ctxDone, cfg, upCfg, svcCancel, gen, lastGen, chain, hooks, stuck>>
           /\ MainClose =>
                 /\ Moves(Main, {"close"}, {"exited"})
                 /\ UNCHANGED <<ctxDone, cfg, upCfg, svcCancel, gen, lastGen, chain, hooks, stuck>>
<1>0. Main \in Procs /\ "stop" \in Labels /\ "exited" \in Labels
  BY DEF Procs, Labels
<1>1. MainStop => Moves(Main, {"run"}, {"stop"})
  BY <1>0, GotoMoves DEF MainStop
<1>2. MainClose => Moves(Main, {"close"}, {"exited"})
  BY <1>0, GotoMoves DEF MainClose
<1> QED
  BY <1>1, <1>2 DEF MainStop, MainClose, configs, services, nat

-----------------------------------------------------------------------------
(* Generations and the processes that build them *)

\* A process that starts the services of a generation.
Building(p) ==
    proc[p].pc \in {"forward", "socks5", "new", "flush", "fill", "unhook", "hook", "listen"}

\* Each builds a generation of its own, whose rules nobody removes yet; rules
\* wait for a context only while the listener is open.
OwnInv ==
    /\ \A p \in Procs : proc[p].gen <= lastGen
    /\ \A p \in Procs : Building(p) =>
          proc[p].gen \in 1..lastGen /\ gen[proc[p].gen].rules = "none"
    /\ \A p, q \in Procs : Building(p) /\ Building(q) /\ proc[p].gen = proc[q].gen => p = q
    /\ \A g \in Gens : g > lastGen => gen[g].rules = "none" /\ gen[g].forward = "off"
    /\ \A g \in Gens : gen[g].rules = "wait" => gen[g].range = "listen"

LEMMA InitOwn == Init => OwnInv
<1> SUFFICES ASSUME Init PROVE OwnInv
  OBVIOUS
<1>1. \A p \in Procs : ~Building(p) /\ proc[p].gen <= lastGen
  <2>1. lastGen = 0
    BY DEF Init
  <2>2. \A p \in Procs : proc[p].pc \in {"stop", "idle"} /\ proc[p].gen = 0
    BY InitFacts
  <2>3. 0 <= 0
    OBVIOUS
  <2> QED
    BY <2>1, <2>2, <2>3 DEF Building
<1>2. \A g \in Gens : gen[g].forward = "off" /\ gen[g].rules = "none"
  BY InitFacts
<1> QED
  BY <1>1, <1>2 DEF OwnInv

\* A step that changes no generation and moves processes as before, or out of
\* their generation, keeps the ownership.
LEMMA OwnMoves ==
    ASSUME TypeInv, OwnInv, NEW p,
           \A q \in Procs \ {p} : proc'[q].gen = proc[q].gen /\ (Building(q)' <=> Building(q)),
           p \in Procs => /\ proc'[p].gen \in {0, proc[p].gen}
                          /\ Building(p)' => Building(p) /\ proc'[p].gen = proc[p].gen,
           lastGen' = lastGen,
           \A g \in Gens : /\ gen'[g].rules = gen[g].rules /\ gen'[g].range = gen[g].range
                           /\ g > lastGen => gen'[g].forward = gen[g].forward
    PROVE  OwnInv'
<1>0. lastGen \in 0..MaxGen /\ MaxGen \in Nat
  BY BoundAssumption DEF TypeInv
<1>1. \A q \in Procs : /\ Building(q)' => Building(q) /\ proc'[q].gen = proc[q].gen
                        /\ proc'[q].gen \in {0, proc[q].gen}
  OBVIOUS
<1>2. 1..lastGen \subseteq Gens
  BY <1>0 DEF Gens
<1>3. \A q \in Procs : proc'[q].gen <= lastGen'
  BY <1>0, <1>1 DEF OwnInv
<1>4. \A q \in Procs : Building(q)' =>
         proc'[q].gen \in 1..lastGen' /\ gen'[proc'[q].gen].rules = "none"
  BY <1>1, <1>2 DEF OwnInv
<1>5. \A q, r \in Procs :
         Building(q)' /\ Building(r)' /\ proc'[q].gen = proc'[r].gen => q = r
  BY <1>1 DEF OwnInv
<1> QED
  BY <1>3, <1>4, <1>5 DEF OwnInv

\* What Next and its parts are made of: a step of a process or of a generation.
LEMMA NextSteps ==
    ASSUME [Next]_vars
    PROVE  \/ Shutdown \/ UNCHANGED vars
           \/ \E r \in Reloaders : ReloadFromDisk(r) \/ Load(r) \/ ReloadFails(r) \/ UpReload(r)
                                     \/ StoreConfig(r)
           \/ \E p \in Procs : Step(p)
           \/ MainStop \/ MainClose
           \/ \E g \in Gens : Goroutine(g)
BY DEF Next, Reload, Procs

LEMMA NextOwn == TypeInv /\ OwnInv /\ [Next]_vars => OwnInv'
<1> SUFFICES ASSUME TypeInv, OwnInv, [Next]_vars PROVE OwnInv'
  OBVIOUS
<1>0. /\ lastGen \in 0..MaxGen /\ MaxGen \in Nat /\ Reloaders \subseteq Procs /\ Main \in Procs
      /\ proc \in [Procs -> Proc] /\ gen \in [Gens -> Generation]
      /\ \A p \in Procs : proc[p].gen \in 0..MaxGen
  BY BoundAssumption, ProcType DEF TypeInv, Procs
<1>m. ASSUME NEW p \in Procs, NEW from, NEW to, Moves(p, from, to),
             UNCHANGED <<gen, lastGen>>, Building(p)' => Building(p)
      PROVE  OwnInv'
  <2>1. /\ \A q \in Procs \ {p} : proc'[q].gen = proc[q].gen /\ (Building(q)' <=> Building(q))
        /\ proc'[p].gen \in {0, proc[p].gen}
        /\ Building(p)' => Building(p) /\ proc'[p].gen = proc[p].gen
    BY <1>m DEF Moves, Building, Same
  <2> QED
    BY <1>m, <2>1, OwnMoves
<1>1. ASSUME Shutdown \/ UNCHANGED vars PROVE OwnInv'
  BY <1>1 DEF Shutdown, vars, OwnInv, Building, configs, nat
<1>2. ASSUME NEW r \in Reloaders, ReloadFromDisk(r) PROVE OwnInv'
  <2>1. /\ lastGen' = lastGen
        /\ \A q \in Procs \ {r} : proc'[q].gen = proc[q].gen /\ (Building(q)' <=> Building(q))
        /\ proc'[r].gen \in {0, proc[r].gen} /\ ~Building(r)'
        /\ \A g \in Gens : /\ gen'[g].rules = gen[g].rules /\ gen'[g].range = gen[g].range
                           /\ gen'[g].forward = gen[g].forward
    BY <1>2, BeginFacts DEF Building
  <2> QED
    BY <1>0, <2>1, OwnMoves
<1>3. ASSUME NEW r \in Reloaders, Load(r) PROVE OwnInv'
  <2>1. /\ ~Building(r)' /\ UNCHANGED <<gen, lastGen>> /\ proc'[r].gen = proc[r].gen
        /\ \A q \in Procs \ {r} : proc'[q].gen = proc[q].gen /\ (Building(q)' <=> Building(q))
    BY <1>3, ReloadFacts DEF Building
  <2> QED
    BY <1>0, <2>1, OwnMoves
<1>4. ASSUME NEW r \in Reloaders, ReloadFails(r) \/ UpReload(r) \/ StoreConfig(r) PROVE OwnInv'
  <2>1. UNCHANGED <<gen, lastGen>> /\ ~Building(r)' /\ \E from, to : Moves(r, from, to)
    BY <1>4, ReloadFacts DEF Moves, Building
  <2> QED
    BY <1>0, <1>m, <2>1
<1>5. ASSUME NEW p \in Procs, StopServices(p) PROVE OwnInv'
  <2>1. /\ ~Building(p)' /\ lastGen' = lastGen /\ proc'[p].gen = proc[p].gen
        /\ \A q \in Procs \ {p} : proc'[q].gen = proc[q].gen /\ (Building(q)' <=> Building(q))
    BY <1>5, StopFacts DEF Building, AfterStop, Same
  <2>2. \A g \in Gens : /\ gen'[g].rules = gen[g].rules /\ gen'[g].range = gen[g].range
                        /\ gen'[g].forward = gen[g].forward
    BY <1>5, StopFacts
  <2> QED
    BY <2>1, <2>2, OwnMoves
<1>6. ASSUME NEW p \in Procs, Wait(p) PROVE OwnInv'
  BY <1>m, <1>6, WaitFacts DEF Moves, Building, AfterStop
<1>7. ASSUME NEW r \in Procs, NewContext(r) PROVE OwnInv'
  <2>1. /\ lastGen' = lastGen + 1 /\ lastGen' \in Gens /\ proc'[r].gen = lastGen' /\ ~Building(r)
        /\ gen'[lastGen'] = NewGeneration(proc[r].cfg, proc[r].crowded)
        /\ \A h \in Gens \ {lastGen'} : gen'[h] = gen[h]
        /\ \A q \in Procs \ {r} : proc'[q] = proc[q]
    BY <1>7, NewContextFacts DEF Building
  <2>2. proc[r].cfg \in Configs /\ proc[r].crowded \in BOOLEAN
    BY <1>0, ProcType
  <2>3. gen'[lastGen'].rules = "none"
    <3>1. NewGeneration(proc[r].cfg, proc[r].crowded).rules = "none"
      BY DEF NewGeneration
    <3> QED
      BY <2>1, <3>1
  <2>4. lastGen \in Int /\ lastGen >= 0 /\ \A g \in Gens : g \in Int
    BY <1>0 DEF Gens
  <2>5. ASSUME NEW q \in Procs, Building(q)'
        PROVE  proc'[q].gen \in 1..lastGen' /\ gen'[proc'[q].gen].rules = "none"
               /\ (q # r => proc'[q].gen # lastGen' /\ Building(q) /\ proc'[q] = proc[q])
    <3>1. CASE q = r
      BY <2>1, <2>3, <2>4, <3>1
    <3>2. CASE q # r
      <4>1. proc'[q] = proc[q] /\ Building(q)
        BY <2>1, <2>5, <3>2 DEF Building
      <4>2. proc[q].gen \in 1..lastGen /\ gen[proc[q].gen].rules = "none"
        BY <4>1 DEF OwnInv
      <4>3. proc[q].gen \in Gens /\ proc[q].gen # lastGen' /\ proc[q].gen \in 1..lastGen'
        BY <1>0, <2>1, <2>4, <4>2 DEF Gens
      <4> QED
        BY <2>1, <4>1, <4>2, <4>3
    <3> QED
      BY <3>1, <3>2
  <2>6. \A p, q \in Procs :
           Building(p)' /\ Building(q)' /\ proc'[p].gen = proc'[q].gen => p = q
    BY <2>1, <2>5 DEF OwnInv
  <2>7. \A g \in Gens : g > lastGen' => gen'[g].rules = "none" /\ gen'[g].forward = "off"
    BY <2>1, <2>4 DEF OwnInv
  <2>8. \A g \in Gens : gen'[g].rules = "wait" => gen'[g].range = "listen"
    BY <2>1, <2>3 DEF OwnInv
  <2>9. \A q \in Procs : Building(q)' =>
           proc'[q].gen \in 1..lastGen' /\ gen'[proc'[q].gen].rules = "none"
    BY <2>5
  <2>10. \A q \in Procs : proc'[q].gen <= lastGen'
    BY <1>0, <2>1, <2>4 DEF OwnInv
  <2> QED
    BY <2>6, <2>7, <2>8, <2>9, <2>10 DEF OwnInv
<1>o. ASSUME NEW r \in Procs, Building(r)
      PROVE  proc[r].gen \in Gens /\ proc[r].gen \in 1..lastGen /\ ~(proc[r].gen > lastGen)
  <2>1. proc[r].gen \in 1..lastGen
    BY <1>o DEF OwnInv
  <2> QED
    BY <1>0, <2>1 DEF Gens
<1>8. ASSUME NEW r \in Procs, StartForward(r) PROVE OwnInv'
  <2>0. Building(r) /\ proc[r].gen \in Gens /\ ~(proc[r].gen > lastGen)
    BY <1>o, <1>8 DEF Building, StartForward, At
  <2>1. /\ lastGen' = lastGen /\ proc'[r].gen = proc[r].gen
        /\ \A q \in Procs \ {r} : proc'[q].gen = proc[q].gen /\ (Building(q)' <=> Building(q))
    BY <1>8, <2>0, StartForwardFacts DEF Building, Same
  <2>2. \A g \in Gens : /\ gen'[g].rules = gen[g].rules /\ gen'[g].range = gen[g].range
                        /\ g > lastGen => gen'[g].forward = gen[g].forward
    BY <1>8, <2>0, StartForwardFacts
  <2> QED
    BY <2>0, <2>1, <2>2, OwnMoves
<1>9. ASSUME NEW r \in Procs, StartSocks(r) PROVE OwnInv'
  <2>0. Building(r) /\ proc[r].gen \in Gens
    BY <1>o, <1>9 DEF Building, StartSocks, At
  <2>1. /\ lastGen' = lastGen /\ proc'[r].gen \in {0, proc[r].gen}
        /\ (Building(r)' => proc'[r].gen = proc[r].gen)
        /\ \A q \in Procs \ {r} : proc'[q].gen = proc[q].gen /\ (Building(q)' <=> Building(q))
    BY <1>9, <2>0, StartSocksFacts DEF Building, Same
  <2>2. \A g \in Gens : /\ gen'[g].rules = gen[g].rules /\ gen'[g].range = gen[g].range
                        /\ gen'[g].forward = gen[g].forward
    BY <1>9, <2>0, StartSocksFacts
  <2> QED
    BY <2>0, <2>1, <2>2, OwnMoves
<1>10. ASSUME NEW r \in Procs,
              NewChain(r) \/ Flush(r) \/ Fill(r) \/ Unhook(r) \/ Hook(r) \/ ApplyFails(r)
                \/ RangeListenFails(r) \/ UndoRules(r)
       PROVE  OwnInv'
  <2>1. UNCHANGED <<gen, lastGen>> /\ \E from, to : Moves(r, from, to)
        /\ (Building(r)' => Building(r))
    BY <1>10, RulesFacts DEF Moves, Building
  <2> QED
    BY <1>m, <2>1
<1>11. ASSUME NEW r \in Procs, RangeListen(r) PROVE OwnInv'
  <2>0. Building(r) /\ proc[r].gen \in Gens /\ proc[r].gen \in 1..lastGen
    BY <1>o, <1>11 DEF Building, RangeListen, At
  <2> DEFINE g == proc[r].gen
  <2>1. /\ lastGen' = lastGen /\ ~Building(r)' /\ proc'[r].gen \in {0, g}
        /\ \A q \in Procs \ {r} : proc'[q] = proc[q]
        /\ \A h \in Gens \ {g} : gen'[h] = gen[h]
        /\ gen'[g].range = "listen"
    BY <1>11, <2>0, RangeListenFacts DEF Building
  <2>3. ASSUME NEW q \in Procs, Building(q)'
        PROVE  q # r /\ Building(q) /\ proc'[q] = proc[q] /\ proc[q].gen # g /\ proc[q].gen \in Gens
    BY <1>o, <2>0, <2>1, <2>3 DEF Building, OwnInv
  <2>4. \A q \in Procs : Building(q)' =>
           proc'[q].gen \in 1..lastGen' /\ gen'[proc'[q].gen].rules = "none"
    BY <2>1, <2>3 DEF OwnInv
  <2>5. \A p, q \in Procs :
           Building(p)' /\ Building(q)' /\ proc'[p].gen = proc'[q].gen => p = q
    BY <2>3 DEF OwnInv
  <2>6. \A h \in Gens : h > lastGen' => gen'[h].rules = "none" /\ gen'[h].forward = "off"
    BY <1>0, <2>0, <2>1 DEF OwnInv, Gens
  <2>7. \A h \in Gens : gen'[h].rules = "wait" => gen'[h].range = "listen"
    BY <2>1 DEF OwnInv
  <2>8. \A q \in Procs : proc'[q].gen <= lastGen'
    BY <1>0, <2>1 DEF OwnInv
  <2> QED
    BY <2>4, <2>5, <2>6, <2>7, <2>8 DEF OwnInv
<1>12. ASSUME MainStop \/ MainClose PROVE OwnInv'
  BY <1>0, <1>m, <1>12, MainFacts DEF Moves, Building
<1>13. ASSUME NEW g \in Gens, Goroutine(g) PROVE OwnInv'
  <2>1. /\ proc' = proc /\ lastGen' = lastGen /\ \A h \in Gens \ {g} : gen'[h] = gen[h]
    BY <1>13, GoroutineFacts
  <2>2. /\ gen[g].rules = "none" => gen'[g].rules = "none"
        /\ gen[g].forward = "off" => gen'[g].forward = "off"
        /\ gen'[g].rules = "wait" => gen[g].rules = "wait" /\ gen'[g].range = gen[g].range
    <3>1. gen[g] \in Generation
      BY <1>0
    <3>2. CASE Forward(g)
      BY <1>0, <3>1, <3>2 DEF Forward, ForwardListen, ForwardClose, ForwardReturn, Set, Generation
    <3>3. CASE Socks(g)
      BY <1>0, <3>1, <3>3 DEF Socks, SocksListen, SocksShutdown, Set, Generation
    <3>4. CASE RangeClose(g)
      BY <1>0, <3>1, <3>4 DEF RangeClose, Set, Generation
    <3>5. CASE RangeReturn(g)
      BY <1>0, <3>1, <3>5 DEF RangeReturn, Set, Generation
    <3>6. CASE RemoveRules(g)
      BY <1>0, <3>1, <3>6 DEF RemoveRules, Set, Generation
    <3> QED
      BY <1>13, <3>2, <3>3, <3>4, <3>5, <3>6 DEF Goroutine
  <2>3. \A h \in Gens : /\ gen[h].rules = "none" => gen'[h].rules = "none"
                        /\ gen[h].forward = "off" => gen'[h].forward = "off"
                        /\ gen'[h].rules = "wait" =>
                              gen[h].rules = "wait" /\ gen'[h].range = gen[h].range
    BY <2>1, <2>2
  <2>4. \A q \in Procs : Building(q)' <=> Building(q)
    BY <2>1 DEF Building
  <2> QED
    BY <1>o, <2>1, <2>3, <2>4 DEF OwnInv
<1> QED
  BY <1>1, <1>2, <1>3, <1>4, <1>5, <1>6, <1>7, <1>8, <1>9, <1>10, <1>11, <1>12, <1>13, NextSteps
  DEF Step

LEMMA NextType == TypeInv /\ OwnInv /\ [Next]_vars => TypeInv'
<1> SUFFICES ASSUME TypeInv, OwnInv, [Next]_vars PROVE TypeInv'
  OBVIOUS
<1>0. /\ Reloaders \subseteq Procs /\ Main \in Procs /\ MaxGen \in Nat /\ MaxFails \in Nat
      /\ \A p \in Procs : proc[p].cfg \in Configs
  BY ProcType, BoundAssumption DEF Procs, TypeInv
<1>1. ASSUME NEW r \in Procs, Building(r) PROVE proc[r].gen \in Gens
  BY <1>1, BoundAssumption DEF OwnInv, TypeInv, Gens
<1>2. ASSUME Shutdown \/ UNCHANGED vars PROVE TypeInv'
  BY <1>2 DEF Shutdown, vars, TypeInv, configs, nat
<1>b. ASSUME NEW r \in Reloaders, ReloadFromDisk(r) PROVE TypeInv'
  BY <1>b, BeginFacts DEF TypeInv
<1>3. ASSUME NEW r \in Reloaders, Load(r) \/ ReloadFails(r) \/ UpReload(r) \/ StoreConfig(r)
      PROVE  TypeInv'
  BY <1>0, <1>3, ReloadFacts DEF TypeInv, Moves
<1>4. ASSUME NEW p \in Procs, StopServices(p) PROVE TypeInv'
  BY <1>0, <1>4, StopFacts DEF TypeInv
<1>5. ASSUME NEW p \in Procs, Wait(p) PROVE TypeInv'
  BY <1>5, WaitFacts DEF TypeInv, Moves
<1>6. ASSUME NEW r \in Procs, NewContext(r) PROVE TypeInv'
  <2>1. svcCancel' \in 0..MaxGen /\ lastGen' \in 0..MaxGen
    BY <1>0, <1>6, NewContextFacts DEF Gens
  <2> QED
    BY <1>0, <1>6, <2>1, NewContextFacts DEF TypeInv
<1>7. ASSUME NEW r \in Procs, StartForward(r) PROVE TypeInv'
  <2>1. proc[r].gen \in Gens
    BY <1>1, <1>7 DEF Building, StartForward, At
  <2> QED
    BY <1>0, <1>7, <2>1, StartForwardFacts DEF TypeInv
<1>8. ASSUME NEW r \in Procs, StartSocks(r) PROVE TypeInv'
  <2>1. proc[r].gen \in Gens
    BY <1>1, <1>8 DEF Building, StartSocks, At
  <2> QED
    BY <1>0, <1>8, <2>1, StartSocksFacts DEF TypeInv
<1>9. ASSUME NEW r \in Procs,
             NewChain(r) \/ Flush(r) \/ Fill(r) \/ Unhook(r) \/ Hook(r) \/ ApplyFails(r)
               \/ RangeListenFails(r) \/ UndoRules(r)
      PROVE  TypeInv'
  BY <1>0, <1>9, RulesFacts DEF TypeInv, Moves
<1>10. ASSUME NEW r \in Procs, RangeListen(r) PROVE TypeInv'
  <2>1. proc[r].gen \in Gens
    BY <1>1, <1>10 DEF Building, RangeListen, At
  <2> QED
    BY <1>0, <1>10, <2>1, RangeListenFacts DEF TypeInv
<1>11. ASSUME MainStop \/ MainClose PROVE TypeInv'
  BY <1>11, MainFacts DEF TypeInv, Moves
<1>12. ASSUME NEW g \in Gens, Goroutine(g) PROVE TypeInv'
  <2>1. chain' \in -1..MaxGen /\ hooks' \in Nat /\ stuck' \in 0..MaxFails
    <3>1. CASE nat' = nat
      BY <3>1 DEF nat, TypeInv
    <3>2. CASE RemoveRules(g)
      <4>1. CASE IgnoredDeleteHook
        BY <1>0, <4>1 DEF IgnoredDeleteHook, DeleteHook, HookStays, TypeInv
      <4>2. CASE IgnoredFlush \/ IgnoredDelete
        BY <1>0, <4>2
        DEF IgnoredFlush, IgnoredDelete, FlushChain, DeleteChain, Absent, Empty, TypeInv
      <4> QED
        BY <3>2, <4>1, <4>2 DEF RemoveRules
    <3>3. RemoveRules(g) \/ nat' = nat
      BY <1>12 DEF Goroutine, Forward, ForwardListen, ForwardClose, ForwardReturn, Socks,
                   SocksListen, SocksShutdown, RangeClose, RangeReturn
    <3> QED
      BY <3>1, <3>2, <3>3
  <2> QED
    BY <1>12, <2>1, GoroutineFacts DEF TypeInv
<1> QED
  BY <1>2, <1>b, <1>3, <1>4, <1>5, <1>6, <1>7, <1>8, <1>9, <1>10, <1>11, <1>12, NextSteps
  DEF Step

-----------------------------------------------------------------------------
(* Jumps to the chain, and who will delete them *)

\* Generations whose rules will be removed, processes that have added a jump and
\* those that are about to add one.
Holders == {g \in Gens : gen[g].rules \in {"wait", "unhook"}}
Hookers == {p \in Procs : proc[p].pc \in {"listen", "undo-unhook"}}
Between == {p \in Procs : proc[p].pc = "hook"}

\* Somebody will delete every jump but those that a failed command has left; and a
\* process that adds one has deleted one before, if there was any and the command
\* did not fail.
HookInv ==
    /\ hooks <= Cardinality(Holders) + Cardinality(Hookers) + stuck
    /\ hooks + Cardinality(Between) <= Cardinality(Procs) + stuck

\* These sets are finite, and so are their successors.
LEMMA Finite ==
    ASSUME NEW H \in SUBSET Gens, NEW P \in SUBSET Procs
    PROVE  /\ IsFiniteSet(H) /\ Cardinality(H) \in Nat
           /\ IsFiniteSet(P) /\ Cardinality(P) \in Nat
           /\ Cardinality(P) <= Cardinality(Procs) /\ Cardinality(Procs) \in Nat
<1>1. IsFiniteSet(Gens)
  BY BoundAssumption, FS_Interval DEF Gens
<1>2. IsFiniteSet(Procs)
  BY ProcAssumption, FS_AddElement DEF Procs
<1>3. IsFiniteSet(H) /\ IsFiniteSet(P) /\ Cardinality(P) <= Cardinality(Procs)
  BY <1>1, <1>2, FS_Subset
<1> QED
  BY <1>2, <1>3, FS_CardinalityType

\* One more, and one less.
LEMMA OneMore ==
    ASSUME NEW S, IsFiniteSet(S), NEW x, x \notin S
    PROVE  Cardinality(S \cup {x}) = Cardinality(S) + 1
BY FS_AddElement

LEMMA OneLess ==
    ASSUME NEW S, IsFiniteSet(S), NEW x \in S
    PROVE  Cardinality(S \ {x}) = Cardinality(S) - 1
BY FS_RemoveElement

LEMMA InitHook == Init => HookInv
<1> SUFFICES ASSUME Init PROVE HookInv
  OBVIOUS
<1>1. \A p \in Procs : proc[p].pc \in {"idle", "stop"}
  BY InitFacts
<1>2. Hookers = {} /\ Between = {}
  BY <1>1 DEF Hookers, Between
<1>3. Cardinality(Hookers) = 0 /\ Cardinality(Between) = 0
  BY <1>2, FS_EmptySet
<1>4. Holders \in SUBSET Gens /\ Procs \in SUBSET Procs
  BY DEF Holders
<1>5. Cardinality(Holders) \in Nat /\ Cardinality(Procs) \in Nat
  BY <1>4, Finite
<1> QED
  BY <1>3, <1>5 DEF HookInv, Init

\* The three sets, now and after a step, are finite.
LEMMA Sizes ==
    /\ IsFiniteSet(Holders) /\ IsFiniteSet(Hookers) /\ IsFiniteSet(Between)
    /\ IsFiniteSet(Holders') /\ IsFiniteSet(Hookers') /\ IsFiniteSet(Between')
    /\ Cardinality(Holders) \in Nat /\ Cardinality(Hookers) \in Nat /\ Cardinality(Between) \in Nat
    /\ Cardinality(Holders') \in Nat /\ Cardinality(Hookers') \in Nat
    /\ Cardinality(Between') \in Nat
    /\ Cardinality(Between') <= Cardinality(Procs) /\ Cardinality(Procs) \in Nat
<1>1. Holders \in SUBSET Gens /\ Holders' \in SUBSET Gens
  BY DEF Holders
<1>2. Hookers \in SUBSET Procs /\ Hookers' \in SUBSET Procs
  BY DEF Hookers
<1>3. Between \in SUBSET Procs /\ Between' \in SUBSET Procs
  BY DEF Between
<1> QED
  BY <1>1, <1>2, <1>3, Finite

\* The steps that are not about jumps leave the three sets alone.
LEMMA HookFrame ==
    ASSUME HookInv, UNCHANGED <<hooks, stuck>>,
           Holders' = Holders, Hookers' = Hookers, Between' = Between
    PROVE  HookInv'
BY DEF HookInv

\* The moves of a process that change no set, and those that do.
LEMMA MoveSets ==
    ASSUME NEW r \in Procs, \A q \in Procs \ {r} : proc'[q].pc = proc[q].pc
    PROVE  /\ Hookers' = (IF proc'[r].pc \in {"listen", "undo-unhook"}
                          THEN Hookers \cup {r} ELSE Hookers \ {r})
           /\ Between' = (IF proc'[r].pc = "hook" THEN Between \cup {r} ELSE Between \ {r})
<1>1. Hookers' = {p \in Procs : proc'[p].pc \in {"listen", "undo-unhook"}}
      /\ Between' = {p \in Procs : proc'[p].pc = "hook"}
  BY DEF Hookers, Between
<1> QED
  BY <1>1 DEF Hookers, Between

LEMMA HoldersFrame ==
    ASSUME \A h \in Gens : gen'[h].rules = gen[h].rules
    PROVE  Holders' = Holders
BY DEF Holders

\* A command that deletes one of the jumps, or fails and leaves it.
LEMMA HookLess ==
    ASSUME hooks \in Nat, stuck \in Nat, DeleteHook \/ HookStays
    PROVE  /\ hooks' \in Nat /\ stuck' \in Nat
           /\ hooks' + stuck + 1 = hooks + stuck' \/ (hooks' = 0 /\ stuck' = stuck)
BY DEF DeleteHook, HookStays

LEMMA NextHook == TypeInv /\ OwnInv /\ HookInv /\ [Next]_vars => HookInv'
<1> SUFFICES ASSUME TypeInv, OwnInv, HookInv, [Next]_vars PROVE HookInv'
  OBVIOUS
<1>0. /\ Reloaders \subseteq Procs /\ Main \in Procs
      /\ hooks \in Nat /\ stuck \in Nat /\ lastGen \in 0..MaxGen
  BY BoundAssumption DEF TypeInv, Procs
<1>s. /\ IsFiniteSet(Holders) /\ IsFiniteSet(Hookers) /\ IsFiniteSet(Between)
      /\ IsFiniteSet(Holders') /\ IsFiniteSet(Hookers') /\ IsFiniteSet(Between')
      /\ Cardinality(Holders) \in Nat /\ Cardinality(Hookers) \in Nat
      /\ Cardinality(Between) \in Nat
      /\ Cardinality(Holders') \in Nat /\ Cardinality(Hookers') \in Nat
      /\ Cardinality(Between') \in Nat
      /\ Cardinality(Between') <= Cardinality(Procs) /\ Cardinality(Procs) \in Nat
  BY Sizes
<1>o. ASSUME NEW r \in Procs, Building(r) PROVE proc[r].gen \in Gens
  BY <1>o, <1>0, BoundAssumption DEF OwnInv, Gens
<1>1. ASSUME NEW p \in Procs, \A q \in Procs \ {p} : proc'[q].pc = proc[q].pc,
             UNCHANGED <<hooks, stuck>>, \A h \in Gens : gen'[h].rules = gen[h].rules,
             proc[p].pc \notin {"listen", "undo-unhook", "hook"},
             proc'[p].pc \notin {"listen", "undo-unhook", "hook"}
      PROVE  HookInv'
  <2>1. Holders' = Holders
    BY <1>1, HoldersFrame
  <2>2. p \notin Hookers /\ p \notin Between
    BY <1>1 DEF Hookers, Between
  <2>3. Hookers' = Hookers \ {p} /\ Between' = Between \ {p}
    BY <1>1, MoveSets
  <2>4. Hookers' = Hookers /\ Between' = Between
    BY <2>2, <2>3
  <2> QED
    BY <1>1, <2>1, <2>4, HookFrame
<1>2. ASSUME Shutdown \/ UNCHANGED vars PROVE HookInv'
  BY <1>2 DEF Shutdown, vars, HookInv, Holders, Hookers, Between, configs, nat
<1>b. ASSUME NEW r \in Reloaders, ReloadFromDisk(r) PROVE HookInv'
  <2>1. /\ \A q \in Procs \ {r} : proc'[q].pc = proc[q].pc
        /\ UNCHANGED <<hooks, stuck>> /\ \A h \in Gens : gen'[h].rules = gen[h].rules
        /\ proc[r].pc \notin {"listen", "undo-unhook", "hook"}
        /\ proc'[r].pc \notin {"listen", "undo-unhook", "hook"}
    BY <1>b, BeginFacts
  <2> QED
    BY <1>0, <1>1, <2>1
<1>3. ASSUME NEW r \in Reloaders, Load(r) \/ ReloadFails(r) \/ UpReload(r) \/ StoreConfig(r)
      PROVE  HookInv'
  <2>1. /\ \A q \in Procs \ {r} : proc'[q] = proc[q]
        /\ UNCHANGED <<hooks, stuck>> /\ gen' = gen
        /\ proc[r].pc \notin {"listen", "undo-unhook", "hook"}
        /\ proc'[r].pc \notin {"listen", "undo-unhook", "hook"}
    BY <1>3, ReloadFacts DEF Moves
  <2> QED
    BY <1>0, <1>1, <2>1
<1>4. ASSUME NEW p \in Procs, StopServices(p) PROVE HookInv'
  <2>1. /\ \A q \in Procs \ {p} : proc'[q] = proc[q]
        /\ UNCHANGED <<hooks, stuck>> /\ \A h \in Gens : gen'[h].rules = gen[h].rules
        /\ proc[p].pc \notin {"listen", "undo-unhook", "hook"}
        /\ proc'[p].pc \notin {"listen", "undo-unhook", "hook"}
    BY <1>4, StopFacts DEF AfterStop
  <2> QED
    BY <1>1, <2>1
<1>5. ASSUME NEW p \in Procs, Wait(p) PROVE HookInv'
  <2>1. /\ \A q \in Procs \ {p} : proc'[q] = proc[q]
        /\ UNCHANGED <<hooks, stuck>> /\ gen' = gen
        /\ proc[p].pc \notin {"listen", "undo-unhook", "hook"}
        /\ proc'[p].pc \notin {"listen", "undo-unhook", "hook"}
    BY <1>5, WaitFacts DEF AfterStop, Moves
  <2> QED
    BY <1>1, <2>1
<1>6. ASSUME NEW r \in Procs, NewContext(r) PROVE HookInv'
  <2>1. /\ \A q \in Procs \ {r} : proc'[q] = proc[q]
        /\ UNCHANGED <<hooks, stuck>> /\ lastGen' = lastGen + 1 /\ lastGen' \in Gens
        /\ gen'[lastGen'] = NewGeneration(proc[r].cfg, proc[r].crowded)
        /\ \A h \in Gens \ {lastGen'} : gen'[h] = gen[h]
        /\ proc[r].pc \notin {"listen", "undo-unhook", "hook"}
        /\ proc'[r].pc \notin {"listen", "undo-unhook", "hook"}
    BY <1>6, NewContextFacts
  <2>2. gen'[lastGen'].rules = "none"
    <3>1. NewGeneration(proc[r].cfg, proc[r].crowded).rules = "none"
      BY DEF NewGeneration
    <3> QED
      BY <2>1, <3>1
  <2>3. gen[lastGen'].rules = "none"
    <3>1. lastGen' > lastGen
      BY <1>0, <2>1, BoundAssumption
    <3> QED
      BY <2>1, <3>1 DEF OwnInv
  <2>4. \A h \in Gens : gen'[h].rules = gen[h].rules
    BY <2>1, <2>2, <2>3
  <2> QED
    BY <1>1, <2>1, <2>4
<1>7. ASSUME NEW r \in Procs, StartForward(r) \/ StartSocks(r) PROVE HookInv'
  <2>1. proc[r].gen \in Gens
    BY <1>o, <1>7 DEF Building, StartForward, StartSocks, At
  <2>2. /\ \A q \in Procs \ {r} : proc'[q] = proc[q]
        /\ UNCHANGED <<hooks, stuck>> /\ \A h \in Gens : gen'[h].rules = gen[h].rules
        /\ proc[r].pc \notin {"listen", "undo-unhook", "hook"}
        /\ proc'[r].pc \notin {"listen", "undo-unhook", "hook"}
    <3>1. CASE StartForward(r)
      BY <2>1, <3>1, StartForwardFacts
    <3>2. CASE StartSocks(r)
      BY <2>1, <3>2, StartSocksFacts
    <3> QED
      BY <1>7, <3>1, <3>2
  <2> QED
    BY <1>1, <2>2
<1>8. ASSUME NEW r \in Procs,
             NewChain(r) \/ Flush(r) \/ Fill(r) \/ Unhook(r) \/ Hook(r) \/ ApplyFails(r)
               \/ RangeListenFails(r) \/ UndoRules(r)
      PROVE  HookInv'
  <2>0. gen' = gen /\ \A q \in Procs \ {r} : proc'[q] = proc[q]
    BY <1>8, RulesFacts DEF Moves
  <2>1. Holders' = Holders
    BY <2>0, HoldersFrame
  <2>2. /\ Hookers' = (IF proc'[r].pc \in {"listen", "undo-unhook"}
                       THEN Hookers \cup {r} ELSE Hookers \ {r})
        /\ Between' = (IF proc'[r].pc = "hook" THEN Between \cup {r} ELSE Between \ {r})
    BY <2>0, MoveSets
  <2>3. /\ r \in Hookers <=> proc[r].pc \in {"listen", "undo-unhook"}
        /\ r \in Between <=> proc[r].pc = "hook"
    BY DEF Hookers, Between
  <2>4. CASE Moves(r, {"unhook"}, {"hook"}) /\ (DeleteHook \/ HookStays)
    <3>1. Hookers' = Hookers /\ Between' = Between \cup {r} /\ r \notin Between
      BY <2>2, <2>3, <2>4 DEF Moves
    <3>2. Cardinality(Between') = Cardinality(Between) + 1
      BY <1>s, <3>1, OneMore
    <3>3. /\ hooks' \in Nat /\ stuck' \in Nat
          /\ hooks' + stuck + 1 = hooks + stuck' \/ (hooks' = 0 /\ stuck' = stuck)
      BY <1>0, <2>4, HookLess
    <3> QED
      BY <1>0, <1>s, <2>1, <3>1, <3>2, <3>3 DEF HookInv
  <2>5. CASE Moves(r, {"hook"}, {"listen"}) /\ hooks' = hooks + 1 /\ stuck' = stuck
    <3>1. Hookers' = Hookers \cup {r} /\ r \notin Hookers
          /\ Between' = Between \ {r} /\ r \in Between
      BY <2>2, <2>3, <2>5 DEF Moves
    <3>2. Cardinality(Between') = Cardinality(Between) - 1
      BY <1>s, <3>1, OneLess
    <3>3. Cardinality(Hookers') = Cardinality(Hookers) + 1
      BY <1>s, <3>1, OneMore
    <3> QED
      BY <1>0, <1>s, <2>1, <2>5, <3>2, <3>3 DEF HookInv
  <2>6. CASE Moves(r, {"undo-unhook"}, {"undo-flush"}) /\ (DeleteHook \/ HookStays)
    <3>1. Hookers' = Hookers \ {r} /\ r \in Hookers /\ Between' = Between
      BY <2>2, <2>3, <2>6 DEF Moves
    <3>2. Cardinality(Hookers') = Cardinality(Hookers) - 1
      BY <1>s, <3>1, OneLess
    <3>3. /\ hooks' \in Nat /\ stuck' \in Nat
          /\ hooks' + stuck + 1 = hooks + stuck' \/ (hooks' = 0 /\ stuck' = stuck)
      BY <1>0, <2>6, HookLess
    <3> QED
      BY <1>0, <1>s, <2>1, <3>1, <3>2, <3>3 DEF HookInv
  <2>7. CASE Moves(r, {"flush", "fill", "hook"}, {"idle", "run"}) /\ UNCHANGED <<hooks, stuck>>
    <3>1. Hookers' = Hookers /\ Between' = Between \ {r}
      BY <2>2, <2>3, <2>7 DEF Moves
    <3>2. Cardinality(Between') <= Cardinality(Between)
      BY <1>s, <3>1, FS_Subset
    <3> QED
      BY <1>0, <1>s, <2>1, <2>7, <3>1, <3>2 DEF HookInv
  <2>8. CASE Moves(r, {"listen"}, {"undo-unhook"}) /\ UNCHANGED <<hooks, stuck>>
    <3>1. Hookers' = Hookers /\ Between' = Between
      BY <2>2, <2>3, <2>8 DEF Moves
    <3> QED
      BY <2>1, <2>8, <3>1, HookFrame
  <2>9. CASE /\ UNCHANGED <<hooks, stuck>>
             /\ \/ Moves(r, {"new"}, {"flush"}) \/ Moves(r, {"flush"}, {"fill"})
                \/ Moves(r, {"fill"}, {"unhook"}) \/ Moves(r, {"undo-flush"}, {"undo-delete"})
                \/ Moves(r, {"undo-delete"}, {"idle", "run"})
    <3>1. Hookers' = Hookers /\ Between' = Between
      BY <2>2, <2>3, <2>9 DEF Moves
    <3> QED
      BY <2>1, <2>9, <3>1, HookFrame
  <2> QED
    BY <1>8, <2>4, <2>5, <2>6, <2>7, <2>8, <2>9, RulesFacts
<1>9. ASSUME NEW r \in Procs, RangeListen(r) PROVE HookInv'
  <2>0. Building(r) /\ proc[r].gen \in Gens
    BY <1>o, <1>9 DEF Building, RangeListen, At
  <2> DEFINE g == proc[r].gen
  <2>1. /\ \A q \in Procs \ {r} : proc'[q] = proc[q]
        /\ \A h \in Gens \ {g} : gen'[h] = gen[h]
        /\ gen'[g].rules = "wait" /\ UNCHANGED <<hooks, stuck>>
        /\ proc[r].pc = "listen" /\ proc'[r].pc \in {"idle", "run"}
    BY <1>9, <2>0, RangeListenFacts
  <2>2. gen[g].rules = "none" /\ g \in Gens
    BY <2>0 DEF OwnInv
  <2> HIDE DEF g
  <2>3. Holders' = Holders \cup {g} /\ g \notin Holders
    <3>1. Holders' = {h \in Gens : gen'[h].rules \in {"wait", "unhook"}}
      BY DEF Holders
    <3> QED
      BY <2>1, <2>2, <3>1 DEF Holders
  <2>4. Hookers' = Hookers \ {r} /\ r \in Hookers /\ Between' = Between \ {r} /\ r \notin Between
    <3>1. r \in Hookers /\ r \notin Between
      BY <2>1 DEF Hookers, Between
    <3> QED
      BY <2>1, <3>1, MoveSets
  <2>5. Between' = Between
    BY <2>4
  <2>6. Cardinality(Holders') = Cardinality(Holders) + 1
    BY <1>s, <2>3, OneMore
  <2>7. Cardinality(Hookers') = Cardinality(Hookers) - 1
    BY <1>s, <2>4, OneLess
  <2> QED
    BY <1>0, <1>s, <2>1, <2>5, <2>6, <2>7 DEF HookInv
<1>10. ASSUME MainStop \/ MainClose PROVE HookInv'
  <2>1. /\ \A q \in Procs \ {Main} : proc'[q] = proc[q]
        /\ UNCHANGED <<hooks, stuck>> /\ gen' = gen
        /\ proc[Main].pc \notin {"listen", "undo-unhook", "hook"}
        /\ proc'[Main].pc \notin {"listen", "undo-unhook", "hook"}
    BY <1>10, MainFacts DEF Moves
  <2> QED
    BY <1>0, <1>1, <2>1
<1>11. ASSUME NEW g \in Gens, Goroutine(g) PROVE HookInv'
  <2>1. proc' = proc /\ \A h \in Gens \ {g} : gen'[h] = gen[h]
    BY <1>11, GoroutineFacts
  <2>2. Hookers' = Hookers /\ Between' = Between
    BY <2>1 DEF Hookers, Between
  <2>3. gen \in [Gens -> Generation] /\ gen[g] \in Generation
    BY DEF TypeInv
  <2>4. CASE /\ UNCHANGED <<hooks, stuck>>
             /\ \/ gen'[g].rules = gen[g].rules
                \/ gen[g].rules \in {"wait", "unhook"} /\ gen'[g].rules \in {"wait", "unhook"}
                \/ gen[g].rules \notin {"wait", "unhook"} /\ gen'[g].rules \notin {"wait", "unhook"}
    <3>1. Holders' = Holders
      <4>1. Holders' = {h \in Gens : gen'[h].rules \in {"wait", "unhook"}}
        BY DEF Holders
      <4> QED
        BY <2>1, <2>4, <4>1 DEF Holders
    <3> QED
      BY <2>2, <2>4, <3>1, HookFrame
  <2>5. CASE (DeleteHook \/ HookStays) /\ gen[g].rules = "unhook" /\ gen'[g].rules = "flush"
    <3>1. Holders' = Holders \ {g} /\ g \in Holders
      <4>1. Holders' = {h \in Gens : gen'[h].rules \in {"wait", "unhook"}}
        BY DEF Holders
      <4> QED
        BY <2>1, <2>5, <4>1 DEF Holders
    <3>2. Cardinality(Holders') = Cardinality(Holders) - 1
      BY <1>s, <3>1, OneLess
    <3>3. /\ hooks' \in Nat /\ stuck' \in Nat
          /\ hooks' + stuck + 1 = hooks + stuck' \/ (hooks' = 0 /\ stuck' = stuck)
      BY <1>0, <2>5, HookLess
    <3> QED
      BY <1>0, <1>s, <2>2, <3>2, <3>3 DEF HookInv
  <2>6. CASE Forward(g)
    <3>1. UNCHANGED <<hooks, stuck>> /\ gen'[g].rules = gen[g].rules
      BY <2>3, <2>6
      DEF Forward, ForwardListen, ForwardClose, ForwardReturn, Set, Generation, nat
    <3> QED
      BY <2>4, <3>1
  <2>7. CASE Socks(g)
    <3>1. UNCHANGED <<hooks, stuck>> /\ gen'[g].rules = gen[g].rules
      BY <2>3, <2>7 DEF Socks, SocksListen, SocksShutdown, Set, Generation, nat
    <3> QED
      BY <2>4, <3>1
  <2>8. CASE RangeClose(g)
    <3>1. UNCHANGED <<hooks, stuck>> /\ gen[g].rules = "wait" /\ gen'[g].rules = "unhook"
      BY <2>3, <2>8 DEF RangeClose, Set, Generation, nat
    <3> QED
      BY <2>4, <3>1
  <2>9. CASE RangeReturn(g)
    <3>1. UNCHANGED <<hooks, stuck>> /\ gen'[g].rules = gen[g].rules
      BY <2>3, <2>9 DEF RangeReturn, Set, Generation, nat
    <3> QED
      BY <2>4, <3>1
  <2>10. CASE RemoveRules(g)
    <3>1. \/ /\ DeleteHook \/ HookStays
             /\ gen[g].rules = "unhook" /\ gen'[g].rules = "flush"
          \/ UNCHANGED <<hooks, stuck>> /\ gen[g].rules = "flush" /\ gen'[g].rules = "delete"
          \/ UNCHANGED <<hooks, stuck>> /\ gen[g].rules = "delete" /\ gen'[g].rules = "none"
      BY <2>3, <2>10
      DEF RemoveRules, IgnoredDeleteHook, IgnoredFlush, IgnoredDelete, Set, Generation
    <3> QED
      BY <2>4, <2>5, <3>1
  <2> QED
    BY <1>11, <2>6, <2>7, <2>8, <2>9, <2>10 DEF Goroutine
<1> QED
  BY <1>2, <1>b, <1>3, <1>4, <1>5, <1>6, <1>7, <1>8, <1>9, <1>10, <1>11, NextSteps DEF Step

\* The three invariants together.
JumpInv == TypeInv /\ OwnInv /\ HookInv

LEMMA JumpInductive == Spec => []JumpInv
<1>1. Init => JumpInv
  BY InitType, InitOwn, InitHook DEF JumpInv
<1>2. JumpInv /\ [Next]_vars => JumpInv'
  BY NextType, NextOwn, NextHook DEF JumpInv
<1> QED
  BY <1>1, <1>2, PTL DEF Spec

\* However many calls overlap and whichever commands fail, every variable has its
\* type; beside the jumps that a failed iptables -D has left, PREROUTING never
\* holds more jumps to the chain than there are processes that may start services
\* (applyRules deletes a jump before it adds its own).
THEOREM TypeCorrect == Spec => []TypeOK
<1>1. JumpInv => TypeOK
  <2> SUFFICES ASSUME JumpInv PROVE TypeOK
    OBVIOUS
  <2>1. hooks \in 0..(Cardinality(Procs) + stuck)
    BY Sizes, BoundAssumption DEF JumpInv, HookInv, TypeInv
  <2> QED
    BY <2>1 DEF JumpInv, TypeInv, TypeOK
<1> QED
  BY <1>1, JumpInductive, PTL

\* However many calls overlap and wherever they fail, once no rules are being
\* installed or removed there is at most one jump for each generation that listens
\* on the redirect port and for each iptables -D that has failed (removeRules on
\* the error path of Start, and the goroutine that removes the rules after the
\* listener is closed).
THEOREM NoRedirectLeft == Spec => []NoBlackHole
<1>1. JumpInv => NoBlackHole
  <2> SUFFICES ASSUME JumpInv, RulesSettled
               PROVE  hooks <= Cardinality({g \in Gens : gen[g].range = "listen"}) + stuck
    BY DEF NoBlackHole
  <2> DEFINE Listening == {g \in Gens : gen[g].range = "listen"}
  <2>1. Hookers = {}
    BY DEF RulesSettled, Settled, Hookers, InCall
  <2>2. Cardinality(Hookers) = 0
    BY <2>1, FS_EmptySet
  <2>3. Holders \subseteq Listening
    BY DEF RulesSettled, Holders, JumpInv, OwnInv
  <2>4. IsFiniteSet(Listening) /\ Cardinality(Listening) \in Nat
    <3>1. Listening \in SUBSET Gens /\ Procs \in SUBSET Procs
      OBVIOUS
    <3> QED
      BY <3>1, Finite
  <2>5. Cardinality(Holders) <= Cardinality(Listening)
    BY <2>3, <2>4, FS_Subset
  <2> HIDE DEF Listening
  <2>6. hooks \in Nat /\ stuck \in Nat
    BY BoundAssumption DEF JumpInv, TypeInv
  <2>7. hooks <= Cardinality(Listening) + stuck
    BY <2>2, <2>4, <2>5, <2>6, Sizes DEF JumpInv, HookInv
  <2> QED
    BY <2>7 DEF Listening
<1> QED
  BY <1>1, JumpInductive, PTL

-----------------------------------------------------------------------------
(* Calls that overlap, and those that do not *)

\* svcWg counts the goroutine of forward.
Waiting(g) == gen[g].forward \in {"start", "listen", "closing"}
Quiet == \A g \in Gens : ~Waiting(g)

\* p has taken the cancel function and not yet stored another.
Stopped(p) == proc[p].pc \in {"wait", "context"}

\* The generations of which the properties speak.
Lone(g) == g <= lastGen /\ ~gen[g].shared /\ ~gen[g].cancelled

\* Run has not come to its end.
MainInv ==
    /\ proc[Main].pc \notin {"close", "exited"}
    /\ proc[Main].pc \in {"stop", "wait", "context"} => proc[Main].gen = 0

\* Two calls in progress are known to overlap, and so are their generations.
CrowdInv == \A p, q \in Procs : p # q /\ InCall(p) /\ InCall(q) => proc[p].crowded
MarkInv ==
    \A p \in Procs : InCall(p) /\ proc[p].gen # 0 /\ proc[p].crowded => gen[proc[p].gen].shared

\* While a call has no generation stored, only one that overlaps it has.
StoredInv == \A p \in Procs : Stopped(p) => svcCancel = 0 \/ gen[svcCancel].shared

\* A lone generation is the stored one, and the only one with forward running or
\* about to run.
LoneInv ==
    \A g \in Gens : Lone(g) => /\ g = svcCancel
                               /\ \A h \in Gens \ {g} : ~Waiting(h)
                               /\ \A p \in Procs : At(p, "forward") => proc[p].gen = g
BindInv == \A g \in Gens : gen[g].forward = "failed" /\ ~gen[g].shared => gen[g].cancelled

\* A call that overlaps no other has seen forward end before it goes on; Run, when
\* it begins, has none to wait for.
ContextInv == \A p \in Procs : At(p, "context") /\ ~proc[p].crowded => Quiet
FirstInv == At(Main, "stop") /\ ~proc[Main].crowded => Quiet

\* No cancel function is stored only while somebody has taken it, or at first.
NoneInv == svcCancel = 0 => (\E p \in Procs : Stopped(p)) \/ At(Main, "stop")

\* How far a call that overlaps no other has come in making the configurations
\* agree; and they do agree, unless somebody is about to replace the services.
StageInv ==
    \A p \in Procs : ~proc[p].crowded =>
       /\ At(p, "store") => upCfg = proc[p].cfg
       /\ At(p, "stop") \/ Stopped(p) => upCfg = cfg /\ cfg = proc[p].cfg
AgreeInv ==
    svcCancel # 0 /\ ~gen[svcCancel].shared =>
       \/ cfg = upCfg /\ gen[svcCancel].cfg = cfg
       \/ \E p \in Procs : At(p, "store") \/ At(p, "stop")

\* Until the client shuts down.
Steady ==
    /\ MainInv /\ CrowdInv /\ MarkInv /\ StoredInv /\ LoneInv /\ BindInv
    /\ ContextInv /\ FirstInv /\ NoneInv /\ StageInv /\ AgreeInv
OverlapInv == ~ctxDone => Steady

LEMMA InitSteady == Init => Steady
<1> SUFFICES ASSUME Init PROVE Steady
  OBVIOUS
<1>1. /\ proc[Main].pc = "stop" /\ proc[Main].gen = 0 /\ proc[Main].cfg = FirstCfg
      /\ \A p \in Procs : p # Main => proc[p].pc = "idle"
      /\ \A g \in Gens : gen[g].forward = "off"
  BY InitFacts DEF Procs
<1>2. svcCancel = 0 /\ cfg = FirstCfg /\ upCfg = FirstCfg /\ lastGen = 0
  BY DEF Init
<1>3. Quiet /\ BindInv
  BY <1>1 DEF Quiet, Waiting, BindInv
<1>4. MainInv /\ ContextInv /\ FirstInv /\ NoneInv
  BY <1>1, <1>3 DEF MainInv, ContextInv, FirstInv, NoneInv, At
<1>5. CrowdInv /\ MarkInv /\ StoredInv
  BY <1>1, <1>2 DEF CrowdInv, MarkInv, StoredInv, InCall, Stopped
<1>6. LoneInv
  <2>1. \A g \in Gens : ~Lone(g)
    BY <1>2, BoundAssumption DEF Lone, Gens
  <2> QED
    BY <2>1 DEF LoneInv
<1>7. StageInv /\ AgreeInv
  BY <1>1, <1>2 DEF StageInv, AgreeInv, At, Stopped
<1> QED
  BY <1>3, <1>4, <1>5, <1>6, <1>7 DEF Steady

\* What a step may do to the generations without concerning the invariant.
SameGens ==
    /\ UNCHANGED <<cfg, upCfg, svcCancel, lastGen>>
    /\ \A h \in Gens :
          /\ gen'[h].cfg = gen[h].cfg /\ gen'[h].cancelled = gen[h].cancelled
          /\ gen'[h].shared = gen[h].shared
          /\ Waiting(h)' => Waiting(h)

\* A step of a process that has nothing to do with the stored generation.
LEMMA TailSteady ==
    ASSUME TypeInv, Steady, SameGens, NEW p \in Procs,
           \A h \in Gens : gen'[h].forward = gen[h].forward,
           \A q \in Procs \ {p} : proc'[q] = proc[q],
           proc[p].pc \notin {"store", "stop", "wait", "context"},
           proc'[p].pc \notin {"store", "stop", "wait", "context", "forward", "close", "exited"},
           InCall(p)' => InCall(p),
           proc'[p].pc # "idle" => proc'[p].gen = proc[p].gen /\ proc'[p].crowded = proc[p].crowded
    PROVE  Steady'
<1>0. /\ \A q \in Procs : proc[q].gen \in 0..MaxGen
      /\ svcCancel \in 0..MaxGen /\ MaxGen \in Nat /\ Main \in Procs
  BY ProcType, BoundAssumption DEF TypeInv, Procs
<1>g. /\ svcCancel # 0 => svcCancel \in Gens
      /\ \A q \in Procs : proc[q].gen # 0 => proc[q].gen \in Gens
  BY <1>0 DEF Gens
<1>1. \A q \in Procs :
         /\ InCall(q)' => InCall(q) /\ proc'[q].gen = proc[q].gen /\ proc'[q].crowded = proc[q].crowded
         /\ \A x \in {"store", "stop", "wait", "context"} : proc'[q].pc = x <=> proc[q].pc = x
         /\ proc'[q].pc \in {"store", "stop", "wait", "context", "forward"} => proc'[q] = proc[q]
  BY DEF InCall
<1>2. MainInv'
  BY <1>0, <1>1 DEF Steady, MainInv
<1>3. CrowdInv'
  BY <1>1 DEF Steady, CrowdInv
<1>4. MarkInv'
  BY <1>1, <1>g DEF Steady, MarkInv, SameGens
<1>5. StoredInv'
  BY <1>1, <1>g DEF Steady, StoredInv, SameGens, Stopped
<1>6. LoneInv'
  <2>1. \A g \in Gens : Lone(g)' => Lone(g)
    BY DEF Lone, SameGens
  <2>2. \A q \in Procs : At(q, "forward")' => At(q, "forward") /\ proc'[q].gen = proc[q].gen
    BY <1>1 DEF At
  <2> QED
    BY <2>1, <2>2 DEF Steady, LoneInv, SameGens
<1>7. BindInv'
  BY DEF Steady, BindInv, SameGens
<1>8. Quiet => Quiet'
  BY DEF Quiet, SameGens
<1>9. ContextInv' /\ FirstInv'
  BY <1>0, <1>1, <1>8 DEF Steady, ContextInv, FirstInv, At
<1>10. NoneInv'
  BY <1>0, <1>1 DEF Steady, NoneInv, Stopped, At, SameGens
<1>11. StageInv'
  BY <1>1 DEF Steady, StageInv, Stopped, At, SameGens
<1>12. AgreeInv'
  BY <1>1, <1>g DEF Steady, AgreeInv, At, SameGens
<1> QED
  BY <1>2, <1>3, <1>4, <1>5, <1>6, <1>7, <1>9, <1>10, <1>11, <1>12 DEF Steady

\* What the invariant says of a generation and of a process is defined for both.
LEMMA Ranging ==
    ASSUME TypeInv
    PROVE  /\ Main \in Procs /\ Reloaders \subseteq Procs /\ Main \notin Reloaders
           /\ svcCancel # 0 => svcCancel \in Gens
           /\ \A p \in Procs : proc[p].gen # 0 => proc[p].gen \in Gens
<1>1. /\ \A p \in Procs : proc[p].gen \in 0..MaxGen
      /\ svcCancel \in 0..MaxGen /\ MaxGen \in Nat
  BY ProcType, BoundAssumption DEF TypeInv
<1> QED
  BY <1>1, ProcAssumption DEF Procs, Gens

\* A reload begins, and marks what it overlaps.
LEMMA BeginSteady ==
    ASSUME TypeInv, Steady, NEW r \in Reloaders, ReloadFromDisk(r)
    PROVE  Steady'
<1>0. /\ r \in Procs /\ r # Main /\ Main \in Procs
      /\ svcCancel # 0 => svcCancel \in Gens
      /\ \A p \in Procs : proc[p].gen # 0 => proc[p].gen \in Gens
  BY Ranging
<1>1. /\ proc[r].pc = "idle" /\ proc'[r].pc = "load" /\ proc'[r].gen = 0
      /\ \A q \in Procs \ {r} : /\ proc'[q].pc = proc[q].pc /\ proc'[q].cfg = proc[q].cfg
                                /\ proc'[q].gen = proc[q].gen
      /\ UNCHANGED <<cfg, upCfg, svcCancel, lastGen>>
      /\ \A g \in Gens : /\ gen'[g].cfg = gen[g].cfg /\ gen'[g].cancelled = gen[g].cancelled
                         /\ gen'[g].forward = gen[g].forward
  BY BeginFacts
<1>2. /\ (\E q \in Procs \ {r} : InCall(q)) => proc'[r].crowded
      /\ \A q \in Procs \ {r} : InCall(q) => proc'[q].crowded
  BY BeginFacts DEF Others
<1>3. \A g \in Gens : /\ gen[g].shared => gen'[g].shared
                      /\ (\E q \in Procs \ {r} : InCall(q) /\ proc[q].gen = g) => gen'[g].shared
  <2>1. \A g \in Gens :
           gen'[g].shared = ((\E q \in Others(r) : proc[q].gen = g) \/ gen[g].shared)
    BY BeginFacts
  <2> QED
    BY <2>1, Zenon DEF Others
<1>4. /\ \A q \in Procs \ {r} : InCall(q)' <=> InCall(q)
      /\ \A q \in Procs : \A x \in {"store", "stop", "wait", "context", "forward"} :
            proc'[q].pc = x <=> proc[q].pc = x
      /\ InCall(r)'
  BY <1>1 DEF InCall
<1>5. MainInv'
  BY <1>0, <1>1 DEF Steady, MainInv
<1>6. CrowdInv'
  BY <1>2, <1>4 DEF CrowdInv
<1>7. MarkInv'
  BY <1>0, <1>1, <1>3, <1>4 DEF MarkInv
<1>8. StoredInv'
  BY <1>0, <1>1, <1>3, <1>4 DEF Steady, StoredInv, Stopped
<1>9. LoneInv'
  <2>1. \A g \in Gens : /\ Lone(g)' => Lone(g)
                        /\ Waiting(g)' <=> Waiting(g)
    BY <1>1, <1>3 DEF Lone, Waiting
  <2>2. \A q \in Procs : At(q, "forward")' => At(q, "forward") /\ proc'[q].gen = proc[q].gen
    BY <1>1, <1>4 DEF At
  <2> QED
    BY <1>1, <2>1, <2>2 DEF Steady, LoneInv
<1>10. BindInv'
  BY <1>1, <1>3 DEF Steady, BindInv
<1>11. \A q \in Procs : At(q, "context")' \/ At(q, "stop")' \/ At(q, "store")' \/ Stopped(q)' =>
          proc'[q].crowded
  BY <1>1, <1>2, <1>4 DEF At, Stopped, InCall
<1>12. ContextInv' /\ FirstInv' /\ StageInv'
  BY <1>0, <1>11 DEF ContextInv, FirstInv, StageInv
<1>13. NoneInv'
  BY <1>0, <1>1, <1>4 DEF Steady, NoneInv, Stopped, At
<1>14. AgreeInv'
  BY <1>0, <1>1, <1>3, <1>4 DEF Steady, AgreeInv, At
<1> QED
  BY <1>5, <1>6, <1>7, <1>8, <1>9, <1>10, <1>12, <1>13, <1>14 DEF Steady

\* up.Reload, and the configuration is stored.
LEMMA ConfigSteady ==
    ASSUME TypeInv, Steady, NEW r \in Reloaders, UpReload(r) \/ StoreConfig(r)
    PROVE  Steady'
<1>0. /\ r \in Procs /\ r # Main /\ Main \in Procs
      /\ svcCancel # 0 => svcCancel \in Gens
      /\ \A p \in Procs : proc[p].gen # 0 => proc[p].gen \in Gens
  BY Ranging
<1>1. /\ UNCHANGED <<svcCancel, gen, lastGen>>
      /\ \A q \in Procs \ {r} : proc'[q] = proc[q]
      /\ proc'[r].gen = proc[r].gen /\ proc'[r].crowded = proc[r].crowded
      /\ proc'[r].cfg = proc[r].cfg
      /\ \/ proc[r].pc = "reload" /\ proc'[r].pc = "store" /\ upCfg' = proc[r].cfg /\ cfg' = cfg
         \/ proc[r].pc = "store" /\ proc'[r].pc = "stop" /\ cfg' = proc[r].cfg /\ upCfg' = upCfg
  BY ReloadFacts DEF Moves, Same
<1>2. /\ \A q \in Procs : /\ InCall(q)' <=> InCall(q)
                          /\ proc'[q].gen = proc[q].gen /\ proc'[q].crowded = proc[q].crowded
                          /\ \A x \in {"wait", "context", "forward"} : proc'[q].pc = x <=> proc[q].pc = x
      /\ InCall(r)
  BY <1>1 DEF InCall
<1>3. MainInv'
  BY <1>0, <1>1 DEF Steady, MainInv
<1>4. CrowdInv' /\ MarkInv'
  BY <1>1, <1>2 DEF Steady, CrowdInv, MarkInv
<1>5. StoredInv'
  BY <1>1, <1>2 DEF Steady, StoredInv, Stopped
<1>6. LoneInv'
  <2>1. \A g \in Gens : (Lone(g)' <=> Lone(g)) /\ (Waiting(g)' <=> Waiting(g))
    BY <1>1 DEF Lone, Waiting
  <2>2. \A q \in Procs : At(q, "forward")' => At(q, "forward") /\ proc'[q].gen = proc[q].gen
    BY <1>2 DEF At
  <2> QED
    BY <1>1, <2>1, <2>2 DEF Steady, LoneInv
<1>7. BindInv'
  BY <1>1 DEF Steady, BindInv
<1>8. Quiet => Quiet'
  BY <1>1 DEF Quiet, Waiting
<1>9. ContextInv' /\ FirstInv'
  BY <1>0, <1>1, <1>2, <1>8 DEF Steady, ContextInv, FirstInv, At
<1>10. NoneInv'
  BY <1>0, <1>1, <1>2 DEF Steady, NoneInv, Stopped, At
<1>11. StageInv'
  <2> SUFFICES ASSUME NEW q \in Procs, ~proc'[q].crowded
               PROVE  /\ At(q, "store")' => upCfg' = proc'[q].cfg
                      /\ At(q, "stop")' \/ Stopped(q)' => upCfg' = cfg' /\ cfg' = proc'[q].cfg
    BY DEF StageInv
  <2>1. CASE q = r
    BY <1>1, <2>1 DEF Steady, StageInv, At, Stopped
  <2>2. CASE q # r
    <3>1. InCall(q) => proc[q].crowded
      BY <1>0, <1>2, <2>2 DEF Steady, CrowdInv
    <3>2. proc'[q] = proc[q] /\ ~proc[q].crowded
      BY <1>1, <2>2
    <3>3. ~InCall(q)
      BY <3>1, <3>2
    <3> QED
      BY <3>2, <3>3 DEF InCall, At, Stopped
  <2> QED
    BY <2>1, <2>2
<1>12. AgreeInv'
  BY <1>0, <1>1 DEF AgreeInv, At
<1> QED
  BY <1>3, <1>4, <1>5, <1>6, <1>7, <1>9, <1>10, <1>11, <1>12 DEF Steady

\* stopServices takes the stored generation away; a call that overlaps no other
\* finds none only when nothing runs.
LEMMA StopSteady ==
    ASSUME TypeInv, Steady, NEW p \in Procs, StopServices(p)
    PROVE  Steady'
<1>0. /\ Main \in Procs
      /\ \A q \in Procs : proc[q].gen # 0 => proc[q].gen \in Gens
  BY Ranging
<1>1. /\ proc[p].pc = "stop" /\ svcCancel' = 0
      /\ proc'[p].pc = (IF svcCancel = 0 THEN AfterStop(p) ELSE "wait")
      /\ proc'[p].gen = proc[p].gen /\ proc'[p].crowded = proc[p].crowded
      /\ proc'[p].cfg = proc[p].cfg
      /\ \A q \in Procs \ {p} : proc'[q] = proc[q]
      /\ UNCHANGED <<cfg, upCfg, lastGen>>
      /\ \A h \in Gens : gen'[h].cfg = gen[h].cfg /\ gen'[h].forward = gen[h].forward
                         /\ gen'[h].shared = gen[h].shared
  BY StopFacts DEF Same
<1>2. \A h \in Gens : (gen[h].cancelled => gen'[h].cancelled) /\ (h = svcCancel => gen'[h].cancelled)
  <2>1. \A h \in Gens : gen'[h].cancelled = (gen[h].cancelled \/ h = svcCancel)
    BY StopFacts
  <2> QED
    BY <2>1, Zenon
<1>3. proc'[p].pc = (IF svcCancel = 0 THEN "context" ELSE "wait")
  BY <1>1 DEF Steady, MainInv, AfterStop
<1>4. /\ \A q \in Procs : /\ InCall(q)' <=> InCall(q)
                          /\ proc'[q].gen = proc[q].gen /\ proc'[q].crowded = proc[q].crowded
                          /\ proc'[q].pc = "forward" <=> proc[q].pc = "forward"
      /\ InCall(p)
  BY <1>1, <1>3 DEF InCall
<1>5. \A q \in Procs \ {p} : InCall(q) => proc[q].crowded /\ proc[p].crowded
  BY <1>4 DEF Steady, CrowdInv
<1>6. MainInv'
  BY <1>0, <1>1, <1>3 DEF Steady, MainInv
<1>7. CrowdInv' /\ MarkInv'
  BY <1>0, <1>1, <1>4 DEF Steady, CrowdInv, MarkInv
<1>8. StoredInv' /\ AgreeInv'
  BY <1>1 DEF StoredInv, AgreeInv
<1>9. LoneInv'
  <2>1. \A g \in Gens : ~Lone(g)'
    BY <1>1, <1>2 DEF Steady, LoneInv, Lone
  <2> QED
    BY <2>1 DEF LoneInv
<1>10. BindInv'
  BY <1>1, <1>2 DEF Steady, BindInv
<1>11. Quiet => Quiet'
  BY <1>1 DEF Quiet, Waiting
<1>12. ContextInv'
  <2> SUFFICES ASSUME NEW q \in Procs, At(q, "context")', ~proc'[q].crowded PROVE Quiet'
    BY DEF ContextInv
  <2>1. q = p
    <3> SUFFICES ASSUME q # p PROVE FALSE
      OBVIOUS
    <3>1. proc'[q] = proc[q] /\ InCall(q)
      BY <1>1 DEF At, InCall
    <3> QED
      BY <1>5, <3>1
  <2>2. svcCancel = 0 /\ ~proc[p].crowded
    BY <1>1, <1>3, <2>1 DEF At
  <2>3. \A s \in Procs \ {p} : ~InCall(s)
    BY <1>5, <2>2
  <2>4. p = Main
    BY <1>0, <1>1, <2>2, <2>3 DEF Steady, NoneInv, Stopped, InCall, At
  <2>5. Quiet
    BY <1>1, <2>2, <2>4 DEF Steady, FirstInv, At
  <2> QED
    BY <1>11, <2>5
<1>13. FirstInv'
  <2>1. At(Main, "stop")' => Main # p /\ proc'[Main] = proc[Main] /\ InCall(Main)
    BY <1>0, <1>1, <1>3 DEF At, InCall
  <2> QED
    BY <1>0, <1>5, <2>1 DEF FirstInv
<1>14. NoneInv'
  BY <1>3 DEF NoneInv, Stopped
<1>15. StageInv'
  <2> SUFFICES ASSUME NEW q \in Procs, ~proc'[q].crowded
               PROVE  /\ At(q, "store")' => upCfg' = proc'[q].cfg
                      /\ At(q, "stop")' \/ Stopped(q)' => upCfg' = cfg' /\ cfg' = proc'[q].cfg
    BY DEF StageInv
  <2>1. CASE q = p
    BY <1>1, <1>3, <2>1 DEF Steady, StageInv, At, Stopped
  <2>2. CASE q # p
    BY <1>1, <2>2 DEF Steady, StageInv, At, Stopped
  <2> QED
    BY <2>1, <2>2
<1> QED
  BY <1>6, <1>7, <1>8, <1>9, <1>10, <1>12, <1>13, <1>14, <1>15 DEF Steady

\* stopServices has seen every service end.
LEMMA WaitSteady ==
    ASSUME TypeInv, Steady, NEW p \in Procs, Wait(p)
    PROVE  Steady'
<1>0. Main \in Procs
  BY Ranging
<1>1. /\ proc[p].pc = "wait" /\ proc'[p].pc = AfterStop(p) /\ AfterStop(p) # "idle"
      /\ proc'[p].pc # "idle" => Same(p)
      /\ \A q \in Procs \ {p} : proc'[q] = proc[q]
      /\ UNCHANGED <<cfg, upCfg, svcCancel, gen, lastGen>>
      /\ \A g \in Gens : ~InWaitGroup(g)
  BY WaitFacts DEF Moves, AfterStop
<1>2. proc'[p].pc = "context" /\ Same(p)
  BY <1>1 DEF Steady, MainInv, AfterStop
<1>3. \A q \in Procs : /\ InCall(q)' <=> InCall(q)
                       /\ proc'[q].gen = proc[q].gen /\ proc'[q].crowded = proc[q].crowded
                       /\ proc'[q].cfg = proc[q].cfg
                       /\ Stopped(q)' <=> Stopped(q)
                       /\ \A x \in {"store", "stop", "forward"} : proc'[q].pc = x <=> proc[q].pc = x
  BY <1>1, <1>2 DEF InCall, Stopped, Same
<1>4. Quiet'
  BY <1>1 DEF Quiet, Waiting, InWaitGroup
<1>5. MainInv'
  BY <1>0, <1>1, <1>2, <1>3 DEF Steady, MainInv, Same
<1>6. CrowdInv' /\ MarkInv' /\ StoredInv'
  BY <1>1, <1>3 DEF Steady, CrowdInv, MarkInv, StoredInv
<1>7. LoneInv'
  <2>1. \A g \in Gens : (Lone(g)' <=> Lone(g)) /\ (Waiting(g)' <=> Waiting(g))
    BY <1>1 DEF Lone, Waiting
  <2> QED
    BY <1>1, <1>3, <2>1 DEF Steady, LoneInv, At
<1>8. BindInv'
  BY <1>1 DEF Steady, BindInv
<1>9. ContextInv' /\ FirstInv'
  BY <1>4 DEF ContextInv, FirstInv
<1>10. NoneInv' /\ StageInv' /\ AgreeInv'
  BY <1>0, <1>1, <1>3 DEF Steady, NoneInv, StageInv, AgreeInv, At
<1> QED
  BY <1>5, <1>6, <1>7, <1>8, <1>9, <1>10 DEF Steady

\* The new generation is stored.  If no call overlaps the one that makes it,
\* nothing else runs.
LEMMA ContextSteady ==
    ASSUME TypeInv, OwnInv, Steady, NEW p \in Procs, NewContext(p)
    PROVE  Steady'
<1>0. /\ Main \in Procs
      /\ \A q \in Procs : proc[q].gen # 0 => proc[q].gen \in Gens
      /\ proc[p].cfg \in Configs /\ proc[p].crowded \in BOOLEAN
  BY Ranging, ProcType DEF TypeInv
<1> DEFINE n == lastGen'
<1>1. /\ n = lastGen + 1 /\ n \in Gens /\ svcCancel' = n
      /\ gen'[n] = NewGeneration(proc[p].cfg, proc[p].crowded)
      /\ \A h \in Gens \ {n} : gen'[h] = gen[h]
      /\ proc[p].pc = "context" /\ proc'[p].pc = "forward" /\ proc'[p].gen = n
      /\ proc'[p].cfg = proc[p].cfg /\ proc'[p].crowded = proc[p].crowded
      /\ \A q \in Procs \ {p} : proc'[q] = proc[q]
      /\ UNCHANGED <<cfg, upCfg>>
  BY NewContextFacts
<1>2. /\ gen'[n].cfg = proc[p].cfg /\ gen'[n].cancelled = FALSE /\ gen'[n].forward = "off"
      /\ gen'[n].shared = proc[p].crowded
  BY <1>1 DEF NewGeneration
<1>3. /\ n # 0 /\ lastGen \in Int /\ \A h \in Gens : h \in Int
      /\ \A q \in Procs : proc[q].gen # n
  BY <1>1, BoundAssumption, ProcType DEF OwnInv, TypeInv, Gens
<1> HIDE DEF n
<1>4. /\ \A q \in Procs : InCall(q)' <=> InCall(q)
      /\ InCall(p)
  BY <1>1 DEF InCall
<1>5. \A q \in Procs \ {p} : InCall(q) => proc[q].crowded /\ proc[p].crowded
  BY <1>4 DEF Steady, CrowdInv
<1>6. MainInv'
  BY <1>0, <1>1 DEF Steady, MainInv
<1>7. CrowdInv'
  BY <1>1, <1>4 DEF Steady, CrowdInv
<1>8. MarkInv'
  <2> SUFFICES ASSUME NEW q \in Procs, InCall(q)', proc'[q].gen # 0, proc'[q].crowded
               PROVE  gen'[proc'[q].gen].shared
    BY DEF MarkInv
  <2>1. CASE q = p
    BY <1>1, <1>2, <2>1
  <2>2. CASE q # p
    BY <1>0, <1>1, <1>3, <1>4, <2>2 DEF Steady, MarkInv
  <2> QED
    BY <2>1, <2>2
<1>9. StoredInv'
  <2> SUFFICES ASSUME NEW q \in Procs, Stopped(q)' PROVE gen'[n].shared
    BY <1>1 DEF StoredInv
  <2>1. q # p /\ InCall(q)
    BY <1>1 DEF Stopped, InCall
  <2> QED
    BY <1>2, <1>5, <2>1
<1>10. LoneInv'
  <2> SUFFICES ASSUME NEW g \in Gens, Lone(g)'
               PROVE  /\ g = svcCancel'
                      /\ \A h \in Gens \ {g} : ~Waiting(h)'
                      /\ \A q \in Procs : At(q, "forward")' => proc'[q].gen = g
    BY DEF LoneInv
  <2>1. g = n
    <3> SUFFICES ASSUME g # n PROVE FALSE
      OBVIOUS
    <3>0. g <= lastGen' /\ lastGen' = lastGen + 1 /\ g # lastGen'
      BY <1>1 DEF Lone, n
    <3>1. Lone(g)
      <4>1. g <= lastGen
        BY <1>3, <3>0
      <4>2. gen'[g] = gen[g]
        BY <1>1
      <4> QED
        BY <4>1, <4>2 DEF Lone
    <3>2. g = svcCancel /\ ~gen[g].shared /\ g # 0
      BY <3>1, BoundAssumption DEF Steady, LoneInv, Lone, Gens
    <3> QED
      BY <1>1, <3>2 DEF Steady, StoredInv, Stopped
  <2>2. ~proc[p].crowded
    BY <1>2, <2>1 DEF Lone
  <2>3. Quiet
    BY <1>1, <2>2 DEF Steady, ContextInv, At
  <2>4. \A q \in Procs \ {p} : ~InCall(q)
    BY <1>5, <2>2
  <2>5. \A q \in Procs : At(q, "forward")' => q = p
    BY <1>1, <2>4 DEF At, InCall
  <2> QED
    BY <1>1, <2>1, <2>3, <2>5 DEF Quiet, Waiting
<1>11. BindInv'
  BY <1>1, <1>2 DEF Steady, BindInv
<1>12. ContextInv'
  <2>1. \A q \in Procs : At(q, "context")' => q # p /\ proc'[q] = proc[q] /\ InCall(q)
    BY <1>1 DEF At, InCall
  <2> QED
    BY <1>5, <2>1 DEF ContextInv
<1>13. FirstInv'
  <2>1. At(Main, "stop")' => Main # p /\ proc'[Main] = proc[Main] /\ InCall(Main)
    BY <1>0, <1>1 DEF At, InCall
  <2> QED
    BY <1>0, <1>5, <2>1 DEF FirstInv
<1>14. NoneInv'
  BY <1>1, <1>3 DEF NoneInv
<1>15. StageInv'
  BY <1>1 DEF Steady, StageInv, At, Stopped
<1>16. AgreeInv'
  <2> SUFFICES ASSUME ~gen'[n].shared PROVE cfg' = upCfg' /\ gen'[n].cfg = cfg'
    BY <1>1 DEF AgreeInv
  <2>1. ~proc[p].crowded
    BY <1>2
  <2> QED
    BY <1>1, <1>2, <2>1 DEF Steady, StageInv, Stopped
<1> QED
  BY <1>6, <1>7, <1>8, <1>9, <1>10, <1>11, <1>12, <1>13, <1>14, <1>15, <1>16 DEF Steady

\* forward is started, in the generation of the process.
LEMMA ForwardSteady ==
    ASSUME TypeInv, OwnInv, Steady, NEW p \in Procs, proc[p].gen \in Gens, StartForward(p)
    PROVE  Steady'
<1>0. /\ Main \in Procs
      /\ svcCancel # 0 => svcCancel \in Gens
      /\ \A q \in Procs : proc[q].gen # 0 => proc[q].gen \in Gens
  BY Ranging
<1>1. /\ \A h \in Gens \ {proc[p].gen} : gen'[h] = gen[h]
      /\ \A h \in Gens : /\ gen'[h].cfg = gen[h].cfg /\ gen'[h].cancelled = gen[h].cancelled
                         /\ gen'[h].shared = gen[h].shared
      /\ gen'[proc[p].gen].forward \in {"start", "off"}
      /\ proc[p].pc = "forward" /\ proc'[p].pc = "socks5"
      /\ proc'[p].gen = proc[p].gen /\ proc'[p].crowded = proc[p].crowded
      /\ \A q \in Procs \ {p} : proc'[q] = proc[q]
      /\ UNCHANGED <<cfg, upCfg, svcCancel, lastGen>>
  BY StartForwardFacts DEF Same
<1>2. /\ \A q \in Procs : /\ InCall(q)' <=> InCall(q)
                          /\ proc'[q].gen = proc[q].gen /\ proc'[q].crowded = proc[q].crowded
                          /\ proc'[q].pc \in {"store", "stop", "wait", "context", "forward"}
                               => proc'[q] = proc[q] /\ q # p
                          /\ proc[q].pc \in {"store", "stop", "wait", "context"} => proc'[q] = proc[q]
      /\ InCall(p)
  BY <1>1 DEF InCall
<1>3. \A q \in Procs \ {p} : InCall(q) => proc[q].crowded
  BY <1>2 DEF Steady, CrowdInv
<1>4. MainInv'
  BY <1>0, <1>1 DEF Steady, MainInv
<1>5. CrowdInv' /\ MarkInv'
  BY <1>0, <1>1, <1>2 DEF Steady, CrowdInv, MarkInv
<1>6. StoredInv'
  BY <1>0, <1>1, <1>2 DEF Steady, StoredInv, Stopped
<1>7. LoneInv'
  <2> SUFFICES ASSUME NEW g \in Gens, Lone(g)'
               PROVE  /\ g = svcCancel'
                      /\ \A h \in Gens \ {g} : ~Waiting(h)'
                      /\ \A q \in Procs : At(q, "forward")' => proc'[q].gen = g
    BY DEF LoneInv
  <2>1. Lone(g)
    BY <1>1 DEF Lone
  <2>2. proc[p].gen = g
    BY <1>1, <2>1 DEF Steady, LoneInv, At
  <2> QED
    BY <1>1, <1>2, <2>1, <2>2 DEF Steady, LoneInv, At, Waiting
<1>8. BindInv'
  BY <1>1 DEF Steady, BindInv
<1>9. ContextInv'
  <2>1. \A q \in Procs : At(q, "context")' => q # p /\ proc'[q] = proc[q] /\ InCall(q)
    BY <1>2 DEF At, InCall
  <2> QED
    BY <1>3, <2>1 DEF ContextInv
<1>10. FirstInv'
  <2>1. At(Main, "stop")' => Main # p /\ proc'[Main] = proc[Main] /\ InCall(Main)
    BY <1>0, <1>2 DEF At, InCall
  <2> QED
    BY <1>0, <1>3, <2>1 DEF FirstInv
<1>11. NoneInv'
  BY <1>0, <1>1, <1>2 DEF Steady, NoneInv, Stopped, At
<1>12. StageInv'
  BY <1>1, <1>2 DEF Steady, StageInv, Stopped, At
<1>13. AgreeInv'
  BY <1>0, <1>1, <1>2 DEF Steady, AgreeInv, At
<1> QED
  BY <1>4, <1>5, <1>6, <1>7, <1>8, <1>9, <1>10, <1>11, <1>12, <1>13 DEF Steady

\* The goroutines of a generation: forward finds its ports taken only while
\* another generation has them, which none has beside one that is alone.
LEMMA GoroutineSteady ==
    ASSUME TypeInv, OwnInv, Steady, NEW g \in Gens, Goroutine(g), ctxDone = FALSE
    PROVE  Steady'
<1>0. /\ svcCancel # 0 => svcCancel \in Gens
      /\ \A q \in Procs : proc[q].gen # 0 => proc[q].gen \in Gens
      /\ gen[g] \in Generation /\ gen \in [Gens -> Generation]
      /\ lastGen \in Int /\ g \in Int
  BY Ranging, BoundAssumption DEF TypeInv, Gens
<1>1. /\ \A h \in Gens \ {g} : gen'[h] = gen[h]
      /\ UNCHANGED <<cfg, upCfg, svcCancel, proc, lastGen>>
      /\ \A h \in Gens : /\ gen'[h].cfg = gen[h].cfg /\ gen'[h].cancelled = gen[h].cancelled
                         /\ gen'[h].shared = gen[h].shared
  BY GoroutineFacts
<1>2. /\ Waiting(g)' => Waiting(g)
      /\ gen'[g].forward = "failed" =>
           \/ gen[g].forward = "failed"
           \/ gen[g].forward = "start" /\ \E h \in Gens : gen[h].forward = "listen"
  <2>1. CASE Forward(g)
    BY <1>0, <2>1 DEF Forward, ForwardListen, ForwardClose, ForwardReturn, Set, Generation, Waiting
  <2>2. CASE Socks(g) \/ RangeClose(g) \/ RangeReturn(g) \/ RemoveRules(g)
    <3>1. gen'[g].forward = gen[g].forward
      <4>1. CASE Socks(g)
        BY <1>0, <4>1 DEF Socks, SocksListen, SocksShutdown, Set, Generation
      <4>2. CASE RangeClose(g) \/ RangeReturn(g)
        BY <1>0, <4>2 DEF RangeClose, RangeReturn, Set, Generation
      <4>3. CASE RemoveRules(g)
        BY <1>0, <4>3 DEF RemoveRules, Set, Generation
      <4> QED
        BY <2>2, <4>1, <4>2, <4>3
    <3> QED
      BY <3>1 DEF Waiting
  <2> QED
    BY <2>1, <2>2 DEF Goroutine
<1>3. \A h \in Gens : Waiting(h)' => Waiting(h)
  BY <1>1, <1>2 DEF Waiting
<1>4. MainInv' /\ CrowdInv' /\ MarkInv' /\ StoredInv'
  BY <1>0, <1>1 DEF Steady, MainInv, CrowdInv, MarkInv, StoredInv, InCall, Stopped
<1>5. LoneInv'
  <2>1. \A h \in Gens : Lone(h)' => Lone(h)
    BY <1>1 DEF Lone
  <2> QED
    BY <1>1, <1>3, <2>1 DEF Steady, LoneInv, At
<1>6. BindInv'
  <2> SUFFICES ASSUME gen'[g].forward = "failed", ~gen[g].shared, ~gen[g].cancelled,
                      gen[g].forward # "failed"
               PROVE  FALSE
    BY <1>1 DEF Steady, BindInv
  <2>1. PICK h \in Gens : gen[g].forward = "start" /\ gen[h].forward = "listen"
    BY <1>2
  <2>2. g <= lastGen
    BY <1>0, <2>1 DEF OwnInv
  <2>3. Lone(g)
    BY <2>2 DEF Lone
  <2>4. h # g /\ Waiting(h)
    BY <2>1 DEF Waiting
  <2> QED
    BY <2>3, <2>4 DEF Steady, LoneInv
<1>7. Quiet => Quiet'
  BY <1>3 DEF Quiet
<1>8. ContextInv' /\ FirstInv'
  BY <1>1, <1>7 DEF Steady, ContextInv, FirstInv, At
<1>9. NoneInv' /\ StageInv' /\ AgreeInv'
  BY <1>0, <1>1 DEF Steady, NoneInv, StageInv, AgreeInv, At, Stopped
<1> QED
  BY <1>4, <1>5, <1>6, <1>8, <1>9 DEF Steady

\* runCtx stays cancelled.
LEMMA DoneForGood == [Next]_vars /\ ctxDone => ctxDone'
<1> SUFFICES ASSUME [Next]_vars, ctxDone PROVE ctxDone'
  OBVIOUS
<1>1. CASE Shutdown \/ UNCHANGED vars
  BY <1>1 DEF Shutdown, vars
<1>2. ASSUME NEW p \in Procs, Step(p) PROVE ctxDone'
  BY <1>2 DEF Step, StopServices, Wait, NewContext, StartForward, StartSocks, NewChain, Flush,
              Fill, Unhook, Hook, ApplyFails, RangeListen, RangeListenFails, UndoRules
<1>3. ASSUME NEW r \in Reloaders, ReloadFromDisk(r) \/ Load(r) \/ ReloadFails(r) \/ UpReload(r)
                                    \/ StoreConfig(r)
      PROVE  ctxDone'
  BY <1>3 DEF ReloadFromDisk, Load, ReloadFails, UpReload, StoreConfig
<1>4. CASE MainStop \/ MainClose
  BY <1>4 DEF MainStop, MainClose
<1>5. ASSUME NEW g \in Gens, Goroutine(g) PROVE ctxDone'
  BY <1>5 DEF Goroutine, Forward, ForwardListen, ForwardClose, ForwardReturn, Socks, SocksListen,
              SocksShutdown, RangeClose, RangeReturn, RemoveRules
<1> QED
  BY <1>1, <1>2, <1>3, <1>4, <1>5, NextSteps

LEMMA NextSteady ==
    ASSUME JumpInv, Steady, ctxDone = FALSE, ctxDone' = FALSE, [Next]_vars
    PROVE  Steady'
<1>0. /\ Reloaders \subseteq Procs /\ Main \in Procs /\ Main \notin Reloaders
      /\ TypeInv /\ OwnInv
  BY Ranging DEF JumpInv
<1>g. ASSUME NEW p \in Procs, Building(p) PROVE proc[p].gen \in Gens
  BY <1>0, <1>g, BoundAssumption DEF OwnInv, TypeInv, Gens
<1>t. ASSUME UNCHANGED <<cfg, upCfg, svcCancel, gen, lastGen>>
      PROVE  SameGens /\ \A h \in Gens : gen'[h].forward = gen[h].forward
  BY <1>t DEF SameGens, Waiting
<1>1. CASE UNCHANGED vars
  BY <1>1 DEF vars, Steady, MainInv, CrowdInv, MarkInv, StoredInv, LoneInv, BindInv, ContextInv,
              FirstInv, NoneInv, StageInv, AgreeInv, InCall, Stopped, Lone, Quiet, Waiting, At
<1>2. CASE Shutdown
  BY <1>2 DEF Shutdown
<1>3. ASSUME NEW r \in Reloaders, ReloadFromDisk(r) PROVE Steady'
  BY <1>0, <1>3, BeginSteady
<1>4. ASSUME NEW r \in Reloaders, Load(r) \/ ReloadFails(r) PROVE Steady'
  <2>1. /\ UNCHANGED <<cfg, upCfg, svcCancel, gen, lastGen>>
        /\ \A q \in Procs \ {r} : proc'[q] = proc[q]
        /\ proc[r].pc \in {"load", "reload"} /\ proc'[r].pc \in {"reload", "idle"}
        /\ proc'[r].pc # "idle" => /\ proc'[r].gen = proc[r].gen
                                   /\ proc'[r].crowded = proc[r].crowded
    BY <1>0, <1>4, ReloadFacts DEF Moves, Same
  <2>2. r \in Procs /\ (InCall(r)' => InCall(r))
    BY <1>0, <2>1 DEF InCall
  <2> QED
    BY <1>0, <1>t, <2>1, <2>2, TailSteady
<1>5. ASSUME NEW r \in Reloaders, UpReload(r) \/ StoreConfig(r) PROVE Steady'
  BY <1>0, <1>5, ConfigSteady
<1>6. ASSUME NEW p \in Procs, StopServices(p) \/ Wait(p) \/ NewContext(p) PROVE Steady'
  BY <1>0, <1>6, StopSteady, WaitSteady, ContextSteady
<1>7. ASSUME NEW p \in Procs, StartForward(p) PROVE Steady'
  <2>1. proc[p].gen \in Gens
    BY <1>g, <1>7 DEF StartForward, At, Building
  <2> QED
    BY <1>0, <1>7, <2>1, ForwardSteady
<1>8. ASSUME NEW p \in Procs, StartSocks(p) \/ RangeListen(p) PROVE Steady'
  <2>1. proc[p].gen \in Gens
    BY <1>g, <1>8 DEF StartSocks, RangeListen, At, Building
  <2>2. /\ UNCHANGED <<cfg, upCfg, svcCancel, lastGen>>
        /\ \A h \in Gens :
              /\ gen'[h].cfg = gen[h].cfg /\ gen'[h].cancelled = gen[h].cancelled
              /\ gen'[h].shared = gen[h].shared /\ gen'[h].forward = gen[h].forward
        /\ \A q \in Procs \ {p} : proc'[q] = proc[q]
        /\ proc[p].pc \in {"socks5", "listen"} /\ proc'[p].pc \in {"idle", "run", "new"}
        /\ proc'[p].pc # "idle" => Same(p)
    BY <1>0, <1>8, <2>1, StartSocksFacts, RangeListenFacts
  <2>3. SameGens /\ (InCall(p)' => InCall(p))
    BY <2>2 DEF SameGens, Waiting, InCall
  <2> QED
    BY <1>0, <2>2, <2>3, TailSteady DEF Same
<1>9. ASSUME NEW p \in Procs,
             NewChain(p) \/ Flush(p) \/ Fill(p) \/ Unhook(p) \/ Hook(p) \/ ApplyFails(p)
               \/ RangeListenFails(p) \/ UndoRules(p)
      PROVE  Steady'
  <2>1. /\ UNCHANGED <<cfg, upCfg, svcCancel, gen, lastGen>>
        /\ \A q \in Procs \ {p} : proc'[q] = proc[q]
        /\ proc[p].pc \in {"new", "flush", "fill", "unhook", "hook", "listen", "undo-unhook",
                           "undo-flush", "undo-delete"}
        /\ proc'[p].pc \in {"flush", "fill", "unhook", "hook", "listen", "undo-unhook",
                            "undo-flush", "undo-delete", "idle", "run"}
        /\ proc'[p].pc # "idle" => Same(p)
    BY <1>0, <1>9, RulesFacts DEF Moves
  <2>2. InCall(p)' => InCall(p)
    BY <2>1 DEF InCall
  <2> QED
    BY <1>0, <1>t, <2>1, <2>2, TailSteady DEF Same
<1>10. CASE MainStop \/ MainClose
  BY <1>0, <1>10, MainFacts DEF Moves, Steady, MainInv
<1>11. ASSUME NEW g \in Gens, Goroutine(g) PROVE Steady'
  BY <1>0, <1>11, GoroutineSteady
<1> QED
  BY <1>1, <1>2, <1>3, <1>4, <1>5, <1>6, <1>7, <1>8, <1>9, <1>10, <1>11, NextSteps DEF Step

LEMMA OverlapInductive == Spec => []OverlapInv
<1>1. Init => OverlapInv
  BY InitSteady DEF OverlapInv
<1>2. JumpInv /\ OverlapInv /\ [Next]_vars => OverlapInv'
  <2> SUFFICES ASSUME JumpInv, OverlapInv, [Next]_vars, ~ctxDone' PROVE Steady'
    BY DEF OverlapInv
  <2>1. ~ctxDone
    BY DoneForGood
  <2>2. JumpInv'
    BY NextType, NextOwn, NextHook DEF JumpInv
  <2>3. ctxDone = FALSE /\ ctxDone' = FALSE
    BY <2>1, <2>2 DEF JumpInv, TypeInv
  <2>4. Steady
    BY <2>1 DEF OverlapInv
  <2> QED
    BY <2>3, <2>4, NextSteady
<1> QED
  BY <1>1, <1>2, JumpInductive, PTL DEF Spec

\* However calls overlap, once nothing is being started or stopped the cancel
\* function of a generation is stored; if the call that made it overlapped no
\* other, the stored configuration, the upstreams and the services have one
\* configuration, whatever failed, overlapped or was edited before
\* (ReloadFromDisk, whose error returns are before the first change).
THEOREM ReloadsAgree == Spec => []ConfigAgreement
<1>1. JumpInv /\ OverlapInv => ConfigAgreement
  <2> SUFFICES ASSUME JumpInv, OverlapInv, Settled
               PROVE  /\ svcCancel # 0
                      /\ ~gen[svcCancel].shared => cfg = upCfg /\ gen[svcCancel].cfg = cfg
    BY DEF ConfigAgreement
  <2>1. Steady /\ \A p \in Procs : ~InCall(p)
    BY DEF OverlapInv, Settled
  <2>2. \A p \in Procs : ~Stopped(p) /\ ~At(p, "stop") /\ ~At(p, "store")
    BY <2>1 DEF InCall, Stopped, At
  <2>3. svcCancel # 0
    BY <2>1, <2>2 DEF Steady, NoneInv, Procs
  <2> QED
    BY <2>1, <2>2, <2>3 DEF Steady, AgreeInv
<1> QED
  BY <1>1, JumpInductive, OverlapInductive, PTL

\* However calls overlap, a generation made by a call that overlapped no other
\* never loses its cancel function before it was called (startServices calls
\* stopServices first, and two calls that both do so overlap).
THEOREM NoGenerationLost == Spec => []OneGeneration
<1>1. OverlapInv => OneGeneration
  BY DEF OverlapInv, Steady, LoneInv, Lone, OneGeneration, Orphan, Cancelled
<1> QED
  BY <1>1, OverlapInductive, PTL

\* However calls overlap, forward finds its own ports taken only in a generation
\* that is cancelled or whose call overlapped another (stopServices waits for
\* svcWg before startServices goes on).
THEOREM ForwardPortsFree == Spec => []ForwardBinds
<1>1. OverlapInv => ForwardBinds
  BY DEF OverlapInv, Steady, BindInv, ForwardBinds, Cancelled
<1> QED
  BY <1>1, OverlapInductive, PTL
=============================================================================
