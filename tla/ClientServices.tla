--------------------------- MODULE ClientServices ---------------------------
(***************************************************************************)
(* The client's services and their hot reload (tunnel/client.go), with the *)
(* listeners of forward and socks5 and the iptables rules of the port      *)
(* range mode (redirect/redirect_linux.go).                                *)
(*                                                                         *)
(* Every call of startServices makes a generation of services: it stops    *)
(* the previous one, waits for the goroutines counted in svcWg, and starts *)
(* forward, socks5 and redirect one after the other.  All configurations   *)
(* listen on the same ports, which is what a reload usually finds.         *)
(*                                                                         *)
(* Processes: Run (Main), the callers of ReloadFromDisk (Reloaders), the   *)
(* goroutines of every generation.  Run lets reloads begin before it calls *)
(* startServices itself, so its own start may overlap one.  The manager's  *)
(* own Reload is the module Upstream; here it is one step that fails or    *)
(* installs a configuration.                                               *)
(*                                                                         *)
(* The fields crowded and shared and the variable stuck are history: they  *)
(* record which calls overlapped, and the jumps that iptables -D should    *)
(* have deleted and did not.  No step depends on them.                     *)
(***************************************************************************)
EXTENDS Integers, FiniteSets

CONSTANTS
    Configs,    \* configurations
    FirstCfg,   \* the one Run starts with
    Enabled,    \* Enabled[c]: the services that c asks for
    Reloaders,  \* callers of ReloadFromDisk: SIGHUP, admin requests
    Main,       \* Run
    MaxGen,     \* generations (bound)
    MaxFails    \* failures of iptables -D that leave a jump (bound)

Services == {"forward", "socks5", "range"}
Gens == 1..MaxGen
Procs == Reloaders \cup {Main}

ASSUME ConfigAssumption ==
    /\ FirstCfg \in Configs
    /\ Enabled \in [Configs -> SUBSET Services]
ASSUME ProcAssumption == Main \notin Reloaders /\ Reloaders # {} /\ IsFiniteSet(Reloaders)
ASSUME BoundAssumption == MaxGen \in Nat \ {0} /\ MaxFails \in Nat

VARIABLES
    ctxDone,    \* runCtx is cancelled (SIGTERM)
    cfg,        \* c.cfg
    upCfg,      \* the configuration the upstream manager runs with
    svcCancel,  \* the generation c.svcCancel cancels, 0 for nil
    proc,       \* what Main and the reloaders are doing
    gen,        \* the generations
    lastGen,    \* generations made so far
    chain,      \* the nat chain: Absent, Empty or the generation it serves
    hooks,      \* jumps to the chain in PREROUTING
    stuck       \* history: jumps that a failed iptables -D has left

configs == <<cfg, upCfg>>
services == <<svcCancel, gen, lastGen>>
nat == <<chain, hooks, stuck>>
vars == <<ctxDone, cfg, upCfg, svcCancel, proc, gen, lastGen, chain, hooks, stuck>>

Absent == -1
Empty == 0

\* pc follows the code; cfg is the configuration a reload has loaded, gen the
\* generation it has made.  crowded: its call has overlapped another.
Proc == [pc : {"idle", "load", "reload", "store", "stop", "wait", "context",
               "forward", "socks5", "new", "flush", "fill", "unhook", "hook",
               "listen", "undo-unhook", "undo-flush", "undo-delete",
               "run", "close", "exited"},
         cfg : Configs, gen : 0..MaxGen, crowded : BOOLEAN]
IdleProc == [pc |-> "idle", cfg |-> FirstCfg, gen |-> 0, crowded |-> FALSE]

\* cancelled: its own cancel function was called.  forward, socks5, range: the
\* listeners; "closing" forward has closed its listener but not returned.
\* accept: the accept loop and the handlers of redirect run.
\* rules: what the goroutine that removes the rules does next.
\* shared: the call that made it has overlapped another.
Generation == [cfg : Configs, cancelled : BOOLEAN, shared : BOOLEAN,
               forward : {"off", "start", "listen", "closing", "done", "failed"},
               socks5 : {"off", "start", "listen", "done", "failed"},
               range : {"off", "listen", "done"},
               accept : BOOLEAN,
               rules : {"none", "wait", "unhook", "flush", "delete"}]
NewGeneration(c, overlapped) ==
    [cfg |-> c, cancelled |-> FALSE, shared |-> overlapped,
     forward |-> "off", socks5 |-> "off", range |-> "off", accept |-> FALSE, rules |-> "none"]

Exited == proc[Main].pc = "exited"
Cancelled(g) == gen[g].cancelled \/ ctxDone

\* Run has started watchReload and the admin server and calls startServices.
Init ==
    /\ ctxDone = FALSE
    /\ cfg = FirstCfg
    /\ upCfg = FirstCfg
    /\ svcCancel = 0
    /\ proc = [p \in Procs |-> IF p = Main THEN [IdleProc EXCEPT !.pc = "stop"] ELSE IdleProc]
    /\ gen = [g \in Gens |-> NewGeneration(FirstCfg, FALSE)]
    /\ lastGen = 0
    /\ chain = Absent
    /\ hooks = 0
    /\ stuck = 0

At(p, x) == proc[p].pc = x
Goto(p, x) == proc' = [proc EXCEPT ![p] = [proc[p] EXCEPT !.pc = x]]
\* startServices returns: to Run, or to a reload, which returns too.
Return(p) ==
    proc' = [proc EXCEPT ![p] = IF p = Main THEN [proc[p] EXCEPT !.pc = "run"] ELSE IdleProc]

\* p is in ReloadFromDisk or in stopServices or startServices.
InCall(p) == proc[p].pc \notin {"idle", "run", "close", "exited"}

-----------------------------------------------------------------------------
(* The environment *)

\* SIGTERM or an interrupt.
Shutdown ==
    /\ ~ctxDone
    /\ ctxDone' = TRUE
    /\ UNCHANGED <<configs, svcCancel, proc, gen, lastGen, nat>>

-----------------------------------------------------------------------------
(* ReloadFromDisk *)

\* SIGHUP, or a POST to the admin API; there must be a generation left.  Nothing
\* keeps it from overlapping other calls: the history records which.
ReloadFromDisk(r) ==
    LET others == {q \in Procs \ {r} : InCall(q)}
    IN  /\ At(r, "idle")
        /\ lastGen + Cardinality({q \in others : proc[q].gen = 0}) < MaxGen
        /\ proc' = [p \in Procs |->
                      IF p = r THEN [IdleProc EXCEPT !.pc = "load", !.crowded = others # {}]
                      ELSE IF p \in others THEN [proc[p] EXCEPT !.crowded = TRUE]
                      ELSE proc[p]]
        /\ gen' = [g \in Gens |->
                     IF \E q \in others : proc[q].gen = g THEN [gen[g] EXCEPT !.shared = TRUE]
                     ELSE gen[g]]
        /\ UNCHANGED <<ctxDone, configs, svcCancel, lastGen, nat>>

\* config.Load and ResolveNetwork read the file, or fail.  It is edited by hand or
\* by the admin API, so that it may hold any configuration.
Load(r) ==
    /\ At(r, "load")
    /\ \E c \in Configs :
          proc' = [proc EXCEPT ![r] = [proc[r] EXCEPT !.pc = "reload", !.cfg = c]]
    /\ UNCHANGED <<ctxDone, configs, services, nat>>

\* An error at any of these calls returns before anything is changed.
ReloadFails(r) ==
    /\ At(r, "load") \/ At(r, "reload")
    /\ Return(r)
    /\ UNCHANGED <<ctxDone, configs, services, nat>>

\* up.Reload installs the upstreams of the new configuration.
UpReload(r) ==
    /\ At(r, "reload")
    /\ upCfg' = proc[r].cfg
    /\ Goto(r, "store")
    /\ UNCHANGED <<ctxDone, cfg, services, nat>>

\* Mutant of StoreConfig: the file is read again.
StoreConfigFromDisk(r) ==
    /\ At(r, "store")
    /\ \E c \in Configs : cfg' = c
    /\ Goto(r, "stop")
    /\ UNCHANGED <<ctxDone, upCfg, services, nat>>

StoreConfig(r) ==
    /\ At(r, "store")
    /\ cfg' = proc[r].cfg
    /\ Goto(r, "stop")
    /\ UNCHANGED <<ctxDone, upCfg, services, nat>>

-----------------------------------------------------------------------------
(* stopServices *)

\* What a process does when stopServices has returned: Run calls it a second time
\* at its end.
AfterStop(p) == IF p = Main /\ proc[p].gen # 0 THEN "close" ELSE "context"

\* Mutant of StopServices: the services are not waited for.
StopServicesNoWait(p) ==
    /\ At(p, "stop")
    /\ svcCancel' = 0
    /\ gen' = IF svcCancel = 0 THEN gen
              ELSE [gen EXCEPT ![svcCancel] = [gen[svcCancel] EXCEPT !.cancelled = TRUE]]
    /\ Goto(p, AfterStop(p))
    /\ UNCHANGED <<ctxDone, configs, lastGen, nat>>

\* Mutant of StopServices: the cancel function is dropped and not called.
StopServicesNoCancel(p) ==
    /\ At(p, "stop")
    /\ svcCancel' = 0
    /\ Goto(p, AfterStop(p))
    /\ UNCHANGED <<ctxDone, configs, gen, lastGen, nat>>

\* Take the cancel function and call it.  Without one there is nothing to wait for.
StopServices(p) ==
    /\ At(p, "stop")
    /\ svcCancel' = 0
    /\ gen' = IF svcCancel = 0 THEN gen
              ELSE [gen EXCEPT ![svcCancel] = [gen[svcCancel] EXCEPT !.cancelled = TRUE]]
    /\ Goto(p, IF svcCancel = 0 THEN AfterStop(p) ELSE "wait")
    /\ UNCHANGED <<ctxDone, configs, lastGen, nat>>

\* Goroutines of g that svcWg counts: those in fwd.Wait and rm.Wait.  The one
\* that calls socks.Start returns at once, so socks5 is never waited for; nor is
\* the goroutine that removes the rules.
InWaitGroup(g) == gen[g].forward \in {"start", "listen", "closing"} \/ gen[g].accept

Wait(p) ==
    /\ At(p, "wait")
    /\ \A g \in Gens : ~InWaitGroup(g)
    /\ Goto(p, AfterStop(p))
    /\ UNCHANGED <<ctxDone, configs, services, nat>>

-----------------------------------------------------------------------------
(* startServices, after stopServices *)

\* A context for the new generation; its cancel function is stored.
NewContext(p) ==
    /\ At(p, "context")
    /\ lastGen < MaxGen
    /\ lastGen' = lastGen + 1
    /\ svcCancel' = lastGen + 1
    /\ gen' = [gen EXCEPT ![lastGen + 1] = NewGeneration(proc[p].cfg, proc[p].crowded)]
    /\ proc' = [proc EXCEPT ![p] = [proc[p] EXCEPT !.pc = "forward", !.gen = lastGen + 1]]
    /\ UNCHANGED <<ctxDone, configs, nat>>

StartForward(p) ==
    LET g == proc[p].gen
    IN  /\ At(p, "forward")
        /\ gen' = [gen EXCEPT ![g] = [gen[g] EXCEPT
                     !.forward = IF "forward" \in Enabled[proc[p].cfg] THEN "start" ELSE "off"]]
        /\ Goto(p, "socks5")
        /\ UNCHANGED <<ctxDone, configs, svcCancel, lastGen, nat>>

StartSocks(p) ==
    LET g == proc[p].gen
    IN  /\ At(p, "socks5")
        /\ gen' = [gen EXCEPT ![g] = [gen[g] EXCEPT
                     !.socks5 = IF "socks5" \in Enabled[proc[p].cfg] THEN "start" ELSE "off"]]
        /\ IF "range" \in Enabled[proc[p].cfg] THEN Goto(p, "new") ELSE Return(p)
        /\ UNCHANGED <<ctxDone, configs, svcCancel, lastGen, nat>>

-----------------------------------------------------------------------------
(* iptables: one command is one step *)

CreateChain == chain' = IF chain = Absent THEN Empty ELSE chain
FlushChain == chain' = IF chain = Absent THEN Absent ELSE Empty
DeleteChain == chain' = IF chain = Empty /\ hooks = 0 THEN Absent ELSE chain
DeleteHook ==
    /\ hooks' = IF hooks = 0 THEN 0 ELSE hooks - 1
    /\ UNCHANGED stuck

\* A -D that fails although there is a jump.
HookStays ==
    /\ hooks > 0
    /\ stuck < MaxFails
    /\ stuck' = stuck + 1
    /\ UNCHANGED hooks

(* The commands whose error is ignored: each may fail and change nothing *)

IgnoredDeleteHook == (DeleteHook \/ HookStays) /\ UNCHANGED chain
IgnoredFlush == (FlushChain \/ UNCHANGED chain) /\ UNCHANGED <<hooks, stuck>>
IgnoredDelete == (DeleteChain \/ UNCHANGED chain) /\ UNCHANGED <<hooks, stuck>>

(* redirect.Start: applyRules, then the listener *)

NewChain(p) ==
    /\ At(p, "new")
    /\ CreateChain \/ UNCHANGED chain
    /\ Goto(p, "flush")
    /\ UNCHANGED <<ctxDone, configs, services, hooks, stuck>>

Flush(p) ==
    /\ At(p, "flush")
    /\ chain # Absent
    /\ FlushChain
    /\ Goto(p, "fill")
    /\ UNCHANGED <<ctxDone, configs, services, hooks, stuck>>

\* The exclusions and the ranges.
Fill(p) ==
    /\ At(p, "fill")
    /\ chain # Absent
    /\ chain' = proc[p].gen
    /\ Goto(p, "unhook")
    /\ UNCHANGED <<ctxDone, configs, services, hooks, stuck>>

Unhook(p) ==
    /\ At(p, "unhook")
    /\ IgnoredDeleteHook
    /\ Goto(p, "hook")
    /\ UNCHANGED <<ctxDone, configs, services>>

\* Mutant of Hook: the jump is added in the loop over the ranges, which are two.
HookPerRange(p) ==
    /\ At(p, "hook")
    /\ chain # Absent
    /\ hooks' = hooks + 2
    /\ Goto(p, "listen")
    /\ UNCHANGED <<ctxDone, configs, services, chain, stuck>>

Hook(p) ==
    /\ At(p, "hook")
    /\ chain # Absent
    /\ hooks' = hooks + 1
    /\ Goto(p, "listen")
    /\ UNCHANGED <<ctxDone, configs, services, chain, stuck>>

\* A command of applyRules fails: removeRules does nothing, as m.applied is not
\* set yet, and startServices goes on without redirect.
ApplyFails(p) ==
    /\ At(p, "flush") \/ At(p, "fill") \/ At(p, "hook")
    /\ Return(p)
    /\ UNCHANGED <<ctxDone, configs, services, nat>>

\* net.Listen on the redirect port: goroutines for the rules and for accepting.
RangeListen(p) ==
    LET g == proc[p].gen
    IN  /\ At(p, "listen")
        /\ \A h \in Gens : gen[h].range # "listen"
        /\ gen' = [gen EXCEPT ![g] = [gen[g] EXCEPT !.range = "listen", !.accept = TRUE,
                                                     !.rules = "wait"]]
        /\ Return(p)
        /\ UNCHANGED <<ctxDone, configs, svcCancel, lastGen, nat>>

\* Mutant of RangeListenFails: the rules stay.
RangeListenFailsKeepsRules(p) ==
    /\ At(p, "listen")
    /\ Return(p)
    /\ UNCHANGED <<ctxDone, configs, services, nat>>

\* It fails, because somebody has the port: removeRules.
RangeListenFails(p) ==
    /\ At(p, "listen")
    /\ Goto(p, "undo-unhook")
    /\ UNCHANGED <<ctxDone, configs, services, nat>>

UndoRules(p) ==
    /\ \/ At(p, "undo-unhook") /\ IgnoredDeleteHook /\ Goto(p, "undo-flush")
       \/ At(p, "undo-flush") /\ IgnoredFlush /\ Goto(p, "undo-delete")
       \/ At(p, "undo-delete") /\ IgnoredDelete /\ Return(p)
    /\ UNCHANGED <<ctxDone, configs, services>>

-----------------------------------------------------------------------------
(* The goroutines of a generation *)

Set(g, fields) == gen' = [gen EXCEPT ![g] = fields]

\* serveTCP and serveUDP listen.  If the port is taken they return for good.
ForwardListen(g) ==
    /\ gen[g].forward = "start"
    /\ Set(g, [gen[g] EXCEPT !.forward =
                 IF \E h \in Gens : gen[h].forward = "listen" THEN "failed" ELSE "listen"])
    /\ UNCHANGED <<ctxDone, configs, svcCancel, proc, lastGen, nat>>

\* The context is done: the listener is closed.
ForwardClose(g) ==
    /\ gen[g].forward = "listen"
    /\ Cancelled(g)
    /\ Set(g, [gen[g] EXCEPT !.forward = "closing"])
    /\ UNCHANGED <<ctxDone, configs, svcCancel, proc, lastGen, nat>>

\* The handlers and pumps have ended: fwd.Wait returns.
ForwardReturn(g) ==
    /\ gen[g].forward = "closing"
    /\ Set(g, [gen[g] EXCEPT !.forward = "done"])
    /\ UNCHANGED <<ctxDone, configs, svcCancel, proc, lastGen, nat>>

\* ListenAndServe binds the port, or returns an error that is only logged.
SocksListen(g) ==
    /\ gen[g].socks5 = "start"
    /\ Set(g, [gen[g] EXCEPT !.socks5 =
                 IF \E h \in Gens : gen[h].socks5 = "listen" THEN "failed" ELSE "listen"])
    /\ UNCHANGED <<ctxDone, configs, svcCancel, proc, lastGen, nat>>

SocksShutdown(g) ==
    /\ gen[g].socks5 \in {"listen", "failed"}
    /\ Cancelled(g)
    /\ Set(g, [gen[g] EXCEPT !.socks5 = "done"])
    /\ UNCHANGED <<ctxDone, configs, svcCancel, proc, lastGen, nat>>

\* redirect: the context is done, the listener is closed.
RangeClose(g) ==
    /\ gen[g].rules = "wait"
    /\ Cancelled(g)
    /\ Set(g, [gen[g] EXCEPT !.range = "done", !.rules = "unhook"])
    /\ UNCHANGED <<ctxDone, configs, svcCancel, proc, lastGen, nat>>


\* Mutant of RangeReturn: the accept loop goes on after every error.
RangeReturnNever(g) ==
    /\ gen[g].accept
    /\ gen[g].range = "done"
    /\ UNCHANGED vars

\* The accept loop sees the closed listener and the handlers end: rm.Wait returns.
RangeReturn(g) ==
    /\ gen[g].accept
    /\ gen[g].range = "done"
    /\ Set(g, [gen[g] EXCEPT !.accept = FALSE])
    /\ UNCHANGED <<ctxDone, configs, svcCancel, proc, lastGen, nat>>

\* removeRules, after the listener was closed.
RemoveRules(g) ==
    /\ \/ /\ gen[g].rules = "unhook" /\ IgnoredDeleteHook
          /\ Set(g, [gen[g] EXCEPT !.rules = "flush"])
       \/ /\ gen[g].rules = "flush" /\ IgnoredFlush
          /\ Set(g, [gen[g] EXCEPT !.rules = "delete"])
       \/ /\ gen[g].rules = "delete" /\ IgnoredDelete
          /\ Set(g, [gen[g] EXCEPT !.rules = "none"])
    /\ UNCHANGED <<ctxDone, configs, svcCancel, proc, lastGen>>

-----------------------------------------------------------------------------
(* Run, after runCtx is done: the deferred stopServices and up.Close *)

MainStop ==
    /\ At(Main, "run")
    /\ ctxDone
    /\ Goto(Main, "stop")
    /\ UNCHANGED <<ctxDone, configs, services, nat>>

\* The process ends, and every goroutine with it.
MainClose ==
    /\ At(Main, "close")
    /\ Goto(Main, "exited")
    /\ UNCHANGED <<ctxDone, configs, services, nat>>

-----------------------------------------------------------------------------

\* The steps of a process from the call of stopServices to the return.
Step(p) ==
    \/ StopServices(p) \/ Wait(p) \/ NewContext(p) \/ StartForward(p) \/ StartSocks(p)
    \/ NewChain(p) \/ Flush(p) \/ Fill(p) \/ Unhook(p) \/ Hook(p) \/ ApplyFails(p)
    \/ RangeListen(p) \/ RangeListenFails(p) \/ UndoRules(p)

Reload(r) == Load(r) \/ ReloadFails(r) \/ UpReload(r) \/ StoreConfig(r) \/ Step(r)

Forward(g) == ForwardListen(g) \/ ForwardClose(g) \/ ForwardReturn(g)
Socks(g) == SocksListen(g) \/ SocksShutdown(g)

Goroutine(g) == Forward(g) \/ Socks(g) \/ RangeClose(g) \/ RangeReturn(g) \/ RemoveRules(g)

Next ==
    \/ /\ ~Exited
       /\ \/ Shutdown
          \/ \E r \in Reloaders : ReloadFromDisk(r) \/ Reload(r)
          \/ Step(Main) \/ MainStop \/ MainClose
          \/ \E g \in Gens : Goroutine(g)
    \/ Exited /\ UNCHANGED vars

Spec == Init /\ [][Next]_vars

\* Goroutines run, and the calls they make return: dials and reads have
\* deadlines, and handlers end when the context is done.  Those of the
\* generations take finitely many steps, so it is enough that some of them runs
\* while any can.  Nothing is assumed of signals and requests.
Fairness ==
    /\ \A r \in Reloaders : WF_vars(~Exited /\ Reload(r))
    /\ WF_vars(Step(Main) \/ MainStop \/ MainClose)
    /\ WF_vars(~Exited /\ \E g \in Gens : Goroutine(g))

FairSpec == Spec /\ Fairness

-----------------------------------------------------------------------------
(* Properties *)

\* Every variable has its type.  Beside the jumps that a failed iptables -D has
\* left there is at most one for each process that may be between deleting and
\* adding it (applyRules).
TypeOK ==
    /\ ctxDone \in BOOLEAN
    /\ cfg \in Configs /\ upCfg \in Configs
    /\ svcCancel \in 0..MaxGen
    /\ proc \in [Procs -> Proc]
    /\ gen \in [Gens -> Generation]
    /\ lastGen \in 0..MaxGen
    /\ chain \in -1..MaxGen
    /\ stuck \in 0..MaxFails
    /\ hooks \in 0..(Cardinality(Procs) + stuck)

\* Services are neither being started nor stopped, and the client is not
\* shutting down.
Settled == ~ctxDone /\ \A p \in Procs : ~InCall(p)

\* When nothing is being started or stopped, the cancel function of a generation
\* is stored.  If its call overlapped no other, the stored configuration, the
\* upstreams and the services are of one configuration, whatever other reloads
\* failed or overlapped before and whatever was edited meanwhile.
ConfigAgreement ==
    Settled => /\ svcCancel # 0
               /\ ~gen[svcCancel].shared => cfg = upCfg /\ gen[svcCancel].cfg = cfg

\* A generation that is not cancelled and whose cancel function is gone: nothing
\* but the end of the process stops its services.
Orphan(g) == g <= lastGen /\ g # svcCancel /\ ~Cancelled(g)

\* Only calls that overlap overwrite each other's cancel function: a generation
\* made by a call that overlapped no other is never orphaned, not even by calls
\* that overlap later (stopServices, startServices).
OneGeneration == \A g \in Gens : Orphan(g) => gen[g].shared

\* stopServices waits for forward to release its ports: the rules of a generation
\* made by a call that overlapped no other never fail to listen while they are
\* wanted.
ForwardBinds ==
    \A g \in Gens : gen[g].forward = "failed" /\ ~gen[g].shared => Cancelled(g)

\* No rules are being installed or removed.
RulesSettled ==
    /\ Settled
    /\ \A g \in Gens : gen[g].rules = "none" \/ (gen[g].rules = "wait" /\ ~Cancelled(g))

\* The ports of the range are redirected only to generations that listen, however
\* reloads failed or overlapped, except for the jumps that a failed iptables -D
\* has left: no jump is forgotten by a path of the code (applyRules, removeRules).
NoBlackHole ==
    RulesSettled => hooks <= Cardinality({g \in Gens : gen[g].range = "listen"}) + stuck

ShutdownExits == ctxDone ~> Exited

\* README.md:62 promises "Hot reload - client (upstream + forward + SOCKS5)":
\* the SOCKS5 listener of a generation that is not cancelled has not failed, at
\* least if its call overlapped no other.
SocksSurvivesReload ==
    \A g \in Gens : gen[g].socks5 = "failed" => Cancelled(g) \/ gen[g].shared

\* README.md:299 promises that "With range mode enabled, any TCP connection to
\* the client's IP on a port within `ports` is transparently tunneled": once
\* nothing is in progress, the rules of the generation that listens are in place,
\* at least if its call overlapped no other.
RangeRedirected ==
    RulesSettled => \A g \in Gens :
       gen[g].range = "listen" => (hooks > 0 /\ chain = g) \/ gen[g].shared

\* The weakest that the two promises say together: in no state are both broken.
\* One reload that keeps the configuration, and overlaps no other call, breaks
\* both (startServices, stopServices).
ReloadKeepsServing == SocksSurvivesReload \/ RangeRedirected
=============================================================================
