------------------------ MODULE ServerConfigProofs --------------------------
(***************************************************************************)
(* Proofs about ServerConfig, for any number of goroutines that reload, of *)
(* rules per family, of edits, and any configurations.                     *)
(***************************************************************************)
EXTENDS ServerConfig, TLAPS

\* TypeOK is inductive only with the bound on the index of a rule about to be added.
IndexOK == \A p \in Procs : pc[p] = "add" => next[p] <= Count(new[p])

\* Run is in Apply before it serves, and only then.
MainOK == pc[Main] \in (IF server = "start" THEN {"apply", "add"} ELSE {"idle"})

\* A line of Remove's listing stands for a copy the firewall has.
ListedOK == \A r \in Rule : listed[r] <= rules[r]

TypeInv == TypeOK /\ IndexOK /\ MainOK /\ ListedOK

\* The number of rules of a configuration is at most twice NRules, and its rules are
\* rules: Apply of iptables_linux.go.
LEMMA RuleFacts ==
    ASSUME NEW c \in Config
    PROVE  /\ Count(c) \in NRules..(2 * NRules)
           /\ \A k \in 1..Count(c) : RuleAt(c, k) \in Rule
  BY BoundAssumption DEF Count, RuleAt, Rule, Config

\* restoreSecrets returns a configuration.
LEMMA RestoreFacts ==
    ASSUME NEW c \in Config, cfg \in Config
    PROVE  /\ RestoreSecrets(c) \in Config
           /\ cfg.key # Mark => RestoreSecrets(c).key # Mark
  BY DEF RestoreSecrets, Config

LEMMA TypeInit == Init => TypeInv
<1> SUFFICES ASSUME Init PROVE TypeInv
  OBVIOUS
<1> USE BootAssumption, BoundAssumption DEF Init
<1>1. TypeOK
  <2>1. rules \in [Rule -> Nat] /\ listed \in [Rule -> Nat] /\ spared \in [Rule -> Nat]
    OBVIOUS
  <2>2. pc \in [Procs -> {"idle", "load", "apply", "add", "store", "truncate", "write", "rename"}]
    OBVIOUS
  <2>3. next \in [Procs -> 1..(2 * NRules + 1)]
    OBVIOUS
  <2>4. old \in [Procs -> Config] /\ new \in [Procs -> Config]
    OBVIOUS
  <2>5. /\ file \in Contents /\ tmp \in Contents \cup {NoFile}
        /\ fd \in [Editors -> {"none", "tmp", "file"}]
        /\ cfg \in Config /\ edits \in 0..MaxEdits
    BY DEF Contents
  <2>6. server = "start" /\ cleanup = FALSE /\ failed = FALSE /\ stage \in 0..4
    OBVIOUS
  <2> QED
    BY <2>1, <2>2, <2>3, <2>4, <2>5, <2>6 DEF TypeOK
<1>2. IndexOK /\ MainOK /\ ListedOK
  BY DEF IndexOK, MainOK, ListedOK, Procs
<1> QED
  BY <1>1, <1>2 DEF TypeInv

\* A handler that returns keeps the types.
LEMMA TypeReturn ==
    ASSUME TypeInv, NEW p \in Procs, Return(p)
    PROVE  /\ pc' \in [Procs -> {"idle", "load", "apply", "add", "store", "truncate", "write", "rename"}]
           /\ old' \in [Procs -> Config] /\ new' \in [Procs -> Config]
           /\ next' \in [Procs -> 1..(2 * NRules + 1)]
           /\ IndexOK'
           /\ p # Main => pc'[Main] = pc[Main]
  BY BootAssumption, BoundAssumption DEF TypeInv, TypeOK, IndexOK, MainOK, Return, Goto, Procs

LEMMA TypeStep == TypeInv /\ [Next]_vars => TypeInv'
<1> SUFFICES ASSUME TypeInv, [Next]_vars PROVE TypeInv'
  OBVIOUS
<1>0. Editors \subseteq Procs /\ Main \in Procs /\ Main \notin Editors /\ Main \notin Requests
  BY ProcAssumption DEF Procs
<1> USE <1>0 DEF TypeInv, TypeOK, IndexOK, MainOK, ListedOK, fileVars, ruleVars, removeVars, runVars, At, Goto
<1>1. ASSUME NEW p \in Requests, Reload(p) PROVE TypeInv'
  BY <1>1, BoundAssumption DEF Reload, BeginReload, Edit, Procs
<1>2. ASSUME NEW p \in Requests \cup Editors, Load(p) PROVE TypeInv'
  BY <1>2, BoundAssumption DEF Load, Procs
<1>3. ASSUME NEW p \in Requests \cup Editors, LoadFails(p) PROVE TypeInv'
  BY <1>3, TypeReturn DEF LoadFails, Procs
<1>4. ASSUME NEW p \in Requests \cup Editors, Store(p) PROVE TypeInv'
  BY <1>4, TypeReturn DEF Store, Procs
<1>5. ASSUME NEW p \in Procs, CheckRule(p) PROVE TypeInv'
  <2>1. Count(new[p]) \in NRules..(2 * NRules)
    BY RuleFacts
  <2> QED
    BY <1>5, <2>1, BoundAssumption DEF CheckRule
<1>6. ASSUME NEW p \in Procs, AddRule(p) PROVE TypeInv'
  <2>1. /\ Count(new[p]) \in NRules..(2 * NRules)
        /\ next[p] \in 1..Count(new[p])
    BY <1>6, RuleFacts DEF AddRule
  <2>2. RuleAt(new[p], next[p]) \in Rule
    BY <2>1, RuleFacts
  <2>3. rules' \in [Rule -> Nat] /\ ListedOK'
    BY <1>6, <2>2 DEF AddRule
  <2>4. next' \in [Procs -> 1..(2 * NRules + 1)]
    BY <1>6, <2>1, BoundAssumption DEF AddRule
  <2>5. pc' = [pc EXCEPT ![p] = "apply"] /\ IndexOK'
    BY <1>6 DEF AddRule
  <2>6. spared' \in [Rule -> Nat]
    BY <1>6, <2>2 DEF AddRule
  <2> QED
    BY <1>6, <2>3, <2>4, <2>5, <2>6 DEF AddRule
<1>7. ASSUME NEW p \in Procs, ApplyDone(p) PROVE TypeInv'
  BY <1>7 DEF ApplyDone, AfterApply
<1>8. ASSUME NEW p \in Procs, ApplyFails(p) PROVE TypeInv'
  BY <1>8 DEF ApplyFails, AfterApply
<1>9. ASSUME NEW p \in Editors, NEW c \in Config, PutConfig(p, c) PROVE TypeInv'
  BY <1>9, RestoreFacts, BoundAssumption DEF PutConfig, Edit
<1>10. ASSUME NEW p \in Editors, Truncate(p) PROVE TypeInv'
  BY <1>10 DEF Truncate, Contents
<1>11. ASSUME NEW p \in Editors, Write(p) PROVE TypeInv'
  <2>1. \A c : Overlaid(c, new[p]) \subseteq Contents
    BY DEF Overlaid, Contents
  <2> QED
    BY <1>11, <2>1 DEF Write
<1>12. ASSUME NEW p \in Editors, WriteFails(p) PROVE TypeInv'
  BY <1>12, TypeReturn DEF WriteFails
<1>13. ASSUME NEW p \in Editors, Rename(p) PROVE TypeInv'
  BY <1>13 DEF Rename, BeginReload
<1>14. ASSUME NEW c \in Contents, EditFile(c) PROVE TypeInv'
  BY <1>14, BoundAssumption DEF EditFile, Edit
<1>15. ASSUME RunReturns PROVE TypeInv'
  BY <1>15 DEF RunReturns
<1>16. ASSUME List \/ ListFails PROVE TypeInv'
  <2>1. Listing(stage + 1) \in [Rule -> Nat]
    BY DEF Listing
  <2>2. listed' \in [Rule -> Nat] /\ spared' \in [Rule -> Nat] /\ stage' \in 0..4
    BY <1>16, <2>1 DEF List, ListFails
  <2>4. ListedOK'
    BY <1>16 DEF List, ListFails, Listing
  <2>3. UNCHANGED <<file, tmp, fd, cfg, rules, failed, server, cleanup, pc, old, new, next, edits>>
    BY <1>16 DEF List, ListFails
  <2> QED
    BY <2>2, <2>3, <2>4
<1>20. ASSUME NEW r \in Rule, Delete(r) PROVE TypeInv'
  <2>1. listed[r] \in Nat \ {0} /\ rules[r] \in Nat \ {0}
    BY <1>20 DEF Delete
  <2>2. rules' \in [Rule -> Nat] /\ listed' \in [Rule -> Nat] /\ spared' \in [Rule -> Nat]
    BY <1>20, <2>1 DEF Delete
  <2>3. ListedOK'
    BY <1>20, <2>1 DEF Delete
  <2>4. UNCHANGED <<file, tmp, fd, cfg, failed, stage, server, cleanup, pc, old, new, next, edits>>
    BY <1>20 DEF Delete
  <2> QED
    BY <2>2, <2>3, <2>4
<1>17. ASSUME Exit PROVE TypeInv'
  BY <1>17 DEF Exit
<1>18. CASE UNCHANGED vars
  BY <1>18 DEF vars
<1> QED
  BY <1>1, <1>2, <1>3, <1>4, <1>5, <1>6, <1>7, <1>8, <1>9, <1>10, <1>11, <1>12, <1>13,
     <1>14, <1>15, <1>16, <1>17, <1>18, <1>20 DEF Next

\* ServerConfig keeps the types of its variables.
THEOREM TypeCorrect == Spec => []TypeOK
<1>1. TypeInv => TypeOK
  BY DEF TypeInv
<1> QED
  BY <1>1, TypeInit, TypeStep, PTL DEF Spec

-----------------------------------------------------------------------------
(* What needs a restart, the secret and the file *)

SameListener(c) == c.net = Boot.net /\ c.key = Boot.key

\* Every copy a reload compares with, or is about to store, fits the listener.
ListenerInv ==
    /\ SameListener(cfg)
    /\ \A p \in Procs : SameListener(old[p])
    /\ \A p \in Procs : pc[p] \in {"apply", "add", "store"} => SameListener(new[p])

\* No file holds the mark, and neither does what a PUT is about to write.
MarkInv ==
    /\ file \in Config => file.key # Mark
    /\ tmp \in Config => tmp.key # Mark
    /\ \A p \in Editors : pc[p] \in {"truncate", "write", "rename"} => new[p].key # Mark

Inv == TypeInv /\ ListenerInv /\ MarkInv

LEMMA InvInit == Init => Inv
<1> SUFFICES ASSUME Init PROVE Inv
  OBVIOUS
<1>1. Editors \subseteq Procs /\ Main \notin Editors
  BY ProcAssumption DEF Procs
<1>2. ListenerInv
  BY DEF Init, ListenerInv, SameListener
<1>3. MarkInv
  BY <1>1, BootAssumption, ContentsAssumption DEF Init, MarkInv
<1> QED
  BY <1>2, <1>3, TypeInit DEF Inv

LEMMA InvStep == Inv /\ [Next]_vars => Inv'
<1> SUFFICES ASSUME Inv, [Next]_vars PROVE ListenerInv' /\ MarkInv'
  BY TypeStep DEF Inv
<1>0. /\ Editors \subseteq Procs /\ Main \in Procs /\ Main \notin Editors
      /\ Editors \cap Requests = {} /\ Main \notin Requests
      /\ Requests \subseteq Procs
      /\ Boot \in Config /\ Boot.key # Mark /\ SameListener(Boot)
      /\ Invalid \notin Config /\ Cut \notin Config /\ NoFile \notin Config
  BY ProcAssumption, BootAssumption, ContentsAssumption DEF Procs, SameListener
<1>a. /\ pc \in [Procs -> {"idle", "load", "apply", "add", "store", "truncate", "write", "rename"}]
      /\ old \in [Procs -> Config] /\ new \in [Procs -> Config]
      /\ cfg \in Config
      /\ SameListener(cfg) /\ cfg.key # Mark
  BY <1>0 DEF Inv, TypeInv, TypeOK, ListenerInv, SameListener
<1> USE <1>0, <1>a DEF Inv, ListenerInv, MarkInv, fileVars, runVars, ruleVars, removeVars, At, Goto
<1>1. ASSUME NEW p \in Requests, Reload(p) PROVE ListenerInv' /\ MarkInv'
  BY <1>1 DEF Reload, BeginReload
<1>2. ASSUME NEW p \in Requests \cup Editors, Load(p) PROVE ListenerInv' /\ MarkInv'
  BY <1>2 DEF Load, Restartless, SameListener
<1>3. ASSUME NEW p \in Requests \cup Editors, LoadFails(p)
      PROVE  ListenerInv' /\ MarkInv'
  BY <1>3 DEF LoadFails, Return
<1>4. ASSUME NEW p \in Requests \cup Editors, Store(p) PROVE ListenerInv' /\ MarkInv'
  BY <1>4 DEF Store, Return
<1>5. ASSUME NEW p \in Procs, CheckRule(p) PROVE ListenerInv' /\ MarkInv'
  BY <1>5 DEF CheckRule
<1>6. ASSUME NEW p \in Procs, AddRule(p) PROVE ListenerInv' /\ MarkInv'
  BY <1>6 DEF AddRule
<1>7. ASSUME NEW p \in Procs, ApplyDone(p) PROVE ListenerInv' /\ MarkInv'
  BY <1>7 DEF ApplyDone, AfterApply
<1>8. ASSUME NEW p \in Procs, ApplyFails(p) PROVE ListenerInv' /\ MarkInv'
  BY <1>8 DEF ApplyFails, AfterApply
<1>9. ASSUME NEW p \in Editors, NEW c \in Config, PutConfig(p, c) PROVE ListenerInv' /\ MarkInv'
  BY <1>9, RestoreFacts DEF PutConfig
<1>10. ASSUME NEW p \in Editors, Truncate(p) PROVE ListenerInv' /\ MarkInv'
  BY <1>10 DEF Truncate
<1>11. ASSUME NEW p \in Editors, Write(p) PROVE ListenerInv' /\ MarkInv'
  <2>1. \A c : \A d \in Overlaid(c, new[p]) : d = new[p] \/ d \notin Config \/ d.key # Mark
    BY DEF Overlaid
  <2> QED
    BY <1>11, <2>1 DEF Write
<1>12. ASSUME NEW p \in Editors, WriteFails(p) PROVE ListenerInv' /\ MarkInv'
  BY <1>12 DEF WriteFails, Return
<1>13. ASSUME NEW p \in Editors, Rename(p) PROVE ListenerInv' /\ MarkInv'
  BY <1>13 DEF Rename, BeginReload
<1>14. ASSUME NEW c \in {d \in Contents : d \notin Config \/ d.key # Mark} \ {Cut}, EditFile(c)
       PROVE  ListenerInv' /\ MarkInv'
  BY <1>14 DEF EditFile
<1>15. ASSUME RunReturns \/ List \/ ListFails \/ Exit PROVE ListenerInv' /\ MarkInv'
  BY <1>15 DEF RunReturns, List, ListFails, Exit
<1>20. ASSUME NEW r \in Rule, Delete(r) PROVE ListenerInv' /\ MarkInv'
  BY <1>20 DEF Delete
<1>16. CASE UNCHANGED vars
  BY <1>16 DEF vars
<1> QED
  BY <1>1, <1>2, <1>3, <1>4, <1>5, <1>6, <1>7, <1>8, <1>9, <1>10, <1>11, <1>12, <1>13,
     <1>14, <1>15, <1>16, <1>20 DEF Next

\* The running configuration never differs from the listener in what needs a restart.
THEOREM ListenerMatches == Spec => []ListenerMatchesConfig
<1>1. Inv => ListenerMatchesConfig
  BY DEF Inv, ListenerInv, SameListener, ListenerMatchesConfig
<1> QED
  BY <1>1, InvInit, InvStep, PTL DEF Spec

\* The redaction mark never becomes the secret, on disk or in memory.
THEOREM SecretKept == Spec => []MarkNeverSaved
<1>1. Inv => MarkNeverSaved
  BY BootAssumption DEF Inv, ListenerInv, SameListener, MarkInv, MarkNeverSaved
<1> QED
  BY <1>1, InvInit, InvStep, PTL DEF Spec

-----------------------------------------------------------------------------
(* The firewall *)

\* The first n rules of configuration c are among rl.
Placed(rl, c, n) == \A k \in 1..n : rl[RuleAt(c, k)] > 0

\* Until Run removes the rules, and unless an Apply failed: the rules of the running
\* configuration are in place, a goroutine in Apply has placed the rules before the
\* one it is at, and one about to store has placed them all.
FirewallInv ==
    ~failed /\ server \in {"start", "serve"} =>
       /\ server = "serve" => Placed(rules, cfg, Count(cfg))
       /\ server = "start" => new[Main] = cfg /\ \A p \in Procs \ {Main} : pc[p] = "idle"
       /\ \A p \in Procs : pc[p] \in {"apply", "add"} =>
             next[p] <= Count(new[p]) + 1 /\ Placed(rules, new[p], next[p] - 1)
       /\ \A p \in Procs : pc[p] = "store" => Placed(rules, new[p], Count(new[p]))

LEMMA FirewallInit == Init => FirewallInv
<1> SUFFICES ASSUME Init PROVE FirewallInv
  OBVIOUS
<1>1. Count(Boot) \in Nat
  BY RuleFacts, BootAssumption, BoundAssumption
<1> QED
  BY <1>1 DEF Init, FirewallInv, Placed, Procs

LEMMA FirewallStep == TypeInv /\ FirewallInv /\ [Next]_vars => FirewallInv'
<1> SUFFICES ASSUME TypeInv, FirewallInv, [Next]_vars,
                    ~failed', server' \in {"start", "serve"}
             PROVE  FirewallInv'
  BY DEF FirewallInv
<1>0. /\ Editors \subseteq Procs /\ Main \in Procs /\ Main \notin Editors
      /\ Editors \cap Requests = {} /\ Main \notin Requests
      /\ Requests \subseteq Procs
      /\ Boot \in Config
  BY ProcAssumption, BootAssumption DEF Procs
<1>a. /\ pc \in [Procs -> {"idle", "load", "apply", "add", "store", "truncate", "write", "rename"}]
      /\ new \in [Procs -> Config]
      /\ next \in [Procs -> 1..(2 * NRules + 1)]
      /\ rules \in [Rule -> Nat]
      /\ cfg \in Config
      /\ server \in {"start", "serve", "remove", "exit"}
      /\ pc[Main] \in (IF server = "start" THEN {"apply", "add"} ELSE {"idle"})
  BY DEF TypeInv, TypeOK, MainOK
<1>b. \A c \in Config : Count(c) \in Nat /\ Count(c) >= 1
  BY RuleFacts, BoundAssumption
<1> USE <1>0, <1>a, <1>b DEF FirewallInv, fileVars, runVars, ruleVars, removeVars, At, Goto
<1>1. ASSUME NEW p \in Requests, Reload(p) PROVE FirewallInv'
  BY <1>1 DEF Reload, BeginReload
<1>2. ASSUME NEW p \in Requests \cup Editors, Load(p) PROVE FirewallInv'
  <2>1. Placed(rules, file, 0)
    BY DEF Placed
  <2> QED
    BY <1>2, <2>1 DEF Load
<1>3. ASSUME NEW p \in Requests \cup Editors, LoadFails(p) PROVE FirewallInv'
  BY <1>3 DEF LoadFails, Return
<1>4. ASSUME NEW p \in Requests \cup Editors, Store(p) PROVE FirewallInv'
  BY <1>4 DEF Store, Return
<1>5. ASSUME NEW p \in Procs, CheckRule(p) PROVE FirewallInv'
  <2>1. CASE /\ rules[RuleAt(new[p], next[p])] > 0
             /\ next' = [next EXCEPT ![p] = next[p] + 1]
             /\ UNCHANGED pc
    <3>1. Placed(rules, new[p], next[p] - 1) => Placed(rules, new[p], next[p])
      BY <2>1 DEF Placed
    <3> QED
      BY <1>5, <2>1, <3>1 DEF CheckRule
  <2>2. CASE Goto(p, "add") /\ UNCHANGED next
    BY <1>5, <2>2 DEF CheckRule
  <2> QED
    BY <1>5, <2>1, <2>2 DEF CheckRule
<1>6. ASSUME NEW p \in Procs, AddRule(p) PROVE FirewallInv'
  <2> DEFINE r == RuleAt(new[p], next[p])
  <2>1. next[p] \in 1..Count(new[p]) /\ r \in Rule
    BY <1>6, RuleFacts DEF AddRule, TypeInv, IndexOK
  <2>2. /\ rules' = [rules EXCEPT ![r] = rules[r] + 1]
        /\ rules' \in [Rule -> Nat]
        /\ \A q \in Rule : rules'[q] >= rules[q]
        /\ rules'[r] > 0
    BY <1>6, <2>1 DEF AddRule
  <2>3. ~failed /\ server \in {"start", "serve"}
    BY <1>6 DEF AddRule
  <2>m. \A c \in Config, n \in Int : n <= Count(c) /\ Placed(rules, c, n) => Placed(rules', c, n)
    <3> SUFFICES ASSUME NEW c \in Config, NEW n \in Int, n <= Count(c), Placed(rules, c, n)
                 PROVE  Placed(rules', c, n)
      OBVIOUS
    <3>1. \A k \in 1..n : RuleAt(c, k) \in Rule
      BY RuleFacts
    <3> QED
      BY <2>2, <3>1 DEF Placed
  <2>4. server = "serve" => Placed(rules', cfg, Count(cfg))
    BY <2>3, <2>m
  <2>5. \A q \in Procs : pc[q] = "store" => Placed(rules', new[q], Count(new[q]))
    BY <2>3, <2>m
  <2>6. \A q \in Procs : pc[q] \in {"apply", "add"} =>
             next[q] <= Count(new[q]) + 1 /\ Placed(rules', new[q], next[q] - 1)
    BY <2>3, <2>m
  <2>7. Placed(rules', new[p], next[p])
    BY <1>6, <2>1, <2>2, <2>6 DEF AddRule, Placed
  <2>8. /\ pc' = [pc EXCEPT ![p] = "apply"] /\ pc[p] = "add"
        /\ next' = [next EXCEPT ![p] = next[p] + 1]
        /\ UNCHANGED <<cfg, new, server, failed>>
    BY <1>6 DEF AddRule
  <2> HIDE DEF r
  <2>9. \A q \in Procs : pc'[q] \in {"apply", "add"} =>
             next'[q] <= Count(new[q]) + 1 /\ Placed(rules', new[q], next'[q] - 1)
    BY <2>1, <2>6, <2>7, <2>8
  <2>10. \A q \in Procs : pc'[q] = "store" => Placed(rules', new[q], Count(new[q]))
    BY <2>5, <2>8
  <2> QED
    BY <2>3, <2>4, <2>8, <2>9, <2>10
<1>7. ASSUME NEW p \in Procs, ApplyDone(p) PROVE FirewallInv'
  <2>1. Placed(rules, new[p], next[p] - 1) => Placed(rules, new[p], Count(new[p]))
    BY <1>7 DEF ApplyDone, Placed
  <2>2. CASE p = Main
    BY <1>7, <2>1, <2>2 DEF ApplyDone, AfterApply
  <2>3. CASE p # Main
    BY <1>7, <2>1, <2>3 DEF ApplyDone, AfterApply
  <2> QED
    BY <2>2, <2>3
<1>8. ASSUME NEW p \in Procs, ApplyFails(p) PROVE FirewallInv'
  BY <1>8 DEF ApplyFails
<1>9. ASSUME NEW p \in Editors, NEW c \in Config, PutConfig(p, c) PROVE FirewallInv'
  BY <1>9 DEF PutConfig
<1>10. ASSUME NEW p \in Editors, Truncate(p) PROVE FirewallInv'
  BY <1>10 DEF Truncate
<1>11. ASSUME NEW p \in Editors, Write(p) PROVE FirewallInv'
  BY <1>11 DEF Write
<1>12. ASSUME NEW p \in Editors, WriteFails(p) PROVE FirewallInv'
  BY <1>12 DEF WriteFails, Return
<1>13. ASSUME NEW p \in Editors, Rename(p) PROVE FirewallInv'
  BY <1>13 DEF Rename, BeginReload
<1>14. ASSUME NEW c \in Contents, EditFile(c) PROVE FirewallInv'
  BY <1>14 DEF EditFile
<1>15. ASSUME RunReturns \/ List \/ ListFails \/ Exit PROVE FirewallInv'
  BY <1>15 DEF RunReturns, List, ListFails, Exit
<1>20. ASSUME NEW r \in Rule, Delete(r) PROVE FirewallInv'
  BY <1>20 DEF Delete
<1>16. CASE UNCHANGED vars
  BY <1>16 DEF vars
<1> QED
  BY <1>1, <1>2, <1>3, <1>4, <1>5, <1>6, <1>7, <1>8, <1>9, <1>10, <1>11, <1>12, <1>13,
     <1>14, <1>15, <1>16, <1>20 DEF Next

\* While the server serves and no iptables command has failed, the rules of the running
\* configuration are in place, whatever reloads overlap.
THEOREM FirewallFollows == Spec => []FirewallFollowsConfig
<1>1. FirewallInv => FirewallFollowsConfig
  BY DEF FirewallInv, Placed, FirewallFollowsConfig
<1> QED
  BY <1>1, TypeInit, TypeStep, FirewallInit, FirewallStep, PTL DEF Spec

-----------------------------------------------------------------------------
(* The end of Run *)

\* Of the tables Remove has listed, or passed over, the firewall has the copies whose
\* lines are still to be deleted and those that were spared; of the others nothing is
\* listed yet.
RemovalInv ==
    /\ server \in {"start", "serve"} => stage = 0
    /\ server # "exit" => \A r \in Rule :
          IF Passed(r) THEN rules[r] = listed[r] + spared[r] ELSE listed[r] = 0 /\ spared[r] = 0
    /\ server = "exit" /\ cleanup => \A r \in Rule : rules[r] = spared[r]

\* The rules of a table Remove is about to list are not of one it has been through, and
\* after the fourth it has been through all.
LEMMA Tables ==
    ASSUME NEW r \in Rule
    PROVE  /\ \A m, n \in 1..4 : InTable(r, m) /\ InTable(r, n) => m = n
           /\ \E n \in 1..4 : InTable(r, n)
<1>1. InTable(r, 1) \/ InTable(r, 2) \/ InTable(r, 3) \/ InTable(r, 4)
  BY DEF InTable
<1>2. \A m, n \in 1..4 : InTable(r, m) /\ InTable(r, n) => m = n
  BY DEF InTable
<1> QED
  BY <1>1, <1>2

LEMMA RemovalStep == TypeInv /\ RemovalInv /\ [Next]_vars => RemovalInv'
<1> SUFFICES ASSUME TypeInv, RemovalInv, [Next]_vars PROVE RemovalInv'
  OBVIOUS
<1>0. /\ Main \in Procs /\ Editors \subseteq Procs /\ Main \notin Editors /\ Main \notin Requests
      /\ Requests \subseteq Procs
      /\ rules \in [Rule -> Nat] /\ listed \in [Rule -> Nat] /\ spared \in [Rule -> Nat]
      /\ stage \in 0..4
      /\ server \in {"start", "serve", "remove", "exit"}
      /\ pc[Main] \in (IF server = "start" THEN {"apply", "add"} ELSE {"idle"})
  BY ProcAssumption DEF Procs, TypeInv, TypeOK, MainOK
<1> USE <1>0
\* What leaves the rules, the removal and its end alone keeps the invariant.
<1> DEFINE Quiet == /\ rules' = rules /\ stage' = stage /\ listed' = listed /\ spared' = spared
                    /\ server' = server \/ (server = "start" /\ server' = "serve")
                    /\ server = "exit" => cleanup' = cleanup
<1>a. Quiet => RemovalInv'
  <2> SUFFICES ASSUME Quiet PROVE RemovalInv'
    OBVIOUS
  <2>1. \A r \in Rule : Passed(r)' <=> Passed(r)
    BY DEF Passed, InTable
  <2> QED
    BY <2>1 DEF RemovalInv
<1> USE DEF fileVars, runVars, ruleVars, removeVars, At, Goto
<1>1. ASSUME NEW p \in Requests, Reload(p) PROVE RemovalInv'
  <2>1. Quiet
    BY <1>1 DEF Reload, BeginReload
  <2> QED
    BY <2>1, <1>a
<1>2. ASSUME NEW p \in Requests \cup Editors, Load(p) \/ LoadFails(p) \/ Store(p)
      PROVE  RemovalInv'
  <2>1. Quiet
    BY <1>2 DEF Load, LoadFails, Store, Return
  <2> QED
    BY <2>1, <1>a
<1>3. ASSUME NEW p \in Procs, CheckRule(p) PROVE RemovalInv'
  <2>1. Quiet
    BY <1>3 DEF CheckRule
  <2> QED
    BY <2>1, <1>a
<1>4. ASSUME NEW p \in Procs, AddRule(p) PROVE RemovalInv'
  <2> DEFINE r == RuleAt(new[p], next[p])
  <2>1. r \in Rule
    BY <1>4, RuleFacts DEF AddRule, TypeInv, TypeOK, IndexOK
  <2>2. /\ rules' = [rules EXCEPT ![r] = rules[r] + 1]
        /\ spared' = [spared EXCEPT ![r] = IF Passed(r) THEN spared[r] + 1 ELSE spared[r]]
        /\ UNCHANGED <<stage, listed, server, cleanup>>
        /\ server # "exit"
    BY <1>4 DEF AddRule
  <2> HIDE DEF r
  <2>3. \A q \in Rule : Passed(q)' <=> Passed(q)
    BY <2>2 DEF Passed, InTable
  <2>4. ASSUME NEW q \in Rule
        PROVE  IF Passed(q) THEN rules'[q] = listed'[q] + spared'[q]
                            ELSE listed'[q] = 0 /\ spared'[q] = 0
    <3>1. CASE q = r
      BY <2>1, <2>2, <3>1 DEF RemovalInv
    <3>2. CASE q # r
      BY <2>1, <2>2, <3>2 DEF RemovalInv
    <3> QED
      BY <3>1, <3>2
  <2> QED
    BY <2>2, <2>3, <2>4 DEF RemovalInv
<1>5. ASSUME NEW p \in Procs, ApplyDone(p) \/ ApplyFails(p) PROVE RemovalInv'
  <2>1. Quiet
    BY <1>5 DEF ApplyDone, ApplyFails, AfterApply
  <2> QED
    BY <2>1, <1>a
<1>6. ASSUME NEW p \in Editors, NEW c \in Config, PutConfig(p, c) PROVE RemovalInv'
  <2>1. Quiet
    BY <1>6 DEF PutConfig
  <2> QED
    BY <2>1, <1>a
<1>7. ASSUME NEW p \in Editors, Truncate(p) \/ Write(p) \/ WriteFails(p) \/ Rename(p)
      PROVE  RemovalInv'
  <2>1. Quiet
    BY <1>7 DEF Truncate, Write, WriteFails, Rename, Return, BeginReload
  <2> QED
    BY <2>1, <1>a
<1>8. ASSUME NEW c \in Contents, EditFile(c) PROVE RemovalInv'
  <2>1. Quiet
    BY <1>8 DEF EditFile
  <2> QED
    BY <2>1, <1>a
<1>9. ASSUME RunReturns PROVE RemovalInv'
  <2>1. \A r \in Rule : (Passed(r)' <=> Passed(r)) /\ ~Passed(r)
    BY <1>9 DEF RemovalInv, RunReturns, Passed, InTable
  <2> QED
    BY <1>9, <2>1 DEF RemovalInv, RunReturns
<1>10. ASSUME List \/ ListFails PROVE RemovalInv'
  <2>1. /\ server = "remove" /\ server' = "remove" /\ stage \in 0..3
        /\ stage' = stage + 1 /\ rules' = rules
        /\ \A r \in Rule : listed[r] = 0
    BY <1>10 DEF List, ListFails, NothingListed
  <2>2. ASSUME NEW r \in Rule
        PROVE  IF Passed(r)' THEN rules'[r] = listed'[r] + spared'[r]
                             ELSE listed'[r] = 0 /\ spared'[r] = 0
    <3>1. Passed(r)' <=> Passed(r) \/ InTable(r, stage + 1)
      BY <2>1 DEF Passed, InTable
    <3>2. InTable(r, stage + 1) => ~Passed(r)
      BY <2>1, Tables DEF Passed
    <3>3. Listing(stage + 1)[r] = IF InTable(r, stage + 1) THEN rules[r] ELSE 0
      BY DEF Listing
    <3>4. CASE List
      <4>1. listed'[r] = Listing(stage + 1)[r] /\ spared'[r] = spared[r]
        BY <3>4 DEF List
      <4> QED
        BY <2>1, <3>1, <3>2, <3>3, <4>1 DEF RemovalInv
    <3>5. CASE ListFails
      <4>1. listed'[r] = listed[r] /\ spared'[r] = spared[r] + Listing(stage + 1)[r]
        BY <3>5 DEF ListFails
      <4> QED
        BY <2>1, <3>1, <3>2, <3>3, <4>1 DEF RemovalInv
    <3> QED
      BY <1>10, <3>4, <3>5
  <2> QED
    BY <2>1, <2>2 DEF RemovalInv
<1>11. ASSUME NEW r \in Rule, Delete(r) PROVE RemovalInv'
  <2>1. /\ server = "remove" /\ UNCHANGED <<server, stage>>
        /\ listed' = [listed EXCEPT ![r] = listed[r] - 1] /\ listed[r] > 0
        /\ \/ rules' = [rules EXCEPT ![r] = rules[r] - 1] /\ UNCHANGED spared
           \/ spared' = [spared EXCEPT ![r] = spared[r] + 1] /\ UNCHANGED rules
    BY <1>11 DEF Delete
  <2>2. \A q \in Rule : Passed(q)' <=> Passed(q)
    BY <2>1 DEF Passed, InTable
  <2>3. ASSUME NEW q \in Rule
        PROVE  IF Passed(q) THEN rules'[q] = listed'[q] + spared'[q]
                            ELSE listed'[q] = 0 /\ spared'[q] = 0
    <3>1. CASE q = r
      BY <2>1, <3>1 DEF RemovalInv
    <3>2. CASE q # r
      BY <2>1, <3>2 DEF RemovalInv
    <3> QED
      BY <3>1, <3>2
  <2> QED
    BY <2>1, <2>2, <2>3 DEF RemovalInv
<1>12. ASSUME Exit PROVE RemovalInv'
  <2>1. ASSUME NEW r \in Rule PROVE rules[r] = spared[r]
    <3>1. Passed(r)
      BY <1>12, Tables DEF Exit, Passed
    <3>2. listed[r] = 0
      BY <1>12 DEF Exit, NothingListed
    <3> QED
      BY <1>12, <3>1, <3>2 DEF RemovalInv, Exit
  <2> QED
    BY <1>12, <2>1 DEF RemovalInv, Exit
<1>13. CASE UNCHANGED vars
  <2>1. Quiet
    BY <1>13 DEF vars
  <2> QED
    BY <2>1, <1>a
<1> QED
  BY <1>1, <1>2, <1>3, <1>4, <1>5, <1>6, <1>7, <1>8, <1>9, <1>10, <1>11, <1>12, <1>13 DEF Next

\* When Run has deferred Remove, what is left of the program's rules at the end is what
\* failed commands of Remove left or reloads added after the listing: every other copy
\* has been deleted, the second of a rule that was added twice too.
THEOREM NoRuleLeft == Spec => []RulesRemoved
<1>1. Init => RemovalInv
  BY DEF Init, RemovalInv, Passed
<1>2. TypeInv /\ RemovalInv => RulesRemoved
  BY DEF TypeInv, TypeOK, RemovalInv, RulesRemoved
<1> QED
  BY <1>1, <1>2, TypeInit, TypeStep, RemovalStep, PTL DEF Spec
=============================================================================
