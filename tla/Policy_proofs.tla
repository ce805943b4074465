---------------------------- MODULE Policy_proofs ----------------------------
(* Proofs about Policy: its types, the guard that keeps this host from     *)
(* firewalling itself, the reach of the reaper, what the back end believes *)
(* of the firewall, and the list the operator reads.                       *)
EXTENDS Policy, TLAPS

LEMMA PlacementType == Placement \in {"scoped", "override", "refused"}
BY DEF Placement

LEMMA BackendType == Backend \in {"log", "netsh", "iptables"}
BY PolicyAssumption DEF Backend

LEMMA NextTypes == TypeOK /\ [Next]_vars => TypeOK'
<1> SUFFICES ASSUME TypeOK, [Next]_vars PROVE TypeOK'
  OBVIOUS
<1> USE PolicyAssumption
<1>1. CASE Tick
  BY <1>1 DEF Tick, TypeOK, threads, reaping
<1>2. ASSUME NEW src \in Sources, NEW dom \in Domains, NEW hit \in BOOLEAN,
             Verdict(src, dom, hit)
      PROVE  TypeOK'
  <2>1. now + TTL \in Int
    BY DEF TypeOK
  <2>2. sunk' \in [Domains -> Int]
    BY <1>2, <2>1 DEF Verdict, TypeOK
  <2>3. eng' = EngineIdle \/ eng' = [at |-> "log", src |-> src, dom |-> dom, hit |-> hit]
        \/ eng' = [at |-> "block", src |-> src, dom |-> dom, hit |-> hit]
    BY <1>2 DEF Verdict
  <2> QED BY <1>2, <2>2, <2>3 DEF Verdict, TypeOK, EngineIdle, reaping
<1>3. CASE Block
  <2>1. eng.src \in Sources /\ eng.at = "block"
    BY <1>3 DEF Block, TypeOK
  <2>2. eng' \in {EngineIdle, [eng EXCEPT !.at = "log"], [eng EXCEPT !.at = "mark"]}
    BY <1>3 DEF Block, BlockRefused, BlockRaised, BlockFails, BlockRuns, NotBlocked
  <2>3. rules' \in [Sources -> Nat]
    BY <1>3, <2>1 DEF Block, BlockRefused, BlockRaised, BlockFails, BlockRuns, TypeOK
  <2>4. faults' \in 0 .. MaxFaults
    BY <1>3 DEF Block, BlockRefused, BlockRaised, BlockFails, BlockRuns, TypeOK
  <2>5. /\ eng' \in [at : {"idle", "block", "mark", "stamp", "log"},
                     src : Sources \cup {None}, dom : Domains \cup {None},
                     hit : BOOLEAN]
        /\ eng'.at # "idle" => eng'.src \in Sources /\ eng'.dom \in Domains
    <3>1. CASE eng' = EngineIdle
      BY <3>1 DEF EngineIdle
    <3>2. CASE eng' = [eng EXCEPT !.at = "log"]
      BY <2>1, <3>2 DEF TypeOK
    <3>3. CASE eng' = [eng EXCEPT !.at = "mark"]
      BY <2>1, <3>3 DEF TypeOK
    <3> QED BY <2>2, <3>1, <3>2, <3>3
  <2> QED BY <1>3, <2>3, <2>4, <2>5 DEF Block, TypeOK, reaping
<1>4. CASE Mark
  BY <1>4 DEF Mark, TypeOK, reaping
<1>5. CASE Stamp
  <2>1. now + TTL \in Int
    BY DEF TypeOK
  <2> QED BY <1>5, <2>1 DEF Stamp, TypeOK, reaping
<1>6. CASE Log
  <2>1. ledger' \in [Targets -> Kinds]
    BY <1>6 DEF Log, Inserted, TypeOK, Kinds
  <2> QED BY <1>6, <2>1 DEF Log, TypeOK, EngineIdle, reaping
<1>7. ASSUME NEW p \in ApiThreads, NEW t \in Targets, Unblock(p, t)
      PROVE  TypeOK'
  BY <1>7 DEF Unblock, Forget, Absent, TypeOK, Steps, reaping, Unblockers
<1>8. ASSUME NEW p \in Unblockers, Unblocking(p)
      PROVE  TypeOK'
  <2>1. CASE Reverse(p)
    BY <2>1 DEF Reverse, ReverseRaises, ReverseReturns, ReverseGoesOn, TypeOK,
                Steps, reaping
  <2>4. CASE Delete(p)
    <3>1. at' \in [Unblockers -> Steps] /\ faults' \in 0 .. MaxFaults
      BY <2>4 DEF Delete, DeleteFails, DeleteFindsNone, DeleteRuns, TypeOK, Steps
    <3>2. rules' \in [Sources -> Nat]
      BY <2>4, BackendType
      DEF Delete, DeleteFails, DeleteFindsNone, DeleteRuns, Remaining, Live, TypeOK
    <3> QED BY <2>4, <3>1, <3>2 DEF Delete, TypeOK, reaping
  <2>5. CASE Discard(p)
    BY <2>5 DEF Discard, TypeOK, Steps, reaping
  <2>2. CASE Free(p)
    BY <2>2 DEF Free, Forget, Absent, TypeOK, Steps, reaping
  <2>3. CASE RemoveRow(p)
    BY <2>3 DEF RemoveRow, RemoveBlock, TypeOK, Kinds, Steps, reaping
  <2> QED BY <1>8, <2>1, <2>2, <2>3, <2>4, <2>5 DEF Unblocking
<1>9. CASE Reaping
  <2> USE DEF TypeOK, Steps, reaping, Unblockers
  <2>1. CASE BeginScan
    BY <2>1 DEF BeginScan, Keys
  <2>2. CASE EndScan
    BY <2>2 DEF EndScan, ScanRaises, ScanReturns, Keys
  <2>3. CASE LiftNext
    BY <2>3 DEF LiftNext, Forget, Absent, Targets
  <2>4. CASE ReapDomains
    BY <2>4 DEF ReapDomains, Absent
  <2>5. CASE Report
    BY <2>5 DEF Report, Kinds
  <2> QED BY <1>9, <2>1, <2>2, <2>3, <2>4, <2>5 DEF Reaping
<1>10. ASSUME NEW ip \in Sources, AllowlistAdd(ip) \/ AllowlistRemove(ip)
       PROVE  TypeOK'
  BY <1>10 DEF AllowlistAdd, AllowlistRemove, TypeOK, threads, reaping
<1>11. CASE Restart
  BY <1>11 DEF Restart, TypeOK, Steps, EngineIdle, Absent
<1>12. CASE UNCHANGED vars
  BY <1>12 DEF vars, TypeOK, threads, reaping
<1> QED
  BY <1>1, <1>2, <1>3, <1>4, <1>5, <1>6, <1>7, <1>8, <1>9, <1>10, <1>11, <1>12
  DEF Next, EngineStep

(* Every variable keeps its type, whatever back end, bounds and threads.   *)
THEOREM TypeCorrect == Spec => []TypeOK
<1>1. Init => TypeOK
  BY PolicyAssumption DEF Init, TypeOK, EngineIdle, Absent, Kinds, Steps, Unblockers
<1> QED BY <1>1, NextTypes, PTL DEF Spec

-----------------------------------------------------------------------------
(* The engine carries no address of this host into a firewall command.     *)
OwnSafe ==
  /\ TypeOK
  /\ OwnNeverFirewalled
  /\ eng.at \in {"block", "mark", "stamp"} => eng.src \notin Own

LEMMA NextOwnSafe == OwnSafe /\ [Next]_vars => OwnSafe'
<1> SUFFICES ASSUME OwnSafe, [Next]_vars
             PROVE  /\ OwnNeverFirewalled'
                    /\ eng'.at \in {"block", "mark", "stamp"} => eng'.src \notin Own
  BY NextTypes DEF OwnSafe
<1> USE DEF OwnSafe, OwnNeverFirewalled
<1>1. CASE Tick
  BY <1>1 DEF Tick, threads
<1>2. ASSUME NEW src \in Sources, NEW dom \in Domains, NEW hit \in BOOLEAN,
             Verdict(src, dom, hit)
      PROVE  /\ OwnNeverFirewalled'
             /\ eng'.at \in {"block", "mark", "stamp"} => eng'.src \notin Own
  <2>1. CASE IsOwn(src)
    <3>1. eng'.at \in {"idle", "log"}
      BY <1>2, <2>1 DEF Verdict, EngineIdle
    <3> QED BY <1>2, <3>1 DEF Verdict
  <2>2. CASE ~ IsOwn(src)
    <3>1. eng' = [at |-> "block", src |-> src, dom |-> dom, hit |-> hit]
      BY <1>2, <2>2 DEF Verdict
    <3> QED BY <1>2, <2>2, <3>1 DEF Verdict, IsOwn, IsLoopback, Own
  <2> QED BY <2>1, <2>2
<1>3. CASE Block
  <2>1. eng.at = "block" /\ eng.src \notin Own /\ eng.src \in Sources
    BY <1>3 DEF Block, TypeOK
  <2>2. eng' \in {EngineIdle, [eng EXCEPT !.at = "log"], [eng EXCEPT !.at = "mark"]}
    BY <1>3 DEF Block, BlockRefused, BlockRaised, BlockFails, BlockRuns, NotBlocked
  <2>3. eng'.at \in {"block", "mark", "stamp"} => eng'.src \notin Own
    BY <2>1, <2>2 DEF EngineIdle, TypeOK
  <2>4. \A ip \in Own : rules'[ip] = rules[ip]
    BY <1>3, <2>1
    DEF Block, BlockRefused, BlockRaised, BlockFails, BlockRuns, TypeOK, Sources
  <2> QED BY <1>3, <2>3, <2>4 DEF Block
<1>4. CASE Mark
  BY <1>4 DEF Mark, TypeOK
<1>5. CASE Stamp
  BY <1>5 DEF Stamp, TypeOK, Sources
<1>6. CASE Log
  BY <1>6 DEF Log, EngineIdle
<1>7. ASSUME NEW p \in ApiThreads, NEW t \in Targets, Unblock(p, t)
      PROVE  OwnNeverFirewalled' /\ UNCHANGED eng
  BY <1>7 DEF Unblock, Forget, TypeOK, Sources
<1>8. ASSUME NEW p \in Unblockers, Unblocking(p)
      PROVE  OwnNeverFirewalled' /\ UNCHANGED eng
  <2>1. CASE Reverse(p)
    BY <2>1 DEF Reverse, ReverseRaises, ReverseReturns, ReverseGoesOn
  <2>4. CASE Delete(p)
    BY <2>4, BackendType DEF Delete, DeleteFails, DeleteFindsNone, DeleteRuns,
       Remaining, Live, TypeOK, Sources
  <2>5. CASE Discard(p)
    BY <2>5 DEF Discard
  <2>2. CASE Free(p)
    BY <2>2 DEF Free
  <2>3. CASE RemoveRow(p)
    BY <2>3 DEF RemoveRow, RemoveBlock
  <2> QED BY <1>8, <2>1, <2>2, <2>3, <2>4, <2>5 DEF Unblocking
<1>9. CASE Reaping
  <2>1. CASE LiftNext
    BY <2>1 DEF LiftNext, Forget, TypeOK, Sources
  <2>2. CASE BeginScan \/ EndScan \/ ReapDomains \/ Report
    BY <2>2 DEF BeginScan, EndScan, ReapDomains, Report
  <2> QED BY <1>9, <2>1, <2>2 DEF Reaping
<1>10. ASSUME NEW ip \in Sources, AllowlistAdd(ip) \/ AllowlistRemove(ip)
       PROVE  OwnNeverFirewalled' /\ UNCHANGED eng
  BY <1>10 DEF AllowlistAdd, AllowlistRemove, threads
<1>11. CASE Restart
  BY <1>11 DEF Restart, EngineIdle, Sources
<1>12. CASE UNCHANGED vars
  BY <1>12 DEF vars, threads
<1> QED
  BY <1>1, <1>2, <1>3, <1>4, <1>5, <1>6, <1>7, <1>8, <1>9, <1>10, <1>11, <1>12
  DEF Next, EngineStep

(* This host is never firewalled: no back end, allowlist, fault, restart   *)
(* or interleaving gives one of its addresses a rule, an entry or an       *)
(* expiry.                                                                 *)
THEOREM SelfDosGuard == Spec => []OwnNeverFirewalled
<1>1. Init => TypeOK
  BY PolicyAssumption DEF Init, TypeOK, EngineIdle, Absent, Kinds, Steps, Unblockers
<1>2. Init => OwnSafe
  BY <1>1 DEF Init, OwnSafe, OwnNeverFirewalled, EngineIdle, Absent, Sources
<1>3. OwnSafe => OwnNeverFirewalled
  BY DEF OwnSafe
<1> QED BY <1>2, <1>3, NextOwnSafe, PTL DEF Spec

-----------------------------------------------------------------------------
(* While no process is killed, the firewall holds one rule at most for a    *)
(* source, and a source that the set does not hold has none, unless the    *)
(* engine has just made it.  A thread that has deleted the rule and has    *)
(* yet to update the set counts as one: it found the only rule, so there   *)
(* is none left, no second thread is there, and the engine makes no new    *)
(* one before the source has left the set.                                 *)
Leaving(p, t, a, g) == a[p] = "discard" /\ g[p] = t

Alone(t, r, a, g) ==
  \A p \in Unblockers : Leaving(p, t, a, g) =>
    r[t] = 0 /\ \A q \in Unblockers : Leaving(q, t, a, g) => q = p

Unknown(t, b, e) == t \notin b /\ ~ (e.at = "mark" /\ e.src = t)

Tallied(t, b, r, e, a, g) ==
  /\ r[t] <= 1
  /\ r[t] > 0 => Live /\ ~ BlockRaises(t)
  /\ Live => Alone(t, r, a, g)
  /\ Live /\ Unknown(t, b, e) =>
       r[t] = 0 /\ \A p \in Unblockers : ~ Leaving(p, t, a, g)

Counted ==
  /\ TypeOK
  /\ crashes = 0 => \A t \in Sources : Tallied(t, blocked, rules, eng, at, target)

(* A run without a kill, or a fault, so far has had none before.           *)
LEMMA Uneventful ==
  ASSUME TypeOK, [Next]_vars
  PROVE  /\ crashes' = 0 => crashes = 0 /\ ~ Restart
         /\ faults' = 0 => faults = 0
<1>1. crashes \in Nat /\ faults \in Nat
  BY PolicyAssumption DEF TypeOK
<1>2. CASE Tick
  BY <1>2 DEF Tick, Restart
<1>3. CASE EngineStep
  <2>1. crashes' = crashes
    BY <1>3 DEF EngineStep, Block, Mark, Stamp, Log
  <2>2. faults' \in {faults, faults + 1}
    BY <1>3 DEF EngineStep, Block, BlockRefused, BlockRaised, BlockFails,
                BlockRuns, Mark, Stamp, Log
  <2> QED BY <1>1, <2>1, <2>2 DEF Restart
<1>4. ASSUME NEW p \in Unblockers, Unblocking(p)
      PROVE  crashes' = crashes /\ faults' \in {faults, faults + 1}
  BY <1>4 DEF Unblocking, Reverse, Delete, DeleteFails, DeleteFindsNone,
     DeleteRuns, Discard, Free, RemoveRow, RemoveBlock
<1>5. CASE Reaping
  BY <1>1, <1>5 DEF Reaping, BeginScan, EndScan, LiftNext, ReapDomains, Report, Restart
<1>6. CASE Restart
  BY <1>1, <1>6 DEF Restart
<1>7. ASSUME NEW src \in Sources, NEW dom \in Domains, NEW hit \in BOOLEAN,
             Verdict(src, dom, hit)
      PROVE  UNCHANGED <<crashes, faults>>
  BY <1>7 DEF Verdict
<1>8. ASSUME NEW p \in ApiThreads, NEW t \in Targets, Unblock(p, t)
      PROVE  UNCHANGED <<crashes, faults>>
  BY <1>8 DEF Unblock
<1>9. ASSUME NEW ip \in Sources, AllowlistAdd(ip) \/ AllowlistRemove(ip)
      PROVE  UNCHANGED <<crashes, faults>>
  BY <1>9 DEF AllowlistAdd, AllowlistRemove
<1>10. CASE UNCHANGED vars
  BY <1>1, <1>10 DEF vars, Restart
<1>11. crashes' = crashes => ~ Restart
  BY <1>1 DEF Restart
<1> QED
  BY <1>1, <1>2, <1>3, <1>4, <1>5, <1>6, <1>7, <1>8, <1>9, <1>10, <1>11 DEF Next

LEMMA NextCounted == Counted /\ [Next]_vars => Counted'
<1> DEFINE Goal(t) == Tallied(t, blocked', rules', eng', at', target')
<1> SUFFICES ASSUME Counted, [Next]_vars, crashes' = 0, NEW t \in Sources
             PROVE  Goal(t)
  BY NextTypes DEF Counted
<1>0. crashes = 0 /\ ~ Restart
  BY Uneventful DEF Counted
<1>1. /\ TypeOK /\ rules[t] \in Nat
      /\ Tallied(t, blocked, rules, eng, at, target)
  BY <1>0 DEF Counted, TypeOK
<1>2. CASE Block
  <2>1. /\ eng.at = "block" /\ eng.src \in Sources
        /\ UNCHANGED <<blocked, at, target>>
    BY <1>1, <1>2 DEF Block, TypeOK
  <2>2. CASE BlockRuns /\ t = eng.src
    <3>1. t \notin blocked /\ ~ BlockRaises(t)
      BY <2>2 DEF BlockRuns
    <3>2. rules'[t] = IF Live THEN rules[t] + 1 ELSE rules[t]
      BY <1>1, <2>2 DEF BlockRuns, TypeOK
    <3>3. eng'.at = "mark" /\ eng'.src = t
      BY <1>1, <2>2 DEF BlockRuns, TypeOK
    <3> QED BY <1>1, <2>1, <3>1, <3>2, <3>3 DEF Tallied, Unknown, Alone
  <2>3. CASE ~ (BlockRuns /\ t = eng.src)
    <3>1. rules'[t] = rules[t]
      BY <1>1, <1>2, <2>1, <2>3
      DEF Block, BlockRefused, BlockRaised, BlockFails, BlockRuns, TypeOK
    <3> QED BY <1>1, <2>1, <3>1 DEF Tallied, Unknown, Alone
  <2> QED BY <2>2, <2>3
<1>3. CASE Mark
  BY <1>1, <1>3 DEF Mark, Tallied, Unknown
<1>4. CASE Stamp \/ Log
  BY <1>1, <1>4 DEF Stamp, Log, Tallied, Unknown
<1>5. ASSUME NEW src \in Sources, NEW dom \in Domains, NEW hit \in BOOLEAN,
             Verdict(src, dom, hit)
      PROVE  Goal(t)
  BY <1>1, <1>5 DEF Verdict, Tallied, Unknown
<1>6. ASSUME NEW p \in Unblockers, UNCHANGED <<rules, eng>>,
             \A q \in Unblockers : Leaving(q, t, at', target') <=>
                                   Leaving(q, t, at, target),
             (t \in blocked') = (t \in blocked) \/ ~ Live
      PROVE  Goal(t)
  BY <1>1, <1>6 DEF Tallied, Unknown, Alone
<1>7. ASSUME NEW p \in Unblockers, Reverse(p)
      PROVE  Goal(t)
  <2>1. UNCHANGED <<rules, eng, target>> /\ at[p] = "reverse"
    BY <1>7 DEF Reverse
  <2>2. at'[p] # "discard" /\ \A q \in Unblockers \ {p} : at'[q] = at[q]
    BY <1>1, <1>7 DEF Reverse, ReverseRaises, ReverseReturns, ReverseGoesOn, TypeOK
  <2>3. blocked' = blocked \/ ~ Live
    BY <1>7 DEF Reverse, ReverseRaises, ReverseReturns, ReverseGoesOn, Live
  <2> QED BY <1>6, <2>1, <2>2, <2>3 DEF Leaving
<1>8. ASSUME NEW p \in Unblockers, Delete(p)
      PROVE  Goal(t)
  <2>1. UNCHANGED <<blocked, eng, target>> /\ at[p] = "delete"
    BY <1>8 DEF Delete
  <2>2. \A q \in Unblockers \ {p} : at'[q] = at[q]
    BY <1>1, <1>8 DEF Delete, DeleteFails, DeleteFindsNone, DeleteRuns, TypeOK
  <2>3. CASE DeleteFails(p) \/ DeleteFindsNone(p)
    <3>1. at'[p] # "discard" /\ rules' = rules
      BY <1>1, <2>3 DEF DeleteFails, DeleteFindsNone, TypeOK
    <3> QED BY <1>6, <2>1, <2>2, <3>1 DEF Leaving
  <2>4. CASE DeleteRuns(p) /\ target[p] # t
    <3>1. rules'[t] = rules[t]
      BY <1>1, <2>4 DEF DeleteRuns, TypeOK
    <3> QED BY <1>1, <2>1, <2>2, <2>4, <3>1 DEF Tallied, Unknown, Alone, Leaving
  <2>5. CASE DeleteRuns(p) /\ target[p] = t /\ Live
    <3>1. rules'[t] = 0
      BY <1>1, <2>5, BackendType DEF DeleteRuns, Remaining, Live, Tallied, TypeOK
    <3>2. CASE Backend = "iptables"
      (* The rule was there: it was known, and no thread was leaving.      *)
      <4>1. rules[t] > 0
        BY <2>5, <3>2 DEF DeleteRuns
      <4>2. \A q \in Unblockers : ~ Leaving(q, t, at, target)
        BY <1>1, <2>5, <4>1 DEF Tallied, Alone
      <4>3. ~ Unknown(t, blocked, eng)
        BY <1>1, <2>5, <4>1 DEF Tallied
      <4>4. \A q \in Unblockers : Leaving(q, t, at', target') => q = p
        BY <2>1, <2>2, <4>2 DEF Leaving
      <4> QED BY <2>1, <3>1, <4>3, <4>4 DEF Tallied, Unknown, Alone
    <3>3. CASE Backend # "iptables"
      <4>1. at'[p] # "discard"
        BY <1>1, <2>5, <3>3 DEF DeleteRuns, TypeOK
      <4>2. \A q \in Unblockers : Leaving(q, t, at', target') =>
                                  Leaving(q, t, at, target)
        BY <2>1, <2>2, <4>1 DEF Leaving
      <4> QED BY <1>1, <2>1, <3>1, <4>2 DEF Tallied, Unknown, Alone
    <3> QED BY <3>2, <3>3
  <2>6. CASE DeleteRuns(p) /\ ~ Live
    BY <1>1, <2>1, <2>6 DEF DeleteRuns, Tallied
  <2> QED BY <1>8, <2>3, <2>4, <2>5, <2>6 DEF Delete
<1>9. ASSUME NEW p \in Unblockers, Discard(p)
      PROVE  Goal(t)
  <2>1. UNCHANGED <<rules, eng, target>> /\ at[p] = "discard"
    BY <1>9 DEF Discard
  <2>2. at'[p] = "free" /\ \A q \in Unblockers \ {p} : at'[q] = at[q]
    BY <1>1, <1>9 DEF Discard, TypeOK
  <2>3. CASE target[p] # t
    <3>1. (t \in blocked') = (t \in blocked)
      BY <1>9, <2>3 DEF Discard
    <3> QED BY <1>6, <2>1, <2>2, <2>3, <3>1 DEF Leaving
  <2>4. CASE target[p] = t
    <3>1. Live => rules[t] = 0 /\ \A q \in Unblockers : ~ Leaving(q, t, at', target')
      BY <1>1, <2>1, <2>2, <2>4 DEF Tallied, Alone, Leaving
    <3> QED BY <1>1, <2>1, <3>1 DEF Tallied, Alone
  <2> QED BY <2>3, <2>4
<1>10. ASSUME NEW p \in Unblockers, Free(p) \/ RemoveRow(p)
       PROVE  Goal(t)
  <2>1. UNCHANGED <<rules, blocked, eng>> /\ at[p] \in {"free", "row"}
    BY <1>10 DEF Free, RemoveRow, RemoveBlock
  <2>2. /\ at'[p] # "discard"
        /\ \A q \in Unblockers \ {p} : at'[q] = at[q] /\ target'[q] = target[q]
    BY <1>1, <1>10 DEF Free, RemoveRow, RemoveBlock, TypeOK
  <2> QED BY <1>6, <2>1, <2>2 DEF Leaving
<1>11. ASSUME NEW p \in ApiThreads, NEW u \in Targets, Unblock(p, u)
       PROVE  Goal(t)
  <2>1. UNCHANGED <<rules, blocked, eng>> /\ at[p] = "idle" /\ p \in Unblockers
    BY <1>11 DEF Unblock, Unblockers
  <2>2. /\ at'[p] # "discard"
        /\ \A q \in Unblockers \ {p} : at'[q] = at[q] /\ target'[q] = target[q]
    BY <1>1, <1>11, <2>1 DEF Unblock, TypeOK
  <2> QED BY <1>6, <2>1, <2>2 DEF Leaving
<1>12. CASE Reaping
  <2>1. UNCHANGED <<rules, blocked, eng>> /\ at[Maint] # "discard" /\ Maint \in Unblockers
    BY <1>12 DEF Reaping, BeginScan, EndScan, LiftNext, ReapDomains, Report, Unblockers
  <2>2. /\ at'[Maint] # "discard"
        /\ \A q \in Unblockers \ {Maint} : at'[q] = at[q] /\ target'[q] = target[q]
    BY <1>1, <1>12, <2>1
    DEF Reaping, BeginScan, EndScan, ScanRaises, ScanReturns, LiftNext,
        ReapDomains, Report, TypeOK
  <2> QED BY <1>6, <2>1, <2>2 DEF Leaving
<1>13. ~ Restart
  BY <1>0
<1>14. ASSUME UNCHANGED <<rules, blocked, eng, at, target>>
       PROVE  Goal(t)
  BY <1>1, <1>14
<1>15. CASE Tick
  BY <1>14, <1>15 DEF Tick, threads
<1>16. ASSUME NEW ip \in Sources, AllowlistAdd(ip) \/ AllowlistRemove(ip)
       PROVE  UNCHANGED <<rules, blocked, eng, at, target>>
  BY <1>16 DEF AllowlistAdd, AllowlistRemove, threads
<1>17. CASE UNCHANGED vars
  BY <1>14, <1>17 DEF vars, threads
<1> HIDE DEF Goal
<1> QED
  BY <1>2, <1>3, <1>4, <1>5, <1>7, <1>8, <1>9, <1>10, <1>11, <1>12, <1>13,
     <1>14, <1>15, <1>16, <1>17
  DEF Next, EngineStep, Unblocking

LEMMA CountedCorrect == Spec => []Counted
<1>1. Init => TypeOK
  BY PolicyAssumption DEF Init, TypeOK, EngineIdle, Absent, Kinds, Steps, Unblockers
<1>2. Init => Counted
  BY <1>1 DEF Init, Counted, Tallied, Alone, Leaving
<1> QED BY <1>2, NextCounted, PTL DEF Spec

(* The in-memory set does guarantee one rule for a source, as long as the  *)
(* process that holds it lives; the firewall outlives it.                  *)
THEOREM OneRuleForASource == Spec => []NoDuplicateRules
<1>1. Counted => NoDuplicateRules
  BY DEF Counted, Tallied, NoDuplicateRules
<1> QED BY <1>1, CountedCorrect, PTL

-----------------------------------------------------------------------------
LEMMA NextTracked == Counted /\ RuleTracked /\ [Next]_vars => RuleTracked'
<1> DEFINE Reached(t, x, e, a, g) ==
      \/ x[t] # Absent
      \/ e.at \in {"mark", "stamp"} /\ e.src = t
      \/ \E p \in Unblockers : a[p] \in {"reverse", "delete"} /\ g[p] = t
<1> SUFFICES ASSUME Counted, RuleTracked, [Next]_vars,
                    crashes' = 0, faults' = 0, Placement # "override",
                    NEW t \in Sources, rules'[t] > 0
             PROVE  Reached(t, expires', eng', at', target')
  BY DEF RuleTracked
<1>0. crashes = 0 /\ faults = 0 /\ ~ Restart
  BY Uneventful DEF Counted
<1>1. TypeOK /\ rules[t] \in Nat /\ rules[t] <= 1
  BY <1>0 DEF Counted, Tallied, TypeOK
<1>2. rules[t] > 0 => Reached(t, expires, eng, at, target)
  BY <1>0 DEF RuleTracked
<1>3. rules[t] > 0 => /\ t \in blocked \/ (eng.at = "mark" /\ eng.src = t)
                      /\ Live /\ ~ BlockRaises(t)
  BY <1>0, <1>1 DEF Counted, Tallied, Unknown
<1>4. CASE Block
  <2>1. eng.at = "block" /\ UNCHANGED <<expires, at, target>>
    BY <1>4 DEF Block
  <2>2. CASE rules[t] > 0
    BY <1>2, <2>1, <2>2
  <2>3. CASE rules[t] = 0
    <3>1. BlockRuns /\ eng.src = t
      BY <1>1, <1>4, <2>3
      DEF Block, BlockRefused, BlockRaised, BlockFails, BlockRuns, TypeOK
    <3>2. eng'.at = "mark" /\ eng'.src = t
      BY <1>1, <3>1 DEF BlockRuns, TypeOK
    <3> QED BY <3>2
  <2> QED BY <1>1, <2>2, <2>3
<1>5. CASE Mark
  BY <1>1, <1>2, <1>5 DEF Mark, TypeOK
<1>6. CASE Stamp
  <2>1. now + TTL # Absent /\ UNCHANGED <<rules, at, target>>
    BY <1>1, <1>6, PolicyAssumption DEF Stamp, TypeOK, Absent
  <2>2. CASE eng.src = t
    BY <1>1, <1>6, <2>1, <2>2 DEF Stamp, TypeOK
  <2>3. CASE eng.src # t
    BY <1>1, <1>2, <1>6, <2>1, <2>3 DEF Stamp, TypeOK
  <2> QED BY <2>2, <2>3
<1>7. CASE Log
  BY <1>2, <1>7 DEF Log
<1>8. ASSUME NEW src \in Sources, NEW dom \in Domains, NEW hit \in BOOLEAN,
             Verdict(src, dom, hit)
      PROVE  Reached(t, expires', eng', at', target')
  BY <1>2, <1>8 DEF Verdict
<1>9. ASSUME NEW p \in ApiThreads, NEW u \in Targets, Unblock(p, u)
      PROVE  Reached(t, expires', eng', at', target')
  <2>1. p \in Unblockers /\ at[p] = "idle" /\ eng' = eng /\ rules' = rules
    BY <1>9 DEF Unblock, Unblockers
  <2>2. at'[p] = "reverse" /\ target'[p] = u
    BY <1>1, <1>9, <2>1 DEF Unblock, TypeOK
  <2>3. \A q \in Unblockers \ {p} : at'[q] = at[q] /\ target'[q] = target[q]
    BY <1>1, <1>9 DEF Unblock, TypeOK
  <2>4. u # t => expires'[t] = expires[t]
    BY <1>1, <1>9 DEF Unblock, Forget, TypeOK
  <2> QED BY <1>2, <2>1, <2>2, <2>3, <2>4
<1>10. ASSUME NEW p \in Unblockers, Reverse(p)
       PROVE  Reached(t, expires', eng', at', target')
  <2>1. UNCHANGED <<expires, rules, eng, target>> /\ at[p] = "reverse"
    BY <1>10 DEF Reverse
  <2>2. \A q \in Unblockers \ {p} : at'[q] = at[q]
    BY <1>1, <1>10
    DEF Reverse, ReverseRaises, ReverseReturns, ReverseGoesOn, TypeOK
  <2>3. CASE target[p] # t \/ at'[p] = "delete"
    BY <1>2, <2>1, <2>2, <2>3
  <2>4. CASE target[p] = t /\ at'[p] # "delete"
    (* The rule of t stays, so the thread did not find t in the set: the   *)
    (* engine has made the rule and has yet to mark and stamp it.          *)
    <3>1. Live /\ ~ BlockRaises(t) /\ Placement = "scoped"
      BY <1>3, <2>1, PlacementType DEF Live, BlockRaises
    <3>2. ~ UnblockRaises(t)
      BY <3>1 DEF UnblockRaises, BlockRaises, Live
    <3>3. ~ Reversible(t)
      BY <1>1, <1>10, <2>4, <3>2
      DEF Reverse, ReverseRaises, ReverseReturns, ReverseGoesOn, TypeOK
    <3>4. t \notin blocked
      BY <3>1, <3>3, BackendType DEF Reversible, Live
    <3> QED BY <1>3, <2>1, <3>4
  <2> QED BY <2>3, <2>4
<1>19. ASSUME NEW p \in Unblockers, Delete(p)
       PROVE  Reached(t, expires', eng', at', target')
  <2>1. UNCHANGED <<expires, eng, target>> /\ at[p] = "delete"
    BY <1>19 DEF Delete
  <2>2. \A q \in Unblockers \ {p} : at'[q] = at[q]
    BY <1>1, <1>19 DEF Delete, DeleteFails, DeleteFindsNone, DeleteRuns, TypeOK
  <2>3. CASE target[p] # t
    <3>1. rules'[t] = rules[t]
      BY <1>1, <1>19, <2>3
      DEF Delete, DeleteFails, DeleteFindsNone, DeleteRuns, TypeOK
    <3> QED BY <1>2, <2>1, <2>2, <2>3, <3>1
  <2>4. target[p] # t
    <3> SUFFICES ASSUME target[p] = t PROVE FALSE
      OBVIOUS
    <3>1. ~ DeleteFails(p)
      BY <1>0 DEF DeleteFails
    <3>2. ~ DeleteFindsNone(p)
      BY DEF DeleteFindsNone
    <3>3. rules[t] > 0 => rules'[t] = 0
      BY <1>1, <1>3, <1>19, <3>1, <3>2, BackendType
      DEF Delete, DeleteRuns, Remaining, Live, TypeOK
    <3>4. rules[t] = 0 => rules'[t] = 0
      BY <1>1, <1>19, <3>1, <3>2, BackendType
      DEF Delete, DeleteRuns, Remaining, Live, TypeOK
    <3> QED BY <1>1, <3>3, <3>4
  <2> QED BY <2>3, <2>4
<1>20. ASSUME NEW p \in Unblockers, Discard(p)
       PROVE  Reached(t, expires', eng', at', target')
  <2>1. UNCHANGED <<expires, rules, eng, target>> /\ at[p] = "discard"
    BY <1>20 DEF Discard
  <2>2. \A q \in Unblockers \ {p} : at'[q] = at[q]
    BY <1>1, <1>20 DEF Discard, TypeOK
  <2> QED BY <1>2, <2>1, <2>2
<1>11. ASSUME NEW p \in Unblockers, Free(p) \/ RemoveRow(p)
       PROVE  Reached(t, expires', eng', at', target')
  <2>1. UNCHANGED <<rules, expires, eng>> /\ at[p] \notin {"reverse", "delete"}
    BY <1>11 DEF Free, RemoveRow, RemoveBlock
  <2>2. \A q \in Unblockers \ {p} : at'[q] = at[q] /\ target'[q] = target[q]
    BY <1>1, <1>11 DEF Free, RemoveRow, RemoveBlock, TypeOK
  <2> QED BY <1>2, <2>1, <2>2
<1>12. CASE LiftNext
  <2>1. at[Maint] = "next" /\ UNCHANGED <<rules, eng>> /\ Maint \in Unblockers
    BY <1>12 DEF LiftNext, Unblockers
  <2>2. \A q \in Unblockers \ {Maint} : at'[q] = at[q] /\ target'[q] = target[q]
    BY <1>1, <1>12 DEF LiftNext, TypeOK
  <2>3. at'[Maint] = "reverse"
    BY <1>1, <1>12, <2>1 DEF LiftNext, TypeOK
  <2>4. expires'[t] = expires[t] \/ target'[Maint] = t
    BY <1>1, <1>12, <2>1 DEF LiftNext, Forget, TypeOK
  <2> QED BY <1>2, <2>1, <2>2, <2>3, <2>4
<1>13. CASE BeginScan \/ EndScan \/ ReapDomains \/ Report
  <2>1. /\ at[Maint] \notin {"reverse", "delete"} /\ UNCHANGED <<rules, expires, eng>>
    BY <1>13 DEF BeginScan, EndScan, ReapDomains, Report
  <2>2. \A q \in Unblockers \ {Maint} : at'[q] = at[q] /\ target'[q] = target[q]
    BY <1>1, <1>13
    DEF BeginScan, EndScan, ScanRaises, ScanReturns, ReapDomains, Report, TypeOK
  <2> QED BY <1>2, <2>1, <2>2
<1>14. ~ Restart
  BY <1>0
<1>15. ASSUME UNCHANGED <<rules, expires, eng, at, target>>
       PROVE  Reached(t, expires', eng', at', target')
  BY <1>2, <1>15
<1>16. CASE Tick
  BY <1>15, <1>16 DEF Tick, threads
<1>17. ASSUME NEW ip \in Sources, AllowlistAdd(ip) \/ AllowlistRemove(ip)
       PROVE  UNCHANGED <<rules, expires, eng, at, target>>
  BY <1>17 DEF AllowlistAdd, AllowlistRemove, threads
<1>18. CASE UNCHANGED vars
  BY <1>15, <1>18 DEF vars, threads
<1> HIDE DEF Reached
<1> QED
  BY <1>4, <1>5, <1>6, <1>7, <1>8, <1>9, <1>10, <1>11, <1>12, <1>13, <1>14,
     <1>15, <1>16, <1>17, <1>18, <1>19, <1>20
  DEF Next, EngineStep, Unblocking, Reaping

(* No rule escapes the reaper, in any interleaving of the engine, the      *)
(* reaper and the operator, until a process is killed or a firewall        *)
(* command fails, if rules are made where they can be deleted.             *)
THEOREM NoRuleEscapes == Spec => []RuleTracked
<1>1. Init => RuleTracked
  BY DEF Init, RuleTracked
<1> QED BY <1>1, CountedCorrect, NextTracked, PTL DEF Spec

-----------------------------------------------------------------------------
(* The back end can undo what it did, in every interleaving of blocks and  *)
(* unblocks and through failing commands, until the process is killed: one *)
(* rule for a source, and none that the set, which an unblock asks first,  *)
(* does not know.  (The converse, a rule for what is in the set, is what   *)
(* the configuration policy_phantom refutes.)                              *)
THEOREM EveryRuleIsKnown == Spec => []BackendSound
<1>1. Counted => BackendSound
  BY DEF Counted, Tallied, Unknown, BackendSound, NoDuplicateRules, NoStrayRule, TypeOK
<1> QED BY <1>1, CountedCorrect, PTL

-----------------------------------------------------------------------------
(* Where no thread enters before the others have left, one thread is at    *)
(* work at most: the engine, the reaper or one request.                    *)
Resting == {"idle", "dead"}

Serial(e, a) ==
  /\ e.at # "idle" => \A p \in Unblockers : a[p] \in Resting
  /\ \A p, q \in Unblockers : a[p] \notin Resting /\ a[q] \notin Resting => p = q

LEMMA NextSerial ==
  ASSUME ~ Interleave, TypeOK, Serial(eng, at), [Next]_vars
  PROVE  Serial(eng', at')
<1>1. /\ eng.at \in {"idle", "block", "mark", "stamp", "log"}
      /\ at \in [Unblockers -> Steps]
  BY DEF TypeOK
<1>2. MayEnter => eng.at = "idle" /\ \A p \in Unblockers : at[p] \in Resting
  BY DEF MayEnter, Quiet, Resting
<1>3. ASSUME NEW p \in Unblockers, eng' = eng,
             \A q \in Unblockers \ {p} : at'[q] = at[q],
             MayEnter \/ at[p] \notin Resting
      PROVE  Serial(eng', at')
  <2>1. eng.at = "idle" /\ \A q \in Unblockers \ {p} : at[q] \in Resting
    BY <1>2, <1>3 DEF Serial
  <2> QED BY <1>3, <2>1 DEF Serial
<1>4. ASSUME at' = at, MayEnter \/ eng.at # "idle"
      PROVE  Serial(eng', at')
  BY <1>2, <1>4 DEF Serial
<1>5. CASE Tick \/ UNCHANGED vars
  BY <1>5 DEF Tick, vars, threads, Serial
<1>6. ASSUME NEW src \in Sources, NEW dom \in Domains, NEW hit \in BOOLEAN,
             Verdict(src, dom, hit)
      PROVE  Serial(eng', at')
  BY <1>4, <1>6 DEF Verdict
<1>7. CASE EngineStep
  <2>1. at' = at /\ eng.at # "idle"
    BY <1>1, <1>7 DEF EngineStep, Block, Mark, Stamp, Log
  <2> QED BY <1>4, <2>1
<1>8. ASSUME NEW p \in ApiThreads, NEW t \in Targets, Unblock(p, t)
      PROVE  Serial(eng', at')
  BY <1>1, <1>3, <1>8 DEF Unblock, Unblockers
<1>9. ASSUME NEW p \in Unblockers, Unblocking(p)
      PROVE  Serial(eng', at')
  <2>1. eng' = eng /\ at[p] \notin Resting /\ \A q \in Unblockers \ {p} : at'[q] = at[q]
    BY <1>1, <1>9 DEF Unblocking, Reverse, ReverseRaises, ReverseReturns,
       ReverseGoesOn, Delete, DeleteFails, DeleteFindsNone, DeleteRuns, Discard,
       Free, RemoveRow, RemoveBlock, Resting
  <2> QED BY <1>3, <2>1
<1>10. CASE Reaping
  <2>1. Maint \in Unblockers
    BY DEF Unblockers
  <2>2. /\ eng' = eng
        /\ MayEnter \/ at[Maint] \notin Resting
        /\ \A q \in Unblockers \ {Maint} : at'[q] = at[q]
    BY <1>1, <1>10 DEF Reaping, BeginScan, EndScan, ScanRaises, ScanReturns,
       LiftNext, ReapDomains, Report, Resting
  <2> QED BY <1>3, <2>1, <2>2
<1>11. ASSUME NEW ip \in Sources, AllowlistAdd(ip) \/ AllowlistRemove(ip)
       PROVE  Serial(eng', at')
  BY <1>11 DEF AllowlistAdd, AllowlistRemove, threads, Serial
<1>12. CASE Restart
  BY <1>12 DEF Restart, EngineIdle, Serial, Resting
<1> QED BY <1>5, <1>6, <1>7, <1>8, <1>9, <1>10, <1>11, <1>12 DEF Next

(* What the list of a serial run rests on: the fault-free reversal of a    *)
(* back end that keeps no count (netsh, log) leaves no rule behind, and    *)
(* nobody makes one before the row is gone; the engine, once it has made a *)
(* rule, has its row still to write.                                       *)
Freed(a, g, r, s) ==
  \A p \in Unblockers :
    /\ a[p] # "discard"
    /\ p \in ApiThreads /\ a[p] \in {"reverse", "delete", "free", "row"}
         => g[p] \in Targets
    /\ a[p] \in {"free", "row"} /\ g[p] \in Sources => r[g[p]] = 0
    /\ a[p] = "row" /\ g[p] \in Domains => s[g[p]] = Absent

Listed(e, r, rows) ==
  \A t \in Sources : r[t] > 0 =>
    \/ rows[t] # "none"
    \/ e.at \in {"mark", "stamp", "log"} /\ e.src = t /\ t \notin Own

Unarmed(s) == Armed \/ \A d \in Domains : s[d] = Absent

Orderly ==
  /\ Serial(eng, at)
  /\ Unarmed(sunk)
  /\ Freed(at, target, rules, sunk)
  /\ Listed(eng, rules, ledger)

(* Without a sinkhole no domain is ever sunk.                              *)
LEMMA NextUnarmed ==
  ASSUME Unarmed(sunk), [Next]_vars
  PROVE  Unarmed(sunk')
<1>1. ASSUME NEW src \in Sources, NEW dom \in Domains, NEW hit \in BOOLEAN,
             Verdict(src, dom, hit)
      PROVE  Armed \/ sunk' = sunk
  BY <1>1 DEF Verdict
<1>2. ASSUME NEW p \in Unblockers, Unblocking(p)
      PROVE  Armed \/ sunk' = sunk
  BY <1>2 DEF Unblocking, Reverse, Delete, Discard, Free, RemoveRow, RemoveBlock
<1>3. EngineStep => sunk' = sunk
  BY DEF EngineStep, Block, Mark, Stamp, Log
<1>4. Reaping \/ Restart => \A d \in Domains : sunk[d] = Absent => sunk'[d] = Absent
  BY DEF Reaping, BeginScan, EndScan, LiftNext, ReapDomains, Report, Restart, Absent
<1>5. Tick \/ UNCHANGED vars => sunk' = sunk
  BY DEF Tick, vars
<1>6. ASSUME NEW p \in ApiThreads, NEW t \in Targets, Unblock(p, t)
      PROVE  sunk' = sunk
  BY <1>6 DEF Unblock
<1>7. ASSUME NEW ip \in Sources, AllowlistAdd(ip) \/ AllowlistRemove(ip)
      PROVE  sunk' = sunk
  BY <1>7 DEF AllowlistAdd, AllowlistRemove
<1> QED BY <1>1, <1>2, <1>3, <1>4, <1>5, <1>6, <1>7 DEF Next, Unarmed

LEMMA NextFreed ==
  ASSUME ~ Interleave, MaxFaults = 0, Backend # "iptables", crashes' = 0,
         Counted, Orderly, [Next]_vars
  PROVE  Freed(at', target', rules', sunk')
<1>1. /\ TypeOK /\ Serial(eng, at) /\ Freed(at, target, rules, sunk)
      /\ ~ Restart /\ crashes = 0 /\ faults = 0
  BY Uneventful DEF Counted, Orderly, TypeOK
<1>2. /\ at \in [Unblockers -> Steps]
      /\ target \in [Unblockers -> Targets \cup {None}]
      /\ rules \in [Sources -> Nat] /\ sunk \in [Domains -> Int]
      /\ Targets = Sources \cup Domains /\ Sources \cap Domains = {}
      /\ None \notin Targets
  BY <1>1, PolicyAssumption DEF TypeOK, Targets
<1>3. ASSUME \A p \in Unblockers : at[p] \in Resting, at' = at
      PROVE  Freed(at', target', rules', sunk')
  BY <1>3 DEF Freed, Resting
<1>4. ASSUME UNCHANGED <<at, target, rules, sunk>>
      PROVE  Freed(at', target', rules', sunk')
  BY <1>1, <1>4
<1>5. CASE Tick \/ UNCHANGED vars
  BY <1>4, <1>5 DEF Tick, vars, threads
<1>6. ASSUME NEW src \in Sources, NEW dom \in Domains, NEW hit \in BOOLEAN,
             Verdict(src, dom, hit)
      PROVE  Freed(at', target', rules', sunk')
  BY <1>3, <1>6 DEF Verdict, MayEnter, Quiet, Resting
<1>7. CASE EngineStep
  <2>1. at' = at /\ eng.at # "idle"
    BY <1>7 DEF EngineStep, Block, Mark, Stamp, Log
  <2> QED BY <1>1, <1>3, <2>1 DEF Serial
<1>8. ASSUME NEW p \in ApiThreads, NEW t \in Targets, Unblock(p, t)
      PROVE  Freed(at', target', rules', sunk')
  <2>1. /\ UNCHANGED <<rules, sunk>> /\ p \in Unblockers
        /\ at'[p] = "reverse" /\ target'[p] = t
        /\ \A q \in Unblockers \ {p} : at'[q] = at[q] /\ target'[q] = target[q]
    BY <1>2, <1>8 DEF Unblock, Unblockers
  <2> QED BY <1>1, <1>8, <2>1 DEF Freed
<1>9. ASSUME NEW p \in Unblockers, Reverse(p)
      PROVE  Freed(at', target', rules', sunk')
  <2>1. at[p] = "reverse" /\ UNCHANGED <<rules, target, sunk>>
    BY <1>9 DEF Reverse
  <2>2. ~ ReverseRaises(p)
    BY <1>1 DEF ReverseRaises, UnblockRaises
  <2>3. /\ at'[p] \in {"delete", "free"}
        /\ at'[p] = "free" => ~ Reversible(target[p])
        /\ \A q \in Unblockers \ {p} : at'[q] = at[q]
    BY <1>2, <1>9, <2>2 DEF Reverse, ReverseReturns, ReverseGoesOn
  <2>4. ~ Reversible(target[p]) => ~ Live
    BY <1>1, BackendType DEF Reversible, Live
  <2>5. ~ Live => \A s \in Sources : rules[s] = 0
    BY <1>1, <1>2 DEF Counted, Tallied
  <2> QED BY <1>1, <2>1, <2>3, <2>4, <2>5 DEF Freed
<1>14. ASSUME NEW p \in Unblockers, Delete(p)
      PROVE  Freed(at', target', rules', sunk')
  <2> DEFINE t == target[p]
  <2>1. at[p] = "delete" /\ UNCHANGED <<target, sunk>>
    BY <1>14 DEF Delete
  <2>2. DeleteRuns(p)
    BY <1>1, <1>14 DEF Delete, DeleteFails, DeleteFindsNone
  <2>3. at'[p] = "free" /\ \A q \in Unblockers \ {p} : at'[q] = at[q]
    BY <1>2, <2>2 DEF DeleteRuns
  <2>4. /\ \A s \in Sources : rules[s] = 0 => rules'[s] = 0
        /\ t \in Sources => rules'[t] = 0
    <3>1. CASE Live
      BY <1>2, <2>2, <3>1, BackendType DEF DeleteRuns, Remaining, Live
    <3>2. CASE ~ Live
      BY <1>1, <1>2, <2>2, <3>2 DEF DeleteRuns, Counted, Tallied
    <3> QED BY <3>1, <3>2
  <2> QED BY <1>1, <2>1, <2>3, <2>4 DEF Freed
<1>15. ASSUME NEW p \in Unblockers, Discard(p)
      PROVE  Freed(at', target', rules', sunk')
  BY <1>1, <1>15 DEF Discard, Freed
<1>10. ASSUME NEW p \in Unblockers, Free(p)
       PROVE  Freed(at', target', rules', sunk')
  <2>1. at[p] = "free" /\ UNCHANGED <<target, rules>>
    BY <1>10 DEF Free
  <2>2. at'[p] \in {"next", "row"} /\ \A q \in Unblockers \ {p} : at'[q] = at[q]
    BY <1>2, <1>10 DEF Free
  <2>3. \A d \in Domains : sunk[d] = Absent => sunk'[d] = Absent
    BY <1>2, <1>10 DEF Free, Forget
  <2>4. target[p] \in Domains => sunk'[target[p]] = Absent
    BY <1>2, <1>10 DEF Free, Forget, Orderly, Unarmed
  <2> QED BY <1>1, <2>1, <2>2, <2>3, <2>4 DEF Freed
<1>11. ASSUME NEW p \in ApiThreads, RemoveRow(p)
       PROVE  Freed(at', target', rules', sunk')
  <2>1. /\ UNCHANGED <<rules, sunk>> /\ p \in Unblockers /\ at'[p] = "idle"
        /\ \A q \in Unblockers \ {p} : at'[q] = at[q] /\ target'[q] = target[q]
    BY <1>2, <1>11 DEF RemoveRow, RemoveBlock, Unblockers
  <2> QED BY <1>1, <2>1 DEF Freed
<1>12. CASE Reaping
  <2>1. Maint \in Unblockers /\ Maint \notin ApiThreads
    BY PolicyAssumption DEF Unblockers
  <2>2. \A q \in Unblockers \ {Maint} : at'[q] = at[q] /\ target'[q] = target[q]
    BY <1>2, <1>12 DEF Reaping, BeginScan, EndScan, ScanRaises, ScanReturns,
       LiftNext, ReapDomains, Report
  <2>3. rules' = rules /\ \A d \in Domains : sunk[d] = Absent => sunk'[d] = Absent
    BY <1>12 DEF Reaping, BeginScan, EndScan, LiftNext, ReapDomains, Report, Absent
  <2>4. \/ at'[Maint] \notin {"discard", "free", "row"}
        \/ at'[Maint] = "row" /\ target'[Maint] = None
    BY <1>2, <1>12, <2>1
    DEF Reaping, BeginScan, EndScan, ScanRaises, ScanReturns,
       LiftNext, ReapDomains, Report
  <2> QED BY <1>1, <1>2, <2>1, <2>2, <2>3, <2>4 DEF Freed
<1>13. ASSUME NEW ip \in Sources, AllowlistAdd(ip) \/ AllowlistRemove(ip)
       PROVE  Freed(at', target', rules', sunk')
  BY <1>4, <1>13 DEF AllowlistAdd, AllowlistRemove, threads
<1> QED
  BY <1>1, <1>5, <1>6, <1>7, <1>8, <1>9, <1>10, <1>11, <1>12, <1>13, <1>14, <1>15
  DEF Next, Unblocking

LEMMA NextListed ==
  ASSUME ~ Interleave, MaxFaults = 0, Backend # "iptables", crashes' = 0,
         Counted, OwnSafe, Orderly, [Next]_vars
  PROVE  Listed(eng', rules', ledger')
<1> SUFFICES ASSUME NEW t \in Sources, rules'[t] > 0
             PROVE  \/ ledger'[t] # "none"
                    \/ /\ eng'.at \in {"mark", "stamp", "log"}
                       /\ eng'.src = t /\ t \notin Own
  BY DEF Listed
<1>1. /\ TypeOK /\ Freed(at, target, rules, sunk) /\ Listed(eng, rules, ledger)
      /\ ~ Restart /\ rules[t] \in Nat
  BY Uneventful DEF Counted, Orderly, TypeOK
<1>2. rules[t] > 0 =>
        \/ ledger[t] # "none"
        \/ eng.at \in {"mark", "stamp", "log"} /\ eng.src = t /\ t \notin Own
  BY <1>1 DEF Listed
<1>3. CASE Block
  <2>1. eng.at = "block" /\ eng.src \in Sources /\ ledger' = ledger
    BY <1>1, <1>3 DEF Block, TypeOK
  <2>2. CASE BlockRuns /\ eng.src = t
    <3>1. eng' = [eng EXCEPT !.at = "mark"] /\ t \notin Own
      BY <2>2 DEF BlockRuns, Exempt, IsOwn, IsLoopback, Own
    <3> QED BY <1>1, <2>2, <3>1 DEF TypeOK
  <2>3. CASE ~ (BlockRuns /\ eng.src = t)
    <3>1. rules'[t] = rules[t]
      BY <1>1, <1>3, <2>1, <2>3
      DEF Block, BlockRefused, BlockRaised, BlockFails, BlockRuns, TypeOK
    <3> QED BY <1>2, <2>1, <3>1
  <2> QED BY <2>2, <2>3
<1>4. CASE Mark \/ Stamp
  BY <1>1, <1>2, <1>4 DEF Mark, Stamp, TypeOK
<1>5. CASE Log
  <2>1. rules' = rules /\ eng.at = "log" /\ eng.src \in Sources /\ eng.dom \in Domains
    BY <1>1, <1>5 DEF Log, TypeOK
  <2>2. \A k \in {"source", "domain"}, u \in Targets :
          /\ Inserted(ledger, u, k)[u] # "none"
          /\ \A v \in Targets : ledger[v] # "none" => Inserted(ledger, u, k)[v] # "none"
    BY <1>1 DEF Inserted, TypeOK
  <2>3. CASE IsOwn(eng.src)
    <3>1. ledger' = Inserted(ledger, eng.dom, "domain")
      BY <1>5, <2>3 DEF Log
    <3> QED BY <1>2, <2>1, <2>2, <2>3, <3>1 DEF Targets, IsOwn, IsLoopback, Own
  <2>4. CASE ~ IsOwn(eng.src)
    <3>1. ledger' = Inserted(ledger, eng.src, "source")
      BY <1>5, <2>4 DEF Log
    <3> QED BY <1>2, <2>1, <2>2, <3>1 DEF Targets
  <2> QED BY <2>3, <2>4
<1>6. ASSUME NEW src \in Sources, NEW dom \in Domains, NEW hit \in BOOLEAN,
             Verdict(src, dom, hit)
      PROVE  rules' = rules /\ ledger' = ledger /\ ledger[t] # "none"
  BY <1>2, <1>6 DEF Verdict
<1>7. ASSUME NEW p \in Unblockers, Reverse(p)
      PROVE  UNCHANGED <<eng, ledger>> /\ rules[t] > 0
  BY <1>7 DEF Reverse
<1>15. ASSUME NEW p \in Unblockers, Delete(p)
       PROVE  UNCHANGED <<eng, ledger>> /\ rules[t] > 0
  <2>1. rules[t] = 0 => rules'[t] = 0
    BY <1>1, <1>15, BackendType
    DEF Delete, DeleteFails, DeleteFindsNone, DeleteRuns, Remaining, Live, TypeOK
  <2> QED BY <1>1, <1>15, <2>1 DEF Delete
<1>16. ASSUME NEW p \in Unblockers, Discard(p)
       PROVE  UNCHANGED <<eng, rules, ledger>>
  BY <1>16 DEF Discard
<1>8. ASSUME NEW p \in ApiThreads, RemoveRow(p)
      PROVE  ledger'[t] = ledger[t] /\ UNCHANGED <<eng, rules>>
  <2>1. at[p] = "row" /\ p \in Unblockers /\ rules' = rules /\ eng' = eng
    BY <1>8 DEF RemoveRow, RemoveBlock, Unblockers
  <2>2. target[p] # t
    BY <1>1, <2>1 DEF Freed
  <2> QED BY <1>1, <1>8, <2>1, <2>2 DEF RemoveRow, RemoveBlock, TypeOK, Targets
<1>9. CASE Reaping
  <2>1. UNCHANGED <<eng, rules>>
    BY <1>9 DEF Reaping, BeginScan, EndScan, LiftNext, ReapDomains, Report
  <2>2. ledger[t] # "none" => ledger'[t] # "none"
    BY <1>1, <1>9 DEF Reaping, BeginScan, EndScan, LiftNext, ReapDomains, Report,
       TypeOK, Targets
  <2> QED BY <1>2, <2>1, <2>2
<1>10. ASSUME UNCHANGED <<eng, rules, ledger>>
       PROVE  \/ ledger'[t] # "none"
              \/ /\ eng'.at \in {"mark", "stamp", "log"}
                 /\ eng'.src = t /\ t \notin Own
  BY <1>2, <1>10
<1>11. Tick \/ UNCHANGED vars => UNCHANGED <<eng, rules, ledger>>
  BY DEF Tick, vars, threads
<1>12. ASSUME NEW p \in ApiThreads, NEW u \in Targets, Unblock(p, u)
       PROVE  UNCHANGED <<eng, rules, ledger>>
  BY <1>12 DEF Unblock
<1>13. ASSUME NEW p \in Unblockers, Free(p)
       PROVE  UNCHANGED <<eng, rules, ledger>>
  BY <1>13 DEF Free
<1>14. ASSUME NEW ip \in Sources, AllowlistAdd(ip) \/ AllowlistRemove(ip)
       PROVE  UNCHANGED <<eng, rules, ledger>>
  BY <1>14 DEF AllowlistAdd, AllowlistRemove, threads
<1> QED
  BY <1>1, <1>2, <1>3, <1>4, <1>5, <1>6, <1>7, <1>8, <1>9, <1>10, <1>11, <1>12,
     <1>13, <1>14, <1>15, <1>16
  DEF Next, EngineStep, Unblocking

(* Where threads run one after the other, no command fails and no process  *)
(* is killed, the list of a back end that deletes by name is the truth:    *)
(* whatever a request takes off it is free, and every rule is on it.       *)
THEOREM TheListIsTrue ==
  ASSUME ~ Interleave, MaxFaults = 0, MaxCrashes = 0, Backend # "iptables"
  PROVE  Spec => []ListIsTrue
<1> DEFINE Inv == Counted /\ OwnSafe /\ Orderly
<1>1. Init => Orderly
  BY DEF Init, Orderly, Serial, Unarmed, Freed, Listed, EngineIdle, Resting
<1>2. Counted /\ Counted' /\ OwnSafe /\ Orderly /\ [Next]_vars => Orderly'
  <2> SUFFICES ASSUME Counted, Counted', OwnSafe, Orderly, [Next]_vars
               PROVE  Orderly'
    OBVIOUS
  <2>1. crashes' = 0 /\ TypeOK
    BY DEF Counted, TypeOK
  <2>2. Serial(eng', at') /\ Unarmed(sunk')
    BY <2>1, NextSerial, NextUnarmed DEF Orderly
  <2>3. Freed(at', target', rules', sunk')
    BY <2>1, NextFreed
  <2>4. Listed(eng', rules', ledger')
    BY <2>1, NextListed
  <2> QED BY <2>2, <2>3, <2>4 DEF Orderly, Serial, Unarmed, Freed, Listed
<1>3. TypeOK /\ Orderly => ListIsTrue
  <2> SUFFICES ASSUME TypeOK, Orderly PROVE ListIsTrue
    OBVIOUS
  <2>1. UnblockFrees
    BY DEF Orderly, Freed, UnblockFrees, Unblockers, Targets
  <2>2. RuleIsListed
    BY DEF Orderly, Listed, RuleIsListed, Quiet
  <2> QED BY <2>1, <2>2 DEF ListIsTrue
<1>4. Init => OwnSafe
  <2>1. Init => TypeOK
    BY PolicyAssumption DEF Init, TypeOK, EngineIdle, Absent, Kinds, Steps, Unblockers
  <2> QED BY <2>1 DEF Init, OwnSafe, OwnNeverFirewalled, EngineIdle, Absent, Sources
<1> QED BY <1>1, <1>2, <1>3, <1>4, CountedCorrect, NextOwnSafe, TypeCorrect, PTL DEF Spec

=============================================================================
