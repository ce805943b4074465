------------------------------- MODULE Policy -------------------------------
(***************************************************************************)
(* The block policy of ExfilTrap: class PolicyMitigation (policy.py), the  *)
(* firewall back end it wraps (LogOnly-, Netsh- and IptablesMitigation of  *)
(* mitigation.py), the ledger of responses (table blocked_ips) and the     *)
(* three threads of the service that use them:                             *)
(*   - the engine thread, which answers a verdict and records the answer;  *)
(*   - the maintenance thread, which lifts what is past its time-to-live;  *)
(*   - the request threads of the API, which unblock and edit the          *)
(*     allowlist.                                                          *)
(* Neither the policy nor a back end holds a lock, so an action ends where *)
(* a call leaves for a subprocess, a file or the database, or where the    *)
(* state of two objects is updated in two statements.                      *)
(* The sinkhole is module Sinkhole; here it is the set of sunk domains.    *)
(***************************************************************************)
EXTENDS Integers, FiniteSets

CONSTANTS
  Loopback,    (* sources in 127/8, and ::1                                *)
  Found,       (* addresses this host answers when asked in three ways     *)
  LinkLocal,   (* addresses in fe80                                        *)
  Remote,      (* the other sources                                        *)
  Domains,     (* hostnames that may be sunk                               *)
  V6,          (* sources that validate_ip refuses                         *)
  Kind,        (* the back end asked for: "auto", "log", "netsh", "iptables" *)
  Host,        (* where the process runs: on Windows, elevated, and the    *)
               (* network namespaces of itself, of the host, and by name   *)
  Override,    (* the flag that allows the host's own firewall             *)
  Execute,     (* FALSE: dry_run, commands are recorded and not run        *)
  Armed,       (* the policy has a sinkhole                                *)
  TTL,         (* block_ttl                                                *)
  ApiThreads,  (* request threads of the API                               *)
  Maint,       (* the maintenance thread                                   *)
  None,        (* no target                                                *)
  Interleave,  (* FALSE: no thread starts while another is under way       *)
  Horizon,     (* bound: last instant of the clock                         *)
  MaxCrashes,  (* bound: hard kills of the process                         *)
  MaxFaults    (* bound: firewall commands that return an error            *)

(* make_mitigation: each platform has a back end of its own.               *)
Backend ==
  IF Kind = "auto" THEN IF Host.windows THEN "netsh" ELSE "iptables" ELSE Kind

(* A namespace is known by its device and inode, if they can be read.      *)
Unreadable == "unreadable"
NamespaceExists == Host.named # Unreadable
Inside == Host.mine # Unreadable /\ Host.mine = Host.named
ProvenElsewhere ==
  /\ Unreadable \notin {Host.mine, Host.initial, Host.named}
  /\ Host.mine \notin {Host.named, Host.initial}

(* NetshMitigation._admin_check.                                           *)
Elevated == Host.elevated

(* The rails. "scoped": rules go into the named namespace (netsh: an       *)
(* elevated process makes them); "override": into the firewall of the host *)
(* itself, with the flag and without a namespace to use; else refused.     *)
Placement ==
  IF Backend = "netsh" THEN IF Elevated THEN "scoped" ELSE "refused"
  ELSE IF Inside \/ (NamespaceExists /\ ~ ProvenElsewhere) THEN "scoped"
  ELSE IF Override /\ ~ NamespaceExists THEN "override" ELSE "refused"

(* netif.own_addresses: every way may fail, and one is not for Windows.    *)
(* An address of this host that is not found is a source like any other.   *)
Ways == {"connect", "hostname"} \cup (IF Host.windows THEN {} ELSE {"ioctl"})
OwnAddresses == UNION {Found[w] : w \in Ways} \ LinkLocal

Own == Loopback \cup OwnAddresses
Sources == Own \cup Remote
Targets == Sources \cup Domains

ASSUME PolicyAssumption ==
  /\ DOMAIN Found = {"connect", "hostname", "ioctl"}
  /\ Own \cap Remote = {}
  /\ Sources \cap Domains = {}
  /\ V6 \subseteq Sources
  /\ Kind \in {"auto", "log", "netsh", "iptables"}
  /\ Host \in [windows : BOOLEAN, elevated : BOOLEAN,
                mine : STRING, initial : STRING, named : STRING]
  /\ Override \in BOOLEAN /\ Execute \in BOOLEAN
  /\ Armed \in BOOLEAN
  /\ TTL \in Nat \ {0}
  /\ Maint \notin ApiThreads
  /\ None \notin Targets
  /\ Interleave \in BOOLEAN
  /\ Horizon \in Nat
  /\ MaxCrashes \in Nat
  /\ MaxFaults \in Nat

VARIABLES
  now,      (* self.clock()                                                *)
  allow,    (* self.allowlist, and the table it is loaded from             *)
  blocked,  (* inner._blocked                                              *)
  expires,  (* self._expires                                               *)
  rules,    (* how many DROP rules the firewall holds for a source         *)
  sunk,     (* the domains the sinkhole answers, with their expiry         *)
  ledger,   (* the kind of a target's row in blocked_ips                   *)
  eng,      (* the engine thread and the verdict it is answering           *)
  at,       (* per unblocking thread: its next step                        *)
  target,   (* per unblocking thread: what it is unblocking                *)
  freed,    (* reap_expired: the targets still to lift                     *)
  lifted,   (* reap_expired: the targets it will report                    *)
  scanned,  (* reap_expired: the keys the iteration over _expires began on *)
  crashes,  (* hard kills so far                                           *)
  faults    (* failed firewall commands so far                             *)

reaping == <<freed, lifted, scanned>>
threads == <<eng, at, target, reaping>>
vars == <<now, allow, blocked, expires, rules, sunk, ledger, threads,
          crashes, faults>>

-----------------------------------------------------------------------------
Unblockers == ApiThreads \cup {Maint}
Absent == -1
Keys == {t \in Sources : expires[t] # Absent}

EngineIdle == [at |-> "idle", src |-> None, dom |-> None, hit |-> FALSE]

Quiet == eng.at = "idle" /\ \A p \in Unblockers : at[p] \in {"idle", "dead"}
MayEnter == Interleave \/ Quiet

(* A firewall command is really run.                                       *)
Live == Backend # "log" /\ Execute

(* A defect: no source is taken for this host's own (release 1.4.0).       *)
NotOwn(ip) == FALSE

IsLoopback(ip) == ip \in Loopback
IsOwn(ip) == ip \in OwnAddresses \/ IsLoopback(ip)

(* block_ip: a policy decision, not a detection miss.                      *)
Exempt(ip) == ip \in allow \/ IsOwn(ip)

(* validate_ip: four numbers up to 255, so no IPv6 address and no name.    *)
Invalid(t) == t \in Domains \cup V6

(* validate_ip, and the rails of IptablesMitigation.block_ip.              *)
BlockRaises(ip) == Backend # "log" /\ (Invalid(ip) \/ Placement = "refused")

(* validate_ip in IptablesMitigation.unblock_ip.                           *)
UnblockRaises(t) == Backend = "iptables" /\ Invalid(t)

(* A command that deletes the rule of t is run.                            *)
Reversible(t) ==
  \/ Backend = "netsh"
  \/ (Backend = "iptables" /\ t \in blocked /\ Placement = "scoped")

Forget(f, t) == [f EXCEPT ![t] = Absent]

Init ==
  /\ now = 0
  /\ allow = {}
  /\ blocked = {}
  /\ expires = [t \in Sources |-> Absent]
  /\ rules = [t \in Sources |-> 0]
  /\ sunk = [d \in Domains |-> Absent]
  /\ ledger = [t \in Targets |-> "none"]
  /\ eng = EngineIdle
  /\ at = [p \in Unblockers |-> "idle"]
  /\ target = [p \in Unblockers |-> None]
  /\ freed = {}
  /\ lifted = {}
  /\ scanned = {}
  /\ crashes = 0
  /\ faults = 0

(* The bound: the last verdict is answered early enough for its block to   *)
(* run out.                                                                *)
Tick ==
  /\ now < Horizon
  /\ eng.at = "idle" \/ now + TTL < Horizon
  /\ now' = now + 1
  /\ UNCHANGED <<allow, blocked, expires, rules, sunk, ledger, threads,
                 crashes, faults>>

-----------------------------------------------------------------------------
(* The engine thread: _decide of the pipeline and notify of the policy.    *)

(* notify asks the sinkhole first, which may act on the domain.  A source  *)
(* of this host gets no other answer.                                      *)
Verdict(src, dom, hit) ==
  /\ MayEnter
  /\ eng.at = "idle"
  /\ now + TTL <= Horizon
  /\ hit => Armed /\ src \notin allow
  /\ sunk' = IF hit THEN [sunk EXCEPT ![dom] = now + TTL] ELSE sunk
  /\ eng' = IF IsOwn(src) /\ ~ hit
            THEN EngineIdle
            ELSE [at |-> IF IsOwn(src) THEN "log" ELSE "block",
                  src |-> src, dom |-> dom, hit |-> hit]
  /\ UNCHANGED <<now, allow, blocked, expires, rules, ledger,
                 at, target, reaping, crashes, faults>>

(* What the engine does next when the source was not blocked.              *)
NotBlocked == IF eng.hit THEN [eng EXCEPT !.at = "log"] ELSE EngineIdle

BlockRefused ==
  /\ Exempt(eng.src) \/ eng.src \in blocked
  /\ eng' = NotBlocked
  /\ UNCHANGED <<rules, faults>>

(* SafetyError: the pipeline logs it, and writes nothing into the ledger.  *)
BlockRaised ==
  /\ ~ Exempt(eng.src)
  /\ BlockRaises(eng.src)
  /\ eng' = EngineIdle
  /\ UNCHANGED <<rules, faults>>

BlockFails ==
  /\ ~ Exempt(eng.src) /\ eng.src \notin blocked /\ ~ BlockRaises(eng.src)
  /\ Live /\ faults < MaxFaults
  /\ faults' = faults + 1
  /\ eng' = NotBlocked
  /\ UNCHANGED rules

BlockRuns ==
  /\ ~ Exempt(eng.src) /\ eng.src \notin blocked /\ ~ BlockRaises(eng.src)
  /\ eng' = [eng EXCEPT !.at = "mark"]
  /\ rules' = IF Live THEN [rules EXCEPT ![eng.src] = @ + 1] ELSE rules
  /\ UNCHANGED faults

(* block_ip of the policy up to the end of the back end's command.         *)
Block ==
  /\ eng.at = "block"
  /\ BlockRefused \/ BlockRaised \/ BlockFails \/ BlockRuns
  /\ UNCHANGED <<now, allow, blocked, expires, sunk, ledger,
                 at, target, reaping, crashes>>

(* A defect: the back end does not remember the rule it has made.          *)
NoMark ==
  /\ eng.at = "mark"
  /\ eng' = [eng EXCEPT !.at = "stamp"]
  /\ UNCHANGED <<now, allow, blocked, expires, rules, sunk, ledger,
                 at, target, reaping, crashes, faults>>

(* self._blocked.add of the back end.                                      *)
Mark ==
  /\ eng.at = "mark"
  /\ blocked' = blocked \cup {eng.src}
  /\ eng' = [eng EXCEPT !.at = "stamp"]
  /\ UNCHANGED <<now, allow, expires, rules, sunk, ledger,
                 at, target, reaping, crashes, faults>>

(* A defect: a block with no time-to-live.                                 *)
NoStamp ==
  /\ eng.at = "stamp"
  /\ eng' = [eng EXCEPT !.at = "log"]
  /\ UNCHANGED <<now, allow, blocked, expires, rules, sunk, ledger,
                 at, target, reaping, crashes, faults>>

(* self._expires[ip] of the policy.                                        *)
Stamp ==
  /\ eng.at = "stamp"
  /\ expires' = [expires EXCEPT ![eng.src] = now + TTL]
  /\ eng' = [eng EXCEPT !.at = "log"]
  /\ UNCHANGED <<now, allow, blocked, rules, sunk, ledger,
                 at, target, reaping, crashes, faults>>

(* INSERT OR IGNORE: a row that is there already stays as it is.           *)
Inserted(rows, t, kind) ==
  [rows EXCEPT ![t] = IF @ = "none" THEN kind ELSE @]

(* A defect: last_response is written as it is, "none" or "source".        *)
LogRawKind ==
  /\ eng.at = "log"
  /\ ledger' = IF IsOwn(eng.src)
               THEN Inserted(ledger, eng.dom, "domain")
               ELSE Inserted(ledger, eng.src,
                             IF eng.hit THEN "deferred" ELSE "source")
  /\ eng' = EngineIdle
  /\ UNCHANGED <<now, allow, blocked, expires, rules, sunk,
                 at, target, reaping, crashes, faults>>

(* log_block: last_response is "domain" for an own source only; for any    *)
(* other the row names the source, blocked or not.                         *)
Log ==
  /\ eng.at = "log"
  /\ ledger' = IF IsOwn(eng.src)
               THEN Inserted(ledger, eng.dom, "domain")
               ELSE Inserted(ledger, eng.src, "source")
  /\ eng' = EngineIdle
  /\ UNCHANGED <<now, allow, blocked, expires, rules, sunk,
                 at, target, reaping, crashes, faults>>

-----------------------------------------------------------------------------
(* unblock of the policy, run by an API thread and by reap_expired.        *)

(* A request: its first statement forgets the expiry.                      *)
Unblock(p, t) ==
  /\ MayEnter
  /\ p \in ApiThreads
  /\ at[p] = "idle"
  /\ expires' = IF t \in Sources THEN Forget(expires, t) ELSE expires
  /\ at' = [at EXCEPT ![p] = "reverse"]
  /\ target' = [target EXCEPT ![p] = t]
  /\ UNCHANGED <<now, allow, blocked, rules, sunk, ledger, eng, reaping,
                 crashes, faults>>

(* unblock_ip of the back end, up to its command.  An exception ends the   *)
(* request's unblock, and the maintenance thread.                          *)
ReverseRaises(p) ==
  /\ UnblockRaises(target[p])
  /\ at' = [at EXCEPT ![p] = IF p = Maint THEN "dead" ELSE "row"]
  /\ UNCHANGED blocked

(* The whole of it without a firewall; with one, the address is not in the *)
(* set or its rule cannot be reached.                                      *)
ReverseReturns(p) ==
  /\ ~ UnblockRaises(target[p]) /\ ~ Reversible(target[p])
  /\ blocked' = IF Backend = "log" THEN blocked \ {target[p]} ELSE blocked
  /\ at' = [at EXCEPT ![p] = "free"]

ReverseGoesOn(p) ==
  /\ ~ UnblockRaises(target[p]) /\ Reversible(target[p])
  /\ at' = [at EXCEPT ![p] = "delete"]
  /\ UNCHANGED blocked

Reverse(p) ==
  /\ at[p] = "reverse"
  /\ ReverseRaises(p) \/ ReverseReturns(p) \/ ReverseGoesOn(p)
  /\ UNCHANGED <<now, allow, expires, rules, sunk, ledger, eng, target,
                 reaping, crashes, faults>>

(* A defect: the address leaves the set whatever the command has returned. *)
DeleteFailsForgets(p) ==
  /\ Live /\ target[p] \in Sources /\ faults < MaxFaults
  /\ faults' = faults + 1
  /\ at' = [at EXCEPT ![p] = "discard"]
  /\ UNCHANGED rules

DeleteFails(p) ==
  /\ Live /\ target[p] \in Sources /\ faults < MaxFaults
  /\ faults' = faults + 1
  /\ at' = [at EXCEPT ![p] = "free"]
  /\ UNCHANGED rules

(* Another thread was faster: iptables reports that there is no such rule, *)
(* and the address stays in the set.                                       *)
DeleteFindsNone(p) ==
  /\ Backend = "iptables" /\ Live /\ rules[target[p]] = 0
  /\ at' = [at EXCEPT ![p] = "free"]
  /\ UNCHANGED <<rules, faults>>

(* iptables deletes one rule, netsh every rule of that name.               *)
Remaining(n) == IF Backend = "netsh" THEN 0 ELSE n - 1

(* A defect: the command deletes nothing and succeeds.                     *)
DeleteForgets(p) ==
  /\ at' = [at EXCEPT ![p] = IF Backend = "iptables" THEN "discard" ELSE "free"]
  /\ UNCHANGED <<rules, faults>>

DeleteRuns(p) ==
  /\ Backend = "iptables" /\ Live => rules[target[p]] > 0
  /\ rules' = IF Live /\ target[p] \in Sources
              THEN [rules EXCEPT ![target[p]] = Remaining(@)] ELSE rules
  /\ at' = [at EXCEPT ![p] = IF Backend = "iptables" THEN "discard" ELSE "free"]
  /\ UNCHANGED faults

(* The command that deletes the rule.                                      *)
Delete(p) ==
  /\ at[p] = "delete"
  /\ DeleteFails(p) \/ DeleteFindsNone(p) \/ DeleteRuns(p)
  /\ UNCHANGED <<now, allow, blocked, expires, sunk, ledger, eng, target,
                 reaping, crashes>>

(* self._blocked.discard; netsh keeps its own set as it is.                *)
Discard(p) ==
  /\ at[p] = "discard"
  /\ blocked' = blocked \ {target[p]}
  /\ at' = [at EXCEPT ![p] = "free"]
  /\ UNCHANGED <<now, allow, expires, rules, sunk, ledger, eng, target,
                 reaping, crashes, faults>>

(* A defect: the sinkhole is only asked about addresses.                   *)
FreeNothing(p) ==
  /\ at[p] = "free"
  /\ at' = [at EXCEPT ![p] = IF p = Maint THEN "next" ELSE "row"]
  /\ UNCHANGED <<now, allow, blocked, expires, rules, sunk, ledger, eng,
                 target, reaping, crashes, faults>>

(* sinkhole.unblock_domain.                                                *)
Free(p) ==
  /\ at[p] = "free"
  /\ sunk' = IF Armed /\ target[p] \in Domains
             THEN Forget(sunk, target[p]) ELSE sunk
  /\ at' = [at EXCEPT ![p] = IF p = Maint THEN "next" ELSE "row"]
  /\ UNCHANGED <<now, allow, blocked, expires, rules, ledger, eng, target,
                 reaping, crashes, faults>>

RemoveBlock(t) == ledger' = [ledger EXCEPT ![t] = "none"]

(* remove_block, whatever the unblock has done.                            *)
RemoveRow(p) ==
  /\ at[p] = "row" /\ RemoveBlock(target[p])
  /\ at' = [at EXCEPT ![p] = "idle"]
  /\ target' = [target EXCEPT ![p] = None]
  /\ UNCHANGED <<now, allow, blocked, expires, rules, sunk, eng, reaping,
                 crashes, faults>>

-----------------------------------------------------------------------------
(* reap_expired of the policy, run by the maintenance thread.              *)

BeginScan ==
  /\ MayEnter
  /\ at[Maint] = "idle"
  /\ at' = [at EXCEPT ![Maint] = "scan"]
  /\ scanned' = Keys
  /\ UNCHANGED <<now, allow, blocked, expires, rules, sunk, ledger, eng,
                 target, freed, lifted, crashes, faults>>

(* A dictionary whose size changed during the iteration raises             *)
(* RuntimeError, which nothing catches.                                    *)
ScanRaises ==
  /\ Cardinality(Keys) # Cardinality(scanned)
  /\ at' = [at EXCEPT ![Maint] = "dead"]
  /\ UNCHANGED <<freed, lifted>>

ScanReturns ==
  /\ Cardinality(Keys) = Cardinality(scanned)
  /\ freed' = {t \in Keys : expires[t] <= now}
  /\ lifted' = freed'
  /\ at' = [at EXCEPT ![Maint] = "next"]

EndScan ==
  /\ at[Maint] = "scan"
  /\ ScanRaises \/ ScanReturns
  /\ scanned' = {}
  /\ UNCHANGED <<now, allow, blocked, expires, rules, sunk, ledger, eng,
                 target, crashes, faults>>

(* The next target of the loop, with the first statement of its unblock.   *)
LiftNext ==
  /\ at[Maint] = "next"
  /\ \E t \in freed :
       /\ freed' = freed \ {t}
       /\ expires' = Forget(expires, t)
       /\ target' = [target EXCEPT ![Maint] = t]
  /\ at' = [at EXCEPT ![Maint] = "reverse"]
  /\ UNCHANGED <<now, allow, blocked, rules, sunk, ledger, eng, lifted,
                 scanned, crashes, faults>>

(* sinkhole.reap_expired, after the loop.                                  *)
ReapDomains ==
  /\ at[Maint] = "next"
  /\ freed = {}
  /\ sunk' = [d \in Domains |-> IF sunk[d] <= now THEN Absent ELSE sunk[d]]
  /\ at' = [at EXCEPT ![Maint] = "row"]
  /\ target' = [target EXCEPT ![Maint] = None]
  /\ UNCHANGED <<now, allow, blocked, expires, rules, ledger, eng, reaping,
                 crashes, faults>>

(* log_block(ip, "UNBLOCKED") for every target that was lifted.            *)
Report ==
  /\ at[Maint] = "row"
  /\ ledger' = [t \in Targets |->
                  IF t \in lifted /\ ledger[t] = "none" THEN "unblocked"
                                                        ELSE ledger[t]]
  /\ lifted' = {}
  /\ at' = [at EXCEPT ![Maint] = "idle"]
  /\ UNCHANGED <<now, allow, blocked, expires, rules, sunk, eng, target,
                 freed, scanned, crashes, faults>>

-----------------------------------------------------------------------------
AllowlistAdd(ip) ==
  /\ MayEnter
  /\ allow' = allow \cup {ip}
  /\ UNCHANGED <<now, blocked, expires, rules, sunk, ledger, threads,
                 crashes, faults>>

AllowlistRemove(ip) ==
  /\ MayEnter
  /\ allow' = allow \ {ip}
  /\ UNCHANGED <<now, blocked, expires, rules, sunk, ledger, threads,
                 crashes, faults>>

(* A hard kill and the restart: the sinkhole adopts the live lines of the  *)
(* hosts file; the firewall keeps its rules and nobody adopts them.        *)
Restart ==
  /\ crashes < MaxCrashes
  /\ crashes' = crashes + 1
  /\ blocked' = {}
  /\ expires' = [t \in Sources |-> Absent]
  /\ sunk' = [d \in Domains |-> IF sunk[d] <= now THEN Absent ELSE sunk[d]]
  /\ eng' = EngineIdle
  /\ at' = [p \in Unblockers |-> "idle"]
  /\ target' = [p \in Unblockers |-> None]
  /\ freed' = {}
  /\ lifted' = {}
  /\ scanned' = {}
  /\ UNCHANGED <<now, allow, rules, ledger, faults>>

-----------------------------------------------------------------------------
EngineStep == Block \/ Mark \/ Stamp \/ Log
Unblocking(p) ==
  \/ Reverse(p) \/ Delete(p) \/ Discard(p) \/ Free(p)
  \/ p \in ApiThreads /\ RemoveRow(p)
Reaping == BeginScan \/ EndScan \/ LiftNext \/ ReapDomains \/ Report

Next ==
  \/ Tick
  \/ \E src \in Sources, dom \in Domains, hit \in BOOLEAN :
       Verdict(src, dom, hit)
  \/ EngineStep
  \/ \E p \in ApiThreads, t \in Targets : Unblock(p, t)
  \/ \E p \in Unblockers : Unblocking(p)
  \/ Reaping
  \/ \E ip \in Sources : AllowlistAdd(ip) \/ AllowlistRemove(ip)
  \/ Restart

Spec == Init /\ [][Next]_vars

(* Every thread keeps running and the clock advances.  The clock and the   *)
(* timer of the maintenance thread wait for no other thread, hence strong  *)
(* fairness where a bound or a serial run lets the others in first.        *)
(* Nothing obliges a verdict, an operator, a fault or a kill to happen.    *)
Fairness ==
  /\ SF_vars(Tick)
  /\ WF_vars(EngineStep)
  /\ \A p \in Unblockers : WF_vars(Unblocking(p))
  /\ WF_vars(Reaping) /\ SF_vars(BeginScan)

FairSpec == Spec /\ Fairness

-----------------------------------------------------------------------------
Kinds == {"none", "source", "domain", "unblocked"}
Steps == {"idle", "reverse", "delete", "discard", "free", "row", "scan",
          "next", "dead"}

TypeOK ==
  /\ now \in 0 .. Horizon
  /\ allow \subseteq Sources
  /\ blocked \subseteq Sources
  /\ expires \in [Sources -> Int]
  /\ rules \in [Sources -> Nat]
  /\ sunk \in [Domains -> Int]
  /\ ledger \in [Targets -> Kinds]
  /\ eng \in [at : {"idle", "block", "mark", "stamp", "log"},
              src : Sources \cup {None}, dom : Domains \cup {None},
              hit : BOOLEAN]
  /\ eng.at # "idle" => eng.src \in Sources /\ eng.dom \in Domains
  /\ at \in [Unblockers -> Steps]
  /\ target \in [Unblockers -> Targets \cup {None}]
  /\ freed \subseteq Sources
  /\ lifted \subseteq Sources
  /\ scanned \subseteq Sources
  /\ crashes \in 0 .. MaxCrashes
  /\ faults \in 0 .. MaxFaults

(* The machine never firewalls itself: its own addresses have no rule, no  *)
(* entry of the back end and no expiry, whatever the allowlist, the        *)
(* evidence, the faults and the restarts (the 1.4.0 outage).               *)
OwnNeverFirewalled ==
  \A ip \in Own : rules[ip] = 0 /\ ip \notin blocked /\ expires[ip] = Absent

(* Until a process is killed or a firewall command fails, no rule that can *)
(* be deleted at all is beyond the reach of the reaper: it has an expiry,  *)
(* or the engine is about to give it one, or a thread is about to delete   *)
(* it, in every interleaving of the engine, the reaper and the operator.   *)
RuleTracked ==
  crashes = 0 /\ faults = 0 /\ Placement # "override" =>
  \A t \in Sources : rules[t] > 0 =>
    \/ expires[t] # Absent
    \/ eng.at \in {"mark", "stamp"} /\ eng.src = t
    \/ \E p \in Unblockers : at[p] \in {"reverse", "delete"} /\ target[p] = t

(* "in-memory set guarantees no duplicate rules" (comment of the iptables  *)
(* back end): one DROP rule for a source, never more, for as long as the   *)
(* process that holds the set lives.                                       *)
NoDuplicateRules == crashes = 0 => \A t \in Sources : rules[t] <= 1

(* Only what is in the set can be unblocked, and only what is not is       *)
(* blocked: until the first kill no rule is unknown to the set, but for    *)
(* the one the engine has just made, whichever of the check, the command   *)
(* and the update of two unblocks and a block come in between.             *)
NoStrayRule ==
  crashes = 0 => \A t \in Sources : rules[t] > 0 =>
    t \in blocked \/ (eng.at = "mark" /\ eng.src = t)

(* The back end can undo what it did: one rule for a source, and no rule   *)
(* the set does not know.                                                  *)
BackendSound == NoDuplicateRules /\ NoStrayRule

(* With no thread at work, every rule is in the list the operator sees and *)
(* unblocks from.                                                          *)
RuleIsListed ==
  Quiet => \A t \in Sources : rules[t] > 0 => ledger[t] # "none"

(* "target may be a source IP or a sunk domain" (docstring of unblock):    *)
(* what an unblock request leaves the list for is free, be it an address   *)
(* or a domain.                                                            *)
UnblockFrees ==
  \A p \in ApiThreads : at[p] = "row" =>
    IF target[p] \in Domains THEN sunk[target[p]] = Absent
                             ELSE rules[target[p]] = 0

(* What is blocked is on the list, and what leaves the list is free.       *)
ListIsTrue == UnblockFrees /\ RuleIsListed

(* A block ends by itself: "a detector that blocks and never unblocks is a *)
(* self-inflicted outage waiting for its first false positive".            *)
EveryRuleEnds == \A t \in Sources : rules[t] > 0 ~> rules[t] = 0

-----------------------------------------------------------------------------
(* What the repository says of this code and the code does not do.         *)

(* "duplicate: block already in place, by design" (comment of _decide):    *)
(* with no thread at work, what the back end reports as blocked, and so    *)
(* never blocks again, has its rule in the firewall (netsh apart, whose    *)
(* unblock_ip keeps the address in the set).                               *)
BlockedIsInPlace ==
  Quiet /\ Live /\ Backend = "iptables" => \A t \in blocked : rules[t] > 0

(* "The blocked-list UI reads this table; it is the source of truth"       *)
(* (comment of _unblock): with no thread at work, a source row is a source *)
(* that is blocked.                                                        *)
LedgerIsCurrent ==
  Quiet => \A t \in Sources : ledger[t] = "source" => t \in blocked

=============================================================================
