------------------------------ MODULE Sinkhole ------------------------------
(***************************************************************************)
(* The domain-level response of ExfilTrap: class DomainSinkhole of         *)
(* exfiltrap/mitigation.py.  A flagged hostname is written into the hosts  *)
(* file, so that a query for it is answered 0.0.0.0, and is taken out      *)
(* again when its time-to-live is over, when the operator frees it, or     *)
(* when every managed line is cleared.                                     *)
(*                                                                         *)
(* Two copies of one truth live side by side.  The in-memory index         *)
(* (expires, sunk, convicted, strikes) is only touched under self._lock,   *)
(* so every critical section is one action here.  The hosts file is NOT    *)
(* under that lock when it is rewritten: _remove_entry and cleanup read    *)
(* the file, truncate it with open("w") and write the lines back, and any  *)
(* other thread may run between those three steps.                         *)
(*                                                                         *)
(* Threads: the detection engine (Verdict), the maintenance thread (Maint, *)
(* which reaps) and the API request threads (ApiThreads, which unblock and *)
(* clear).  Time is the integer number of seconds of the wall clock.       *)
(***************************************************************************)
EXTENDS Integers

CONSTANTS
  Names,         (* hostnames that may be queried, base domains included   *)
  BaseOf,        (* features.base_domain, tabulated over Names             *)
  Popular,       (* names for which reputation.is_popular answers True     *)
  Malformed,     (* names that do not match _QNAME_RE                      *)
  TTL,           (* self.ttl                                               *)
  StrikesNeeded, (* self.strikes                                           *)
  Lag,           (* bound: how far a packet's timestamp trails the clock   *)
  ApiThreads,    (* request threads of the API                             *)
  Maint,         (* the maintenance thread of the service                  *)
  Interleave,    (* FALSE: no thread runs between the steps of a rewrite   *)
  Horizon,       (* bound: last instant of the clock                       *)
  MaxCrashes,    (* bound: hard kills of the process                       *)
  MaxFaults      (* bound: OSErrors raised by the file system              *)

ASSUME SinkholeAssumption ==
  /\ BaseOf \in [Names -> Names]
  /\ \A n \in Names : BaseOf[BaseOf[n]] = BaseOf[n]
  /\ Popular \subseteq Names
  /\ Malformed \subseteq Names
  /\ \A n \in Names \ Malformed : BaseOf[n] \notin Malformed
  /\ TTL \in Nat \ {0}
  /\ StrikesNeeded \in Nat \ {0}      (* max(1, int(strikes)) *)
  /\ Lag \in Nat
  /\ Maint \notin ApiThreads
  /\ Interleave \in BOOLEAN
  /\ Horizon \in Nat
  /\ MaxCrashes \in Nat
  /\ MaxFaults \in Nat

VARIABLES
  now,        (* self.clock()                                              *)
  running,    (* the service process is up and its sinkhole is constructed *)
  hosts,      (* the hosts file: managed lines, and the operator's own     *)
  expires,    (* self._expires: what the reaper walks                      *)
  sunk,       (* self._sunk: what is_sunk consults                         *)
  convicted,  (* self._convicted_until                                     *)
  strikes,    (* self._strikes                                             *)
  stage,      (* per rewriting thread: the next step of its file rewrite   *)
  todo,       (* per rewriting thread: the sets of names still to remove   *)
  clearing,   (* rewriting threads that run cleanup, not _remove_entry     *)
  copy,       (* per rewriting thread: the lines it read and will put back *)
  crashes,    (* hard kills so far                                         *)
  faults,     (* OSErrors so far                                           *)
  credit,     (* history: verdicts with evidence on the domain, per base,  *)
              (* since it was last convicted by strikes or pardoned        *)
  earned      (* history: bases whose present conviction had its grounds   *)

index   == <<expires, sunk, convicted, strikes>>
rewrite == <<stage, todo, clearing, copy>>
history == <<credit, earned>>
vars    == <<now, running, hosts, index, rewrite, crashes, faults, history>>

-----------------------------------------------------------------------------

Rewriters == ApiThreads \cup {Maint}

Absent == -1                       (* a key the dictionary does not hold   *)
Nowhere == [n \in Names |-> Absent]

Slots == 1 .. StrikesNeeded
BlankCard == [s \in Slots |-> Absent]

(* A managed line.  The A and the AAAA line of a name are written and      *)
(* removed together, so one line stands for the pair.                      *)
Line == [name : Names, exp : Int]
File == [lines : SUBSET Line, own : BOOLEAN]
EmptyFile == [lines |-> {}, own |-> FALSE]

Evidence == {"session", "domain", "confirmed"}

(* A defect: a verdict escalates whatever its evidence (release 1.4.0).    *)
AnyEvidence(ev) == ev \in Evidence

(* Only a decode, a signal of the domain itself or a probability above the *)
(* HIGH threshold ("domain" stands for the last two) lets notify escalate; *)
(* timing evidence about the source ("session") never does.                *)
Actionable(ev) == ev \in {"domain", "confirmed"}

(* A defect: only the queried name itself is looked up in the corpus.      *)
RefusedByName(q) == q \in Malformed \/ q \in Popular

(* The names _escalate refuses before it looks at any state.               *)
Refused(q) == \/ q \in Malformed
              \/ q \in Popular
              \/ BaseOf[q] \in Popular

(* What one sink covers: the observed name and the base of its channel.    *)
Channel(q) == {q} \cup ({BaseOf[q]} \ Popular)

(* A defect: _remove_entry keeps the lines that have not expired.          *)
WithoutExpired(lines, S) == {l \in lines : l.name \notin S \/ l.exp > now}

Without(lines, S) == {l \in lines : l.name \notin S}
NamesIn(lines) == {l.name : l \in lines}

Forget(f, S) == [n \in Names |-> IF n \in S THEN Absent ELSE f[n]]
Tracked == {n \in Names : expires[n] # Absent}

(* In the serial runs a thread only starts when no rewrite is under way.   *)
Quiet == \A p \in Rewriters : stage[p] \in {"idle", "dead"}
MayEnter == running /\ (Interleave \/ Quiet)

-----------------------------------------------------------------------------
(* is_sunk: what the pipeline asks before it counts an intercepted query.  *)
IsSunk(q) ==
  \/ sunk[q] > now
  \/ convicted[BaseOf[q]] > now
  \/ sunk[BaseOf[q]] # Absent

-----------------------------------------------------------------------------
Init ==
  /\ now = 0
  /\ running = TRUE
  /\ hosts = [lines |-> {}, own |-> TRUE]
  /\ expires = Nowhere
  /\ sunk = Nowhere
  /\ convicted = Nowhere
  /\ strikes = [n \in Names |-> BlankCard]
  /\ stage = [p \in Rewriters |-> "idle"]
  /\ todo = [p \in Rewriters |-> {}]
  /\ clearing = {}
  /\ copy = [p \in Rewriters |-> EmptyFile]
  /\ crashes = 0
  /\ faults = 0
  /\ credit = [n \in Names |-> 0]
  /\ earned = {}

Tick ==
  /\ now < Horizon
  /\ now' = now + 1
  /\ UNCHANGED <<running, hosts, index, rewrite, crashes, faults, history>>

-----------------------------------------------------------------------------
(* A defect: the base is reported sunk and the reaper never learns of it.  *)
SinkNamesOnly(q, W) ==
  LET until == now + TTL IN
  /\ hosts' = [hosts EXCEPT !.lines = @ \cup [name : W, exp : {until}]]
  /\ expires' = [n \in Names |-> IF n \in W /\ n = q THEN until ELSE expires[n]]
  /\ sunk' = [n \in Names |-> IF n \in W THEN until ELSE sunk[n]]

(* _sink: append the line of each name, then index it.  The index of a     *)
(* name follows its append, so an OSError leaves the names before it both  *)
(* written and indexed and the others neither.  The base keeps the expiry  *)
(* it already had in expires (setdefault) and gets the new one in sunk.    *)
SinkNames(q, W) ==
  LET until == now + TTL IN
  /\ hosts' = [hosts EXCEPT !.lines =
                 @ \cup [name : W, exp : {until}]]
  /\ expires' = [n \in Names |->
                   IF n \in W /\ (n = q \/ expires[n] = Absent)
                   THEN until ELSE expires[n]]
  /\ sunk' = [n \in Names |-> IF n \in W THEN until ELSE sunk[n]]

SinkDone(q) == SinkNames(q, Channel(q)) /\ UNCHANGED faults

SinkBreaks(q) ==
  /\ faults < MaxFaults
  /\ faults' = faults + 1
  /\ \E W \in {{}, {q}} : W # Channel(q) /\ SinkNames(q, W)

Sink(q) == SinkDone(q) \/ SinkBreaks(q)

Convict(b) == convicted' = [convicted EXCEPT ![b] = now + TTL]

(* The stamps still inside the window that ends at the verdict's own       *)
(* timestamp, and the card with the new stamp in its first free slot.      *)
Pruned(card, ts) ==
  [s \in Slots |-> IF card[s] > ts - TTL THEN card[s] ELSE Absent]
FirstFree(card, s) ==
  card[s] = Absent /\ \A r \in Slots : card[r] = Absent => s <= r
Full(card) == \A s \in Slots : card[s] # Absent

(* History: a verdict on the domain itself is one more credit for its base.*)
Counted(b, ev) ==
  IF ev = "domain" /\ credit[b] < StrikesNeeded THEN credit[b] + 1
                                                ELSE credit[b]

(* The three ways out of _escalate.                                        *)
Immediate(q, ev) ==
  LET b == BaseOf[q] IN
  /\ ev = "confirmed"
  /\ Convict(b)
  /\ Sink(q)
  /\ earned' = earned \cup {b}
  /\ UNCHANGED <<strikes, credit>>

OnSight(q, ev) ==
  LET b == BaseOf[q] IN
  /\ ev # "confirmed"
  /\ now < convicted[b]
  /\ Sink(q)
  /\ UNCHANGED <<convicted, strikes, history>>

Strike(q, ev, ts) ==
  LET b == BaseOf[q] IN
  /\ ev # "confirmed"
  /\ ~ (now < convicted[b])
  /\ \E s \in Slots :
       /\ FirstFree(Pruned(strikes[b], ts), s)
       /\ LET card == [Pruned(strikes[b], ts) EXCEPT ![s] = ts] IN
          IF Full(card)
          THEN /\ Convict(b)
               /\ strikes' = [strikes EXCEPT ![b] = BlankCard]
               /\ Sink(q)
               /\ credit' = [credit EXCEPT ![b] = 0]
               /\ earned' = IF Counted(b, ev) >= StrikesNeeded
                            THEN earned \cup {b} ELSE earned \ {b}
          ELSE /\ strikes' = [strikes EXCEPT ![b] = card]
               /\ credit' = [credit EXCEPT ![b] = Counted(b, ev)]
               /\ UNCHANGED <<hosts, expires, sunk, convicted, faults, earned>>

(* notify of the engine thread, for a verdict whose risk level is one of   *)
(* self.risk_levels (any other returns at once).  The bound on the clock   *)
(* stops the traffic early enough for every time-to-live to run out.       *)
Verdict(q, ev, ts) ==
  /\ MayEnter
  /\ now + TTL <= Horizon
  /\ ts \in 0 .. now
  /\ Actionable(ev)
  /\ ~ Refused(q)
  /\ Immediate(q, ev) \/ OnSight(q, ev) \/ Strike(q, ev, ts)
  /\ UNCHANGED <<now, running, rewrite, crashes>>

-----------------------------------------------------------------------------
(* The critical section of unblock_domain; the rewrites follow outside it. *)
Unblock(p, q) ==
  LET b == BaseOf[q]
      freedBase == b # q /\ sunk[b] # Absent
      gone == {q} \cup (IF freedBase THEN {b} ELSE {}) IN
  /\ MayEnter
  /\ p \in ApiThreads
  /\ stage[p] = "idle"
  /\ expires' = Forget(expires, gone)
  /\ sunk' = Forget(sunk, gone)
  /\ convicted' = Forget(convicted, {b})
  /\ strikes' = [strikes EXCEPT ![b] = BlankCard]
  /\ stage' = [stage EXCEPT ![p] = "read"]
  /\ todo' = [todo EXCEPT ![p] = {{n} : n \in gone \ (Popular \ {q})}]
  /\ credit' = [credit EXCEPT ![b] = 0]
  /\ earned' = earned \ {b}
  /\ UNCHANGED <<now, running, hosts, clearing, copy, crashes, faults>>

(* cleanup: the operator's clear button and the shutdown path.  The index  *)
(* is forgotten only after the rewrite.                                    *)
Cleanup(p) ==
  /\ MayEnter
  /\ p \in ApiThreads
  /\ stage[p] = "idle"
  /\ stage' = [stage EXCEPT ![p] = "read"]
  /\ todo' = [todo EXCEPT ![p] = {Names}]
  /\ clearing' = clearing \cup {p}
  /\ UNCHANGED <<now, running, hosts, index, copy, crashes, faults, history>>

(* The critical section of reap_expired, run every half minute.            *)
Reap ==
  LET freed  == {n \in Names : expires[n] # Absent /\ expires[n] <= now}
      lapsed == {b \in Names : convicted[b] # Absent /\ convicted[b] <= now} IN
  /\ MayEnter
  /\ stage[Maint] = "idle"
  /\ freed # {} \/ lapsed # {}
  /\ convicted' = Forget(convicted, lapsed)
  /\ expires' = Forget(expires, freed)
  /\ sunk' = Forget(sunk, freed)
  /\ stage' = [stage EXCEPT ![Maint] = IF freed = {} THEN "idle" ELSE "read"]
  /\ todo' = [todo EXCEPT ![Maint] = {{n} : n \in freed}]
  /\ earned' = earned \ lapsed
  /\ UNCHANGED <<now, running, hosts, strikes, clearing, copy,
                 crashes, faults, credit>>

-----------------------------------------------------------------------------
(* The rewrite of the hosts file, one step per file operation.             *)

(* open("r+"), readlines, and the lines that will be kept.                 *)
ReadLines(p) ==
  /\ running
  /\ stage[p] = "read"
  /\ \E S \in todo[p] :
       /\ copy' = [copy EXCEPT ![p] =
                     [hosts EXCEPT !.lines = Without(@, S)]]
       /\ todo' = [todo EXCEPT ![p] = @ \ {S}]
  /\ stage' = [stage EXCEPT ![p] = "truncate"]
  /\ UNCHANGED <<now, running, hosts, index, clearing, crashes, faults, history>>

(* open("w") leaves an empty file.                                         *)
Truncate(p) ==
  /\ running
  /\ stage[p] = "truncate"
  /\ hosts' = EmptyFile
  /\ stage' = [stage EXCEPT ![p] = "write"]
  /\ UNCHANGED <<now, running, index, todo, clearing, copy,
                 crashes, faults, history>>

(* writelines starts at offset 0: of what others put into the file since   *)
(* the truncation, the part beyond the new text survives and the rest is   *)
(* overwritten.                                                            *)
WriteBack(p) ==
  /\ running
  /\ stage[p] = "write"
  /\ \E rest \in SUBSET hosts.lines, own \in {FALSE, hosts.own} :
       hosts' = [lines |-> copy[p].lines \cup rest,
                 own   |-> copy[p].own \/ own]
  /\ copy' = [copy EXCEPT ![p] = EmptyFile]
  /\ stage' = [stage EXCEPT ![p] = IF todo[p] # {} THEN "read"
                                   ELSE IF p \in clearing THEN "clear"
                                   ELSE "idle"]
  /\ UNCHANGED <<now, running, index, todo, clearing, crashes, faults, history>>

(* The critical section at the end of cleanup.                             *)
ClearIndex(p) ==
  /\ running
  /\ stage[p] = "clear"
  /\ expires' = Nowhere
  /\ sunk' = Nowhere
  /\ convicted' = Nowhere
  /\ strikes' = [n \in Names |-> BlankCard]
  /\ stage' = [stage EXCEPT ![p] = "idle"]
  /\ clearing' = clearing \ {p}
  /\ credit' = [n \in Names |-> 0]
  /\ earned' = {}
  /\ UNCHANGED <<now, running, hosts, todo, copy, crashes, faults>>

(* The file cannot be opened.  cleanup answers 0, PolicyMitigation.unblock *)
(* swallows the error, and nothing catches it in the maintenance thread.   *)
OpenFails(p) ==
  /\ running
  /\ stage[p] \in {"read", "truncate"}
  /\ faults < MaxFaults
  /\ faults' = faults + 1
  /\ stage' = [stage EXCEPT ![p] = IF p = Maint THEN "dead" ELSE "idle"]
  /\ todo' = [todo EXCEPT ![p] = {}]
  /\ clearing' = clearing \ {p}
  /\ copy' = [copy EXCEPT ![p] = EmptyFile]
  /\ UNCHANGED <<now, running, hosts, index, crashes, history>>

-----------------------------------------------------------------------------
(* A restarted process that has truncated the file and has not written back*)
(* the lines it keeps.                                                     *)
Sweeping == stage[Maint] = "sweep"

(* A hard kill loses the process, at any step of a rewrite or of a start,  *)
(* never the file.                                                         *)
Crash ==
  /\ running \/ Sweeping
  /\ crashes < MaxCrashes
  /\ crashes' = crashes + 1
  /\ running' = FALSE
  /\ expires' = Nowhere
  /\ sunk' = Nowhere
  /\ convicted' = Nowhere
  /\ strikes' = [n \in Names |-> BlankCard]
  /\ stage' = [p \in Rewriters |-> "idle"]
  /\ todo' = [p \in Rewriters |-> {}]
  /\ clearing' = {}
  /\ copy' = [p \in Rewriters |-> EmptyFile]
  /\ credit' = [n \in Names |-> 0]
  /\ earned' = {}
  /\ UNCHANGED <<now, hosts, faults>>

(* The expiry a restarted process gives a name: that of the first of its   *)
(* live lines, and lines are appended in the order of their expiry.        *)
Adopted(n, live) ==
  IF n \in NamesIn(live)
  THEN CHOOSE e \in {l.exp : l \in {k \in live : k.name = n}} :
         \A l \in live : l.name = n => e <= l.exp
  ELSE Absent

(* The constructor of a restarted process, before it touches the file.     *)
Restarting == ~ running /\ ~ Sweeping
Live == {l \in hosts.lines : l.exp > now}

(* Two defects: release 1.5 adopted the lines as sunk and the reaper never *)
(* saw them; and a start that adopts the live lines but sweeps no other.   *)
StartUnreaped ==
  /\ Restarting
  /\ running' = TRUE
  /\ sunk' = [n \in Names |-> Adopted(n, hosts.lines)]
  /\ UNCHANGED <<now, hosts, expires, convicted, strikes, rewrite,
                 crashes, faults, history>>

StartUnswept ==
  /\ Restarting
  /\ running' = TRUE
  /\ expires' = [n \in Names |-> Adopted(n, Live)]
  /\ sunk' = [n \in Names |-> Adopted(n, Live)]
  /\ UNCHANGED <<now, hosts, convicted, strikes, rewrite, crashes, faults, history>>

(* _adopt_persisted_entries: the live lines are indexed; where the file    *)
(* has others, it is truncated and only then written back, and a kill may  *)
(* fall in between.                                                        *)
Start ==
  /\ Restarting
  /\ expires' = [n \in Names |-> Adopted(n, Live)]
  /\ sunk' = [n \in Names |-> Adopted(n, Live)]
  /\ \/ /\ hosts.lines = Live
        /\ running' = TRUE
        /\ UNCHANGED <<hosts, stage, copy>>
     \/ /\ hosts.lines # Live
        /\ hosts' = EmptyFile
        /\ copy' = [copy EXCEPT ![Maint] = [hosts EXCEPT !.lines = Live]]
        /\ stage' = [stage EXCEPT ![Maint] = "sweep"]
        /\ UNCHANGED running
  /\ UNCHANGED <<now, convicted, strikes, todo, clearing, crashes, faults, history>>

Sweep ==
  /\ ~ running
  /\ Sweeping
  /\ running' = TRUE
  /\ hosts' = copy[Maint]
  /\ copy' = [copy EXCEPT ![Maint] = EmptyFile]
  /\ stage' = [stage EXCEPT ![Maint] = "idle"]
  /\ UNCHANGED <<now, index, todo, clearing, crashes, faults, history>>

(* The file cannot be opened: a failed read is swallowed and the process   *)
(* runs with an empty index; a failed truncation leaves the constructor,   *)
(* and the process ends.                                                   *)
StartBreaks ==
  /\ Restarting
  /\ faults < MaxFaults
  /\ faults' = faults + 1
  /\ running' = TRUE \/ (hosts.lines # Live /\ UNCHANGED running)
  /\ UNCHANGED <<now, hosts, index, rewrite, crashes, history>>

-----------------------------------------------------------------------------
Rewriting(p) ==
  ReadLines(p) \/ Truncate(p) \/ WriteBack(p) \/ ClearIndex(p) \/ OpenFails(p)

Next ==
  \/ Tick
  \/ \E q \in Names, ev \in Evidence, lag \in 0 .. Lag :
       Verdict(q, ev, now - lag)
  \/ \E p \in ApiThreads : Cleanup(p) \/ \E q \in Names : Unblock(p, q)
  \/ Reap
  \/ \E p \in Rewriters : Rewriting(p)
  \/ Crash
  \/ Start \/ Sweep \/ StartBreaks

Spec == Init /\ [][Next]_vars

(* Every thread of a running process keeps running, the clock advances and *)
(* the service manager restarts a killed process: weak fairness of each.   *)
(* The timer of the reaper waits for no other thread, hence strong         *)
(* fairness where a serial run lets another in first.  Nothing obliges a   *)
(* verdict, an operator, a fault or a kill to happen.                      *)
Fairness ==
  /\ WF_vars(Tick)
  /\ SF_vars(Reap)
  /\ WF_vars(Start) /\ WF_vars(Sweep)
  /\ \A p \in Rewriters :
       WF_vars(ReadLines(p) \/ Truncate(p) \/ WriteBack(p) \/ ClearIndex(p))

FairSpec == Spec /\ Fairness

-----------------------------------------------------------------------------
TypeOK ==
  /\ now \in 0 .. Horizon
  /\ running \in BOOLEAN
  /\ hosts \in File
  /\ expires \in [Names -> Int]
  /\ sunk \in [Names -> Int]
  /\ convicted \in [Names -> Int]
  /\ strikes \in [Names -> [Slots -> Int]]
  /\ stage \in [Rewriters -> {"idle", "read", "truncate", "write", "clear",
                              "sweep", "dead"}]
  /\ todo \in [Rewriters -> SUBSET SUBSET Names]
  /\ clearing \subseteq Rewriters
  /\ copy \in [Rewriters -> File]
  /\ crashes \in 0 .. MaxCrashes
  /\ faults \in 0 .. MaxFaults
  /\ credit \in [Names -> 0 .. StrikesNeeded]
  /\ earned \subseteq Names

(* Popular infrastructure and names that could inject a line are never     *)
(* sunk: no thread ever writes one, puts one back from a stale copy of the *)
(* file, indexes one or convicts one (the 1.4.0 outage sank google.com).   *)
Untouchable == Popular \cup Malformed \cup {n \in Names : BaseOf[n] \in Popular}

RefusedNeverSunk ==
  /\ \A l \in hosts.lines : l.name \notin Untouchable
  /\ \A p \in Rewriters : \A l \in copy[p].lines : l.name \notin Untouchable
  /\ \A n \in Untouchable :
       expires[n] = Absent /\ sunk[n] = Absent /\ convicted[n] = Absent

(* Whatever the interleaving, a name is_sunk can report is a name the      *)
(* reaper walks, and the reaper never drops one later than is_sunk would:  *)
(* otherwise a name stays reported, or blocked, with nobody to free it.    *)
IndexPaired ==
  \A n \in Names : /\ (expires[n] = Absent) = (sunk[n] = Absent)
                   /\ expires[n] <= sunk[n]

(* No response outlives the block time-to-live counted from now, be it in  *)
(* the file, in the index, in a rewriter's copy or adopted after a crash.  *)
BlocksBounded ==
  /\ \A l \in hosts.lines : l.exp <= now + TTL
  /\ \A p \in Rewriters : \A l \in copy[p].lines : l.exp <= now + TTL
  /\ \A n \in Names : sunk[n] <= now + TTL /\ convicted[n] <= now + TTL

(* What the threads keep between their critical sections: typed, paired    *)
(* and bounded.                                                            *)
IndexSound == TypeOK /\ IndexPaired /\ BlocksBounded

(* A base stands convicted only on a confirmed decode or on StrikesNeeded  *)
(* verdicts about the domain itself since it was last convicted by strikes *)
(* or pardoned by the operator: timing evidence about the source counts    *)
(* for nothing, and a pardon wipes the card.                               *)
ConvictionEarned == \A b \in Names : convicted[b] # Absent => b \in earned

(* The verdicts on one card lie within one window of each other.           *)
StrikesInWindow ==
  \A b \in Names : \A r, s \in Slots :
    strikes[b][r] # Absent /\ strikes[b][s] # Absent =>
      strikes[b][r] - strikes[b][s] < TTL + Lag

(* A conviction rests on evidence, and the evidence is of one window.      *)
EvidenceSound == ConvictionEarned /\ StrikesInWindow

(* With no rewrite under way, the file holds exactly the names the index   *)
(* tracks, through sinks, unblocks, clears, reaping, kills and restarts.   *)
IndexMatchesFile ==
  running /\ Quiet => NamesIn(hosts.lines) = Tracked

(* A name reported as sunk, by an entry, by its base or by a conviction,   *)
(* stops being reported by itself: no false positive blocks for ever.      *)
EverySinkEnds == \A n \in Names : IsSunk(n) ~> ~ IsSunk(n)

(* Every name written into the hosts file leaves it again.                 *)
EveryLineEnds ==
  \A n \in Names : n \in NamesIn(hosts.lines) ~> n \notin NamesIn(hosts.lines)

-----------------------------------------------------------------------------
(* What the repository says of this class and the code does not do.        *)

(* "operator lines must survive" (a test's assertion): with no rewrite     *)
(* under way, the lines the operator wrote are still in the file.          *)
OperatorLinesSurvive == Quiet => hosts.own

=============================================================================
