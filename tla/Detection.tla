----------------------------- MODULE Detection -----------------------------
(***************************************************************************)
(* The stateful detection of ExfilTrap: the windows of session_tracker.py, *)
(* the self-learning reference of baseline_engine.py, the verdict of       *)
(* pipeline.py and risk_engine.py with what follows from it, and the warm  *)
(* restart from a snapshot.                                                *)
(*                                                                         *)
(* One engine thread handles queries and responses: it folds a query into  *)
(* the windows under the tracker's lock and decides afterwards.  The       *)
(* maintenance thread saves in steps of its own, and the process can be    *)
(* killed between any two steps.                                           *)
(*                                                                         *)
(* A packet carries the time of its capture, up to Lag ticks ago: the      *)
(* interfaces share one queue.  Masses are small integers.  Tests on       *)
(* moments of a window (the z-test, regularity of timing, shares of record *)
(* types) are choices, allowed when the code's conditions on the amount of *)
(* data and on the mean hold.  A canary hit and a flagged response leave   *)
(* the state below alone; what an escalated verdict does to the network is *)
(* module Policy.                                                          *)
(***************************************************************************)
EXTENDS Integers, Sequences, FiniteSets, SequencesExt

CONSTANTS
  Sources,     (* addresses that send queries                              *)
  Kinds,       (* what a query can be: a set of Queries records            *)
  Window,      (* length of a session window                               *)
  Lag,         (* how late a packet is taken off the queue                 *)
  Freeze,      (* how long an alert stops the baseline from learning       *)
  Warmup,      (* observations before the baseline is trusted              *)
  MinQueries,  (* queries of a source before its mean is tested            *)
  MinOthers,   (* observations of other sources a reference needs          *)
  Ratio,       (* elevation of a session's mean that matters               *)
  Recompute,   (* observations a cached reference may lag behind           *)
  PopCap,      (* length of the baseline's window                          *)
  DomCap,      (* length of a domain's window                              *)
  DomMin,      (* queries of a domain in one Burst before it is tested     *)
  Burst,       (* length of the recent part of a domain's window           *)
  Horizon,     (* bound: last tick of the clock                            *)
  MaxPackets,  (* bound: packets handled                                   *)
  MaxCrashes   (* bound: kills of the process                              *)

Levels == {"LOW", "MEDIUM", "HIGH", "CONFIRMED"}

(* What the classifier, the decoder, the wire format and the operator's    *)
(* lists say of one query.                                                 *)
Queries == [mass : Nat, prob : {"LOW", "SUSPECT", "MEDIUM", "HIGH"},
            decodes : BOOLEAN, tunnel : BOOLEAN, odd : BOOLEAN,
            bypass : BOOLEAN, popular : BOOLEAN, muted : BOOLEAN]

ASSUME DetectionAssumption ==
  /\ Kinds \subseteq Queries
  /\ {Window, Freeze, Warmup, MinQueries, MinOthers, Ratio, Recompute, PopCap,
      DomCap, DomMin, Burst} \subseteq Nat \ {0}
  /\ {Lag, Horizon, MaxPackets, MaxCrashes} \subseteq Nat

VARIABLES
  now,      (* the clock                                                   *)
  up,       (* the process runs                                            *)
  sess,     (* _sessions: per source, <<time, mass>> in order of arrival   *)
  cum,      (* _cum: per source, the running sum of its masses             *)
  dom,      (* _domain_times of the source's one domain: times             *)
  answers,  (* _resp_sessions, as sess                                     *)
  respCum,  (* _resp_cum                                                   *)
  base,     (* the baseline: n, its window, the cached reference           *)
  frozen,   (* _baseline_frozen_until                                      *)
  eng,      (* the query the engine has folded in and not decided          *)
  saver,    (* the maintenance thread: its step and the sessions it copied *)
  file,     (* the snapshot on disk (alarm: history, alarmed when it was made) *)
  count,    (* packets handled and kills so far                            *)
  alarm,    (* history: the last escalation of this process                *)
  alarmed,  (* history: as alarm, or of the snapshot it started from        *)
  learnt    (* history: when the baseline last learnt                      *)

windows == <<sess, cum, dom, answers, respCum>>
history == <<alarm, alarmed, learnt>>
vars == <<now, up, windows, base, frozen, eng, saver, file, count, history>>

-----------------------------------------------------------------------------
Absent == -1

Entries == Seq(Int \X Nat)
Total(w) == FoldSeq(LAMBDA e, sum : e[2] + sum, 0, w)
Empty == [s \in Sources |-> <<>>]
Zero == [s \in Sources |-> 0]

(* while dq and dq[0][0] <= cutoff: dq.popleft()                           *)
Pruned(w, cutoff) ==
  LET live == {i \in DOMAIN w : w[i][1] > cutoff} IN
  IF live = {} THEN <<>>
  ELSE SubSeq(w, CHOOSE i \in live : \A j \in live : i <= j, Len(w))

(* A defect: the sum keeps what left the window.                           *)
RunningKept(w, c, t, m) == c + m

(* cum - popped + mass                                                     *)
Running(w, c, t, m) == c - (Total(w) - Total(Pruned(w, t - Window))) + m

Folded(w, t, m) == Append(Pruned(w, t - Window), <<t, m>>)

Capped(w) == SubSeq(w, IF Len(w) > DomCap THEN Len(w) - DomCap + 1 ELSE 1, Len(w))

-----------------------------------------------------------------------------
(* The baseline.                                                           *)

NoStats == [src |-> "none"]
NewBase == [n |-> 0, pop |-> <<>>, cached |-> NoStats]

Learning == now >= frozen

Learned(b, m, src) ==
  LET pop == Append(b.pop, <<src, m>>) IN
  [b EXCEPT !.n = @ + 1,
            !.pop = SubSeq(pop, IF Len(pop) > PopCap THEN 2 ELSE 1, Len(pop))]

(* The places of the window that hold a mass of another source.            *)
Others(b, src) == {i \in DOMAIN b.pop : b.pop[i][1] # src}

Stats(b, src) ==
  [src |-> src, at |-> b.n,
   sum |-> MapThenSumSet(LAMBDA i : b.pop[i][2], Others(b, src)),
   cnt |-> Cardinality(Others(b, src)),
   of  |-> {b.pop[i][1] : i \in Others(b, src)}]

(* A defect: the cache is not asked whose reference it holds.              *)
CachedForAny(b, src) == b.cached # NoStats /\ b.n - b.cached.at < Recompute

Cached(b, src) ==
  b.cached # NoStats /\ b.cached.src = src /\ b.n - b.cached.at < Recompute

(* population_stats_excluding: a source is compared with the others.       *)
Reference(b, src) ==
  IF Cached(b, src) THEN b.cached
  ELSE IF Cardinality(Others(b, src)) < MinOthers THEN NoStats
  ELSE Stats(b, src)

(* The mean of the session against the reference: without one, against the *)
(* moving average of all traffic, which is a choice here.                  *)
Elevated(c, len, ref) ==
  IF ref = NoStats THEN BOOLEAN
  ELSE IF c * ref.cnt > Ratio * ref.sum * len THEN BOOLEAN ELSE {FALSE}

-----------------------------------------------------------------------------
Idle == [at |-> "idle"]
NoSave == [at |-> "idle"]
NoFile == [kind |-> "none"]

Init ==
  /\ now = 0
  /\ up = TRUE
  /\ sess = Empty /\ cum = Zero
  /\ dom = Empty
  /\ answers = Empty /\ respCum = Zero
  /\ base = NewBase
  /\ frozen = Absent
  /\ eng = Idle
  /\ saver = NoSave
  /\ file = NoFile
  /\ count = [packets |-> 0, crashes |-> 0]
  /\ alarm = Absent /\ alarmed = Absent /\ learnt = Absent

Tick ==
  /\ now < Horizon
  /\ now' = now + 1
  /\ UNCHANGED <<up, windows, base, frozen, eng, saver, file, count, history>>

-----------------------------------------------------------------------------
(* The engine.                                                             *)

Arrives ==
  /\ up
  /\ eng = Idle
  /\ count.packets < MaxPackets
  /\ count' = [count EXCEPT !.packets = @ + 1]

Captured == {t \in now - Lag .. now : t >= 0}

(* SessionTracker.update: the windows, the lesson, and the flags.          *)
Observe(s, q, t) ==
  LET w   == Folded(sess[s], t, q.mass)
      c   == Running(sess[s], cum[s], t, q.mass)
      d   == Capped(Append(Pruned(dom[s], t - Window), <<t, q.mass>>))
      b   == IF Learning THEN Learned(base, q.mass, s) ELSE base
      due == b.n >= Warmup /\ Len(w) >= MinQueries
      ref == IF due THEN Reference(b, s) ELSE NoStats
      burst == Cardinality({i \in DOMAIN d : d[i][1] > t - Burst}) >= DomMin
  IN
  /\ Arrives
  /\ sess' = [sess EXCEPT ![s] = w]
  /\ cum' = [cum EXCEPT ![s] = c]
  /\ dom' = [dom EXCEPT ![s] = d]
  /\ base' = IF due THEN [b EXCEPT !.cached = ref] ELSE b
  /\ learnt' = IF Learning THEN now ELSE learnt
  /\ \E drip \in IF due THEN Elevated(c, Len(w), ref) ELSE {FALSE},
        velocity \in IF burst /\ ~ q.popular THEN BOOLEAN ELSE {FALSE},
        beacon \in IF Len(w) >= MinQueries \/ Len(d) >= DomMin THEN BOOLEAN
                                                             ELSE {FALSE} :
       eng' = [at |-> "decide", src |-> s, q |-> q, ref |-> ref,
               flagged |-> drip \/ velocity \/ beacon]
  /\ UNCHANGED <<now, up, answers, respCum, frozen, saver, file, alarm, alarmed>>

(* SessionTracker.update_response.                                         *)
Response(s, t, m) ==
  /\ Arrives
  /\ answers' = [answers EXCEPT ![s] = Folded(@, t, m)]
  /\ respCum' = [respCum EXCEPT ![s] = Running(answers[s], @, t, m)]
  /\ UNCHANGED <<now, up, sess, cum, dom, base, frozen, eng, saver, file, history>>

Rank(level) ==
  CASE level = "LOW" -> 0 [] level = "MEDIUM" -> 1
    [] level = "HIGH" -> 2 [] level = "CONFIRMED" -> 3

AtLeast(floor, level) == IF Rank(floor) > Rank(level) THEN floor ELSE level

(* RiskEngine.assess; the payload is decoded only on suspicion.            *)
Assessed(q, flagged) ==
  IF q.decodes /\ (q.prob # "LOW" \/ flagged) THEN "CONFIRMED"
  ELSE IF q.prob = "HIGH" \/ flagged THEN "HIGH"
  ELSE IF q.prob = "MEDIUM" THEN "MEDIUM" ELSE "LOW"

(* The signals of the wire only ever raise it; the operator's mute is last.*)
Verdict(q, flagged) ==
  IF q.muted THEN "LOW"
  ELSE AtLeast(IF q.tunnel THEN "HIGH"
               ELSE IF q.odd \/ q.bypass THEN "MEDIUM" ELSE "LOW",
               Assessed(q, flagged))

(* A defect: a second alert does not prolong the freeze.                   *)
FrozenOnce == IF frozen > now THEN frozen ELSE now + Freeze

FrozenUntil == IF frozen > now + Freeze THEN frozen ELSE now + Freeze

Decide ==
  /\ eng # Idle
  /\ IF Verdict(eng.q, eng.flagged) \in {"HIGH", "CONFIRMED"}
     THEN frozen' = FrozenUntil /\ alarm' = now /\ alarmed' = now
     ELSE UNCHANGED <<frozen, alarm, alarmed>>
  /\ eng' = Idle
  /\ UNCHANGED <<now, up, windows, base, saver, file, count, learnt>>

-----------------------------------------------------------------------------
(* save_state: the sessions are copied under the lock, the baseline is     *)
(* read without it, and the file is opened, truncated and written.         *)

CopySessions ==
  /\ up /\ saver = NoSave
  /\ saver' = [at |-> "copied", sess |-> sess, alarm |-> alarmed]
  /\ UNCHANGED <<now, up, windows, base, frozen, eng, file, count, history>>

OpenFile ==
  /\ saver.at = "copied"
  /\ saver' = [at |-> "opened", sess |-> saver.sess, alarm |-> saver.alarm,
               n |-> base.n]
  /\ file' = [kind |-> "torn"]
  /\ UNCHANGED <<now, up, windows, base, frozen, eng, count, history>>

Dump ==
  /\ saver.at = "opened"
  /\ saver' = NoSave
  /\ file' \in {[kind |-> "whole", sess |-> saver.sess, n |-> saver.n,
                 alarm |-> saver.alarm],
                [kind |-> "torn"]}
  /\ UNCHANGED <<now, up, windows, base, frozen, eng, count, history>>

(* Nothing but the snapshot outlives the process.                          *)
Crash ==
  /\ up
  /\ count.crashes < MaxCrashes
  /\ count' = [count EXCEPT !.crashes = @ + 1]
  /\ up' = FALSE
  /\ sess' = Empty /\ cum' = Zero
  /\ dom' = Empty
  /\ answers' = Empty /\ respCum' = Zero
  /\ base' = NewBase
  /\ frozen' = Absent
  /\ eng' = Idle
  /\ saver' = NoSave
  /\ alarm' = Absent /\ alarmed' = Absent
  /\ UNCHANGED <<now, file, learnt>>

(* load_state: the sessions, their sums and the count of the baseline.     *)
Start ==
  /\ ~ up
  /\ up' = TRUE
  /\ IF file.kind = "whole"
     THEN /\ sess' = file.sess
          /\ cum' = [s \in Sources |-> Total(file.sess[s])]
          /\ base' = [NewBase EXCEPT !.n = file.n]
          /\ alarmed' = file.alarm
     ELSE UNCHANGED <<sess, cum, base, alarmed>>
  /\ UNCHANGED <<now, dom, answers, respCum, frozen, eng, saver, file, count,
                 alarm, learnt>>

Next ==
  \/ Tick
  \/ \E s \in Sources, t \in Captured :
       \/ \E q \in Kinds : Observe(s, q, t)
       \/ \E q \in Kinds : Response(s, t, q.mass)
  \/ Decide
  \/ CopySessions \/ OpenFile \/ Dump
  \/ Crash \/ Start

Spec == Init /\ [][Next]_vars

-----------------------------------------------------------------------------
(* The types; a domain's window keeps its hard cap.                        *)
TypeOK ==
  /\ now \in 0 .. Horizon
  /\ up \in BOOLEAN
  /\ \A s \in Sources : /\ {sess[s], dom[s], answers[s]} \subseteq Entries
                        /\ Len(dom[s]) <= DomCap
  /\ {cum, respCum} \subseteq [Sources -> Nat]
  /\ base.n \in Nat
  /\ base.pop \in Seq(Sources \X Nat) /\ Len(base.pop) <= PopCap
  /\ frozen \in Int /\ frozen <= Horizon + Freeze
  /\ eng # Idle => eng.src \in Sources /\ eng.q \in Kinds /\ eng.flagged \in BOOLEAN
  /\ saver.at \in {"idle", "copied", "opened"}
  /\ file.kind \in {"none", "torn", "whole"}
  /\ count \in [packets : 0 .. MaxPackets, crashes : 0 .. MaxCrashes]
  /\ {alarm, alarmed, learnt} \subseteq Absent .. Horizon

(* The running sum of a source is the sum of its window, whatever the      *)
(* order in which packets arrive, however much leaves the window at once,  *)
(* and after a restart from a snapshot that other threads wrote meanwhile. *)
CumMatches ==
  \A s \in Sources : cum[s] = Total(sess[s]) /\ respCum[s] = Total(answers[s])

(* Only the head of a window is looked at when it is pruned, so a packet   *)
(* taken off the queue late hides behind a younger one; it is never kept   *)
(* longer than that lateness.                                              *)
WithinWindow(w) == \A i \in DOMAIN w : w[i][1] > w[Len(w)][1] - Window - Lag

WindowBounded ==
  \A s \in Sources :
    WithinWindow(sess[s]) /\ WithinWindow(dom[s]) /\ WithinWindow(answers[s])

(* A window keeps its cap, its sum and its span.                           *)
WindowsSound == TypeOK /\ CumMatches /\ WindowBounded

(* "While frozen, the baseline ignores new observations so attacks cannot  *)
(* teach it": after an alert nothing is learnt until the freeze that the   *)
(* last alert started has run out.                                         *)
AttackTeachesNothing ==
  alarm # Absent => learnt <= alarm \/ learnt >= alarm + Freeze

(* "The freeze holds for seconds after the most recent alert", also over a *)
(* restart from a snapshot taken after that alert, which is there "so a    *)
(* restart doesn't reset detection".  Refuted: it leaves the freeze out.   *)
FreezeOutlivesRestart ==
  alarmed # Absent => learnt <= alarmed \/ learnt >= alarmed + Freeze

(* A source is tested against traffic that does not contain its own, and   *)
(* that is at most Recompute observations old ("otherwise the attacker's   *)
(* own heavy queries drag the baseline toward them").                      *)
IndependentReference ==
  eng # Idle /\ eng.ref # NoStats =>
    /\ eng.src \notin eng.ref.of
    /\ eng.ref.cnt >= MinOthers
    /\ base.n - eng.ref.at < Recompute

=============================================================================
