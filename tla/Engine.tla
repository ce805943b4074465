------------------------------- MODULE Engine -------------------------------
(***************************************************************************)
(* The engine thread: the worker of run_capture_feed (service.py) takes    *)
(* the captured events off the queue in batches, and the pipeline judges   *)
(* them one by one: the canary trap, the rule table of the risk engine,    *)
(* the wire signals with the map of letter cases, the muted names, and     *)
(* what a verdict sets off: rows, alerts, evidence of interceptions and    *)
(* the call of the mitigation. The same pipeline started from the command  *)
(* line has another worker, drain_loop (capture.py).                       *)
(*                                                                         *)
(* The statistics of the session tracker are in Detection, what the        *)
(* mitigation does in Policy and Sinkhole: here an event carries what they *)
(* say of it.                                                              *)
(***************************************************************************)
EXTENDS Integers, Sequences, FiniteSets

CONSTANTS
  Sessions,      (* the hosts, start options and captured events to run    *)
  Builtin,       (* the popular names compiled into reputation.py          *)
  Sunk,          (* names in the sinkhole                                  *)
  Mutable,       (* names the operator mutes and unmutes                   *)
  BatchSize,     (* batch_size of run_capture_feed                         *)
  Silence,       (* 3600 s of SyslogAlerter.send                           *)
  CaseWindow,    (* CASE_PATTERN_WINDOW                                    *)
  CaseMin,       (* CASE_PATTERN_MIN_DISTINCT                              *)
  CaseCap,       (* 4096, the size above which _case_patterns is purged    *)
  MaxTime        (* bound on the clock                                     *)

LOW == 0
MEDIUM == 1
HIGH == 2
CONFIRMED == 3
Levels == LOW .. CONFIRMED

(* What a name reads as under one encoding: its letters do not fit, it     *)
(* does not decode, it is too short to tell, noise, text, a file's magic.  *)
Encodings == {"base32", "base64", "base64url", "hex"}
Readings == {"foreign", "broken", "short", "noise", "text", "file"}

(* What the signals say of a query, and the tracker of a response; base is *)
(* the registered domain of the name, dst the kind of resolver asked. The  *)
(* cases are told apart by number, 0 for a name that has no letters.       *)
Queries == [kind : {"query"}, src : STRING, name : STRING, base : STRING, case : Nat,
            canary : BOOLEAN, prob : 0 .. 3, drip : BOOLEAN,
            below : BOOLEAN, plain : [Encodings -> Readings], floor : {LOW, MEDIUM, HIGH},
            dst : {"none", "loopback", "lan", "other", "known"}]
Responses == [kind : {"response"}, src : STRING, name : STRING, base : STRING, flag : BOOLEAN]

(* live: the command line's worker; rf: --rf-only; syslog: an alerter was  *)
(* asked for; socket: /dev/log was there; resolvers, ranked: the name      *)
(* servers of the system and the list of popular names, when they can be   *)
(* read.                                                                   *)
Hosts == [live : BOOLEAN, rf : BOOLEAN, syslog : BOOLEAN, socket : BOOLEAN,
          resolvers : SUBSET STRING, resolvable : BOOLEAN,
          ranked : SUBSET STRING, rankable : BOOLEAN, events : Seq(Queries \cup Responses)]

ASSUME EngineAssumption ==
  /\ {BatchSize, Silence, CaseMin} \subseteq Nat \ {0}
  /\ {CaseWindow, CaseCap, MaxTime} \subseteq Nat
  /\ Sessions \subseteq Hosts
  /\ \A h \in Sessions : \A i, k \in DOMAIN h.events :
       LET a == h.events[i]  b == h.events[k] IN
         a.kind = "query" /\ b.kind = "query" /\ a.name = b.name => (a.case = 0) = (b.case = 0)

VARIABLES
  now,
  host,       (* the session: its events are known by their places         *)
  alive,      (* the worker thread is running                              *)
  captured,   (* how many of them have been put on the queue               *)
  taken,      (* how many of those the worker has taken off                *)
  todo,       (* what is left of the batch                                 *)
  size,       (* the size of the batch, 0 when there is none               *)
  processed,  (* runtime.processed                                         *)
  lost,       (* history: the events an exception kept from being judged   *)
  judged,     (* history: the verdicts, and how far each was recorded      *)
  cases,      (* _case_patterns                                            *)
  muted,      (* _muted                                                    *)
  lastSent,   (* SyslogAlerter._last_sent                                  *)
  alerts,     (* history: the alerts handed to the socket                  *)
  hits,       (* the events in sinkhole_hits                               *)
  notified    (* history: the events handed to mitigation.notify           *)

worker == <<alive, taken, todo, size, processed>>
outcome == <<lost, judged, cases, lastSent, alerts, hits, notified>>
vars == <<now, host, captured, worker, muted, outcome>>

-----------------------------------------------------------------------------
stream == host.events

Highest(S) == CHOOSE n \in S : \A k \in S : k <= n
Lowest(S) == CHOOSE n \in S : \A k \in S : n <= k

IsQuery(e) == stream[e].kind = "query"

Init ==
  /\ host \in Sessions /\ alive = TRUE /\ now = 0 /\ captured = 0 /\ muted = {}
  /\ taken = 0 /\ todo = {} /\ size = 0 /\ processed = 0
  /\ lost = {} /\ judged = <<>> /\ alerts = {} /\ hits = {} /\ notified = {}
  /\ cases = <<>> /\ lastSent = <<>>

(* A sniffer puts the next event on the queue (Sensor).                    *)
Capture ==
  /\ captured < Len(stream)
  /\ captured' = captured + 1
  /\ UNCHANGED <<now, host, worker, muted, outcome>>

(* Mutes, canaries, name servers and the sinkhole are the service's own    *)
(* wiring: the command line has none of them.                              *)
Wired == ~ host.live

(* set_muted_domains rebinds the set; it is read for every query.          *)
ToggleMute(d) ==
  /\ Wired
  /\ muted' = (muted \ {d}) \cup ({d} \ muted)
  /\ UNCHANGED <<now, host, captured, worker, outcome>>

Tick ==
  /\ now < MaxTime
  /\ now' = now + 1
  /\ UNCHANGED <<host, captured, worker, muted, outcome>>

-----------------------------------------------------------------------------
(* A reading is payload when it is long enough and printable or a file.    *)
(* The url-safe alphabet is tried when the standard one does not fit; the  *)
(* order of the attempts only names the encoding that is shown.            *)
Accepted(reading) == reading \in {"text", "file"}
Attempts(q) == {e \in Encodings : /\ q.plain[e] # "foreign"
                                  /\ e = "base64url" => q.plain["base64"] = "foreign"}
TryDecode(q) == \E e \in Attempts(q) : Accepted(q.plain[e])

(* The payload is what stands before the registered domain, if anything.   *)
Decodes(q) == q.below /\ TryDecode(q)

(* The rule table of the risk engine and the floors of the wire signals.   *)
(* The classes of the probability are parted by 0.5, 0.6 and 0.85; a       *)
(* decode is tried on the first already, or for a drip or a beacon.        *)
Decoded(q) == (q.prob > 0 \/ q.drip) /\ Decodes(q)
Assessed(q) ==
  IF Decoded(q) THEN CONFIRMED
  ELSE IF q.prob = 3 \/ q.drip THEN HIGH
  ELSE IF q.prob = 2 THEN MEDIUM ELSE LOW

(* Best effort: no name server is known when the file cannot be read.      *)
SystemNameservers == IF Wired /\ host.resolvable THEN host.resolvers ELSE {}

(* A known public resolver asked while the system has a local stub, and    *)
(* the trap names, which any query below one of them falls into.           *)
Bypasses(q) == "loopback" \in SystemNameservers /\ q.dst = "known"
IsCanary(q) == Wired /\ q.canary

(* The popular names: those built in, and the list if it can be read.      *)
Corpus == Builtin \cup IF host.rankable THEN host.ranked ELSE {}
IsPopular(e) == {e.name, e.base} \cap Corpus # {}

Floors(q) == {q.floor, IF Bypasses(q) THEN MEDIUM ELSE LOW}

(* _track_case_pattern: an entry that was seen within the window goes on,  *)
(* its stamps are pruned, and a map above the cap loses its dead entries.  *)
Entry(e) ==
  LET q == stream[e]
      stamp == [event |-> e, at |-> now]
  IN IF q.name \in DOMAIN cases /\ now - cases[q.name].last <= CaseWindow
     THEN [patterns |-> cases[q.name].patterns \cup {q.case}, last |-> now,
           stamps |-> {t \in cases[q.name].stamps : t.at > now - CaseWindow} \cup {stamp}]
     ELSE [patterns |-> {q.case}, last |-> now, stamps |-> {stamp}]

(* A defect: the purge takes the live entries too.                         *)
KeptNone(names) == IF Cardinality(names) > CaseCap THEN {} ELSE names

Kept(names) ==
  IF Cardinality(names) > CaseCap
  THEN {d \in names : d \in DOMAIN cases => cases[d].last >= now - CaseWindow}
  ELSE names

Tracked(e) ==
  LET name == stream[e].name IN
  IF stream[e].case = 0 THEN cases
  ELSE [d \in Kept(DOMAIN cases \cup {name}) \cup {name} |->
          IF d = name THEN Entry(e) ELSE cases[d]]

CaseHit(e) ==
  /\ stream[e].case # 0
  /\ Cardinality(Entry(e).patterns) >= CaseMin
  /\ Cardinality(Entry(e).stamps) >= CaseMin

(* The floors only ever raise the level; the operator's mute comes last.   *)
Level(e) ==
  LET q == stream[e] IN
  IF q.name \in muted THEN LOW
  ELSE Highest(Floors(q) \cup {Assessed(q), IF CaseHit(e) THEN MEDIUM ELSE LOW})

-----------------------------------------------------------------------------
(* SyslogAlerter.send: the silence starts before the line is handed to the *)
(* socket, whether or not that succeeds.                                   *)

(* A defect: an alert of any level silences the source.                    *)
SilentSource(key) == \E k \in DOMAIN lastSent : k[1] = key[1] /\ now - lastSent[k] < Silence

(* Without an alerter, or a socket to send to, nothing is alerted.         *)
HasAlerter == Wired /\ host.syslog /\ host.socket

Silent(key) == key \in DOMAIN lastSent /\ now - lastSent[key] < Silence
Alert(e, key) ==
  IF ~ HasAlerter \/ Silent(key) THEN UNCHANGED <<lastSent, alerts>>
  ELSE /\ lastSent' = [k \in DOMAIN lastSent \cup {key} |-> IF k = key THEN now ELSE lastSent[k]]
       /\ alerts' = alerts \cup {[event |-> e, key |-> key, at |-> now]}

(* A batch is what is on the queue, up to batch_size; the vectors of all   *)
(* its queries are scored before the first is judged. drain_loop takes one *)
(* event at a time.                                                        *)
LastOver == captured                        (* a defect: no batch_size   *)
AtOnce == IF host.live THEN 1 ELSE BatchSize
Last == IF captured - taken > AtOnce THEN taken + AtOnce ELSE captured
OfTail(kind) == {e \in taken + 2 .. Last : stream[e].kind = kind}  (* a defect *)
Of(kind) == {e \in taken + 1 .. Last : stream[e].kind = kind}

Take ==
  /\ size = 0 /\ taken < captured
  /\ taken' = Last /\ size' = Last - taken
  /\ todo' = Of("query") \cup Of("response")
  /\ UNCHANGED <<now, host, captured, alive, processed, muted, outcome>>

(* The queries of a batch are judged before its responses, and each kind   *)
(* in the order of the queue.                                              *)
Queue == IF \E e \in todo : IsQuery(e) THEN {e \in todo : IsQuery(e)} ELSE todo
Turn == Lowest(Queue)

(* The resilience boundary of the worker: an exception skips what is left. *)
(* drain_loop has no such boundary, and its thread ends while the sniffer  *)
(* goes on.                                                                *)
Skip(left) == todo' = {} /\ alive' = ~ host.live /\ lost' = lost \cup left

(* Scoring, feature extraction or the tracker raises.                      *)
Breaks ==
  /\ todo # {}
  /\ Skip(todo)
  /\ UNCHANGED <<now, host, captured, taken, size, processed, muted,
                 judged, cases, lastSent, alerts, hits, notified>>

(* How far a verdict was recorded before a write raised: SQLite may be     *)
(* locked for longer than its timeout, or the disk full.                   *)
Judge(e, level, saved) ==
  /\ judged' = Append(judged, [event |-> e, level |-> level, at |-> now, saved |-> saved,
                               quiet |-> IsQuery(e) /\ stream[e].name \in muted])
  /\ IF saved = "all" THEN todo' = todo \ {e} /\ UNCHANGED <<lost, alive>> ELSE Skip(todo \ {e})

(* A canary name is CONFIRMED before any other signal is looked at; it is  *)
(* neither tracked, nor frozen for, nor answered by the mitigation.        *)
DecideCanary(e, saved) ==
  /\ IsCanary(stream[e])
  /\ Judge(e, CONFIRMED, saved)
  /\ IF saved = "all" THEN Alert(e, <<stream[e].src, CONFIRMED>>) ELSE UNCHANGED <<lastSent, alerts>>
  /\ UNCHANGED <<cases, hits, notified>>

(* The evidence of an interception is best effort, and so is the response. *)
Intercepted(e) == IF Wired /\ stream[e].name \in Sunk THEN {hits, hits \cup {e}} ELSE {hits}
EscalatesUnsaved(e, saved) == Level(e) >= HIGH  (* a defect               *)
Escalates(e, saved) == Level(e) >= HIGH /\ saved = "all"
DecideQuery(e, saved) ==
  LET escalates == Escalates(e, saved)
  IN /\ ~ IsCanary(stream[e])
     /\ saved = "query" => Level(e) >= HIGH
     /\ Judge(e, Level(e), saved)
     /\ cases' = Tracked(e)
     /\ IF saved = "none" THEN UNCHANGED hits ELSE hits' \in Intercepted(e)
     /\ IF escalates THEN Alert(e, <<stream[e].src, Level(e)>>) ELSE UNCHANGED <<lastSent, alerts>>
     /\ notified' = IF escalates THEN notified \cup {e} ELSE notified

(* The response channel: no row in queries, no mute, no mitigation.        *)
Flagged(r) == r.flag /\ ~ IsPopular(r) /\ ~ host.rf
DecideResponse(e, saved) ==
  LET flagged == Flagged(stream[e]) IN
    /\ saved # "query" /\ (saved = "none" => flagged)
    /\ Judge(e, IF flagged THEN HIGH ELSE LOW, saved)
    /\ IF flagged /\ saved = "all" THEN Alert(e, <<stream[e].src, HIGH>>)
                                   ELSE UNCHANGED <<lastSent, alerts>>
    /\ UNCHANGED <<cases, hits, notified>>

(* --rf-only: the probability alone, a row, and nothing is done about it.  *)
DecideRfOnly(e, saved) ==
  /\ saved # "query"
  /\ Judge(e, IF stream[e].prob > 0 THEN HIGH ELSE LOW, saved)
  /\ UNCHANGED <<cases, lastSent, alerts, hits, notified>>

(* run_live hands every event to process_query, and a response has no      *)
(* src_ip: whichever branch is taken, it raises before anything is stored. *)
AnswerAsQuery ==
  /\ Skip(todo)
  /\ UNCHANGED <<judged, cases, lastSent, alerts, hits, notified>>

Decide ==
  /\ todo # {}
  /\ \E saved \in {"none", "query", "all"} :
       IF IsQuery(Turn)
       THEN IF host.rf THEN DecideRfOnly(Turn, saved)
            ELSE DecideCanary(Turn, saved) \/ DecideQuery(Turn, saved)
       ELSE IF host.live THEN AnswerAsQuery ELSE DecideResponse(Turn, saved)
  /\ UNCHANGED <<now, host, captured, taken, size, processed, muted>>

(* A defect: only the judged events of the batch are counted.              *)
HandledJudged == Cardinality({n \in DOMAIN judged : judged[n].event > taken - size})

(* Every event of the batch is counted, judged or not.                     *)
Handled == size
Count ==
  /\ size > 0 /\ todo = {}
  /\ processed' = processed + Handled /\ size' = 0
  /\ UNCHANGED <<now, host, captured, alive, taken, todo, muted, outcome>>

Work == alive /\ (Take \/ Breaks \/ Decide \/ Count)
Next == Tick \/ Capture \/ (\E d \in Mutable : ToggleMute(d)) \/ Work

(* The worker is a thread of its own, and every call it makes returns.     *)
Spec == Init /\ [][Next]_vars /\ WF_vars(Work)

-----------------------------------------------------------------------------
Recorded(saved) == {judged[n].event : n \in {k \in DOMAIN judged : judged[k].saved \in saved}}
Escalated == {n \in DOMAIN judged : judged[n].level >= HIGH /\ judged[n].saved = "all"}

(* The variables hold what the program may put in them.                    *)
TypeOK ==
  /\ now \in 0 .. MaxTime
  /\ host \in Sessions /\ alive \in BOOLEAN /\ captured \in DOMAIN stream \cup {0}
  /\ todo \subseteq 1 .. taken /\ lost \subseteq 1 .. taken
  /\ taken \in 0 .. captured /\ size \in 0 .. BatchSize /\ processed \in 0 .. taken
  /\ judged \in Seq([event : 1 .. taken, level : Levels, at : 0 .. MaxTime,
                     saved : {"none", "query", "all"}, quiet : BOOLEAN])
  /\ muted \subseteq Mutable
  /\ DOMAIN lastSent \subseteq STRING \X Levels /\ lastSent \in [DOMAIN lastSent -> 0 .. MaxTime]
  /\ alerts \subseteq [event : 1 .. taken, key : DOMAIN lastSent, at : 0 .. MaxTime]
  /\ hits \cup notified \subseteq 1 .. taken

(* No event goes missing between the queue and the counter: each one is    *)
(* waiting, in the batch, judged once, or lost, and the counter stands for *)
(* the judged and the lost of the batches that are done.                   *)
Accounted ==
  /\ TypeOK
  /\ processed + size = taken
  /\ Len(judged) + Cardinality(lost) + Cardinality(todo) = taken
  /\ 1 .. taken = {judged[n].event : n \in DOMAIN judged} \cup lost \cup todo

(* Queries are judged in the order they were captured, and so are          *)
(* responses; an answer is overtaken only by the queries of its own batch. *)
OrderKept ==
  \A a, b \in DOMAIN judged : a < b /\ judged[b].event < judged[a].event
    => /\ IsQuery(judged[a].event) /\ ~ IsQuery(judged[b].event)
       /\ judged[a].event - judged[b].event < BatchSize

(* A source gets at most one alert of a level in an hour (alerting.py:54). *)
AlertsSpaced ==
  \A a, b \in alerts : a # b /\ a.key = b.key => a.at + Silence <= b.at \/ b.at + Silence <= a.at

(* An escalated verdict is never silently skipped: one line for its source *)
(* and level was attempted with it or within the hour before.              *)
EscalationsAlerted ==
  HasAlerter /\ ~ host.rf => \A n \in Escalated : \E a \in alerts :
    a.key = <<stream[judged[n].event].src, judged[n].level>>
      /\ a.at <= judged[n].at /\ judged[n].at - a.at < Silence
AlertsKeepTheHour == AlertsSpaced /\ EscalationsAlerted

(* Nothing is done about an event that is not on record: an alert and the  *)
(* mitigation come after the row in risk_events, an interception after the *)
(* row of its query.                                                       *)
RecordsFirst ==
  /\ {a.event : a \in alerts} \cup notified \subseteq Recorded({"all"})
  /\ hits \subseteq Recorded({"query", "all"})

(* A channel in the letter cases of a name is noticed: when the last       *)
(* queries of a name within the window had enough patterns, the verdict is *)
(* at least MEDIUM, however many other names fill the map.                 *)
SameName(k, n) ==
  /\ IsQuery(judged[k].event) /\ stream[judged[k].event].name = stream[judged[n].event].name
  /\ ~ IsCanary(stream[judged[k].event]) /\ stream[judged[k].event].case # 0
  /\ judged[k].at > judged[n].at - CaseWindow
CaseChannelSeen ==
  \A n \in DOMAIN judged :
    LET e == judged[n].event
        patterns == {stream[judged[k].event].case : k \in {j \in 1 .. n : SameName(j, n)}}
    IN IsQuery(e) /\ ~ host.rf /\ Cardinality(patterns) >= CaseMin /\ ~ judged[n].quiet
         => judged[n].level >= MEDIUM

(* A query of a muted name sets nothing off, whichever signals it carries, *)
(* unless it is a canary (pipeline.py:382).                                *)
MutedStaysQuiet ==
  \A n \in DOMAIN judged :
    LET e == judged[n].event IN
      judged[n].quiet /\ ~ IsCanary(stream[e])
        => e \notin notified /\ e \notin {a.event : a \in alerts}
EffectsJustified == RecordsFirst /\ MutedStaysQuiet

(* Every captured event is judged or lost in the end: one bad packet never *)
(* stops the loop of the service (service.py:394). The command line's loop *)
(* it does stop, and nothing restarts that thread.                         *)
EveryEventHandled ==
  captured = Len(stream) ~> processed = Len(stream) \/ (host.live /\ ~ alive)

(* What run_live says of itself (pipeline.py:489): it processes every DNS  *)
(* query. It does not, once a single response was captured.                *)
EveryQueryProcessed ==
  host.live /\ captured = Len(stream) ~>
    {e \in DOMAIN stream : IsQuery(e)} \subseteq {judged[n].event : n \in DOMAIN judged} \cup lost

=============================================================================
