--------------------------- MODULE Engine_proofs ---------------------------
(* Proofs about Engine: alerts keep the hour and miss no escalation; no    *)
(* event goes missing and none is overtaken but by the queries of its      *)
(* batch; what a verdict sets off is on record first and never about a     *)
(* muted name; and a channel in the letter cases of a name is seen.        *)
EXTENDS Engine, FiniteSetTheorems, WellFoundedInduction, TLAPS

(* A verdict at the end of the history leaves the others in their places.  *)
LEMMA AppendKeeps ==
  ASSUME NEW S, NEW s \in Seq(S), NEW v
  PROVE  /\ Append(s, v) \in Seq(S \cup {v})
         /\ DOMAIN Append(s, v) = DOMAIN s \cup {Len(s) + 1} /\ Len(s) + 1 \notin DOMAIN s
         /\ Append(s, v)[Len(s) + 1] = v
         /\ \A n \in DOMAIN s : Append(s, v)[n] = s[n]
<1>1. s \in Seq(S \cup {v}) /\ v \in S \cup {v}
  OBVIOUS
<1>2. Len(s) \in Nat /\ DOMAIN s = 1 .. Len(s)
  OBVIOUS
<1>3. /\ Append(s, v) \in Seq(S \cup {v}) /\ Len(Append(s, v)) = Len(s) + 1
      /\ \A n \in 1 .. Len(s) : Append(s, v)[n] = s[n]
      /\ Append(s, v)[Len(s) + 1] = v
  BY <1>1
<1>4. DOMAIN Append(s, v) = 1 .. Len(s) + 1
  BY <1>3
<1>5. 1 .. Len(s) + 1 = 1 .. Len(s) \cup {Len(s) + 1} /\ Len(s) + 1 \notin 1 .. Len(s)
  BY <1>2
<1> QED BY <1>2, <1>3, <1>4, <1>5

-----------------------------------------------------------------------------
(* The silence of a key runs from its latest alert.                        *)
Latest ==
  /\ now \in Nat
  /\ \A k \in DOMAIN lastSent : lastSent[k] \in Nat /\ lastSent[k] <= now
  /\ \A a \in alerts : a.at \in Nat /\ a.key \in DOMAIN lastSent /\ a.at <= lastSent[a.key]
  /\ \A k \in DOMAIN lastSent : \E a \in alerts : a.key = k /\ a.at = lastSent[k]

Written == \E S : judged \in Seq(S)

Alerting == Written /\ Latest /\ AlertsSpaced /\ EscalationsAlerted

LEMMA AlertingInit == Init => Alerting
<1> SUFFICES ASSUME Init PROVE Alerting
  OBVIOUS
<1>1. judged \in Seq({}) /\ Escalated = {}
  BY DEF Init, Escalated
<1>2. DOMAIN lastSent = {} /\ alerts = {} /\ now = 0
  BY DEF Init
<1> QED BY <1>1, <1>2 DEF Alerting, Written, Latest, AlertsSpaced, EscalationsAlerted

(* An alert leaves the spacing as it was, and its key alerted within the   *)
(* hour, by this line or by an earlier one.                                *)
LEMMA AlertStep ==
  ASSUME Latest, AlertsSpaced, NEW e, NEW key, Alert(e, key), now' = now
  PROVE  /\ Latest' /\ AlertsSpaced' /\ alerts \subseteq alerts'
         /\ HasAlerter => \E a \in alerts' : a.key = key /\ a.at <= now /\ now - a.at < Silence
<1>0. Silence \in Nat /\ Silence > 0 /\ now \in Nat
  BY EngineAssumption DEF Latest
<1>1. CASE ~ HasAlerter \/ Silent(key)
  <2>1. UNCHANGED <<lastSent, alerts>>
    BY <1>1 DEF Alert
  <2>2. Latest' /\ AlertsSpaced'
    BY <2>1 DEF Latest, AlertsSpaced
  <2>3. HasAlerter => \E a \in alerts : a.key = key /\ a.at <= now /\ now - a.at < Silence
    BY <1>0, <1>1 DEF Silent, Latest
  <2> QED BY <2>1, <2>2, <2>3
<1>2. CASE HasAlerter /\ ~ Silent(key)
  <2> DEFINE new == [event |-> e, key |-> key, at |-> now]
  <2>1. /\ lastSent' = [k \in DOMAIN lastSent \cup {key} |-> IF k = key THEN now ELSE lastSent[k]]
        /\ alerts' = alerts \cup {new}
    BY <1>2 DEF Alert
  <2>2. /\ DOMAIN lastSent' = DOMAIN lastSent \cup {key} /\ lastSent'[key] = now
        /\ \A k \in DOMAIN lastSent : k # key => lastSent'[k] = lastSent[k]
    BY <2>1
  <2>3. new.key = key /\ new.at = now
    OBVIOUS
  <2>4. \A a \in alerts : a.key = key => a.at + Silence <= now
    BY <1>0, <1>2 DEF Silent, Latest
  <2>5. \A k \in DOMAIN lastSent' : lastSent'[k] \in Nat /\ lastSent'[k] <= now
    BY <1>0, <2>2 DEF Latest
  <2>6. \A a \in alerts' : a.at \in Nat /\ a.key \in DOMAIN lastSent' /\ a.at <= lastSent'[a.key]
    <3> TAKE a \in alerts'
    <3>1. CASE a = new
      BY <1>0, <2>2, <2>3, <3>1
    <3>2. CASE a \in alerts /\ a.key = key
      BY <1>0, <2>2, <2>4, <3>2 DEF Latest
    <3>3. CASE a \in alerts /\ a.key # key
      BY <2>2, <3>3 DEF Latest
    <3> QED BY <2>1, <3>1, <3>2, <3>3
  <2>7. \A k \in DOMAIN lastSent' : \E a \in alerts' : a.key = k /\ a.at = lastSent'[k]
    <3> TAKE k \in DOMAIN lastSent'
    <3>1. CASE k = key
      BY <2>1, <2>2, <2>3, <3>1
    <3>2. CASE k # key
      BY <2>1, <2>2, <3>2 DEF Latest
    <3> QED BY <3>1, <3>2
  <2>8. AlertsSpaced'
    <3> SUFFICES ASSUME NEW a \in alerts', NEW b \in alerts', a # b, a.key = b.key
                 PROVE  a.at + Silence <= b.at \/ b.at + Silence <= a.at
      BY DEF AlertsSpaced
    <3>1. CASE a \in alerts /\ b \in alerts
      BY <3>1 DEF AlertsSpaced
    <3>2. CASE a \in alerts /\ b = new
      BY <2>3, <2>4, <3>2
    <3>3. CASE a = new /\ b \in alerts
      BY <2>3, <2>4, <3>3
    <3> QED BY <2>1, <3>1, <3>2, <3>3
  <2>9. new \in alerts' /\ now <= now /\ now - now < Silence
    BY <1>0, <2>1
  <2> QED BY <2>1, <2>3, <2>5, <2>6, <2>7, <2>8, <2>9 DEF Latest
<1> QED BY <1>1, <1>2

(* A new verdict is the only one that may be escalated now and was not.    *)
LEMMA JudgeStep ==
  ASSUME Written, NEW e, NEW level, NEW saved, Judge(e, level, saved)
  PROVE  /\ Written'
         /\ \A n \in DOMAIN judged : n \in DOMAIN judged' /\ judged'[n] = judged[n]
         /\ \E n \in DOMAIN judged' : judged'[n].event = e /\ judged'[n].saved = saved
         /\ \A n \in DOMAIN judged' :
              \/ n \in DOMAIN judged
              \/ /\ judged'[n].event = e /\ judged'[n].level = level
                 /\ judged'[n].at = now /\ judged'[n].saved = saved
<1> DEFINE v == [event |-> e, level |-> level, at |-> now, saved |-> saved,
                 quiet |-> IsQuery(e) /\ stream[e].name \in muted]
<1>1. PICK S : judged \in Seq(S)
  BY DEF Written
<1>2. judged' = Append(judged, v)
  BY DEF Judge
<1>3. v.event = e /\ v.level = level /\ v.at = now /\ v.saved = saved
  OBVIOUS
<1> HIDE DEF v
<1>4. /\ judged' \in Seq(S \cup {v})
      /\ DOMAIN judged' = DOMAIN judged \cup {Len(judged) + 1}
      /\ judged'[Len(judged) + 1] = v
      /\ \A n \in DOMAIN judged : judged'[n] = judged[n]
  BY <1>1, <1>2, AppendKeeps
<1>5. Written'
  BY <1>4 DEF Written
<1>6. Len(judged) + 1 \in DOMAIN judged' /\ judged'[Len(judged) + 1].event = e
      /\ judged'[Len(judged) + 1].saved = saved
  BY <1>3, <1>4
<1>7. \A n \in DOMAIN judged' : n \in DOMAIN judged \/ judged'[n] = v
  BY <1>4
<1>8. \A n \in DOMAIN judged : n \in DOMAIN judged' /\ judged'[n] = judged[n]
  BY <1>4
<1>9. \E n \in DOMAIN judged' : judged'[n].event = e /\ judged'[n].saved = saved
  BY <1>6
<1> QED BY <1>3, <1>5, <1>7, <1>8, <1>9

(* Old escalations keep their alerts; it remains to look at the new one.   *)
LEMMA EscalationStep ==
  ASSUME Alerting, NEW e, NEW level, NEW saved, Judge(e, level, saved),
         now' = now, host' = host, alerts \subseteq alerts',
         HasAlerter /\ ~ host.rf /\ level >= HIGH /\ saved = "all" =>
           \E a \in alerts' : a.key = <<stream[e].src, level>> /\ a.at <= now /\ now - a.at < Silence
  PROVE  EscalationsAlerted'
<1> SUFFICES ASSUME HasAlerter', ~ host'.rf, NEW n \in Escalated'
             PROVE  \E a \in alerts' :
                      /\ a.key = <<stream'[judged'[n].event].src, judged'[n].level>>
                      /\ a.at <= judged'[n].at /\ judged'[n].at - a.at < Silence
  BY DEF EscalationsAlerted
<1>1. HasAlerter /\ ~ host.rf /\ stream' = stream
  BY DEF HasAlerter, Wired, stream
<1>2. n \in DOMAIN judged' /\ judged'[n].level >= HIGH /\ judged'[n].saved = "all"
  BY DEF Escalated
<1>3. CASE n \in DOMAIN judged
  <2>1. judged'[n] = judged[n]
    BY <1>3, JudgeStep DEF Alerting
  <2>2. n \in Escalated
    BY <1>2, <1>3, <2>1 DEF Escalated
  <2>3. \E a \in alerts : /\ a.key = <<stream[judged[n].event].src, judged[n].level>>
                          /\ a.at <= judged[n].at /\ judged[n].at - a.at < Silence
    BY <1>1, <2>2 DEF Alerting, EscalationsAlerted
  <2> QED BY <1>1, <2>1, <2>3
<1>4. CASE n \notin DOMAIN judged
  <2>1. judged'[n].event = e /\ judged'[n].level = level /\ judged'[n].at = now /\ judged'[n].saved = saved
    BY <1>2, <1>4, JudgeStep DEF Alerting
  <2> QED BY <1>1, <1>2, <2>1
<1> QED BY <1>3, <1>4

LEMMA DecideAlerts ==
  ASSUME Alerting, Decide
  PROVE  Alerting'
<1>0. now' = now /\ host' = host
  BY DEF Decide
<1> DEFINE e == Turn
           q == stream[e]
<1>1. UNCHANGED <<lastSent, alerts>> => Latest' /\ AlertsSpaced' /\ alerts \subseteq alerts'
  BY <1>0 DEF Alerting, Latest, AlertsSpaced
<1>2. ASSUME NEW saved \in {"none", "query", "all"}, host.rf, DecideRfOnly(e, saved)
      PROVE  Alerting'
  <2>1. Written'
    BY <1>2, JudgeStep DEF DecideRfOnly, Alerting
  <2>2. EscalationsAlerted'
    BY <1>0, <1>2 DEF EscalationsAlerted
  <2> QED BY <1>1, <1>2, <2>1, <2>2 DEF Alerting, DecideRfOnly
<1>3. ASSUME NEW saved \in {"none", "query", "all"}, DecideCanary(e, saved)
      PROVE  Alerting'
  <2>1. Judge(e, CONFIRMED, saved)
    BY <1>3 DEF DecideCanary
  <2>2. IF saved = "all" THEN Alert(e, <<q.src, CONFIRMED>>) ELSE UNCHANGED <<lastSent, alerts>>
    BY <1>3 DEF DecideCanary
  <2>3. /\ Latest' /\ AlertsSpaced' /\ alerts \subseteq alerts'
        /\ HasAlerter /\ saved = "all" =>
             \E a \in alerts' : a.key = <<q.src, CONFIRMED>> /\ a.at <= now /\ now - a.at < Silence
    BY <1>0, <1>1, <2>2, AlertStep DEF Alerting
  <2>4. EscalationsAlerted'
    BY <1>0, <2>1, <2>3, EscalationStep
  <2> QED BY <2>1, <2>3, <2>4, JudgeStep DEF Alerting
<1>4. ASSUME NEW saved \in {"none", "query", "all"}, DecideQuery(e, saved)
      PROVE  Alerting'
  <2>1. Judge(e, Level(e), saved)
    BY <1>4 DEF DecideQuery
  <2>2. IF Level(e) >= HIGH /\ saved = "all" THEN Alert(e, <<q.src, Level(e)>>)
                                              ELSE UNCHANGED <<lastSent, alerts>>
    BY <1>4 DEF DecideQuery, Escalates
  <2> HIDE DEF q
  <2>3. /\ Latest' /\ AlertsSpaced' /\ alerts \subseteq alerts'
        /\ HasAlerter /\ Level(e) >= HIGH /\ saved = "all" =>
             \E a \in alerts' : a.key = <<q.src, Level(e)>> /\ a.at <= now /\ now - a.at < Silence
    BY <1>0, <1>1, <2>2, AlertStep DEF Alerting
  <2>4. EscalationsAlerted'
    BY <1>0, <2>1, <2>3, EscalationStep DEF q
  <2> QED BY <2>1, <2>3, <2>4, JudgeStep DEF Alerting
<1>5. ASSUME NEW saved \in {"none", "query", "all"}, DecideResponse(e, saved)
      PROVE  Alerting'
  <2> DEFINE level == IF Flagged(q) THEN HIGH ELSE LOW
  <2>1. Judge(e, level, saved)
    BY <1>5 DEF DecideResponse
  <2>2. IF Flagged(q) /\ saved = "all" THEN Alert(e, <<q.src, HIGH>>)
                                       ELSE UNCHANGED <<lastSent, alerts>>
    BY <1>5 DEF DecideResponse
  <2>3. level >= HIGH => Flagged(q) /\ level = HIGH
    BY DEF HIGH, LOW
  <2>4. /\ Latest' /\ AlertsSpaced' /\ alerts \subseteq alerts'
        /\ HasAlerter /\ Flagged(q) /\ saved = "all" =>
             \E a \in alerts' : a.key = <<q.src, HIGH>> /\ a.at <= now /\ now - a.at < Silence
    BY <1>0, <1>1, <2>2, AlertStep DEF Alerting
  <2> HIDE DEF level
  <2>5. EscalationsAlerted'
    BY <1>0, <2>1, <2>3, <2>4, EscalationStep
  <2> QED BY <2>1, <2>4, <2>5, JudgeStep DEF Alerting
<1>6. CASE AnswerAsQuery
  <2>1. UNCHANGED <<judged, lastSent, alerts>>
    BY <1>6 DEF AnswerAsQuery
  <2> QED BY <1>0, <1>1, <2>1
      DEF Alerting, Written, EscalationsAlerted, Escalated, HasAlerter, Wired, stream
<1> QED BY <1>2, <1>3, <1>4, <1>5, <1>6 DEF Decide

LEMMA AlertingStep == Alerting /\ [Next]_vars => Alerting'
<1> SUFFICES ASSUME Alerting, [Next]_vars PROVE Alerting'
  OBVIOUS
<1> USE DEF Alerting, Written, Latest, AlertsSpaced, EscalationsAlerted, Escalated, HasAlerter, Wired, stream
<1>1. CASE UNCHANGED <<now, host, judged, lastSent, alerts>>
  BY <1>1
<1>2. CASE Tick
  <2>1. now' = now + 1 /\ UNCHANGED <<host, judged, lastSent, alerts>>
    BY <1>2 DEF Tick, outcome
  <2>2. \A k \in DOMAIN lastSent : lastSent[k] <= now'
    BY <2>1
  <2>3. now' \in Nat
    BY <2>1
  <2> QED BY <2>1, <2>2, <2>3
<1>3. CASE Capture \/ \E d \in Mutable : ToggleMute(d)
  BY <1>1, <1>3 DEF Capture, ToggleMute, outcome
<1>4. CASE Take \/ Breaks \/ Count
  BY <1>1, <1>4 DEF Take, Breaks, Count, outcome
<1>5. CASE Decide
  BY <1>5, DecideAlerts
<1>6. CASE UNCHANGED vars
  BY <1>1, <1>6 DEF vars, outcome
<1> QED BY <1>2, <1>3, <1>4, <1>5, <1>6 DEF Next, Work

(* A source gets one alert of a level in an hour, and no escalated verdict *)
(* goes without a line in the hour before it, for any stream of events,    *)
(* batches and failed writes.                                              *)
THEOREM TheHourIsKept == Spec => []AlertsKeepTheHour
<1>1. Alerting => AlertsKeepTheHour
  BY DEF Alerting, AlertsKeepTheHour
<1> QED BY AlertingInit, AlertingStep, <1>1, PTL DEF Spec

-----------------------------------------------------------------------------
Ordered == Written /\ RecordsFirst

(* A verdict adds its own event to those on record.                        *)
LEMMA RecordStep ==
  ASSUME Written, NEW e, NEW level, NEW saved, Judge(e, level, saved)
  PROVE  \A K : /\ Recorded(K) \subseteq Recorded(K)'
                /\ saved \in K => e \in Recorded(K)'
<1> TAKE K
<1>1. ASSUME NEW n \in DOMAIN judged, judged[n].saved \in K
      PROVE  n \in DOMAIN judged' /\ judged'[n] = judged[n]
  BY JudgeStep
<1>2. PICK n \in DOMAIN judged' : judged'[n].event = e /\ judged'[n].saved = saved
  BY JudgeStep
<1> QED BY <1>1, <1>2 DEF Recorded

LEMMA DecideRecords ==
  ASSUME Ordered, Decide
  PROVE  Ordered'
<1> DEFINE e == Turn
           q == stream[e]
<1>1. ASSUME NEW key, Alert(e, key)
      PROVE  {a.event : a \in alerts'} \subseteq {a.event : a \in alerts} \cup {e}
  BY <1>1 DEF Alert
<1>2. ASSUME NEW saved \in {"none", "query", "all"}, NEW level, Judge(e, level, saved),
             {a.event : a \in alerts'} \cup notified' \subseteq
               {a.event : a \in alerts} \cup notified \cup (IF saved = "all" THEN {e} ELSE {}),
             hits' \subseteq hits \cup (IF saved # "none" THEN {e} ELSE {})
      PROVE  Ordered'
  <2>1. /\ Recorded({"all"}) \subseteq Recorded({"all"})'
        /\ Recorded({"query", "all"}) \subseteq Recorded({"query", "all"})'
        /\ saved = "all" => e \in Recorded({"all"})'
        /\ saved # "none" => e \in Recorded({"query", "all"})'
    BY <1>2, RecordStep DEF Ordered
  <2>2. Written'
    BY <1>2, JudgeStep DEF Ordered
  <2> QED BY <1>2, <2>1, <2>2 DEF Ordered, RecordsFirst
<1>3. ASSUME NEW saved \in {"none", "query", "all"}, DecideRfOnly(e, saved) PROVE Ordered'
  BY <1>2, <1>3 DEF DecideRfOnly
<1>4. ASSUME NEW saved \in {"none", "query", "all"}, DecideCanary(e, saved) PROVE Ordered'
  <2>1. Judge(e, CONFIRMED, saved) /\ UNCHANGED <<hits, notified>>
    BY <1>4 DEF DecideCanary
  <2>2. {a.event : a \in alerts'} \subseteq
          {a.event : a \in alerts} \cup (IF saved = "all" THEN {e} ELSE {})
    BY <1>1, <1>4 DEF DecideCanary
  <2> QED BY <1>2, <2>1, <2>2
<1>5. ASSUME NEW saved \in {"none", "query", "all"}, DecideQuery(e, saved) PROVE Ordered'
  <2>1. Judge(e, Level(e), saved)
    BY <1>5 DEF DecideQuery
  <2>2. /\ Escalates(e, saved) => saved = "all" /\ notified' = notified \cup {e}
        /\ ~ Escalates(e, saved) => notified' = notified
    BY <1>5 DEF DecideQuery, Escalates
  <2>3. IF Escalates(e, saved) THEN Alert(e, <<q.src, Level(e)>>) ELSE UNCHANGED <<lastSent, alerts>>
    BY <1>5 DEF DecideQuery
  <2>4. {a.event : a \in alerts'} \subseteq
          {a.event : a \in alerts} \cup (IF saved = "all" THEN {e} ELSE {})
    BY <1>1, <2>2, <2>3
  <2>5. hits' \subseteq hits \cup (IF saved # "none" THEN {e} ELSE {})
    BY <1>5 DEF DecideQuery, Intercepted
  <2> QED BY <1>2, <2>1, <2>2, <2>4, <2>5
<1>6. ASSUME NEW saved \in {"none", "query", "all"}, DecideResponse(e, saved) PROVE Ordered'
  <2>1. Judge(e, IF Flagged(q) THEN HIGH ELSE LOW, saved) /\ UNCHANGED <<hits, notified>>
    BY <1>6 DEF DecideResponse
  <2>2. {a.event : a \in alerts'} \subseteq
          {a.event : a \in alerts} \cup (IF saved = "all" THEN {e} ELSE {})
    BY <1>1, <1>6 DEF DecideResponse
  <2> QED BY <1>2, <2>1, <2>2
<1>7. CASE AnswerAsQuery
  BY <1>7 DEF AnswerAsQuery, Ordered, Written, RecordsFirst, Recorded
<1> QED BY <1>3, <1>4, <1>5, <1>6, <1>7 DEF Decide

LEMMA OrderedStep == Ordered /\ [Next]_vars => Ordered'
<1> SUFFICES ASSUME Ordered, [Next]_vars PROVE Ordered'
  OBVIOUS
<1>1. CASE UNCHANGED <<judged, alerts, notified, hits>>
  BY <1>1 DEF Ordered, Written, RecordsFirst, Recorded
<1>2. CASE Tick \/ Capture \/ Take \/ Breaks \/ Count \/ \E d \in Mutable : ToggleMute(d)
  BY <1>1, <1>2 DEF Tick, Capture, Take, Breaks, Count, ToggleMute, outcome
<1>3. CASE UNCHANGED vars
  BY <1>1, <1>3 DEF vars, outcome
<1> QED BY <1>2, <1>3, DecideRecords DEF Next, Work

(* An alert and the call of the mitigation come after the row of the       *)
(* verdict, an interception after the row of the query, wherever a write   *)
(* raises.                                                                 *)
THEOREM NothingUnrecorded == Spec => []RecordsFirst
<1>1. Init => Ordered
  <2>1. Init => judged \in Seq({})
    BY DEF Init
  <2> QED BY <2>1 DEF Init, Ordered, Written, RecordsFirst
<1>2. Ordered => RecordsFirst
  BY DEF Ordered
<1> QED BY OrderedStep, <1>1, <1>2, PTL DEF Spec

-----------------------------------------------------------------------------
(* The least of a set of naturals exists.                                  *)
LEMMA LowestOf ==
  ASSUME NEW S \in SUBSET Nat, S # {}
  PROVE  Lowest(S) \in S /\ \A k \in S : Lowest(S) <= k
<1>1. IsWellFoundedOn(OpToRel(<, Nat), Nat)
  BY NatLessThanWellFounded
<1>2. PICK n \in S : \A k \in S : ~ (<<k, n>> \in OpToRel(<, Nat))
  BY <1>1, WFMin
<1>3. \A k \in S : ~ (k < n)
  BY <1>2 DEF OpToRel
<1>4. \A k \in S : n <= k
  BY <1>3
<1> QED BY <1>4 DEF Lowest

(* Whose turn it is: the first query left, or the first response when no   *)
(* query is left.                                                          *)
LEMMA TurnOf ==
  ASSUME todo \in SUBSET Nat, todo # {}
  PROVE  /\ Turn \in todo
         /\ \A k \in todo : /\ IsQuery(Turn) /\ IsQuery(k) => Turn <= k
                            /\ ~ IsQuery(Turn) => ~ IsQuery(k) /\ Turn <= k
<1>1. Queue \in SUBSET Nat /\ Queue # {} /\ Queue \subseteq todo
  BY DEF Queue
<1>2. Turn \in Queue /\ \A k \in Queue : Turn <= k
  BY <1>1, LowestOf DEF Turn
<1> QED BY <1>1, <1>2 DEF Queue

LEMMA WiderSeq ==
  ASSUME NEW S, NEW T, S \subseteq T, NEW s \in Seq(S)
  PROVE  s \in Seq(T)
OBVIOUS

(* What the sessions are made of.                                          *)
LEMMA EventTypes ==
  ASSUME host \in Sessions
  PROVE  /\ Len(stream) \in Nat /\ DOMAIN stream = 1 .. Len(stream)
         /\ \A e \in DOMAIN stream : stream[e] \in Queries \cup Responses
         /\ host.live \in BOOLEAN
<1>1. host \in Hosts
  BY EngineAssumption
<1>2. stream \in Seq(Queries \cup Responses)
  BY <1>1 DEF Hosts, stream
<1>3. host.live \in BOOLEAN
  BY <1>1 DEF Hosts
<1> QED BY <1>2, <1>3

LEMMA HighestOf ==
  ASSUME NEW a \in Levels, NEW b \in Levels, NEW c \in Levels, NEW d \in Levels
  PROVE  LET S == {a, b} \cup {c, d} IN
         Highest(S) \in Levels /\ \A k \in S : k <= Highest(S)
<1> DEFINE S == {a, b} \cup {c, d}
<1>1. \E n \in S : \A k \in S : k <= n
  BY DEF Levels, LOW, CONFIRMED
<1>2. Highest(S) \in S /\ \A k \in S : k <= Highest(S)
  BY <1>1 DEF Highest
<1> QED BY <1>2

(* A verdict is a level, and a letter-case hit makes it MEDIUM at least.   *)
LEMMA LevelOf ==
  ASSUME NEW e, stream[e] \in Queries
  PROVE  /\ Level(e) \in Levels
         /\ stream[e].name \in muted => Level(e) = LOW
         /\ stream[e].name \notin muted /\ CaseHit(e) => Level(e) >= MEDIUM
<1> DEFINE q == stream[e]
           a == q.floor
           b == IF Bypasses(q) THEN MEDIUM ELSE LOW
           c == Assessed(q)
           d == IF CaseHit(e) THEN MEDIUM ELSE LOW
<1>1. a \in Levels
  BY DEF Queries, Levels, LOW, MEDIUM, HIGH, CONFIRMED
<1>2. b \in Levels /\ c \in Levels /\ d \in Levels
  BY DEF Assessed, Levels, LOW, MEDIUM, HIGH, CONFIRMED
<1>3. q.name \notin muted => Level(e) = Highest({a, b} \cup {c, d})
  BY DEF Level, Floors
<1>4. q.name \in muted => Level(e) = LOW
  BY DEF Level
<1>5. CASE q.name \in muted
  BY <1>4, <1>5 DEF Levels, LOW, CONFIRMED
<1>6. CASE q.name \notin muted
  <2>1. CaseHit(e) => MEDIUM \in {a, b} \cup {c, d}
    OBVIOUS
  <2> HIDE DEF a, b, c, d
  <2>2. /\ Highest({a, b} \cup {c, d}) \in Levels
        /\ \A k \in {a, b} \cup {c, d} : k <= Highest({a, b} \cup {c, d})
    BY <1>1, <1>2, HighestOf
  <2> QED BY <1>3, <1>6, <2>1, <2>2
<1> QED BY <1>5, <1>6

-----------------------------------------------------------------------------
(* The books of the worker.  Each captured event is in one place; what is  *)
(* left of a batch is younger than every batch before it.                  *)
Seen == {judged[n].event : n \in DOMAIN judged}

Verdicts(t) == [event : 1 .. t, level : Levels, at : 0 .. MaxTime,
                saved : {"none", "query", "all"}, quiet : BOOLEAN]

Places(ev, l, t) ==
  /\ t \cap l = {} /\ ev \cap t = {} /\ ev \cap l = {}
  /\ ev \cup l \cup t = 1 .. taken

Books ==
  /\ Accounted
  /\ todo \subseteq taken - size + 1 .. taken
  /\ Places(Seen, lost, todo)
  /\ \A a, b \in DOMAIN judged : judged[a].event = judged[b].event => a = b

(* Overtaken, an event is a response, and its overtaker a query.           *)
InTurn ==
  \A a \in DOMAIN judged, e \in todo :
    judged[a].event > e => IsQuery(judged[a].event) /\ ~ IsQuery(e)

LEMMA BooksTypes ==
  ASSUME Books
  PROVE  /\ taken \in Nat /\ size \in 0 .. BatchSize /\ now \in 0 .. MaxTime
         /\ BatchSize \in Nat \ {0} /\ MaxTime \in Nat
         /\ judged \in Seq(Verdicts(taken)) /\ Len(judged) \in Nat
         /\ DOMAIN judged = 1 .. Len(judged)
         /\ \A n \in DOMAIN judged : judged[n] \in Verdicts(taken)
         /\ todo \subseteq 1 .. taken /\ lost \subseteq 1 .. taken /\ Seen \subseteq 1 .. taken
         /\ IsFiniteSet(todo) /\ IsFiniteSet(lost)
         /\ Cardinality(todo) \in Nat /\ Cardinality(lost) \in Nat
<1>1. captured \in Nat
  BY EventTypes DEF Books, Accounted, TypeOK
<1>2. taken \in Nat /\ todo \subseteq 1 .. taken /\ lost \subseteq 1 .. taken
  BY <1>1 DEF Books, Accounted, TypeOK
<1>3. IsFiniteSet(1 .. taken)
  BY <1>2, FS_Interval
<1>4. IsFiniteSet(todo) /\ IsFiniteSet(lost)
  BY <1>2, <1>3, FS_Subset
<1>5. Cardinality(todo) \in Nat /\ Cardinality(lost) \in Nat
  BY <1>4, FS_CardinalityType
<1>6. BatchSize \in Nat \ {0} /\ MaxTime \in Nat
  BY EngineAssumption
<1>7. size \in 0 .. BatchSize /\ now \in 0 .. MaxTime
  BY DEF Books, Accounted, TypeOK
<1>8. judged \in Seq(Verdicts(taken))
  BY DEF Books, Accounted, TypeOK, Verdicts
<1>9. /\ Len(judged) \in Nat /\ DOMAIN judged = 1 .. Len(judged)
      /\ \A n \in DOMAIN judged : judged[n] \in Verdicts(taken)
  BY <1>8
<1>10. Seen \subseteq 1 .. taken
  BY DEF Books, Places
<1> QED BY <1>2, <1>4, <1>5, <1>6, <1>7, <1>8, <1>9, <1>10

LEMMA DisjointUnion ==
  ASSUME NEW S, NEW T, IsFiniteSet(S), IsFiniteSet(T), S \cap T = {}
  PROVE  Cardinality(S \cup T) = Cardinality(S) + Cardinality(T)
<1>1. Cardinality(S \cup T) = Cardinality(S) + Cardinality(T) - Cardinality(S \cap T)
  BY FS_Union
<1>2. Cardinality(S \cap T) = 0
  BY FS_EmptySet
<1>3. Cardinality(S) \in Nat /\ Cardinality(T) \in Nat
  BY FS_CardinalityType
<1> QED BY <1>1, <1>2, <1>3

(* One event judged: it goes from what is left to what is judged, and with *)
(* a failed write the others go to what is lost.                           *)
LEMMA JudgeBooks ==
  ASSUME Books, InTurn, todo # {}, NEW level \in Levels, NEW saved \in {"none", "query", "all"},
         Judge(Turn, level, saved), UNCHANGED <<host, taken, size, processed>>
  PROVE  /\ judged' \in Seq(Verdicts(taken))
         /\ todo' \subseteq todo /\ lost' \subseteq lost \cup todo
         /\ Len(judged') + Cardinality(lost') + Cardinality(todo') = taken
         /\ Places(Seen', lost', todo') /\ Turn \notin Seen
         /\ \A a, b \in DOMAIN judged' : judged'[a].event = judged'[b].event => a = b
         /\ InTurn'
<1> DEFINE e == Turn
           v == [event |-> e, level |-> level, at |-> now, saved |-> saved,
                 quiet |-> IsQuery(e) /\ stream[e].name \in muted]
<1>1. e \in todo
  BY BooksTypes, TurnOf
<1>2. e \in 1 .. taken /\ v.event = e /\ v.saved = saved
  BY <1>1, BooksTypes
<1>3. v \in Verdicts(taken)
  BY <1>2, BooksTypes DEF Verdicts
<1>4. judged' = Append(judged, v)
  BY DEF Judge
<1> HIDE DEF e, v
<1>5. /\ judged' \in Seq(Verdicts(taken)) /\ Len(judged') = Len(judged) + 1
  BY <1>3, <1>4, BooksTypes
<1>6. /\ DOMAIN judged' = DOMAIN judged \cup {Len(judged) + 1}
      /\ Len(judged) + 1 \notin DOMAIN judged
      /\ judged'[Len(judged) + 1] = v
      /\ \A n \in DOMAIN judged : judged'[n] = judged[n]
  BY <1>3, <1>4, BooksTypes, AppendKeeps
<1>7. Seen' = Seen \cup {e}
  BY <1>2, <1>6 DEF Seen
<1>8. e \notin Seen /\ e \notin lost
  BY <1>1 DEF Books, Places
<1>9. \/ todo' = todo \ {e} /\ lost' = lost
      \/ todo' = {} /\ lost' = lost \cup (todo \ {e})
  BY DEF Judge, Skip, e
<1>10. Places(Seen', lost', todo')
  BY <1>1, <1>7, <1>8, <1>9 DEF Books, Places
<1>11. Cardinality(todo \ {e}) = Cardinality(todo) - 1 /\ IsFiniteSet(todo \ {e})
  BY <1>1, BooksTypes, FS_RemoveElement
<1>12. Len(judged') + Cardinality(lost') + Cardinality(todo') = taken
  <2>1. Len(judged) + Cardinality(lost) + Cardinality(todo) = taken
    BY DEF Books, Accounted
  <2> DEFINE j == Len(judged)
             l == Cardinality(lost)
             t == Cardinality(todo)
  <2>0. j \in Nat /\ l \in Nat /\ t \in Nat /\ taken \in Nat
    BY BooksTypes
  <2>2. CASE todo' = todo \ {e} /\ lost' = lost
    <3>1. Len(judged') = j + 1 /\ Cardinality(lost') = l /\ Cardinality(todo') = t - 1
      BY <1>5, <1>11, <2>2
    <3> HIDE DEF j, l, t
    <3>2. j + 1 + l + (t - 1) = j + l + t
      BY <2>0
    <3> QED BY <2>1, <3>1, <3>2 DEF j, l, t
  <2>3. CASE todo' = {} /\ lost' = lost \cup (todo \ {e})
    <3>1. lost \cap (todo \ {e}) = {}
      BY DEF Books, Places
    <3>2. Cardinality(lost \cup (todo \ {e})) = Cardinality(lost) + Cardinality(todo \ {e})
      BY <1>11, <3>1, BooksTypes, DisjointUnion
    <3>3. Cardinality(todo') = 0
      BY <2>3, FS_EmptySet
    <3>4. Cardinality(lost') = Cardinality(lost) + (Cardinality(todo) - 1)
      BY <1>11, <2>3, <3>2
    <3>5. Len(judged') = j + 1 /\ Cardinality(lost') = l + (t - 1)
      BY <1>5, <3>4
    <3> HIDE DEF j, l, t
    <3>6. j + 1 + (l + (t - 1)) + 0 = j + l + t
      BY <2>0
    <3> QED BY <2>1, <3>3, <3>5, <3>6 DEF j, l, t
  <2> QED BY <1>9, <2>2, <2>3
<1>13. \A a, b \in DOMAIN judged' : judged'[a].event = judged'[b].event => a = b
  BY <1>2, <1>6, <1>8 DEF Books, Seen
<1>14. InTurn'
  <2> SUFFICES ASSUME NEW a \in DOMAIN judged', NEW k \in todo', judged'[a].event > k
               PROVE  IsQuery(judged'[a].event) /\ ~ IsQuery(k)
    BY DEF InTurn, IsQuery, stream
  <2>1. k \in todo \ {e}
    BY <1>9
  <2>2. CASE a \in DOMAIN judged
    BY <1>6, <2>1, <2>2 DEF InTurn
  <2>3. CASE a = Len(judged) + 1
    <3>1. judged'[a].event = e /\ k \in todo
      BY <1>2, <1>6, <2>1, <2>3
    <3>2. /\ IsQuery(e) /\ IsQuery(k) => e <= k
          /\ ~ IsQuery(e) => e <= k
      BY <3>1, BooksTypes, TurnOf DEF e
    <3>3. e > k /\ e \in Nat /\ k \in Nat
      BY <1>2, <3>1, BooksTypes
    <3>4. ~ (e <= k)
      BY <3>3
    <3> QED BY <3>1, <3>2, <3>4
  <2> QED BY <1>6, <2>2, <2>3
<1> QED BY <1>5, <1>8, <1>9, <1>10, <1>12, <1>13, <1>14 DEF e

LEMMA AlertTypes ==
  ASSUME Books, NEW e \in 1 .. taken, NEW key \in STRING \X Levels,
         Alert(e, key) \/ UNCHANGED <<lastSent, alerts>>
  PROVE  /\ DOMAIN lastSent' \subseteq STRING \X Levels
         /\ lastSent' \in [DOMAIN lastSent' -> 0 .. MaxTime]
         /\ alerts' \subseteq [event : 1 .. taken, key : DOMAIN lastSent', at : 0 .. MaxTime]
<1>1. /\ DOMAIN lastSent \subseteq STRING \X Levels
      /\ lastSent \in [DOMAIN lastSent -> 0 .. MaxTime]
      /\ alerts \subseteq [event : 1 .. taken, key : DOMAIN lastSent, at : 0 .. MaxTime]
      /\ now \in 0 .. MaxTime
  BY DEF Books, Accounted, TypeOK
<1>2. CASE UNCHANGED <<lastSent, alerts>>
  BY <1>1, <1>2
<1>3. CASE ~ UNCHANGED <<lastSent, alerts>>
  <2> DEFINE new == [event |-> e, key |-> key, at |-> now]
  <2>1. /\ lastSent' = [k \in DOMAIN lastSent \cup {key} |-> IF k = key THEN now ELSE lastSent[k]]
        /\ alerts' = alerts \cup {new}
    BY <1>3 DEF Alert
  <2>2. DOMAIN lastSent' = DOMAIN lastSent \cup {key}
    BY <2>1
  <2>3. lastSent' \in [DOMAIN lastSent' -> 0 .. MaxTime]
    BY <1>1, <2>1
  <2>4. new \in [event : 1 .. taken, key : DOMAIN lastSent', at : 0 .. MaxTime]
    BY <1>1, <2>2
  <2>5. alerts \subseteq [event : 1 .. taken, key : DOMAIN lastSent', at : 0 .. MaxTime]
    BY <1>1, <2>2
  <2> QED BY <1>1, <2>1, <2>2, <2>3, <2>4, <2>5
<1> QED BY <1>2, <1>3

(* What every verdict has in common.                                       *)
LEMMA DecideJudges ==
  ASSUME Books, Decide, ~ AnswerAsQuery
  PROVE  \E level \in Levels, saved \in {"none", "query", "all"} :
           /\ Judge(Turn, level, saved)
           /\ \/ UNCHANGED <<lastSent, alerts>>
              \/ Alert(Turn, <<stream[Turn].src, level>>)
           /\ hits' \subseteq hits \cup {Turn} /\ notified' \subseteq notified \cup {Turn}
<1>1. Turn \in todo /\ stream[Turn] \in Queries \cup Responses
  <2>1. Turn \in todo
    BY BooksTypes, TurnOf DEF Decide
  <2>2. Turn \in DOMAIN stream
    BY <2>1, BooksTypes, EventTypes DEF Books, Accounted, TypeOK
  <2> QED BY <2>1, <2>2, EventTypes DEF Books, Accounted, TypeOK
<1>2. IsQuery(Turn) => stream[Turn] \in Queries
  BY <1>1 DEF IsQuery, Responses
<1>3. LOW \in Levels /\ HIGH \in Levels /\ CONFIRMED \in Levels
  BY DEF Levels, LOW, HIGH, CONFIRMED
<1>4. ASSUME NEW saved \in {"none", "query", "all"}, DecideRfOnly(Turn, saved)
      PROVE  \E level \in Levels : /\ Judge(Turn, level, saved)
                                   /\ UNCHANGED <<lastSent, alerts, hits, notified>>
  BY <1>3, <1>4 DEF DecideRfOnly
<1>5. ASSUME NEW saved \in {"none", "query", "all"}, DecideCanary(Turn, saved)
      PROVE  /\ Judge(Turn, CONFIRMED, saved)
             /\ \/ UNCHANGED <<lastSent, alerts>>
                \/ Alert(Turn, <<stream[Turn].src, CONFIRMED>>)
             /\ UNCHANGED <<hits, notified>>
  BY <1>5 DEF DecideCanary
<1>6. ASSUME NEW saved \in {"none", "query", "all"}, DecideQuery(Turn, saved)
      PROVE  /\ Judge(Turn, Level(Turn), saved)
             /\ \/ UNCHANGED <<lastSent, alerts>>
                \/ Alert(Turn, <<stream[Turn].src, Level(Turn)>>)
             /\ hits' \subseteq hits \cup {Turn} /\ notified' \subseteq notified \cup {Turn}
  BY <1>6 DEF DecideQuery, Intercepted
<1>7. ASSUME NEW saved \in {"none", "query", "all"}, DecideResponse(Turn, saved)
      PROVE  \E level \in {LOW, HIGH} :
               /\ Judge(Turn, level, saved)
               /\ \/ UNCHANGED <<lastSent, alerts>>
                  \/ Alert(Turn, <<stream[Turn].src, level>>)
               /\ UNCHANGED <<hits, notified>>
  BY <1>7 DEF DecideResponse
<1>8. CASE IsQuery(Turn)
  <2>1. Level(Turn) \in Levels
    BY <1>2, <1>8, LevelOf
  <2>2. PICK saved \in {"none", "query", "all"} :
          DecideRfOnly(Turn, saved) \/ DecideCanary(Turn, saved) \/ DecideQuery(Turn, saved)
    BY <1>8 DEF Decide
  <2> QED BY <1>3, <1>4, <1>5, <1>6, <2>1, <2>2
<1>9. CASE ~ IsQuery(Turn)
  <2>1. PICK saved \in {"none", "query", "all"} : DecideResponse(Turn, saved)
    BY <1>9 DEF Decide
  <2> QED BY <1>3, <1>7, <2>1
<1> QED BY <1>8, <1>9

(* A new verdict comes last: it may be overtaken by a query of its batch   *)
(* only if it is on a response.                                            *)
LEMMA JudgeOrder ==
  ASSUME Books, InTurn, OrderKept, todo # {}, NEW level \in Levels,
         NEW saved \in {"none", "query", "all"}, Judge(Turn, level, saved), host' = host
  PROVE  OrderKept'
<1> DEFINE e == Turn
           v == [event |-> e, level |-> level, at |-> now, saved |-> saved,
                 quiet |-> IsQuery(e) /\ stream[e].name \in muted]
<1>1. e \in todo /\ e \in Nat /\ e \in taken - size + 1 .. taken
  <2>1. todo \in SUBSET Nat
    BY BooksTypes
  <2>2. e \in todo
    BY <2>1, TurnOf
  <2> QED BY <2>1, <2>2 DEF Books
<1>2. v.event = e
  OBVIOUS
<1>3. judged' = Append(judged, v)
  BY DEF Judge
<1> HIDE DEF e, v
<1>4. /\ DOMAIN judged' = DOMAIN judged \cup {Len(judged) + 1}
      /\ judged'[Len(judged) + 1] = v
      /\ \A n \in DOMAIN judged : judged'[n] = judged[n]
  BY <1>3, BooksTypes, AppendKeeps
<1> SUFFICES ASSUME NEW a \in DOMAIN judged', NEW b \in DOMAIN judged',
                    a < b, judged'[b].event < judged'[a].event
             PROVE  /\ IsQuery(judged'[a].event) /\ ~ IsQuery(judged'[b].event)
                    /\ judged'[a].event - judged'[b].event < BatchSize
  BY DEF OrderKept, IsQuery, stream
<1>5. a \in DOMAIN judged
  BY <1>4, BooksTypes
<1>6. CASE b \in DOMAIN judged
  BY <1>4, <1>5, <1>6 DEF OrderKept
<1>7. CASE b = Len(judged) + 1
  <2>1. judged'[b].event = e /\ judged'[a] = judged[a]
    BY <1>2, <1>4, <1>5, <1>7
  <2>2. IsQuery(judged[a].event) /\ ~ IsQuery(e)
    BY <1>1, <1>5, <2>1 DEF InTurn
  <2>3. judged[a].event \in 1 .. taken
    BY <1>5, BooksTypes DEF Verdicts
  <2>4. judged[a].event - e < BatchSize
    BY <1>1, <2>3, BooksTypes
  <2> QED BY <2>1, <2>2, <2>4
<1> QED BY <1>4, <1>6, <1>7

(* The rest of a batch is lost.                                            *)
LEMMA SkipBooks ==
  ASSUME Books, Skip(todo),
         UNCHANGED <<now, host, captured, taken, size, processed, muted,
                     judged, lastSent, alerts, hits, notified>>
  PROVE  Books' /\ InTurn' /\ (OrderKept => OrderKept')
<1>1. todo' = {} /\ lost' = lost \cup todo /\ alive' = ~ host.live
  BY DEF Skip
<1>2. alive' \in BOOLEAN
  BY <1>1, EventTypes DEF Books, Accounted, TypeOK
<1>3. Cardinality(lost') = Cardinality(lost) + Cardinality(todo) /\ Cardinality(todo') = 0
  <2>1. lost \cap todo = {}
    BY DEF Books, Places
  <2> QED BY <1>1, <2>1, BooksTypes, DisjointUnion, FS_EmptySet
<1>4. Seen' = Seen /\ Places(Seen, lost', todo')
  BY <1>1 DEF Books, Places, Seen
<1>5. Len(judged) + Cardinality(lost') + Cardinality(todo') = taken
  BY <1>3, BooksTypes DEF Books, Accounted
<1>6. TypeOK'
  BY <1>1, <1>2, BooksTypes DEF Books, Accounted, TypeOK, stream
<1>7. Accounted'
  BY <1>4, <1>5, <1>6 DEF Books, Accounted, Places, Seen
<1> QED BY <1>1, <1>4, <1>7 DEF Books, Places, InTurn, OrderKept, IsQuery, stream

LEMMA DecideBooks ==
  ASSUME Books, InTurn, OrderKept, Decide
  PROVE  Books' /\ InTurn' /\ OrderKept'
<1>0. todo # {} /\ UNCHANGED <<now, host, captured, taken, size, processed, muted>>
  BY DEF Decide
<1>1. CASE AnswerAsQuery
  BY <1>0, <1>1, SkipBooks DEF AnswerAsQuery
<1>2. CASE ~ AnswerAsQuery
  <2>1. PICK level \in Levels, saved \in {"none", "query", "all"} :
           /\ Judge(Turn, level, saved)
           /\ \/ UNCHANGED <<lastSent, alerts>>
              \/ Alert(Turn, <<stream[Turn].src, level>>)
           /\ hits' \subseteq hits \cup {Turn} /\ notified' \subseteq notified \cup {Turn}
    BY <1>2, DecideJudges
  <2>2. /\ judged' \in Seq(Verdicts(taken))
        /\ todo' \subseteq todo /\ lost' \subseteq lost \cup todo
        /\ Len(judged') + Cardinality(lost') + Cardinality(todo') = taken
        /\ Places(Seen', lost', todo')
        /\ \A a, b \in DOMAIN judged' : judged'[a].event = judged'[b].event => a = b
        /\ InTurn'
    BY <1>0, <2>1, JudgeBooks
  <2>3. OrderKept'
    BY <1>0, <2>1, JudgeOrder
  <2>4. Turn \in 1 .. taken /\ stream[Turn].src \in STRING
    <3>1. Turn \in 1 .. taken
      BY <1>0, BooksTypes, TurnOf
    <3>2. Turn \in DOMAIN stream
      BY <3>1, EventTypes DEF Books, Accounted, TypeOK
    <3>3. stream[Turn] \in Queries \cup Responses
      BY <3>2, EventTypes DEF Books, Accounted, TypeOK
    <3> QED BY <3>1, <3>3 DEF Queries, Responses
  <2>5. /\ DOMAIN lastSent' \subseteq STRING \X Levels
        /\ lastSent' \in [DOMAIN lastSent' -> 0 .. MaxTime]
        /\ alerts' \subseteq [event : 1 .. taken, key : DOMAIN lastSent', at : 0 .. MaxTime]
    BY <2>1, <2>4, AlertTypes
  <2>6. hits' \cup notified' \subseteq 1 .. taken
    BY <2>1, <2>4 DEF Books, Accounted, TypeOK
  <2>7. alive' \in BOOLEAN
    BY <2>1, EventTypes DEF Judge, Skip, Books, Accounted, TypeOK
  <2>8. TypeOK'
    <3>1. todo' \subseteq 1 .. taken /\ lost' \subseteq 1 .. taken
      BY <2>2, BooksTypes
    <3>2. /\ now' \in 0 .. MaxTime /\ host' \in Sessions /\ captured' \in DOMAIN stream' \cup {0}
          /\ taken' \in 0 .. captured' /\ size' \in 0 .. BatchSize /\ processed' \in 0 .. taken'
          /\ muted' \subseteq Mutable
      BY <1>0 DEF Books, Accounted, TypeOK, stream
    <3> QED BY <1>0, <2>2, <2>5, <2>6, <2>7, <3>1, <3>2 DEF TypeOK, Verdicts
  <2>9. 1 .. taken' = Seen' \cup lost' \cup todo'
    BY <1>0, <2>2 DEF Places
  <2>10. Accounted'
    BY <1>0, <2>2, <2>8, <2>9 DEF Accounted, Books, Seen
  <2>11. todo' \subseteq taken' - size' + 1 .. taken' /\ Places(Seen, lost, todo)'
    BY <1>0, <2>2 DEF Books, Places
  <2> QED BY <2>2, <2>3, <2>10, <2>11 DEF Books
<1> QED BY <1>1, <1>2

LEMMA Remainders == \A m, n \in Nat : m + (n - m) = n /\ n - (n - m) = m
OBVIOUS

LEMMA IntervalCard ==
  ASSUME NEW m \in Nat, NEW n \in Nat, m <= n
  PROVE  IsFiniteSet(m + 1 .. n) /\ Cardinality(m + 1 .. n) = n - m
<1>1. IsFiniteSet(m + 1 .. n)
  BY FS_Interval
<1>2. Cardinality(m + 1 .. n) = IF m + 1 > n THEN 0 ELSE n - (m + 1) + 1
  BY FS_Interval
<1> QED BY <1>1, <1>2

(* A batch is everything between the last one and its own last event.      *)
LEMMA BatchOf ==
  ASSUME Books, Take
  PROVE  /\ taken' \in taken + 1 .. captured /\ size' = taken' - taken /\ size' <= BatchSize
         /\ todo' = taken + 1 .. taken' /\ size = 0 /\ todo = {}
         /\ UNCHANGED <<now, host, captured, alive, processed, muted, outcome>>
<1>1. /\ size = 0 /\ taken < captured /\ taken' = Last /\ size' = Last - taken
      /\ todo' = Of("query") \cup Of("response")
      /\ UNCHANGED <<now, host, captured, alive, processed, muted, outcome>>
  BY DEF Take
<1>2. captured \in Nat /\ captured \in DOMAIN stream \cup {0} /\ taken \in Nat
  BY EventTypes, BooksTypes DEF Books, Accounted, TypeOK
<1>3. AtOnce \in Nat /\ AtOnce > 0 /\ AtOnce <= BatchSize
  BY BooksTypes DEF AtOnce
<1>4. Last \in taken + 1 .. captured /\ Last - taken <= BatchSize
  BY <1>1, <1>2, <1>3, BooksTypes DEF Last
<1>5. taken + 1 .. Last \subseteq DOMAIN stream
  BY <1>2, <1>4, EventTypes DEF Books, Accounted, TypeOK
<1>6. \A e \in DOMAIN stream : stream[e].kind = "query" \/ stream[e].kind = "response"
  BY EventTypes DEF Books, Accounted, TypeOK, Queries, Responses
<1>7. Of("query") \cup Of("response") = taken + 1 .. Last
  BY <1>5, <1>6 DEF Of
<1>8. todo = {}
  BY <1>1, <1>2 DEF Books
<1> QED BY <1>1, <1>4, <1>7, <1>8

LEMMA TakeBooks ==
  ASSUME Books, InTurn, OrderKept, Take
  PROVE  Books' /\ InTurn' /\ OrderKept'
<1>1. /\ taken' \in taken + 1 .. captured /\ size' = taken' - taken /\ size' <= BatchSize
      /\ todo' = taken + 1 .. taken' /\ size = 0 /\ todo = {}
      /\ UNCHANGED <<now, host, captured, alive, processed, muted,
                     lost, judged, lastSent, alerts, hits, notified>>
  BY BatchOf DEF outcome
<1>2. captured \in Nat /\ taken \in Nat /\ taken' \in Nat /\ taken <= taken'
  BY <1>1, EventTypes, BooksTypes DEF Books, Accounted, TypeOK
<1>3. 1 .. taken \subseteq 1 .. taken'
  BY <1>2
<1>4. Cardinality(todo') = taken' - taken /\ Cardinality(todo) = 0
  BY <1>1, <1>2, IntervalCard, FS_EmptySet
<1>5. Len(judged) + Cardinality(lost) + Cardinality(todo') = taken'
  BY <1>1, <1>2, <1>4, BooksTypes DEF Books, Accounted
<1>6. Verdicts(taken) \subseteq Verdicts(taken')
  BY <1>3 DEF Verdicts
<1>7. judged \in Seq(Verdicts(taken'))
  BY <1>6, BooksTypes, WiderSeq
<1>8. alerts \subseteq [event : 1 .. taken', key : DOMAIN lastSent, at : 0 .. MaxTime]
  <2>1. alerts \subseteq [event : 1 .. taken, key : DOMAIN lastSent, at : 0 .. MaxTime]
    BY DEF Books, Accounted, TypeOK
  <2> QED BY <1>3, <2>1
<1>9. size' \in 0 .. BatchSize /\ processed \in 0 .. taken' /\ taken' \in 0 .. captured
  BY <1>1, <1>2, BooksTypes DEF Books, Accounted, TypeOK
<1>10. todo' \subseteq 1 .. taken' /\ lost \subseteq 1 .. taken' /\ hits \cup notified \subseteq 1 .. taken'
  BY <1>1, <1>2, <1>3 DEF Books, Accounted, TypeOK
<1>11. TypeOK'
  <2>1. /\ now \in 0 .. MaxTime /\ host \in Sessions /\ alive \in BOOLEAN
        /\ captured \in DOMAIN stream \cup {0} /\ muted \subseteq Mutable
        /\ DOMAIN lastSent \subseteq STRING \X Levels
        /\ lastSent \in [DOMAIN lastSent -> 0 .. MaxTime]
    BY DEF Books, Accounted, TypeOK
  <2> QED BY <1>1, <1>7, <1>8, <1>9, <1>10, <2>1 DEF TypeOK, Verdicts, stream
<1>12. Places(Seen, lost, todo)' /\ 1 .. taken' = Seen' \cup lost' \cup todo'
  <2>1. Seen' = Seen /\ Seen \cup lost = 1 .. taken /\ Seen \cap lost = {}
    BY <1>1 DEF Books, Places, Seen
  <2>2. 1 .. taken \cup taken + 1 .. taken' = 1 .. taken'
    BY <1>2
  <2>3. (1 .. taken) \cap (taken + 1 .. taken') = {}
    BY <1>2
  <2> QED BY <1>1, <2>1, <2>2, <2>3 DEF Places
<1>13. processed' + size' = taken'
  <2>1. processed + size = taken
    BY DEF Books, Accounted
  <2>2. processed = taken /\ processed' = taken
    BY <1>1, <1>2, <1>9, <2>1
  <2>3. taken + (taken' - taken) = taken'
    BY <1>2, Remainders
  <2> QED BY <1>1, <2>2, <2>3
<1>14. Accounted'
  BY <1>1, <1>5, <1>11, <1>12, <1>13 DEF Accounted, Seen
<1>15. todo' \subseteq taken' - size' + 1 .. taken'
  <2>1. taken' - (taken' - taken) = taken
    BY <1>2, Remainders
  <2> QED BY <1>1, <2>1
<1>16. Books'
  BY <1>1, <1>12, <1>14, <1>15 DEF Books
<1>17. InTurn'
  <2> SUFFICES ASSUME NEW a \in DOMAIN judged, NEW e \in todo'
               PROVE  ~ (judged[a].event > e)
    BY <1>1 DEF InTurn, IsQuery, stream
  <2>1. judged[a].event \in 1 .. taken
    BY BooksTypes DEF Verdicts
  <2> QED BY <1>1, <1>2, <2>1
<1> QED BY <1>1, <1>16, <1>17 DEF OrderKept, IsQuery, stream

LEMMA CountBooks ==
  ASSUME Books, InTurn, OrderKept, Count
  PROVE  Books' /\ InTurn' /\ OrderKept'
<1>1. /\ todo = {} /\ processed' = processed + size /\ size' = 0
      /\ UNCHANGED <<now, host, captured, alive, taken, todo, muted,
                     lost, judged, lastSent, alerts, hits, notified>>
  BY DEF Count, Handled, outcome
<1>2. processed + size = taken
  BY DEF Books, Accounted
<1>3. processed' \in 0 .. taken /\ processed' + size' = taken /\ size' \in 0 .. BatchSize
  BY <1>1, <1>2, BooksTypes
<1>4. TypeOK'
  BY <1>1, <1>3 DEF Books, Accounted, TypeOK, stream
<1> QED BY <1>1, <1>3, <1>4 DEF Books, Accounted, Places, Seen, InTurn, OrderKept, IsQuery, stream

LEMMA BooksStep == Books /\ InTurn /\ OrderKept /\ [Next]_vars => Books' /\ InTurn' /\ OrderKept'
<1> SUFFICES ASSUME Books, InTurn, OrderKept, [Next]_vars PROVE Books' /\ InTurn' /\ OrderKept'
  OBVIOUS
<1> DEFINE Still == UNCHANGED <<host, alive, taken, todo, size, processed, lost, judged,
                                lastSent, alerts, hits, notified>>
<1>1. ASSUME Still, TypeOK' PROVE Books' /\ InTurn' /\ OrderKept'
  BY <1>1 DEF Books, Accounted, Places, Seen, InTurn, OrderKept, IsQuery, stream
<1>2. CASE Tick
  <2>1. Still /\ now' \in 0 .. MaxTime /\ UNCHANGED <<captured, muted>>
    BY <1>2, BooksTypes DEF Tick, worker, outcome
  <2>2. TypeOK'
    BY <2>1 DEF Books, Accounted, TypeOK, stream
  <2> QED BY <1>1, <2>1, <2>2
<1>3. CASE Capture
  <2>1. Still /\ captured' = captured + 1 /\ captured < Len(stream) /\ UNCHANGED <<now, muted>>
    BY <1>3 DEF Capture, worker, outcome
  <2>2. captured' \in DOMAIN stream /\ taken \in 0 .. captured'
    BY <2>1, EventTypes DEF Books, Accounted, TypeOK
  <2>3. TypeOK'
    BY <2>1, <2>2 DEF Books, Accounted, TypeOK, stream
  <2> QED BY <1>1, <2>1, <2>3
<1>4. ASSUME NEW d \in Mutable, ToggleMute(d) PROVE Books' /\ InTurn' /\ OrderKept'
  <2>1. Still /\ muted' \subseteq Mutable /\ UNCHANGED <<now, captured>>
    BY <1>4 DEF ToggleMute, worker, outcome, Books, Accounted, TypeOK
  <2>2. TypeOK'
    BY <2>1 DEF Books, Accounted, TypeOK, stream
  <2> QED BY <1>1, <2>1, <2>2
<1>5. CASE Breaks
  BY <1>5, SkipBooks DEF Breaks
<1>6. CASE UNCHANGED vars
  <2>1. Still /\ UNCHANGED <<now, captured, muted>>
    BY <1>6 DEF vars, worker, outcome
  <2>2. TypeOK'
    BY <2>1 DEF Books, Accounted, TypeOK, stream
  <2> QED BY <1>1, <2>1, <2>2
<1> QED BY <1>2, <1>3, <1>4, <1>5, <1>6, TakeBooks, DecideBooks, CountBooks DEF Next, Work

LEMMA BooksInit == Init => Books /\ InTurn /\ OrderKept
<1> SUFFICES ASSUME Init PROVE Books /\ InTurn /\ OrderKept
  OBVIOUS
<1>1. /\ DOMAIN judged = {} /\ Seen = {} /\ Len(judged) = 0 /\ todo = {} /\ lost = {}
      /\ taken = 0 /\ size = 0 /\ processed = 0
  BY DEF Init, Seen
<1>2. judged \in Seq(Verdicts(taken))
  BY DEF Init
<1>3. DOMAIN lastSent = {} /\ lastSent \in [{} -> 0 .. MaxTime]
  BY DEF Init
<1>4. TypeOK
  <2>1. BatchSize \in Nat /\ MaxTime \in Nat
    BY EngineAssumption
  <2>2. host \in Sessions /\ alive \in BOOLEAN /\ now = 0 /\ captured = 0 /\ muted = {}
        /\ alerts = {} /\ hits = {} /\ notified = {}
    BY DEF Init
  <2> QED BY <1>1, <1>2, <1>3, <2>1, <2>2 DEF TypeOK, Verdicts
<1>5. Cardinality(lost) = 0 /\ Cardinality(todo) = 0
  BY <1>1, FS_EmptySet
<1>6. 1 .. taken = {}
  BY <1>1
<1>7. Accounted
  BY <1>1, <1>4, <1>5, <1>6 DEF Accounted, Seen
<1> QED BY <1>1, <1>6, <1>7 DEF Books, Places, InTurn, OrderKept

(* No event goes missing between the queue and the counter, whichever      *)
(* batches the worker takes and wherever it is interrupted.                *)
THEOREM NothingGoesMissing == Spec => []Accounted
<1>1. Books => Accounted
  BY DEF Books
<1> QED BY BooksInit, BooksStep, <1>1, PTL DEF Spec

(* An answer is overtaken only by the queries of its own batch.            *)
THEOREM TheOrderIsKept == Spec => []OrderKept
BY BooksInit, BooksStep, PTL DEF Spec

-----------------------------------------------------------------------------
(* A muted query that is no canary sets nothing off as it is judged.       *)
LEMMA QuietTurn ==
  ASSUME Books, Decide, IsQuery(Turn), stream[Turn].name \in muted, ~ IsCanary(stream[Turn])
  PROVE  UNCHANGED <<alerts, notified>>
<1>1. stream[Turn] \in Queries
  <2>1. Turn \in todo
    BY BooksTypes, TurnOf DEF Decide
  <2>2. Turn \in DOMAIN stream
    BY <2>1, BooksTypes, EventTypes DEF Books, Accounted, TypeOK
  <2>3. stream[Turn] \in Queries \cup Responses
    BY <2>2, EventTypes DEF Books, Accounted, TypeOK
  <2> QED BY <2>3 DEF IsQuery, Responses
<1>2. Level(Turn) = LOW
  BY <1>1, LevelOf
<1>3. \A saved : ~ Escalates(Turn, saved)
  BY <1>2 DEF Escalates, LOW, HIGH
<1>4. PICK saved \in {"none", "query", "all"} :
        DecideRfOnly(Turn, saved) \/ DecideCanary(Turn, saved) \/ DecideQuery(Turn, saved)
  BY DEF Decide
<1> QED BY <1>3, <1>4 DEF DecideRfOnly, DecideCanary, DecideQuery

LEMMA DecideStaysQuiet ==
  ASSUME Books, InTurn, RecordsFirst, MutedStaysQuiet, Decide
  PROVE  MutedStaysQuiet'
<1> DEFINE Off(x) == x \in notified \/ x \in {a.event : a \in alerts}
           OffNow(x) == x \in notified' \/ x \in {a.event : a \in alerts'}
<1>0. todo # {} /\ UNCHANGED <<now, host, taken, size, processed, muted>> /\ stream' = stream
  BY DEF Decide, stream
<1>1. CASE AnswerAsQuery
  BY <1>0, <1>1 DEF AnswerAsQuery, MutedStaysQuiet, IsCanary, Wired, stream
<1>2. CASE ~ AnswerAsQuery
  <2>1. PICK level \in Levels, saved \in {"none", "query", "all"} :
           /\ Judge(Turn, level, saved)
           /\ \/ UNCHANGED <<lastSent, alerts>>
              \/ Alert(Turn, <<stream[Turn].src, level>>)
           /\ hits' \subseteq hits \cup {Turn} /\ notified' \subseteq notified \cup {Turn}
    BY <1>2, DecideJudges
  <2>2. Turn \notin Seen
    BY <1>0, <2>1, JudgeBooks
  <2>3. {a.event : a \in alerts'} \subseteq {a.event : a \in alerts} \cup {Turn}
    <3>1. alerts' \subseteq alerts \cup {[event |-> Turn, key |-> <<stream[Turn].src, level>>, at |-> now]}
      BY <2>1 DEF Alert
    <3> QED BY <3>1
  <2>4. {a.event : a \in alerts} \cup notified \subseteq Seen
    BY DEF RecordsFirst, Recorded, Seen
  <2> DEFINE v == [event |-> Turn, level |-> level, at |-> now, saved |-> saved,
                   quiet |-> IsQuery(Turn) /\ stream[Turn].name \in muted]
  <2>5. judged' = Append(judged, v) /\ v.event = Turn
    BY <2>1 DEF Judge
  <2>6. v.quiet => IsQuery(Turn) /\ stream[Turn].name \in muted
    BY Zenon
  <2> HIDE DEF v
  <2>7. /\ DOMAIN judged' = DOMAIN judged \cup {Len(judged) + 1}
        /\ judged'[Len(judged) + 1] = v
        /\ \A n \in DOMAIN judged : judged'[n] = judged[n]
    BY <2>5, BooksTypes, AppendKeeps
  <2>8. ASSUME NEW n \in DOMAIN judged, judged[n].quiet, ~ IsCanary(stream[judged[n].event])
        PROVE  ~ OffNow(judged[n].event)
    <3>1. judged[n].event \in Seen
      BY DEF Seen
    <3>2. ~ Off(judged[n].event)
      BY <2>8 DEF MutedStaysQuiet
    <3> QED BY <2>1, <2>2, <2>3, <3>1, <3>2
  <2>9. v.quiet /\ ~ IsCanary(stream[Turn]) => ~ OffNow(Turn)
    BY <2>2, <2>4, <2>6, QuietTurn
  <2>10. \A q : IsCanary(q)' <=> IsCanary(q)
    BY <1>0 DEF IsCanary, Wired
  <2> HIDE DEF OffNow
  <2>11. \A n \in DOMAIN judged' : judged'[n].quiet /\ ~ IsCanary(stream[judged'[n].event])
                                    => ~ OffNow(judged'[n].event)
    BY <2>5, <2>7, <2>8, <2>9
  <2> QED BY <1>0, <2>11 DEF OffNow, MutedStaysQuiet, IsCanary, Wired
<1> QED BY <1>1, <1>2

LEMMA QuietStep ==
  Books /\ InTurn /\ RecordsFirst /\ MutedStaysQuiet /\ [Next]_vars => MutedStaysQuiet'
<1> SUFFICES ASSUME Books, InTurn, RecordsFirst, MutedStaysQuiet, [Next]_vars PROVE MutedStaysQuiet'
  OBVIOUS
<1>1. CASE UNCHANGED <<host, judged, alerts, notified>>
  BY <1>1 DEF MutedStaysQuiet, IsCanary, Wired, stream
<1>2. CASE Tick \/ Capture \/ Take \/ Breaks \/ Count \/ \E d \in Mutable : ToggleMute(d)
  BY <1>1, <1>2 DEF Tick, Capture, Take, Breaks, Count, ToggleMute, outcome
<1>3. CASE UNCHANGED vars
  BY <1>1, <1>3 DEF vars, outcome
<1> QED BY <1>2, <1>3, DecideStaysQuiet DEF Next, Work

(* Nothing is done about an event that is not on record, nor about a query *)
(* of a muted name, whichever signals it carries and however the mutes     *)
(* come and go.                                                            *)
THEOREM EffectsAreJustified == Spec => []EffectsJustified
<1>1. Init => MutedStaysQuiet
  BY DEF Init, MutedStaysQuiet
<1> QED BY BooksInit, BooksStep, NothingUnrecorded, QuietStep, <1>1, PTL DEF Spec, EffectsJustified

-----------------------------------------------------------------------------
(* What the map of letter cases remembers: every query that the window     *)
(* still holds, under its name, however often the map was purged.          *)
Counted(k) ==
  /\ IsQuery(judged[k].event) /\ ~ IsCanary(stream[judged[k].event])
  /\ stream[judged[k].event].case # 0

Holds(entry, k) ==
  /\ judged[k].at <= entry.last
  /\ stream[judged[k].event].case \in entry.patterns
  /\ [event |-> judged[k].event, at |-> judged[k].at] \in entry.stamps

Sound(entry) ==
  /\ entry.last \in Nat /\ entry.last <= now
  /\ IsFiniteSet(entry.patterns) /\ IsFiniteSet(entry.stamps)

Recalled(k) ==
  LET name == stream[judged[k].event].name IN name \in DOMAIN cases /\ Holds(cases[name], k)

Recent(k) == Counted(k) /\ judged[k].at > now - CaseWindow

Remembered ==
  /\ \A d \in DOMAIN cases : Sound(cases[d])
  /\ \A k \in DOMAIN judged : judged[k].at <= now
  /\ ~ host.rf => \A k \in DOMAIN judged : Recent(k) => Recalled(k)

LEMMA ClockTypes ==
  ASSUME Books
  PROVE  /\ now \in Nat /\ CaseWindow \in Nat /\ CaseMin \in Nat /\ CaseMin > 0
         /\ \A k \in DOMAIN judged : judged[k].at \in Nat
<1>1. MaxTime \in Nat /\ CaseWindow \in Nat /\ CaseMin \in Nat /\ CaseMin > 0
  BY EngineAssumption
<1>2. \A k \in DOMAIN judged : judged[k].at \in 0 .. MaxTime
  BY BooksTypes DEF Verdicts
<1> QED BY <1>1, <1>2, BooksTypes

LEMMA Widen ==
  ASSUME NEW S, NEW x, IsFiniteSet(S)
  PROVE  IsFiniteSet(S \cup {x}) /\ IsFiniteSet({x})
BY FS_AddElement, FS_Singleton

(* The entry of the query at hand holds its own stamp and all the recent   *)
(* ones of its name.                                                       *)
LEMMA EntryOf ==
  ASSUME Books, Remembered, ~ host.rf, NEW e
  PROVE  /\ Sound(Entry(e)) /\ Entry(e).last = now
         /\ stream[e].case \in Entry(e).patterns /\ [event |-> e, at |-> now] \in Entry(e).stamps
         /\ \A k \in DOMAIN judged :
              Recent(k) /\ stream[judged[k].event].name = stream[e].name => Holds(Entry(e), k)
<1> DEFINE q == stream[e]
           stamp == [event |-> e, at |-> now]
           old == cases[q.name]
           kept == {t \in old.stamps : t.at > now - CaseWindow}
           goes == q.name \in DOMAIN cases /\ now - old.last <= CaseWindow
<1>1. CASE goes
  <2>1. Entry(e) = [patterns |-> old.patterns \cup {q.case}, last |-> now, stamps |-> kept \cup {stamp}]
    BY <1>1 DEF Entry
  <2>2. IsFiniteSet(old.patterns) /\ IsFiniteSet(old.stamps)
    BY <1>1 DEF Remembered, Sound
  <2>3. IsFiniteSet(kept)
    BY <2>2, FS_Subset
  <2>4. IsFiniteSet(old.patterns \cup {q.case}) /\ IsFiniteSet(kept \cup {stamp})
    BY <2>2, <2>3, Widen
  <2>5. ASSUME NEW k \in DOMAIN judged, Recent(k), stream[judged[k].event].name = q.name
        PROVE  Holds(Entry(e), k)
    <3>1. Holds(old, k)
      BY <2>5 DEF Remembered, Recalled
    <3> DEFINE mark == [event |-> judged[k].event, at |-> judged[k].at]
    <3>2. mark \in old.stamps /\ mark.at > now - CaseWindow
      BY <2>5, <3>1 DEF Holds, Recent
    <3>3. judged[k].at <= now
      BY DEF Remembered
    <3>4. stream[judged[k].event].case \in old.patterns
      BY <3>1 DEF Holds
    <3> QED BY <2>1, <3>2, <3>3, <3>4 DEF Holds
  <2>6. Entry(e).last \in Nat /\ Entry(e).last <= now
    BY <2>1, ClockTypes
  <2> QED BY <2>1, <2>4, <2>5, <2>6 DEF Sound
<1>2. CASE ~ goes
  <2>1. Entry(e) = [patterns |-> {q.case}, last |-> now, stamps |-> {stamp}]
    BY <1>2 DEF Entry
  <2>2. IsFiniteSet({q.case}) /\ IsFiniteSet({stamp})
    BY FS_Singleton
  <2>3. ASSUME NEW k \in DOMAIN judged, Recent(k), stream[judged[k].event].name = q.name
        PROVE  FALSE
    <3>1. q.name \in DOMAIN cases /\ judged[k].at <= old.last
      BY <2>3 DEF Remembered, Recalled, Holds
    <3>2. old.last \in Nat /\ judged[k].at > now - CaseWindow
      BY <2>3, <3>1 DEF Remembered, Sound, Recent
    <3>3. judged[k].at \in Nat /\ now \in Nat /\ CaseWindow \in Nat
      BY ClockTypes
    <3>4. now - old.last <= CaseWindow
      BY <3>1, <3>2, <3>3
    <3> QED BY <1>2, <3>1, <3>4
  <2>4. Entry(e).last \in Nat /\ Entry(e).last <= now
    BY <2>1, ClockTypes
  <2> QED BY <2>1, <2>2, <2>3, <2>4 DEF Sound
<1> QED BY <1>1, <1>2

(* The purge spares what is recent.                                        *)
LEMMA TrackedOf ==
  ASSUME Books, Remembered, ~ host.rf, NEW e
  PROVE  /\ \A d \in DOMAIN Tracked(e) : Sound(Tracked(e)[d])
         /\ stream[e].case # 0 => /\ stream[e].name \in DOMAIN Tracked(e)
                                  /\ Tracked(e)[stream[e].name] = Entry(e)
         /\ \A k \in DOMAIN judged : Recent(k) =>
              LET name == stream[judged[k].event].name IN
                name \in DOMAIN Tracked(e) /\ Holds(Tracked(e)[name], k)
<1> DEFINE own == stream[e].name
<1>1. CASE stream[e].case = 0
  BY <1>1 DEF Tracked, Remembered, Recalled
<1>2. CASE stream[e].case # 0
  <2> DEFINE names == Kept(DOMAIN cases \cup {own}) \cup {own}
  <2>1. Tracked(e) = [d \in names |-> IF d = own THEN Entry(e) ELSE cases[d]]
    BY <1>2 DEF Tracked
  <2>2. /\ DOMAIN Tracked(e) = names /\ own \in names /\ Tracked(e)[own] = Entry(e)
        /\ \A d \in names : d # own => Tracked(e)[d] = cases[d]
    BY <2>1
  <2>3. \A d \in names : d # own => d \in DOMAIN cases
    BY DEF Kept
  <2>4. \A d \in DOMAIN cases : d # own /\ cases[d].last >= now - CaseWindow => d \in names
    BY DEF Kept
  <2> HIDE DEF names
  <2>5. \A d \in DOMAIN Tracked(e) : Sound(Tracked(e)[d])
    BY <2>2, <2>3, EntryOf DEF Remembered
  <2>6. ASSUME NEW k \in DOMAIN judged, Recent(k), stream[judged[k].event].name # own
        PROVE  LET name == stream[judged[k].event].name IN
                 name \in DOMAIN Tracked(e) /\ Holds(Tracked(e)[name], k)
    <3> DEFINE name == stream[judged[k].event].name
    <3>1. name \in DOMAIN cases /\ Holds(cases[name], k)
      BY <2>6 DEF Remembered, Recalled
    <3>2. /\ judged[k].at <= cases[name].last /\ cases[name].last \in Nat
          /\ judged[k].at > now - CaseWindow
      BY <2>6, <3>1 DEF Holds, Remembered, Sound, Recent
    <3>3. cases[name].last >= now - CaseWindow
      BY <3>2, ClockTypes
    <3> QED BY <2>2, <2>4, <2>6, <3>1, <3>3
  <2> QED BY <2>2, <2>5, <2>6, EntryOf
<1> QED BY <1>1, <1>2

(* Enough patterns of the window make a hit: there are as many stamps.     *)
LEMMA ChannelHit ==
  ASSUME Books, Remembered, ~ host.rf, NEW e, stream[e].case # 0, NEW P,
         \A c \in P : \/ c = stream[e].case
                      \/ \E k \in DOMAIN judged : /\ Recent(k) /\ c = stream[judged[k].event].case
                                                  /\ stream[judged[k].event].name = stream[e].name,
         Cardinality(P) >= CaseMin
  PROVE  CaseHit(e)
<1> DEFINE entry == Entry(e)
           T == {t \in entry.stamps : stream[t.event].case \in P}
           f == [t \in T |-> stream[t.event].case]
<1>1. IsFiniteSet(entry.patterns) /\ IsFiniteSet(entry.stamps)
  BY EntryOf DEF Sound
<1>2. P \subseteq entry.patterns
  BY EntryOf DEF Holds
<1>3. IsFiniteSet(P) /\ Cardinality(P) <= Cardinality(entry.patterns)
  BY <1>1, <1>2, FS_Subset
<1>4. IsFiniteSet(T) /\ Cardinality(T) <= Cardinality(entry.stamps)
  <2>1. T \subseteq entry.stamps
    OBVIOUS
  <2> QED BY <1>1, <2>1, FS_Subset
<1>5. \A c \in P : \E t \in T : f[t] = c
  <2> TAKE c \in P
  <2>1. CASE c = stream[e].case
    <3> DEFINE t == [event |-> e, at |-> now]
    <3>1. t \in entry.stamps /\ t.event = e
      BY EntryOf
    <3>2. t \in T /\ f[t] = c
      BY <2>1, <3>1
    <3> QED BY <3>2
  <2>2. ASSUME NEW k \in DOMAIN judged, Recent(k), c = stream[judged[k].event].case,
               stream[judged[k].event].name = stream[e].name
        PROVE  \E t \in T : f[t] = c
    <3> DEFINE t == [event |-> judged[k].event, at |-> judged[k].at]
    <3>1. t \in entry.stamps /\ t.event = judged[k].event
      BY <2>2, EntryOf DEF Holds
    <3>2. t \in T /\ f[t] = c
      BY <2>2, <3>1
    <3> QED BY <3>2
  <2> QED BY <2>1, <2>2
<1>6. f \in [T -> P]
  OBVIOUS
<1>7. f \in Surjection(T, P)
  <2> HIDE DEF f, T
  <2> QED BY <1>5, <1>6 DEF Surjection
<1>8. Cardinality(P) <= Cardinality(T)
  <2> HIDE DEF f, T
  <2> QED BY <1>4, <1>7, FS_Surjection
<1>9. /\ Cardinality(P) \in Nat /\ Cardinality(T) \in Nat
      /\ Cardinality(entry.patterns) \in Nat /\ Cardinality(entry.stamps) \in Nat
  BY <1>1, <1>3, <1>4, FS_CardinalityType
<1>10. Cardinality(entry.patterns) >= CaseMin /\ Cardinality(entry.stamps) >= CaseMin
  <2> HIDE DEF entry, T
  <2> QED BY <1>3, <1>4, <1>8, <1>9, ClockTypes
<1> QED BY <1>10 DEF CaseHit

LEMMA SameLetters ==
  ASSUME host \in Sessions, NEW i \in DOMAIN stream, NEW k \in DOMAIN stream,
         IsQuery(i), IsQuery(k), stream[i].name = stream[k].name
  PROVE  stream[i].case = 0 <=> stream[k].case = 0
<1> DEFINE a == host.events[i]
           b == host.events[k]
<1>1. a.kind = "query" /\ b.kind = "query" /\ a.name = b.name
  BY DEF IsQuery, stream
<1>2. a.kind = "query" /\ b.kind = "query" /\ a.name = b.name => (a.case = 0) = (b.case = 0)
  BY EngineAssumption, Zenon DEF stream
<1> HIDE DEF a, b
<1>3. (a.case = 0) = (b.case = 0)
  BY <1>1, <1>2
<1>4. a.case = 0 <=> b.case = 0
  BY <1>3
<1> QED BY <1>4 DEF a, b, stream

(* A name has letters or has none: once its window holds a pattern, the    *)
(* query at hand has letters too.                                          *)
LEMMA VerdictSees ==
  ASSUME Books, Remembered, ~ host.rf, NEW e \in DOMAIN stream, IsQuery(e),
         stream[e].name \notin muted, NEW P,
         \A c \in P : \/ c = stream[e].case /\ stream[e].case # 0
                      \/ \E k \in DOMAIN judged : /\ Recent(k) /\ c = stream[judged[k].event].case
                                                  /\ stream[judged[k].event].name = stream[e].name,
         Cardinality(P) >= CaseMin
  PROVE  Level(e) >= MEDIUM
<1>1. P # {}
  <2>1. Cardinality({}) = 0
    BY FS_EmptySet
  <2> QED BY <2>1, ClockTypes
<1>2. stream[e].case # 0
  <2> SUFFICES ASSUME NEW k \in DOMAIN judged, Recent(k),
                      stream[judged[k].event].name = stream[e].name
               PROVE  stream[e].case # 0
    BY <1>1
  <2>1. judged[k].event \in DOMAIN stream
    <3>1. judged[k].event \in 1 .. taken
      BY BooksTypes DEF Verdicts
    <3> QED BY <3>1, EventTypes DEF Books, Accounted, TypeOK
  <2>2. IsQuery(judged[k].event) /\ stream[judged[k].event].case # 0
    BY DEF Recent, Counted
  <2> QED BY <2>1, <2>2, SameLetters DEF Books, Accounted, TypeOK
<1>3. CaseHit(e)
  BY <1>2, ChannelHit
<1>4. stream[e] \in Queries
  BY EventTypes DEF Books, Accounted, TypeOK, IsQuery, Responses
<1> QED BY <1>3, <1>4, LevelOf

LEMMA DecideTracks ==
  ASSUME Decide, ~ AnswerAsQuery
  PROVE  \E level, saved :
           /\ Judge(Turn, level, saved)
           /\ \/ /\ ~ host.rf /\ IsQuery(Turn) /\ ~ IsCanary(stream[Turn])
                 /\ level = Level(Turn) /\ cases' = Tracked(Turn)
              \/ /\ cases' = cases
                 /\ \/ host.rf
                    \/ ~ IsQuery(Turn)
                    \/ IsCanary(stream[Turn]) /\ level = CONFIRMED
<1>1. PICK saved \in {"none", "query", "all"} :
        \/ host.rf /\ DecideRfOnly(Turn, saved)
        \/ DecideCanary(Turn, saved)
        \/ ~ host.rf /\ IsQuery(Turn) /\ DecideQuery(Turn, saved)
        \/ ~ IsQuery(Turn) /\ DecideResponse(Turn, saved)
  BY DEF Decide
<1>2. CASE host.rf /\ DecideRfOnly(Turn, saved)
  BY <1>2 DEF DecideRfOnly
<1>3. CASE DecideCanary(Turn, saved)
  BY <1>3 DEF DecideCanary
<1>4. CASE ~ host.rf /\ IsQuery(Turn) /\ DecideQuery(Turn, saved)
  BY <1>4 DEF DecideQuery
<1>5. CASE ~ IsQuery(Turn) /\ DecideResponse(Turn, saved)
  BY <1>5 DEF DecideResponse
<1> QED BY <1>1, <1>2, <1>3, <1>4, <1>5

LEMMA DecideSees ==
  ASSUME Books, InTurn, Remembered, CaseChannelSeen, Decide
  PROVE  Remembered' /\ CaseChannelSeen'
<1>0. UNCHANGED <<now, host, taken, size, processed, muted>> /\ stream' = stream
  BY DEF Decide, stream
<1>1. CASE AnswerAsQuery
  BY <1>0, <1>1 DEF AnswerAsQuery, Remembered, Sound, Recent, Counted, Recalled, Holds,
       CaseChannelSeen, SameName, IsQuery, IsCanary, Wired
<1>2. CASE ~ AnswerAsQuery
  <2> DEFINE e == Turn
             m == Len(judged) + 1
  <2>1. PICK level, saved :
           /\ Judge(e, level, saved)
           /\ \/ /\ ~ host.rf /\ IsQuery(e) /\ ~ IsCanary(stream[e])
                 /\ level = Level(e) /\ cases' = Tracked(e)
              \/ /\ cases' = cases
                 /\ \/ host.rf
                    \/ ~ IsQuery(e)
                    \/ IsCanary(stream[e]) /\ level = CONFIRMED
    BY <1>2, DecideTracks
  <2> DEFINE v == [event |-> e, level |-> level, at |-> now, saved |-> saved,
                   quiet |-> IsQuery(e) /\ stream[e].name \in muted]
  <2>2. judged' = Append(judged, v) /\ v.event = e /\ v.at = now /\ v.level = level
    BY <2>1 DEF Judge
  <2>3. IsQuery(e) /\ stream[e].name \in muted => v.quiet
    BY Zenon
  <2>4. e \in DOMAIN stream
    <3>1. e \in 1 .. taken
      BY BooksTypes, TurnOf DEF Decide
    <3> QED BY <3>1, EventTypes DEF Books, Accounted, TypeOK
  <2> HIDE DEF v, e
  <2>5. /\ DOMAIN judged' = DOMAIN judged \cup {m} /\ judged'[m] = v
        /\ \A n \in DOMAIN judged : judged'[n] = judged[n]
    BY <2>2, BooksTypes, AppendKeeps
  <2>6. m \in Nat /\ DOMAIN judged = 1 .. Len(judged)
    BY BooksTypes
  <2>7. ASSUME NEW k \in DOMAIN judged
        PROVE  Recent(k)' <=> Recent(k)
    BY <1>0, <2>5 DEF Recent, Counted, IsQuery, IsCanary, Wired
  <2>8. Remembered'
    <3>1. \A k \in DOMAIN judged' : judged'[k].at <= now'
      BY <1>0, <2>2, <2>5, ClockTypes DEF Remembered
    <3>2. CASE cases' = cases
      <4>1. \A d \in DOMAIN cases' : Sound(cases[d])'
        BY <1>0, <3>2 DEF Remembered, Sound
      <4>2. ASSUME ~ host.rf, NEW k \in DOMAIN judged', Recent(k)'
            PROVE  Recalled(k)'
        <5>1. CASE k \in DOMAIN judged
          <6>1. Recalled(k)
            BY <2>7, <4>2, <5>1 DEF Remembered
          <6> QED BY <1>0, <2>5, <3>2, <5>1, <6>1 DEF Recalled, Holds
        <5>2. CASE k = m
          <6>1. IsQuery(e) /\ ~ IsCanary(stream[e])
            BY <1>0, <2>2, <2>5, <4>2, <5>2 DEF Recent, Counted, IsQuery, IsCanary, Wired
          <6>2. cases' = Tracked(e)
            BY <2>1, <4>2, <6>1
          <6>3. stream[e].case # 0
            BY <1>0, <2>2, <2>5, <4>2, <5>2 DEF Recent, Counted
          <6>4. stream[e].name \in DOMAIN cases' /\ cases'[stream[e].name] = Entry(e)
            BY <4>2, <6>2, <6>3, TrackedOf
          <6> QED BY <1>0, <2>2, <2>5, <4>2, <5>2, <6>4, EntryOf, ClockTypes DEF Recalled, Holds
        <5> QED BY <2>5, <4>2, <5>1, <5>2
      <4> QED BY <1>0, <3>1, <4>1, <4>2 DEF Remembered
    <3>3. CASE cases' = Tracked(e) /\ ~ host.rf
      <4>1. \A d \in DOMAIN cases' : Sound(cases[d])'
        BY <1>0, <3>3, TrackedOf DEF Sound
      <4>2. ASSUME NEW k \in DOMAIN judged', Recent(k)'
            PROVE  Recalled(k)'
        <5>1. CASE k \in DOMAIN judged
          BY <1>0, <2>5, <2>7, <3>3, <4>2, <5>1, TrackedOf DEF Recalled, Holds
        <5>2. CASE k = m
          <6>1. stream[e].case # 0
            BY <1>0, <2>2, <2>5, <4>2, <5>2 DEF Recent, Counted
          <6>2. stream[e].name \in DOMAIN cases' /\ cases'[stream[e].name] = Entry(e)
            BY <3>3, <6>1, TrackedOf
          <6> QED BY <1>0, <2>2, <2>5, <3>3, <5>2, <6>2, EntryOf, ClockTypes DEF Recalled, Holds
        <5> QED BY <2>5, <4>2, <5>1, <5>2
      <4> QED BY <1>0, <3>1, <4>1, <4>2 DEF Remembered
    <3> QED BY <2>1, <3>2, <3>3
  <2>9. CaseChannelSeen'
    <3> DEFINE Patterns(n) == {stream[judged[k].event].case : k \in {j \in 1 .. n : SameName(j, n)}}
               Shown(n) == {stream[judged'[k].event].case : k \in {j \in 1 .. n : SameName(j, n)'}}
    <3> SUFFICES ASSUME NEW n \in DOMAIN judged', ~ host.rf, IsQuery(judged'[n].event),
                        Cardinality(Shown(n)) >= CaseMin, ~ judged'[n].quiet
                 PROVE  judged'[n].level >= MEDIUM
      BY <1>0 DEF CaseChannelSeen, IsQuery
    <3>1. CASE n \in DOMAIN judged
      <4>1. judged'[n] = judged[n] /\ \A j \in 1 .. n : j \in DOMAIN judged /\ judged'[j] = judged[j]
        BY <2>5, <2>6, <3>1
      <4>2. \A j \in 1 .. n : SameName(j, n)' <=> SameName(j, n)
        BY <1>0, <4>1 DEF SameName, IsQuery, IsCanary, Wired
      <4>3. Shown(n) = Patterns(n)
        BY <4>1, <4>2
      <4>4. Cardinality(Patterns(n)) >= CaseMin
        BY <4>3
      <4> QED BY <3>1, <4>1, <4>4 DEF CaseChannelSeen
    <3>2. CASE n = m
      <4>1. judged'[n] = v /\ judged'[n].event = e /\ judged'[n].at = now /\ judged'[n].level = level
        BY <2>2, <2>5, <3>2
      <4>2. IsQuery(e)
        BY <4>1
      <4>3. stream[e].name \notin muted
        <5>1. ~ v.quiet
          BY <4>1
        <5> QED BY <2>3, <4>2, <5>1
      <4>4. CASE IsCanary(stream[e]) /\ level = CONFIRMED
        BY <4>1, <4>4 DEF CONFIRMED, MEDIUM
      <4>5. CASE level = Level(e)
        <5>1. ASSUME NEW j \in 1 .. n, SameName(j, n)'
              PROVE  LET c == stream[judged'[j].event].case IN
                     \/ c = stream[e].case /\ stream[e].case # 0
                     \/ \E k \in DOMAIN judged : /\ Recent(k) /\ c = stream[judged[k].event].case
                                                 /\ stream[judged[k].event].name = stream[e].name
          <6>1. CASE j = m
            BY <1>0, <3>2, <4>1, <5>1, <6>1 DEF SameName
          <6>2. CASE j # m
            <7>1. j \in DOMAIN judged /\ judged'[j] = judged[j]
              BY <2>5, <2>6, <3>2, <6>2
            <7>2. Recent(j) /\ stream[judged[j].event].name = stream[e].name
              BY <1>0, <4>1, <5>1, <7>1 DEF SameName, Recent, Counted, IsQuery, IsCanary, Wired
            <7> QED BY <7>1, <7>2
          <6> QED BY <6>1, <6>2
        <5>2. Level(e) >= MEDIUM
          <6> DEFINE P == Shown(n)
          <6>1. \A c \in P :
                  \/ c = stream[e].case /\ stream[e].case # 0
                  \/ \E k \in DOMAIN judged : /\ Recent(k) /\ c = stream[judged[k].event].case
                                              /\ stream[judged[k].event].name = stream[e].name
            BY <5>1
          <6>2. Cardinality(P) >= CaseMin
            OBVIOUS
          <6> HIDE DEF P
          <6> QED BY <2>4, <4>2, <4>3, <6>1, <6>2, VerdictSees
        <5> QED BY <4>1, <4>5, <5>2
      <4> QED BY <2>1, <4>2, <4>4, <4>5
    <3> QED BY <2>5, <3>1, <3>2
  <2> QED BY <2>8, <2>9
<1> QED BY <1>1, <1>2

LEMMA SeesStep ==
  Books /\ InTurn /\ Remembered /\ CaseChannelSeen /\ [Next]_vars => Remembered' /\ CaseChannelSeen'
<1> SUFFICES ASSUME Books, InTurn, Remembered, CaseChannelSeen, [Next]_vars
             PROVE  Remembered' /\ CaseChannelSeen'
  OBVIOUS
<1>1. ASSUME UNCHANGED <<host, judged, cases>>, now' \in Nat, now <= now'
      PROVE  Remembered' /\ CaseChannelSeen'
  <2>1. CaseChannelSeen'
    BY <1>1 DEF CaseChannelSeen, SameName, IsQuery, IsCanary, Wired, stream
  <2>2. \A d \in DOMAIN cases' : Sound(cases[d])'
    BY <1>1, ClockTypes DEF Remembered, Sound
  <2>3. \A k \in DOMAIN judged' : judged'[k].at <= now'
    BY <1>1, ClockTypes DEF Remembered
  <2>4. ASSUME ~ host'.rf, NEW k \in DOMAIN judged', Recent(k)'
        PROVE  Recalled(k)'
    <3>1. judged[k].at > now' - CaseWindow
      BY <1>1, <2>4 DEF Recent
    <3>2. judged[k].at > now - CaseWindow
      BY <1>1, <3>1, ClockTypes
    <3>3. Recent(k)
      BY <1>1, <2>4, <3>2 DEF Recent, Counted, IsQuery, IsCanary, Wired, stream
    <3>4. Recalled(k)
      BY <1>1, <2>4, <3>3 DEF Remembered
    <3> QED BY <1>1, <3>4 DEF Recalled, Holds, stream
  <2> QED BY <2>1, <2>2, <2>3, <2>4 DEF Remembered
<1>2. CASE Tick
  <2>1. UNCHANGED <<host, judged, cases>> /\ now' = now + 1
    BY <1>2 DEF Tick, outcome
  <2> QED BY <1>1, <2>1, ClockTypes
<1>3. CASE Capture \/ Take \/ Breaks \/ Count \/ \E d \in Mutable : ToggleMute(d)
  <2>1. UNCHANGED <<now, host, judged, cases>>
    BY <1>3 DEF Capture, Take, Breaks, Count, ToggleMute, outcome
  <2> QED BY <1>1, <2>1, ClockTypes
<1>4. CASE UNCHANGED vars
  <2>1. UNCHANGED <<now, host, judged, cases>>
    BY <1>4 DEF vars, outcome
  <2> QED BY <1>1, <2>1, ClockTypes
<1> QED BY <1>2, <1>3, <1>4, DecideSees DEF Next, Work

(* A channel in the letter cases of a name is at least MEDIUM, whichever   *)
(* names came between and whatever the purges dropped; a failed write does *)
(* not take its query out of the window.                                   *)
THEOREM CaseChannelsAreSeen == Spec => []CaseChannelSeen
<1>1. Init => Remembered /\ CaseChannelSeen
  <2>1. Init => DOMAIN cases = {} /\ DOMAIN judged = {}
    BY DEF Init
  <2> QED BY <2>1 DEF Remembered, CaseChannelSeen
<1> QED BY BooksInit, BooksStep, SeesStep, <1>1, PTL DEF Spec

=============================================================================
