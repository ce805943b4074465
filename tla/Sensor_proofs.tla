--------------------------- MODULE Sensor_proofs ---------------------------
(* Proofs about Sensor: its types with the bound on the filter's map, that *)
(* the filter loses no question, and lets no message through twice but for *)
(* a flood or a stamp that was moved, both for any lag of the threads; and *)
(* that what a row says of its process is not older than the caches allow. *)
EXTENDS Sensor, FiniteSetTheorems, FunctionTheorems, WellFoundedInduction, TLAPS

Steps == {"probe", "store", "filter"}
Held == {Idle} \cup [step : Steps, event : Events]

LEMMA ConstantTypes ==
  /\ {MaxSockets, Jitter, Lag, Retry, MaxTime, Window, MaxKeys} \subseteq Nat
  /\ MaxKeys > 0 /\ Window + Jitter < Retry
  /\ Copies \in [Ids -> Nat \ {0}]
  /\ Packet \in [Ids -> [form : {"query", "response", "junk"}, key : STRING, port : Ports \cup {0}]]
BY SensorAssumption

-----------------------------------------------------------------------------
(* The map of the filter.                                                  *)

(* The oldest of the entries is one of them, and older than the others.    *)
LEMMA OldestIsOne ==
  ASSUME NEW S \in SUBSET Nat, S # {}
  PROVE  /\ (CHOOSE n \in S : \A k \in S : n <= k) \in S
         /\ \A k \in S : (CHOOSE n \in S : \A m \in S : n <= m) <= k
<1> DEFINE Less == {pair \in Nat \X Nat : pair[1] < pair[2]}
<1>1. IsWellFoundedOn(Less, Nat)
  BY NatLessThanWellFounded DEF OpToRel
<1>2. PICK n \in S : \A k \in S : ~ (<<k, n>> \in Less)
  BY <1>1, WFMin
<1>3. \A k \in S : n <= k
  <2> TAKE k \in S
  <2>1. n \in Nat /\ k \in Nat
    OBVIOUS
  <2>2. <<k, n>> \in Nat \X Nat /\ ~ (k < n)
    BY <1>2, <2>1
  <2> QED BY <2>1, <2>2
<1> QED BY <1>3

(* An admission keeps one entry for a key and stays within the cap.        *)
LEMMA AdmittedBounded ==
  ASSUME TypeOK, NEW e \in Events
  PROVE  /\ Admitted(e) \subseteq recent \cup {Len(rows) + 1}
         /\ Cardinality(Admitted(e)) <= MaxKeys
         /\ \A n \in Admitted(e) : n # Len(rows) + 1 => rows[n].key # e.key
<1> DEFINE others == {n \in recent : rows[n].key # e.key}
           entries == others \cup {Len(rows) + 1}
           oldest == CHOOSE n \in entries : \A k \in entries : n <= k
<1>1. /\ recent \subseteq 1 .. Len(rows) /\ Cardinality(recent) <= MaxKeys
      /\ Len(rows) \in Nat /\ MaxKeys \in Nat
  BY ConstantTypes DEF TypeOK
<1>2. IsFiniteSet(recent)
  <2>1. IsFiniteSet(1 .. Len(rows))
    BY <1>1, FS_Interval
  <2> QED BY <1>1, <2>1, FS_Subset
<1>3. IsFiniteSet(others) /\ Cardinality(others) <= Cardinality(recent)
  BY <1>2, FS_Subset
<1>4. IsFiniteSet(entries) /\ Cardinality(entries) <= Cardinality(others) + 1
  <2>1. /\ IsFiniteSet(others \cup {Len(rows) + 1})
        /\ Cardinality(others \cup {Len(rows) + 1})
             = IF Len(rows) + 1 \in others THEN Cardinality(others) ELSE Cardinality(others) + 1
    BY <1>3, FS_AddElement
  <2>2. Cardinality(others) \in Nat
    BY <1>3, FS_CardinalityType
  <2> QED BY <2>1, <2>2
<1>5. /\ Cardinality(recent) \in Nat /\ Cardinality(others) \in Nat /\ Cardinality(entries) \in Nat
  BY <1>2, <1>3, <1>4, FS_CardinalityType
<1>6. entries \in SUBSET Nat /\ entries # {}
  <2>1. recent \subseteq Nat /\ Len(rows) + 1 \in Nat
    BY <1>1
  <2> QED BY <2>1
<1>7. oldest \in entries
  BY <1>6, OldestIsOne
<1>8. Cardinality(entries \ {oldest}) = Cardinality(entries) - 1
  BY <1>4, <1>7, FS_RemoveElement
<1>9. Admitted(e) = IF Cardinality(entries) > MaxKeys THEN entries \ {oldest} ELSE entries
  BY DEF Admitted
<1>10. Cardinality(Admitted(e)) <= MaxKeys
  BY <1>1, <1>3, <1>4, <1>5, <1>8, <1>9
<1> QED BY <1>9, <1>10

-----------------------------------------------------------------------------
(* The types. A thread that probes or stores has a port of this host, and  *)
(* the table of ports holds sockets.                                       *)
Shape ==
  /\ TypeOK
  /\ copies \in [Ids -> Nat] /\ \A m \in Ids : sent[m] = -1 => copies[m] = 0
  /\ \A p \in DOMAIN table.map : table.map[p] \in Sockets
  /\ \A i \in Ifaces : hand[i].step \in {"probe", "store"} => Packet[hand[i].event.id].port \in Ports

LEMMA InitShape == Init => Shape
<1> SUFFICES ASSUME Init PROVE Shape
  OBVIOUS
<1> USE ConstantTypes DEF Init
<1>1. now \in 0 .. MaxTime /\ sent \in [Ids -> -1 .. MaxTime] /\ copies \in [Ids -> Nat]
      /\ \A m \in Ids : copies[m] \in 0 .. Copies[m]
  OBVIOUS
<1>2. backlog \in [Ifaces -> Seq(Frames)]
  OBVIOUS
<1>3. hand \in [Ifaces -> Held] /\ \A i \in Ifaces : hand[i].step = "idle"
  BY DEF Idle, Held
<1>4. /\ rows \in Seq(Events) /\ recent = {} /\ Cardinality(recent) = 0 /\ dropped = {}
  BY FS_EmptySet
<1>5. /\ sock \in [Ports -> 0 .. opened] /\ opened \in 0 .. MaxSockets
      /\ closed \in [Sockets -> 0 .. MaxTime]
  OBVIOUS
<1>6. DOMAIN results = {} /\ results \in [DOMAIN results -> [at : 0 .. MaxTime, process : 0 .. MaxSockets]]
  OBVIOUS
<1>7. \A p \in DOMAIN table.map : table.map[p] \in Sockets
  OBVIOUS
<1> QED BY <1>1, <1>2, <1>3, <1>4, <1>5, <1>6, <1>7 DEF Shape, TypeOK, Held, Steps

(* What each handler leaves of the types.                                  *)
LEMMA EventType ==
  ASSUME TypeOK, NEW frame \in Frames, Parses(frame)
  PROVE  Event(frame) \in Events
<1>1. Packet[frame.id].form \in {"query", "response"} /\ Packet[frame.id].key \in STRING
  BY ConstantTypes DEF Parses, Frames
<1> QED BY <1>1, ConstantTypes DEF Event, Events, Frames, TypeOK

LEMMA ClassifyShape ==
  ASSUME Shape, NEW i \in Ifaces, Classify(i)
  PROVE  /\ hand' \in [Ifaces -> Held] /\ backlog' \in [Ifaces -> Seq(Frames)]
         /\ \A j \in Ifaces : hand'[j].step \in {"probe", "store"}
                                => Packet[hand'[j].event.id].port \in Ports
<1> DEFINE frame == Head(backlog[i])
           p == Packet[frame.id].port
           plain == [step |-> "filter", event |-> Event(frame)]
           cached == [step |-> "filter", event |-> [Event(frame) EXCEPT !.process = results[p].process]]
           asking == [step |-> "probe", event |-> Event(frame)]
<1>1. /\ hand \in [Ifaces -> Held] /\ backlog \in [Ifaces -> Seq(Frames)] /\ backlog[i] # <<>>
      /\ \A j \in Ifaces : hand[j].step \in {"probe", "store"} => Packet[hand[j].event.id].port \in Ports
  BY DEF Shape, TypeOK, Held, Steps, Classify
<1>2. frame \in Frames /\ Tail(backlog[i]) \in Seq(Frames)
  BY <1>1
<1>3. /\ hand' = [hand EXCEPT ![i] = hand'[i]]
      /\ hand'[i] \in {Idle} \cup (IF Parses(frame) THEN
           {plain} \cup (IF Attributed(frame) THEN {asking} \cup (IF Hit(p) THEN {cached} ELSE {}) ELSE {})
         ELSE {})
  BY <1>1 DEF Classify
<1>4. Parses(frame) => plain \in Held /\ asking \in Held
  BY <1>2, EventType DEF Held, Steps, Shape
<1>5. Parses(frame) /\ Hit(p) => cached \in Held
  <2>1. Hit(p) => results[p].process \in 0 .. MaxSockets
    BY DEF Hit, Shape, TypeOK
  <2> QED BY <1>2, <2>1, EventType DEF Held, Steps, Shape, Events
<1>6. Attributed(frame) => asking.event.id = frame.id /\ p \in Ports
  BY <1>2, ConstantTypes DEF Attributed, Frames, Event
<1>7. hand' \in [Ifaces -> Held]
  BY <1>1, <1>3, <1>4, <1>5 DEF Held
<1>8. backlog' \in [Ifaces -> Seq(Frames)]
  BY <1>1, <1>2 DEF Classify
<1>9. ASSUME NEW j \in Ifaces, hand'[j].step \in {"probe", "store"}
      PROVE  Packet[hand'[j].event.id].port \in Ports
  <2>1. CASE j # i
    BY <1>1, <1>3, <1>9, <2>1
  <2>2. CASE j = i
    <3>1. hand'[i] = asking /\ Attributed(frame)
      BY <1>3, <1>9, <2>2 DEF Idle
    <3> QED BY <1>6, <2>2, <3>1
  <2> QED BY <2>1, <2>2
<1> QED BY <1>7, <1>8, <1>9

(* A callback past its first step holds an event.                          *)
LEMMA HeldEvent ==
  ASSUME NEW h \in Held, h.step # "idle" PROVE h \in [step : Steps, event : Events] /\ h # Idle
<1>1. Idle.step = "idle"
  BY DEF Idle
<1>2. h # Idle
  BY <1>1
<1> QED BY <1>2 DEF Held

LEMMA ProbeShape ==
  ASSUME Shape, NEW i \in Ifaces, Probe(i)
  PROVE  /\ hand' \in [Ifaces -> Held]
         /\ \A q \in DOMAIN table'.map : table'.map[q] \in Sockets
         /\ \A j \in Ifaces : hand'[j].step \in {"probe", "store"}
                                => Packet[hand'[j].event.id].port \in Ports
<1> DEFINE p == Packet[hand[i].event.id].port
           found == IF p \in DOMAIN Refreshed(p).map THEN Refreshed(p).map[p] ELSE 0
           owner == IF found \in owners \cup Holder(found) THEN found ELSE 0
<1>1. \A q \in DOMAIN Reading.map : Reading.map[q] \in Sockets
  BY ConstantTypes DEF Reading, Shape, TypeOK, Sockets
<1>2. \A q \in DOMAIN Refreshed(p).map : Refreshed(p).map[q] \in Sockets
  BY <1>1 DEF Refreshed, Shape
<1>3. owner \in 0 .. MaxSockets
  <2>1. found \in Sockets \cup {0}
    BY <1>2
  <2>2. Sockets \cup {0} \subseteq 0 .. MaxSockets
    BY ConstantTypes DEF Sockets
  <2>3. 0 \in 0 .. MaxSockets
    BY ConstantTypes
  <2> HIDE DEF found
  <2> QED BY <2>1, <2>2, <2>3
<1>4. hand \in [Ifaces -> Held] /\ hand[i].step = "probe"
      /\ hand' = [hand EXCEPT ![i].step = "store", ![i].event.process = owner]
  BY DEF Shape, TypeOK, Held, Steps, Probe
<1>5. hand[i] \in [step : Steps, event : Events]
  <2>1. hand[i] \in Held /\ hand[i].step # "idle"
    BY <1>4
  <2> QED BY <2>1, HeldEvent
<1>6. hand'[i] \in [step : Steps, event : Events] /\ hand'[i].event.id = hand[i].event.id
  BY <1>3, <1>4, <1>5 DEF Steps, Events
<1>7. \A j \in Ifaces : j # i => hand'[j] = hand[j]
  BY <1>4
<1>8. hand' \in [Ifaces -> Held]
  BY <1>4, <1>6, <1>7 DEF Held
<1>9. \A j \in Ifaces : hand'[j].step \in {"probe", "store"} => Packet[hand'[j].event.id].port \in Ports
  BY <1>4, <1>6, <1>7 DEF Shape
<1>10. \A q \in DOMAIN table'.map : table'.map[q] \in Sockets
  BY <1>2 DEF Probe
<1> QED BY <1>8, <1>9, <1>10

LEMMA FilterShape ==
  ASSUME Shape, NEW i \in Ifaces, Filter(i)
  PROVE  /\ rows' \in Seq(Events) /\ recent' \subseteq 1 .. Len(rows') /\ Cardinality(recent') <= MaxKeys
         /\ \A a, b \in recent' : rows'[a].key = rows'[b].key => a = b
         /\ dropped' \subseteq [id : Ids, key : {"query", "response"} \X STRING, ts : 0 .. MaxTime]
         /\ putting' \in [Ifaces -> Nat]
<1> DEFINE e == hand[i].event
<1>1. e \in Events
  BY DEF Filter, Shape, TypeOK, Idle
<1>2. /\ rows \in Seq(Events) /\ recent \subseteq 1 .. Len(rows) /\ Cardinality(recent) <= MaxKeys
      /\ \A a, b \in recent : rows[a].key = rows[b].key => a = b
      /\ dropped \subseteq [id : Ids, key : {"query", "response"} \X STRING, ts : 0 .. MaxTime]
      /\ putting \in [Ifaces -> Nat]
  BY DEF Shape, TypeOK
<1>3. CASE Echoes(e)
  <2>1. /\ UNCHANGED <<rows, recent, putting>>
        /\ dropped' = dropped \cup {[id |-> e.id, key |-> e.key, ts |-> e.ts]}
    BY <1>3 DEF Filter
  <2> QED BY <1>1, <1>2, <2>1 DEF Events
<1>4. CASE ~ Echoes(e)
  <2>1. /\ recent' = Admitted(e) /\ rows' = Append(rows, e) /\ dropped' = dropped
        /\ putting' = [putting EXCEPT ![i] = Len(rows) + 1]
    BY <1>4 DEF Filter
  <2>2. /\ Admitted(e) \subseteq recent \cup {Len(rows) + 1}
        /\ Cardinality(Admitted(e)) <= MaxKeys
        /\ \A n \in Admitted(e) : n # Len(rows) + 1 => rows[n].key # e.key
    BY <1>1, AdmittedBounded DEF Shape
  <2>3. /\ rows' \in Seq(Events) /\ Len(rows') = Len(rows) + 1
        /\ \A n \in 1 .. Len(rows) : rows'[n] = rows[n]
        /\ rows'[Len(rows) + 1] = e
    BY <1>1, <1>2, <2>1
  <2>4. recent' \subseteq 1 .. Len(rows')
    <3>1. Len(rows) \in Nat
      BY <1>2
    <3>2. \A n \in recent' : n \in 1 .. Len(rows) \/ n = Len(rows) + 1
      BY <1>2, <2>1, <2>2
    <3> QED BY <2>3, <3>1, <3>2
  <2>5. ASSUME NEW a \in recent', NEW b \in recent', rows'[a].key = rows'[b].key PROVE a = b
    <3>1. /\ a \in recent \/ a = Len(rows) + 1
          /\ b \in recent \/ b = Len(rows) + 1
      BY <2>1, <2>2
    <3>2. CASE a # Len(rows) + 1 /\ b # Len(rows) + 1
      BY <1>2, <2>3, <2>5, <3>1, <3>2
    <3>3. CASE a # Len(rows) + 1 /\ b = Len(rows) + 1
      BY <1>2, <2>1, <2>2, <2>3, <2>5, <3>1, <3>3
    <3>4. CASE a = Len(rows) + 1 /\ b # Len(rows) + 1
      BY <1>2, <2>1, <2>2, <2>3, <2>5, <3>1, <3>4
    <3> QED BY <3>2, <3>3, <3>4
  <2>6. putting' \in [Ifaces -> Nat]
    BY <1>2, <2>1
  <2> QED BY <1>2, <2>1, <2>2, <2>3, <2>4, <2>5, <2>6
<1> QED BY <1>3, <1>4

LEMMA NextShape == Shape /\ [Next]_vars => Shape'
<1> SUFFICES ASSUME Shape, [Next]_vars PROVE Shape'
  OBVIOUS
<1> USE ConstantTypes
<1>1. CASE Tick
  <2>1. now' \in 0 .. MaxTime
    BY <1>1 DEF Tick, Shape, TypeOK
  <2>2. UNCHANGED <<wire, backlog, hand, filter, output, system, caches>>
    BY <1>1 DEF Tick
  <2> QED BY <2>1, <2>2 DEF Shape, TypeOK, wire, filter, output, system, caches
<1>2. ASSUME NEW p \in Ports, Open(p) PROVE Shape'
  <2>1. /\ sock' \in [Ports -> 0 .. opened'] /\ opened' \in 0 .. MaxSockets
    BY <1>2 DEF Open, Shape, TypeOK
  <2> QED BY <1>2, <2>1 DEF Open, Shape, TypeOK, wire, filter, output, caches
<1>3. ASSUME NEW p \in Ports, Close(p) PROVE Shape'
  <2>1. sock[p] \in Sockets
    BY <1>3 DEF Close, Shape, TypeOK, Sockets
  <2>2. closed' \in [Sockets -> 0 .. MaxTime] /\ sock' \in [Ports -> 0 .. opened]
    BY <1>3, <2>1 DEF Close, Shape, TypeOK
  <2> QED BY <1>3, <2>2 DEF Close, Shape, TypeOK, wire, filter, output, caches
<1>4. ASSUME NEW m \in Ids, NEW i \in Ifaces, Deliver(m, i) PROVE Shape'
  <2>1. backlog' \in [Ifaces -> Seq(Frames)]
    <3>1. [id |-> m, ts |-> now] \in Frames
      BY DEF Frames, Shape, TypeOK
    <3>2. Append(backlog[i], [id |-> m, ts |-> now]) \in Seq(Frames)
      BY <3>1 DEF Shape, TypeOK
    <3> QED BY <1>4, <3>2 DEF Deliver, Shape, TypeOK
  <2>2. sent' \in [Ids -> -1 .. MaxTime] /\ \A k \in Ids : sent'[k] = -1 => k # m /\ sent[k] = -1
    <3>1. sent \in [Ids -> -1 .. MaxTime] /\ now \in 0 .. MaxTime
      BY DEF Shape, TypeOK
    <3>2. sent' = [sent EXCEPT ![m] = IF sent[m] = -1 THEN now ELSE sent[m]]
      BY <1>4 DEF Deliver
    <3>3. now \in -1 .. MaxTime /\ now # -1
      BY <3>1
    <3>4. sent'[m] \in -1 .. MaxTime /\ sent'[m] # -1 /\ \A k \in Ids : k # m => sent'[k] = sent[k]
      BY <3>1, <3>2, <3>3
    <3> QED BY <3>1, <3>2, <3>4
  <2>3. copies' \in [Ids -> Nat] /\ \A k \in Ids : copies'[k] = IF k = m THEN copies[k] + 1 ELSE copies[k]
    BY <1>4 DEF Deliver, Shape
  <2>4. copies[m] < Copies[m] /\ Copies[m] \in Nat
    BY <1>4 DEF Deliver, Shape
  <2>5. \A k \in Ids : copies'[k] \in 0 .. Copies[k]
    <3>1. \A k \in Ids : copies[k] \in 0 .. Copies[k] /\ Copies[k] \in Nat
      BY DEF Shape, TypeOK
    <3>2. copies[m] + 1 \in 0 .. Copies[m]
      BY <2>4, <3>1
    <3> QED BY <2>3, <3>1, <3>2
  <2>6. \A k \in Ids : sent'[k] = -1 => copies'[k] = 0
    BY <2>2, <2>3 DEF Shape
  <2> QED BY <1>4, <2>1, <2>2, <2>3, <2>5, <2>6 DEF Deliver, Shape, TypeOK, filter, output, system, caches
<1>5. ASSUME NEW i \in Ifaces, Classify(i) PROVE Shape'
  <2>1. UNCHANGED <<now, wire, filter, output, system, caches>>
    BY <1>5 DEF Classify
  <2> QED BY <1>5, <2>1, ClassifyShape DEF Shape, TypeOK, Held, Steps, wire, filter, output, system, caches
<1>6. ASSUME NEW i \in Ifaces, Probe(i) PROVE Shape'
  <2>1. UNCHANGED <<now, wire, backlog, filter, output, system, results>>
    BY <1>6 DEF Probe
  <2> QED BY <1>6, <2>1, ProbeShape DEF Shape, TypeOK, Held, Steps, wire, filter, output, system
<1>7. ASSUME NEW i \in Ifaces, Remember(i) PROVE Shape'
  <2> DEFINE e == hand[i].event
             p == Packet[e.id].port
  <2>1. hand[i] \in [step : Steps, event : Events] /\ p \in Ports
    BY <1>7 DEF Remember, Shape, TypeOK, Idle, Steps
  <2>2. /\ DOMAIN results' = DOMAIN results \cup {p}
        /\ results' = [q \in DOMAIN results \cup {p} |->
             IF q = p THEN [at |-> e.asked, process |-> e.process] ELSE results[q]]
    BY <1>7 DEF Remember
  <2>3. [at |-> e.asked, process |-> e.process] \in [at : 0 .. MaxTime, process : 0 .. MaxSockets]
    BY <2>1 DEF Events
  <2>4. DOMAIN results' \subseteq Ports
        /\ results' \in [DOMAIN results' -> [at : 0 .. MaxTime, process : 0 .. MaxSockets]]
    BY <2>1, <2>2, <2>3 DEF Shape, TypeOK
  <2>5. hand' = [hand EXCEPT ![i].step = "filter"]
    BY <1>7 DEF Remember
  <2>6. hand'[i] \in [step : Steps, event : Events] /\ hand'[i].step = "filter"
        /\ \A j \in Ifaces : j # i => hand'[j] = hand[j]
    BY <2>1, <2>5 DEF Steps, Shape, TypeOK
  <2>7. hand' \in [Ifaces -> Held]
    BY <2>5, <2>6 DEF Shape, TypeOK, Held, Steps
  <2>8. \A j \in Ifaces : hand'[j].step \in {"probe", "store"} => Packet[hand'[j].event.id].port \in Ports
    BY <2>6 DEF Shape
  <2>9. UNCHANGED <<now, wire, backlog, filter, output, system, table>>
    BY <1>7 DEF Remember
  <2> QED BY <2>4, <2>7, <2>8, <2>9 DEF Shape, TypeOK, Held, Steps, wire, filter, output, system
<1>8. ASSUME NEW i \in Ifaces, Filter(i) PROVE Shape'
  <2>1. hand' = [hand EXCEPT ![i] = Idle] /\ UNCHANGED <<now, wire, backlog, queue, system, caches>>
    BY <1>8 DEF Filter
  <2>2. hand' \in [Ifaces -> Held]
        /\ \A j \in Ifaces : hand'[j].step \in {"probe", "store"} => Packet[hand'[j].event.id].port \in Ports
    BY <2>1 DEF Shape, TypeOK, Held, Steps, Idle
  <2> QED BY <1>8, <2>1, <2>2, FilterShape DEF Shape, TypeOK, Held, Steps, wire, system, caches
<1>9. ASSUME NEW i \in Ifaces, Put(i) PROVE Shape'
  <2>1. putting' \in [Ifaces -> Nat] /\ queue' \in Seq(Nat)
    BY <1>9 DEF Put, Shape, TypeOK
  <2>2. UNCHANGED <<now, wire, backlog, hand, filter, system, caches>>
    BY <1>9 DEF Put
  <2> QED BY <2>1, <2>2 DEF Shape, TypeOK, wire, filter, system, caches
<1>10. CASE UNCHANGED vars
  BY <1>10 DEF vars, Shape, TypeOK, wire, filter, output, system, caches
<1> QED BY <1>1, <1>2, <1>3, <1>4, <1>5, <1>6, <1>7, <1>8, <1>9, <1>10 DEF Next

LEMMA ShapeCorrect == Spec => []Shape
BY InitShape, NextShape, PTL DEF Spec

(* Every variable keeps its type, and the map of the filter keeps one      *)
(* entry for a key and never more than its cap.                            *)
THEOREM TypeCorrect == Spec => []TypeOK
<1>1. Shape => TypeOK
  BY DEF Shape
<1> QED BY ShapeCorrect, <1>1, PTL

-----------------------------------------------------------------------------
(* A message is stamped when one of its copies arrives: not before it was  *)
(* sent, and at most Jitter later.  An event is labelled with the form and *)
(* key of its message.                                                     *)
Stamped(s, m, ts) == s[m] >= 0 /\ s[m] <= ts /\ ts <= s[m] + Jitter
Key(m) == <<Packet[m].form, Packet[m].key>>
Labelled(s, e) == Stamped(s, e.id, e.ts) /\ e.key = Key(e.id)

(* The same question comes again only after the back-off of its host.      *)
SpreadOut ==
  \A m, k \in Ids :
    m # k /\ sent[m] >= 0 /\ sent[k] >= 0 /\ Packet[m].form = "query" /\ Key(m) = Key(k)
      => Away(sent[m], sent[k]) >= Retry

InFlight ==
  /\ \A m \in Ids : sent[m] <= now
  /\ \A i \in Ifaces : \A k \in DOMAIN backlog[i] : Stamped(sent, backlog[i][k].id, backlog[i][k].ts)
  /\ \A i \in Ifaces : hand[i] # Idle => Labelled(sent, hand[i].event)
  /\ \A n \in DOMAIN rows : Labelled(sent, rows[n])

(* A row is on the queue, or in the hands of the thread that admitted it,  *)
(* which takes no further packet before.                                   *)
Delivered ==
  /\ \A i \in Ifaces : hand[i] # Idle => putting[i] = 0
  /\ \A n \in DOMAIN rows : OnItsWay(n)

Flight == Shape /\ SpreadOut /\ InFlight /\ Delivered /\ QuestionsAreKept

LEMMA FlightInit == Init => Flight
BY InitShape DEF Init, Flight, SpreadOut, InFlight, Delivered, QuestionsAreKept, Handled, Shape, TypeOK

(* An event with the key of a question, stamped within the window of       *)
(* another, belongs to the same question.                                  *)
LEMMA SameQuestion ==
  ASSUME Shape, SpreadOut, NEW a \in Events, NEW b \in Events, Labelled(sent, a), Labelled(sent, b),
         a.key = b.key, Packet[b.id].form = "query", Away(a.ts, b.ts) <= Window
  PROVE  a.id = b.id
<1>1. a.id \in Ids /\ b.id \in Ids /\ a.ts \in Nat /\ b.ts \in Nat
  BY ConstantTypes DEF Events
<1>2. sent[a.id] \in Int /\ sent[b.id] \in Int
  <2>1. sent \in [Ids -> -1 .. MaxTime] /\ -1 .. MaxTime \subseteq Int
    BY ConstantTypes DEF Shape, TypeOK
  <2> QED BY <1>1, <2>1
<1>3. Key(a.id) = Key(b.id) /\ Stamped(sent, a.id, a.ts) /\ Stamped(sent, b.id, b.ts)
  BY DEF Labelled
<1>4. Away(sent[b.id], sent[a.id]) <= Window + Jitter
  BY <1>1, <1>2, <1>3, ConstantTypes DEF Stamped, Away
<1>5. Away(sent[b.id], sent[a.id]) \in Int
  BY <1>2 DEF Away
<1>6. a.id # b.id => Away(sent[b.id], sent[a.id]) >= Retry
  BY <1>1, <1>3 DEF SpreadOut, Stamped
<1> QED BY <1>4, <1>5, <1>6, ConstantTypes

LEMMA DeliverFlight ==
  ASSUME Flight, NEW m \in Ids, NEW i \in Ifaces, Deliver(m, i)
  PROVE  SpreadOut' /\ InFlight'
<1>0. /\ sent \in [Ids -> -1 .. MaxTime] /\ now \in Nat /\ MaxTime \in Nat
      /\ backlog \in [Ifaces -> Seq(Frames)] /\ hand \in [Ifaces -> Held] /\ rows \in Seq(Events)
      /\ Jitter \in Nat /\ Retry \in Nat
  <2>1. TypeOK /\ MaxTime \in Nat /\ Jitter \in Nat /\ Retry \in Nat
    BY ConstantTypes DEF Flight, Shape
  <2> QED BY <2>1 DEF TypeOK, Held, Steps
<1>1. /\ sent' = [sent EXCEPT ![m] = IF sent[m] = -1 THEN now ELSE sent[m]]
      /\ backlog' = [backlog EXCEPT ![i] = Append(backlog[i], [id |-> m, ts |-> now])]
      /\ UNCHANGED <<now, hand, rows>>
  BY DEF Deliver, filter
<1>2. \A k \in Ids : sent[k] >= 0 => sent'[k] = sent[k]
  BY <1>0, <1>1
<1>3. \A k \in Ids, ts \in Nat : Stamped(sent, k, ts) => Stamped(sent', k, ts)
  BY <1>2 DEF Stamped
<1>4. sent'[m] >= 0 /\ sent'[m] <= now /\ now <= sent'[m] + Jitter
  BY <1>0, <1>1 DEF Deliver, Flight, InFlight
<1>5. \A k \in Ids : k # m => sent'[k] = sent[k]
  BY <1>0, <1>1
<1>6. SpreadOut'
  <2> SUFFICES ASSUME NEW a \in Ids, NEW b \in Ids, a # b, sent'[a] >= 0, sent'[b] >= 0,
                      Packet[a].form = "query", Key(a) = Key(b)
               PROVE  Away(sent'[a], sent'[b]) >= Retry
    BY DEF SpreadOut, Key
  <2>1. CASE sent[m] # -1
    <3>1. sent'[a] = sent[a] /\ sent'[b] = sent[b]
      BY <1>0, <1>1, <2>1
    <3> QED BY <3>1 DEF Flight, SpreadOut
  <2>2. CASE sent[m] = -1 /\ a # m /\ b # m
    <3>1. sent'[a] = sent[a] /\ sent'[b] = sent[b]
      BY <1>5, <2>2
    <3> QED BY <3>1 DEF Flight, SpreadOut
  <2>3. ASSUME sent[m] = -1, NEW k \in Ids, k # m, sent'[k] >= 0,
               Packet[m].form = "query", Key(m) = Key(k)
        PROVE  Away(sent'[m], sent'[k]) >= Retry /\ Away(sent'[k], sent'[m]) >= Retry
    <3>1. MaySend(m) /\ sent'[m] = now /\ sent'[k] = sent[k] /\ sent[k] <= now
      BY <1>0, <1>1, <1>5, <2>3 DEF Deliver, Flight, InFlight
    <3>2. Packet[k].form = "query" /\ Packet[k].key = Packet[m].key
      BY <2>3 DEF Key
    <3>3. now - sent[k] >= Retry
      BY <2>3, <3>1, <3>2 DEF MaySend
    <3>4. sent[k] \in Int
      BY <1>0
    <3> QED BY <1>0, <3>1, <3>3, <3>4 DEF Away
  <2>4. Packet[b].form = "query"
    BY DEF Key
  <2>5. CASE sent[m] = -1 /\ a = m
    BY <2>3, <2>5
  <2>6. CASE sent[m] = -1 /\ b = m
    BY <2>3, <2>4, <2>6
  <2> QED BY <2>1, <2>2, <2>5, <2>6
<1>7. \A k \in Ids : sent'[k] <= now'
  BY <1>0, <1>1, <1>4, <1>5 DEF Flight, InFlight
<1>8. ASSUME NEW j \in Ifaces, NEW k \in DOMAIN backlog'[j]
      PROVE  Stamped(sent', backlog'[j][k].id, backlog'[j][k].ts)
  <2>1. CASE j # i \/ k \in DOMAIN backlog[i]
    <3>1. k \in DOMAIN backlog[j] /\ backlog'[j][k] = backlog[j][k] /\ backlog[j][k] \in Frames
      BY <1>0, <1>1, <1>8, <2>1
    <3>2. backlog[j][k].id \in Ids /\ backlog[j][k].ts \in Nat
      BY <1>0, <3>1 DEF Frames
    <3>3. Stamped(sent, backlog[j][k].id, backlog[j][k].ts)
      BY <3>1 DEF Flight, InFlight
    <3> QED BY <1>3, <3>1, <3>2, <3>3
  <2>2. CASE j = i /\ k \notin DOMAIN backlog[i]
    <3>1. backlog'[j][k] = [id |-> m, ts |-> now]
      BY <1>0, <1>1, <1>8, <2>2
    <3> QED BY <1>4, <3>1 DEF Stamped
  <2> QED BY <2>1, <2>2
<1>9. ASSUME NEW j \in Ifaces, hand'[j] # Idle PROVE Labelled(sent', hand'[j].event)
  <2>1. hand[j] \in [step : Steps, event : Events] /\ hand' = hand
    BY <1>0, <1>1, <1>9 DEF Held
  <2>2. hand[j].event.id \in Ids /\ hand[j].event.ts \in Nat /\ Labelled(sent, hand[j].event)
    BY <1>0, <1>9, <2>1 DEF Events, Flight, InFlight
  <2> QED BY <1>3, <2>1, <2>2 DEF Labelled, Key
<1>10. ASSUME NEW n \in DOMAIN rows' PROVE Labelled(sent', rows'[n])
  <2>1. rows[n] \in Events /\ rows' = rows /\ n \in DOMAIN rows
    BY <1>0, <1>1, <1>10
  <2>2. rows[n].id \in Ids /\ rows[n].ts \in Nat /\ Labelled(sent, rows[n])
    BY <1>0, <2>1 DEF Events, Flight, InFlight
  <2> QED BY <1>3, <2>1, <2>2 DEF Labelled, Key
<1> QED BY <1>6, <1>7, <1>8, <1>9, <1>10 DEF InFlight

(* The callback never changes the identity, key or stamp of its event.     *)
LEMMA HandlerFlight ==
  ASSUME Flight, NEW i \in Ifaces, Classify(i) \/ Probe(i) \/ Remember(i)
  PROVE  InFlight'
<1>0. /\ backlog \in [Ifaces -> Seq(Frames)] /\ hand \in [Ifaces -> Held]
  BY DEF Flight, Shape, TypeOK, Held, Steps
<1>1. UNCHANGED <<now, sent, rows>>
  BY DEF Classify, Probe, Remember, wire, filter
<1>2. \A j \in Ifaces : j # i => hand'[j] = hand[j] /\ backlog'[j] = backlog[j]
  BY <1>0 DEF Classify, Probe, Remember
<1>3. ASSUME Classify(i)
      PROVE  /\ \A k \in DOMAIN backlog'[i] : Stamped(sent, backlog'[i][k].id, backlog'[i][k].ts)
             /\ hand'[i] # Idle => Labelled(sent, hand'[i].event)
  <2> DEFINE frame == Head(backlog[i])
             p == Packet[frame.id].port
  <2>1. backlog[i] \in Seq(Frames) /\ backlog[i] # <<>> /\ backlog' = [backlog EXCEPT ![i] = Tail(backlog[i])]
    BY <1>0, <1>3 DEF Classify
  <2>2. Stamped(sent, frame.id, frame.ts) /\ frame \in Frames
    BY <2>1 DEF Flight, InFlight
  <2>3. \A k \in DOMAIN backlog'[i] : k + 1 \in DOMAIN backlog[i] /\ backlog'[i][k] = backlog[i][k + 1]
    BY <1>0, <2>1
  <2>4. \A x : Labelled(sent, Event(frame)) /\ Labelled(sent, [Event(frame) EXCEPT !.process = x])
    BY <2>2 DEF Event, Labelled, Key
  <2>5. hand'[i] # Idle =>
          hand'[i].event = Event(frame) \/ \E x : hand'[i].event = [Event(frame) EXCEPT !.process = x]
    <3>1. hand'[i] = IF ~ Parses(frame) THEN Idle
          ELSE IF Attributed(frame) /\ ~ Hit(p)
          THEN [step |-> "probe", event |-> Event(frame)]
          ELSE [step |-> "filter", event |->
                 IF Attributed(frame) THEN [Event(frame) EXCEPT !.process = results[p].process]
                                      ELSE Event(frame)]
      BY <1>0, <1>3 DEF Classify
    <3>2. hand'[i] # Idle => \/ hand'[i] = [step |-> "probe", event |-> Event(frame)]
                            \/ hand'[i] = [step |-> "filter", event |-> Event(frame)]
                            \/ hand'[i] = [step |-> "filter", event |->
                                           [Event(frame) EXCEPT !.process = results[p].process]]
      BY <3>1
    <3>3. hand'[i] # Idle => \/ hand'[i].event = Event(frame)
                            \/ hand'[i].event = [Event(frame) EXCEPT !.process = results[p].process]
      BY <3>2
    <3>4. hand'[i].event = [Event(frame) EXCEPT !.process = results[p].process]
            => \E x : hand'[i].event = [Event(frame) EXCEPT !.process = x]
      BY Zenon
    <3> QED BY <3>3, <3>4
  <2>6. ASSUME NEW k \in DOMAIN backlog'[i] PROVE Stamped(sent, backlog'[i][k].id, backlog'[i][k].ts)
    <3>1. k + 1 \in DOMAIN backlog[i] /\ backlog'[i][k] = backlog[i][k + 1]
      BY <2>3
    <3>2. Stamped(sent, backlog[i][k + 1].id, backlog[i][k + 1].ts)
      BY <3>1 DEF Flight, InFlight
    <3> QED BY <3>1, <3>2
  <2>7. hand'[i] # Idle => Labelled(sent, hand'[i].event)
    <3> HIDE DEF frame
    <3>1. SUFFICES ASSUME hand'[i] # Idle PROVE Labelled(sent, hand'[i].event)
      OBVIOUS
    <3>2. CASE hand'[i].event = Event(frame)
      BY <2>4, <3>2
    <3>3. CASE \E x : hand'[i].event = [Event(frame) EXCEPT !.process = x]
      <4>1. PICK x : hand'[i].event = [Event(frame) EXCEPT !.process = x]
        BY <3>3
      <4>2. Labelled(sent, [Event(frame) EXCEPT !.process = x])
        BY <2>4
      <4> QED BY <4>1, <4>2
    <3> QED BY <2>5, <3>1, <3>2, <3>3
  <2> QED BY <2>6, <2>7
<1>4. ASSUME Probe(i) \/ Remember(i)
      PROVE  /\ backlog'[i] = backlog[i]
             /\ Labelled(sent, hand'[i].event)
  <2>1. hand[i].step # "idle" /\ hand[i] # Idle /\ hand[i] \in [step : Steps, event : Events]
    <3>1. hand[i] \in Held
      BY <1>0
    <3>2. hand[i].step = "probe" \/ hand[i].step = "store"
      BY <1>4 DEF Probe, Remember
    <3>3. hand[i].step # "idle"
      BY <3>2
    <3> QED BY <3>1, <3>3, HeldEvent
  <2>2. \E x : hand' = [hand EXCEPT ![i].step = "store", ![i].event.process = x]
               \/ hand' = [hand EXCEPT ![i].step = "filter"]
    BY <1>4 DEF Probe, Remember
  <2>3. /\ hand'[i].event.id = hand[i].event.id /\ hand'[i].event.ts = hand[i].event.ts
        /\ hand'[i].event.key = hand[i].event.key
    <3>1. CASE hand' = [hand EXCEPT ![i].step = "filter"]
      BY <1>0, <2>1, <3>1
    <3>2. ASSUME NEW x, hand' = [hand EXCEPT ![i].step = "store", ![i].event.process = x]
          PROVE  /\ hand'[i].event.id = hand[i].event.id /\ hand'[i].event.ts = hand[i].event.ts
                 /\ hand'[i].event.key = hand[i].event.key
      <4>1. hand'[i].event = [hand[i].event EXCEPT !.process = x]
        BY <1>0, <2>1, <3>2
      <4> QED BY <2>1, <4>1 DEF Events
    <3> QED BY <2>2, <3>1, <3>2
  <2>4. Labelled(sent, hand[i].event)
    BY <2>1 DEF Flight, InFlight
  <2> QED BY <1>4, <2>3, <2>4 DEF Labelled, Probe, Remember
<1>5. \A j \in Ifaces : \A k \in DOMAIN backlog'[j] : Stamped(sent, backlog'[j][k].id, backlog'[j][k].ts)
  BY <1>2, <1>3, <1>4 DEF Flight, InFlight
<1>6. \A j \in Ifaces : hand'[j] # Idle => Labelled(sent, hand'[j].event)
  BY <1>2, <1>3, <1>4 DEF Flight, InFlight
<1>7. sent' = sent
  BY <1>1
<1> QED BY <1>1, <1>5, <1>6, <1>7 DEF Flight, InFlight, Labelled, Key, Stamped

(* A row that is put is on the queue from then on.                         *)
LEMMA PutDelivered ==
  ASSUME Shape, Delivered, NEW i \in Ifaces, Put(i)
  PROVE  Delivered'
<1>1. /\ putting \in [Ifaces -> Nat] /\ queue \in Seq(Nat) /\ putting[i] \in Nat
      /\ putting' = [putting EXCEPT ![i] = 0] /\ queue' = Append(queue, putting[i])
      /\ UNCHANGED <<hand, rows>>
  BY DEF Put, Shape, TypeOK, filter
<1>2. \A j \in Ifaces : (j # i => putting'[j] = putting[j]) /\ (j = i => putting'[j] = 0)
  BY <1>1
<1>3. /\ Len(queue) + 1 \in DOMAIN queue' /\ queue'[Len(queue) + 1] = putting[i]
      /\ \A k \in DOMAIN queue : k \in DOMAIN queue' /\ queue'[k] = queue[k]
  BY <1>1
<1>4. \A n : OnItsWay(n) => OnItsWay(n)'
  BY <1>2, <1>3 DEF OnItsWay
<1> QED BY <1>1, <1>2, <1>4 DEF Delivered

(* A thread that admits a row has it in its hands.                         *)
LEMMA FilterDelivered ==
  ASSUME Shape, Delivered, NEW i \in Ifaces, Filter(i)
  PROVE  Delivered'
<1>1. /\ hand \in [Ifaces -> Held] /\ hand[i].step # "idle" /\ rows \in Seq(Events)
      /\ putting \in [Ifaces -> Nat]
      /\ hand' = [hand EXCEPT ![i] = Idle] /\ queue' = queue
  BY DEF Filter, Shape, TypeOK, Held, Steps
<1>2. hand[i].event \in Events /\ putting[i] = 0
  BY <1>1, HeldEvent DEF Delivered
<1>3. \A j \in Ifaces : j # i => hand'[j] = hand[j] /\ putting'[j] = putting[j]
  BY <1>1 DEF Filter
<1>4. hand'[i] = Idle
  BY <1>1
<1>5. CASE UNCHANGED <<rows, putting>>
  BY <1>1, <1>3, <1>4, <1>5 DEF Delivered, OnItsWay
<1>6. CASE /\ rows' = Append(rows, hand[i].event)
           /\ putting' = [putting EXCEPT ![i] = Len(rows) + 1]
  <2>1. /\ putting'[i] = Len(rows) + 1
        /\ \A n \in DOMAIN rows' : n \in DOMAIN rows \/ n = Len(rows) + 1
        /\ \A n \in DOMAIN rows : n # 0
    BY <1>1, <1>2, <1>6
  <2>2. ASSUME NEW n \in DOMAIN rows PROVE OnItsWay(n)'
    BY <1>1, <1>2, <1>3, <2>1 DEF Delivered, OnItsWay
  <2>3. ASSUME NEW n, n = Len(rows) + 1 PROVE OnItsWay(n)'
    BY <2>1, <2>3 DEF OnItsWay
  <2>4. ASSUME NEW n \in DOMAIN rows' PROVE OnItsWay(n)'
    BY <2>1, <2>2, <2>3
  <2> QED BY <1>3, <1>4, <2>4 DEF Delivered
<1> QED BY <1>5, <1>6 DEF Filter

LEMMA DeliveredStep == Shape /\ Delivered /\ [Next]_vars => Delivered'
<1> SUFFICES ASSUME Shape, Delivered, [Next]_vars PROVE Delivered'
  OBVIOUS
<1>1. CASE UNCHANGED <<hand, rows, output>>
  BY <1>1 DEF Delivered, OnItsWay, output
<1>2. ASSUME NEW i \in Ifaces, Classify(i) \/ Probe(i) \/ Remember(i) PROVE Delivered'
  <2>1. UNCHANGED <<rows, putting, queue>>
    BY <1>2 DEF Classify, Probe, Remember, filter, output
  <2>2. putting[i] = 0
    <3>1. Idle.step = "idle"
      BY DEF Idle
    <3> QED BY <1>2, <3>1 DEF Classify, Probe, Remember, Delivered
  <2>3. \A j \in Ifaces : j # i => hand'[j] = hand[j]
    BY <1>2 DEF Classify, Probe, Remember, Shape, TypeOK
  <2> QED BY <2>1, <2>2, <2>3 DEF Delivered, OnItsWay
<1>3. Tick \/ UNCHANGED vars => UNCHANGED <<hand, rows, output>>
  BY DEF Tick, vars, filter
<1>4. ASSUME NEW p \in Ports, Open(p) \/ Close(p) PROVE UNCHANGED <<hand, rows, output>>
  BY <1>4 DEF Open, Close, filter
<1>5. ASSUME NEW m \in Ids, NEW i \in Ifaces, Deliver(m, i) PROVE UNCHANGED <<hand, rows, output>>
  BY <1>5 DEF Deliver, filter
<1> QED BY <1>1, <1>2, <1>3, <1>4, <1>5, FilterDelivered, PutDelivered DEF Next

LEMMA FilterFlight ==
  ASSUME Flight, Delivered', NEW i \in Ifaces, Filter(i)
  PROVE  InFlight' /\ QuestionsAreKept'
<1> DEFINE e == hand[i].event
<1>0. /\ backlog \in [Ifaces -> Seq(Frames)] /\ hand \in [Ifaces -> Held] /\ rows \in Seq(Events)
      /\ recent \subseteq DOMAIN rows
  BY DEF Flight, Shape, TypeOK, Held, Steps
<1>1. e \in Events /\ Labelled(sent, e)
  BY <1>0 DEF Filter, Held, Idle, Flight, InFlight
<1>2. /\ UNCHANGED <<now, sent, backlog>> /\ hand' = [hand EXCEPT ![i] = Idle]
      /\ \/ /\ Echoes(e) /\ rows' = rows
            /\ dropped' = dropped \cup {[id |-> e.id, key |-> e.key, ts |-> e.ts]}
         \/ rows' = Append(rows, e) /\ dropped' = dropped
  BY DEF Filter, wire
<1>3. /\ \A n \in DOMAIN rows : n \in DOMAIN rows' /\ rows'[n] = rows[n]
      /\ \A n \in DOMAIN rows' : n \in DOMAIN rows \/ rows'[n] = e
  <2>1. CASE rows' = rows
    BY <2>1
  <2>2. CASE rows' = Append(rows, e)
    <3> HIDE DEF e
    <3>1. /\ Len(rows) \in Nat /\ DOMAIN rows = 1 .. Len(rows)
          /\ DOMAIN rows' = 1 .. Len(rows) + 1 /\ rows'[Len(rows) + 1] = e
          /\ \A n \in 1 .. Len(rows) : rows'[n] = rows[n]
      BY <1>0, <1>1, <2>2
    <3> QED BY <3>1
  <2> QED BY <1>2, <2>1, <2>2
<1>4. InFlight'
  <2>1. \A j \in Ifaces : hand'[j] # Idle => hand[j] # Idle /\ hand'[j] = hand[j]
    BY <1>0, <1>2
  <2>2. sent' = sent
    BY <1>2
  <2>3. \A n \in DOMAIN rows' : Labelled(sent, rows'[n])
    BY <1>1, <1>3 DEF Flight, InFlight
  <2>4. \A j \in Ifaces : hand'[j] # Idle => Labelled(sent, hand'[j].event)
    BY <2>1 DEF Flight, InFlight
  <2> QED BY <1>2, <2>2, <2>3, <2>4 DEF Flight, InFlight, Labelled, Key, Stamped
<1>5. ASSUME NEW m \in Ids, Packet[m].form = "query", Handled(m)' PROVE Queued(m)'
  <2>1. CASE Handled(m)
    <3>1. Queued(m)
      BY <1>5, <2>1 DEF Flight, QuestionsAreKept
    <3> QED BY <1>3, <3>1 DEF Queued, Delivered
  <2>2. CASE ~ Handled(m)
    <3>1. Echoes(e) /\ rows' = rows /\ e.id = m
      BY <1>2, <1>5, <2>2 DEF Handled
    <3>2. PICK n \in recent : rows[n].key = e.key /\ Away(rows[n].ts, e.ts) <= Window
      BY <3>1 DEF Echoes
    <3>3. n \in DOMAIN rows /\ rows[n] \in Events /\ Labelled(sent, rows[n])
      BY <1>0, <3>2 DEF Flight, InFlight
    <3>4. rows[n].id = m
      BY <1>1, <1>5, <3>1, <3>2, <3>3, SameQuestion DEF Flight
    <3> QED BY <3>1, <3>3, <3>4 DEF Queued, Delivered
  <2> QED BY <2>1, <2>2
<1> QED BY <1>4, <1>5 DEF QuestionsAreKept

LEMMA FlightStep == Flight /\ [Next]_vars => Flight'
<1> SUFFICES ASSUME Flight, [Next]_vars PROVE SpreadOut' /\ InFlight' /\ QuestionsAreKept'
  BY NextShape, DeliveredStep DEF Flight
<1>0. Delivered'
  BY DeliveredStep DEF Flight
<1>1. UNCHANGED <<rows, dropped>> => QuestionsAreKept'
  BY <1>0 DEF Flight, QuestionsAreKept, Handled, Queued, Delivered
<1>2. UNCHANGED sent => SpreadOut'
  BY DEF Flight, SpreadOut, Key
<1>3. CASE UNCHANGED <<now, sent, rows, dropped, backlog, hand>>
  BY <1>1, <1>2, <1>3 DEF Flight, InFlight, Labelled, Stamped, Key
<1>4. CASE Tick
  <2>1. UNCHANGED <<sent, rows, dropped, backlog, hand>> /\ now' = now + 1
    BY <1>4 DEF Tick, wire, filter
  <2>2. \A m \in Ids : sent[m] <= now'
    BY <2>1, ConstantTypes DEF Flight, InFlight, Shape, TypeOK
  <2> QED BY <1>1, <1>2, <2>1, <2>2 DEF Flight, InFlight, Labelled, Stamped, Key
<1>5. ASSUME NEW p \in Ports, Open(p) \/ Close(p)
      PROVE  UNCHANGED <<now, sent, rows, dropped, backlog, hand>>
  BY <1>5 DEF Open, Close, wire, filter
<1>6. ASSUME NEW m \in Ids, NEW i \in Ifaces, Deliver(m, i)
      PROVE  SpreadOut' /\ InFlight' /\ QuestionsAreKept'
  BY <1>1, <1>6, DeliverFlight DEF Deliver, filter
<1>7. ASSUME NEW i \in Ifaces, Classify(i) \/ Probe(i) \/ Remember(i)
      PROVE  SpreadOut' /\ InFlight' /\ QuestionsAreKept'
  <2>1. UNCHANGED <<sent, rows, dropped>>
    BY <1>7 DEF Classify, Probe, Remember, wire, filter
  <2> QED BY <1>1, <1>2, <1>7, <2>1, HandlerFlight
<1>8. ASSUME NEW i \in Ifaces, Filter(i)
      PROVE  SpreadOut' /\ InFlight' /\ QuestionsAreKept'
  BY <1>0, <1>2, <1>8, FilterFlight DEF Filter, wire
<1>9. ASSUME NEW i \in Ifaces, Put(i)
      PROVE  UNCHANGED <<now, sent, rows, dropped, backlog, hand>>
  BY <1>9 DEF Put, wire, filter
<1>10. CASE UNCHANGED vars
  BY <1>3, <1>10 DEF vars, wire, filter
<1> QED BY <1>3, <1>4, <1>5, <1>6, <1>7, <1>8, <1>9, <1>10 DEF Next

(* A copy of a question is dropped only when that question is already on   *)
(* the queue or on its way there, for any number of interfaces and copies  *)
(* and however far a thread is behind.                                     *)
THEOREM QuestionsKept == Spec => []QuestionsAreKept
<1>1. Flight => QuestionsAreKept
  BY DEF Flight
<1> QED BY FlightInit, FlightStep, <1>1, PTL DEF Spec

-----------------------------------------------------------------------------
(* The keys of a stretch of the rows but one key, and how many there are.  *)
Keys(s, a, b, own) == {s[n].key : n \in a .. b} \ {own}

LEMMA KeysFinite ==
  ASSUME NEW s, NEW a \in Int, NEW b \in Int, NEW own
  PROVE  IsFiniteSet(Keys(s, a, b, own)) /\ Cardinality(Keys(s, a, b, own)) \in Nat
<1> DEFINE all == {s[n].key : n \in a .. b}
           f == [n \in a .. b |-> s[n].key]
<1>1. IsFiniteSet(a .. b)
  BY FS_Interval
<1>2. f \in Surjection(a .. b, all)
  BY Fun_IsSurj
<1>3. IsFiniteSet(all)
  BY <1>1, <1>2, FS_Surjection
<1>4. Keys(s, a, b, own) \subseteq all
  BY DEF Keys
<1>5. IsFiniteSet(Keys(s, a, b, own))
  BY <1>3, <1>4, FS_Subset
<1> QED BY <1>5, FS_CardinalityType

(* A longer stretch has no fewer keys.                                     *)
LEMMA KeysGrow ==
  ASSUME NEW s, NEW t, NEW own, NEW a \in Int, NEW b \in Int, NEW c \in Int, NEW d \in Int,
         c <= a, b <= d, \A n \in a .. b : t[n] = s[n]
  PROVE  Cardinality(Keys(s, a, b, own)) <= Cardinality(Keys(t, c, d, own))
<1>1. a .. b \subseteq c .. d
  OBVIOUS
<1>2. Keys(s, a, b, own) \subseteq Keys(t, c, d, own)
  BY <1>1 DEF Keys
<1> QED BY <1>2, KeysFinite, FS_Subset

(* Entries of different keys within a stretch are no more than its keys.   *)
LEMMA KeysCount ==
  ASSUME NEW s, NEW own, NEW a \in Int, NEW b \in Int, NEW S \in SUBSET (a .. b),
         \A m, n \in S : s[m].key = s[n].key => m = n, \A n \in S : s[n].key # own
  PROVE  Cardinality(S) <= Cardinality(Keys(s, a, b, own))
<1> DEFINE f == [n \in S |-> s[n].key]
<1>1. f \in Injection(S, Keys(s, a, b, own))
  <2>1. f \in [S -> Keys(s, a, b, own)]
    BY DEF Keys
  <2>2. \A m, n \in S : f[m] = f[n] => m = n
    OBVIOUS
  <2> QED BY <2>1, <2>2, Fun_IsInj
<1> QED BY <1>1, KeysFinite, FS_Injection

(* The map of the filter forgets a key when a flood of others has passed:  *)
(* of every row it holds the last admission of that key, or since the row  *)
(* as many other keys were admitted as the map has places.                 *)
Recalled ==
  \A a \in DOMAIN rows :
    \/ \E c \in recent : a <= c /\ rows[c].key = rows[a].key
    \/ Cardinality(Keys(rows, a + 1, Len(rows), rows[a].key)) >= MaxKeys

LEMMA AdmissionRecalled ==
  ASSUME Shape, Recalled, NEW e \in Events, rows' = Append(rows, e), recent' = Admitted(e)
  PROVE  Recalled'
<1> DEFINE last == Len(rows) + 1
           others == {n \in recent : rows[n].key # e.key}
           entries == others \cup {last}
           oldest == CHOOSE n \in entries : \A k \in entries : n <= k
<1>1. /\ rows \in Seq(Events) /\ Len(rows) \in Nat /\ MaxKeys \in Nat /\ MaxKeys > 0
      /\ recent \subseteq 1 .. Len(rows) /\ \A a, b \in recent : rows[a].key = rows[b].key => a = b
  BY ConstantTypes DEF Shape, TypeOK
<1>2. /\ DOMAIN rows = 1 .. Len(rows) /\ DOMAIN rows' = 1 .. last /\ Len(rows') = last /\ rows'[last] = e
      /\ \A n \in 1 .. Len(rows) : rows'[n] = rows[n]
  BY <1>1
<1>3. entries \in SUBSET Nat /\ entries # {} /\ entries \subseteq 1 .. last
  <2>1. recent \subseteq 1 .. last /\ last \in 1 .. last /\ 1 .. last \subseteq Nat
    BY <1>1
  <2> QED BY <2>1
<1>4. oldest \in entries /\ \A k \in entries : oldest <= k
  BY <1>3, OldestIsOne
<1>5. IsFiniteSet(entries) /\ Cardinality(entries) \in Nat
  <2>1. IsFiniteSet(1 .. last)
    BY <1>1, FS_Interval
  <2> QED BY <1>3, <2>1, FS_Subset, FS_CardinalityType
<1>6. recent' = IF Cardinality(entries) > MaxKeys THEN entries \ {oldest} ELSE entries
  BY DEF Admitted
<1>7. last \in recent'
  <2>1. CASE oldest = last
    <3>1. others = {}
      <4> SUFFICES ASSUME NEW n \in others PROVE FALSE
        OBVIOUS
      <4>1. n \in 1 .. Len(rows) /\ last <= n
        BY <1>1, <1>4, <2>1
      <4> QED BY <1>1, <4>1
    <3>2. Cardinality(entries) = 1
      BY <3>1, FS_Singleton
    <3> QED BY <1>1, <1>6, <3>2
  <2>2. CASE oldest # last
    BY <1>6, <2>2
  <2> QED BY <2>1, <2>2
<1>8. \A m, n \in entries : rows'[m].key = rows'[n].key => m = n
  <2> SUFFICES ASSUME NEW m \in entries, NEW n \in entries, rows'[m].key = rows'[n].key PROVE m = n
    OBVIOUS
  <2>1. \A k \in others : k \in recent /\ rows'[k] = rows[k] /\ rows[k].key # e.key
    BY <1>1, <1>2
  <2>2. CASE m = last \/ n = last
    BY <1>2, <2>1, <2>2
  <2>3. CASE m # last /\ n # last
    BY <1>1, <2>1, <2>3
  <2> QED BY <2>2, <2>3
<1> SUFFICES ASSUME NEW a \in DOMAIN rows'
             PROVE  \/ \E c \in recent' : a <= c /\ rows'[c].key = rows'[a].key
                    \/ Cardinality(Keys(rows', a + 1, last, rows'[a].key)) >= MaxKeys
  BY <1>2 DEF Recalled
<1>9. CASE a = last
  BY <1>1, <1>7, <1>9
<1>10. CASE a \in DOMAIN rows /\ Cardinality(Keys(rows, a + 1, Len(rows), rows[a].key)) >= MaxKeys
  <2>1. a + 1 \in Int /\ Len(rows) \in Int /\ last \in Int /\ Len(rows) <= last
    BY <1>1, <1>2, <1>10
  <2>2. rows'[a] = rows[a] /\ \A n \in a + 1 .. Len(rows) : rows'[n] = rows[n]
    BY <1>1, <1>2, <1>10
  <2>3. Cardinality(Keys(rows, a + 1, Len(rows), rows[a].key)) <= Cardinality(Keys(rows', a + 1, last, rows'[a].key))
    <3>1. a + 1 <= a + 1
      BY <2>1
    <3> HIDE DEF last
    <3>2. Cardinality(Keys(rows, a + 1, Len(rows), rows[a].key))
            <= Cardinality(Keys(rows', a + 1, last, rows[a].key))
      BY <2>1, <2>2, <3>1, KeysGrow
    <3> QED BY <2>2, <3>2
  <2>4. /\ Cardinality(Keys(rows, a + 1, Len(rows), rows[a].key)) \in Nat
        /\ Cardinality(Keys(rows', a + 1, last, rows'[a].key)) \in Nat
    BY <2>1, KeysFinite
  <2> QED BY <1>1, <1>10, <2>3, <2>4
<1>11. ASSUME a \in DOMAIN rows, NEW c \in recent, a <= c, rows[c].key = rows[a].key
       PROVE  \/ \E k \in recent' : a <= k /\ rows'[k].key = rows'[a].key
              \/ Cardinality(Keys(rows', a + 1, last, rows'[a].key)) >= MaxKeys
  <2>1. /\ a \in 1 .. Len(rows) /\ c \in 1 .. Len(rows) /\ rows'[a] = rows[a] /\ rows'[c] = rows[c]
        /\ a <= last
    BY <1>1, <1>2, <1>11
  <2>2. CASE rows[c].key = e.key
    BY <1>2, <1>7, <1>11, <2>1, <2>2
  <2>3. CASE rows[c].key # e.key /\ c \in recent'
    BY <1>11, <2>1, <2>3
  <2>4. CASE rows[c].key # e.key /\ c \notin recent'
    <3>1. c = oldest /\ Cardinality(entries) > MaxKeys
      BY <1>6, <2>4
    <3> DEFINE rest == entries \ {oldest}
    <3>2. Cardinality(rest) >= MaxKeys
      <4>1. Cardinality(rest) = Cardinality(entries) - 1
        <5> HIDE DEF entries, oldest
        <5> QED BY <1>4, <1>5, FS_RemoveElement
      <4> QED BY <1>1, <1>5, <3>1, <4>1
    <3>3. rest \subseteq a + 1 .. last
      <4> SUFFICES ASSUME NEW k \in rest PROVE k \in a + 1 .. last
        OBVIOUS
      <4>1. k \in 1 .. last /\ oldest <= k /\ k # oldest
        BY <1>3, <1>4
      <4> QED BY <1>1, <1>11, <2>1, <3>1, <4>1
    <3>4. a + 1 \in Int /\ last \in Int
      BY <1>1, <2>1
    <3>5. Cardinality(rest) <= Cardinality(Keys(rows', a + 1, last, rows'[a].key))
      <4>1. \A n \in rest : rows'[n].key # rows'[a].key
        <5> SUFFICES ASSUME NEW n \in entries, n # c PROVE rows'[n].key # rows'[c].key
          BY <1>11, <2>1, <3>1
        <5> QED BY <1>8, <2>4
      <4>2. \A m, n \in rest : rows'[m].key = rows'[n].key => m = n
        BY <1>8
      <4> HIDE DEF rest, last
      <4> QED BY <3>3, <3>4, <4>1, <4>2, KeysCount
    <3>6. Cardinality(rest) \in Nat /\ Cardinality(Keys(rows', a + 1, last, rows'[a].key)) \in Nat
      <4>1. IsFiniteSet(rest) /\ Cardinality(rest) \in Nat
        BY <1>5, FS_RemoveElement, FS_CardinalityType
      <4> HIDE DEF rest, last
      <4> QED BY <3>4, <4>1, KeysFinite
    <3>7. Cardinality(Keys(rows', a + 1, last, rows'[a].key)) >= MaxKeys
      <4> HIDE DEF rest, last
      <4> QED BY <1>1, <3>2, <3>5, <3>6
    <3> QED BY <3>7
  <2> QED BY <2>2, <2>3, <2>4
<1>12. a = last \/ a \in DOMAIN rows
  BY <1>1, <1>2
<1>13. ASSUME a \in DOMAIN rows
       PROVE  \/ \E c \in recent' : a <= c /\ rows'[c].key = rows'[a].key
              \/ Cardinality(Keys(rows', a + 1, last, rows'[a].key)) >= MaxKeys
  <2>1. \/ \E c \in recent : a <= c /\ rows[c].key = rows[a].key
        \/ Cardinality(Keys(rows, a + 1, Len(rows), rows[a].key)) >= MaxKeys
    BY <1>13 DEF Recalled
  <2>2. CASE \E c \in recent : a <= c /\ rows[c].key = rows[a].key
    <3>1. PICK c \in recent : a <= c /\ rows[c].key = rows[a].key
      BY <2>2
    <3> QED BY <1>11, <1>13, <3>1
  <2> QED BY <1>10, <1>13, <2>1, <2>2
<1> QED BY <1>9, <1>12, <1>13

-----------------------------------------------------------------------------
(* What the queue gains: the event of the thread, if it is no echo.        *)
LEMMA RowsGain ==
  ASSUME Shape, NEW i \in Ifaces, Filter(i)
  PROVE  /\ hand[i].event \in Events /\ hand[i] # Idle
         /\ \/ UNCHANGED <<rows, recent>>
            \/ /\ ~ Echoes(hand[i].event)
               /\ rows' = Append(rows, hand[i].event) /\ recent' = Admitted(hand[i].event)
               /\ Len(rows) \in Nat /\ DOMAIN rows = 1 .. Len(rows) /\ DOMAIN rows' = 1 .. Len(rows) + 1
               /\ rows'[Len(rows) + 1] = hand[i].event
               /\ \A n \in 1 .. Len(rows) : rows'[n] = rows[n]
<1>1. hand[i] \in Held /\ hand[i].step # "idle" /\ rows \in Seq(Events)
  BY DEF Shape, TypeOK, Held, Steps, Filter
<1>2. hand[i].event \in Events /\ hand[i] # Idle
  BY <1>1, HeldEvent
<1>3. CASE Echoes(hand[i].event)
  BY <1>2, <1>3 DEF Filter
<1>4. CASE ~ Echoes(hand[i].event)
  <2>1. rows' = Append(rows, hand[i].event) /\ recent' = Admitted(hand[i].event)
    BY <1>4 DEF Filter
  <2> QED BY <1>1, <1>2, <1>4, <2>1
<1> QED BY <1>3, <1>4

(* An event that is no echo: its key was never admitted, or was forgotten  *)
(* in a flood, or was last admitted at a time further off than the window. *)
LEMMA NoEcho ==
  ASSUME Shape, Recalled, NEW e \in Events, ~ Echoes(e), NEW a \in DOMAIN rows, rows[a].key = e.key
  PROVE  \/ Cardinality(Keys(rows, a + 1, Len(rows), rows[a].key)) >= MaxKeys
         \/ \E c \in DOMAIN rows : a <= c /\ rows[c].key = e.key /\ ~ (Away(rows[c].ts, e.ts) <= Window)
<1>1. recent \subseteq DOMAIN rows
  BY DEF Shape, TypeOK
<1> QED BY <1>1 DEF Recalled, Echoes

(* A stretch of the queue stays as it is when a row is appended.           *)
LEMMA StretchKept ==
  ASSUME Shape, NEW e, rows' = Append(rows, e), NEW a \in DOMAIN rows, NEW b \in Int, NEW d \in Int,
         b <= d, d <= Len(rows)
  PROVE  Cardinality(Keys(rows, a + 1, b, rows[a].key)) >= MaxKeys => Cardinality(Keys(rows', a + 1, d, rows[a].key)) >= MaxKeys
<1>1. rows \in Seq(Events) /\ Len(rows) \in Nat /\ MaxKeys \in Nat
  BY ConstantTypes DEF Shape, TypeOK
<1>2. \A n \in a + 1 .. b : rows'[n] = rows[n]
  BY <1>1
<1>3. a + 1 \in Int /\ a + 1 <= a + 1
  BY <1>1
<1>4. Cardinality(Keys(rows, a + 1, b, rows[a].key)) <= Cardinality(Keys(rows', a + 1, d, rows[a].key))
  BY <1>2, <1>3, KeysGrow
<1>5. Cardinality(Keys(rows, a + 1, b, rows[a].key)) \in Nat /\ Cardinality(Keys(rows', a + 1, d, rows[a].key)) \in Nat
  BY <1>3, KeysFinite
<1> QED BY <1>1, <1>4, <1>5

LEMMA CountedOnceStep ==
  ASSUME Flight, Recalled, CountedOnce, NEW i \in Ifaces, Filter(i)
  PROVE  CountedOnce'
<1> DEFINE e == hand[i].event
           last == Len(rows) + 1
<1>0. Shape /\ InFlight
  BY DEF Flight
<1>1. CASE UNCHANGED rows
  BY <1>1 DEF CountedOnce, OtherKeys
<1>2. CASE ~ UNCHANGED rows
  <2>1. /\ ~ Echoes(e) /\ e \in Events /\ rows' = Append(rows, e) /\ hand[i] # Idle
        /\ Len(rows) \in Nat /\ DOMAIN rows = 1 .. Len(rows) /\ DOMAIN rows' = 1 .. last
        /\ rows'[last] = e /\ \A n \in 1 .. Len(rows) : rows'[n] = rows[n]
    BY <1>0, <1>2, RowsGain
  <2>2. /\ Labelled(sent, e) /\ e.ts \in Nat /\ sent[e.id] \in Int /\ Window \in Nat /\ Jitter \in Nat
        /\ \A n \in DOMAIN rows : Labelled(sent, rows[n]) /\ rows[n].ts \in Nat
    <3>1. /\ 0 .. MaxTime \subseteq Nat /\ -1 .. MaxTime \subseteq Int
          /\ Window \in Nat /\ Jitter \in Nat
      BY ConstantTypes
    <3>2. /\ sent \in [Ids -> -1 .. MaxTime] /\ \A n \in DOMAIN rows : rows[n] \in Events
      BY <1>0 DEF Shape, TypeOK
    <3>3. e.ts \in Nat /\ e.id \in Ids /\ \A n \in DOMAIN rows : rows[n].ts \in Nat
      BY <2>1, <3>1, <3>2 DEF Events
    <3>4. Labelled(sent, e) /\ \A n \in DOMAIN rows : Labelled(sent, rows[n])
      BY <1>0, <2>1 DEF InFlight
    <3> QED BY <3>1, <3>2, <3>3, <3>4
  <2> HIDE DEF e
  <2>3. ASSUME NEW a \in DOMAIN rows, rows[a].id = e.id
        PROVE  \/ Cardinality(Keys(rows', a + 1, Len(rows), rows[a].key)) >= MaxKeys
               \/ \E c \in a + 1 .. Len(rows) :
                    rows[c].key = e.key /\ rows[c].id # e.id /\ Away(rows[c].ts, e.ts) > Window
    <3>1. rows[a].key = e.key
      BY <2>2, <2>3 DEF Labelled
    <3>2. CASE Cardinality(Keys(rows, a + 1, Len(rows), rows[a].key)) >= MaxKeys
      BY <1>0, <2>1, <3>2, StretchKept
    <3>3. ASSUME NEW c \in DOMAIN rows, a <= c, rows[c].key = e.key, ~ (Away(rows[c].ts, e.ts) <= Window)
          PROVE  c \in a + 1 .. Len(rows) /\ rows[c].id # e.id /\ Away(rows[c].ts, e.ts) > Window
      <4>1. Away(rows[c].ts, e.ts) \in Int /\ Away(rows[c].ts, e.ts) > Window
        BY <2>2, <3>3 DEF Away
      <4>2. rows[c].id # e.id
        <5> SUFFICES ASSUME rows[c].id = e.id PROVE Away(rows[c].ts, e.ts) <= Window
          BY <3>3
        <5>1. Stamped(sent, e.id, rows[c].ts) /\ Stamped(sent, e.id, e.ts)
          BY <2>2 DEF Labelled
        <5>2. Jitter <= Window
          BY SensorAssumption
        <5> QED BY <2>2, <5>1, <5>2 DEF Stamped, Away
      <4>3. c # a
        BY <2>3, <4>2
      <4> QED BY <2>1, <3>3, <4>1, <4>2, <4>3
    <3> QED BY <1>0, <2>1, <3>1, <3>2, <3>3, NoEcho
  <2> SUFFICES ASSUME NEW a \in 1 .. last, NEW b \in 1 .. last, a < b, rows'[a].id = rows'[b].id
               PROVE  \/ Cardinality(Keys(rows', a + 1, b - 1, rows'[a].key)) >= MaxKeys
                      \/ \E c \in a + 1 .. b - 1 :
                           /\ rows'[c].key = rows'[b].key /\ rows'[c].id # rows'[b].id
                           /\ Away(rows'[c].ts, rows'[b].ts) > Window
    BY <2>1 DEF CountedOnce, OtherKeys, Keys
  <2>4. a \in DOMAIN rows /\ rows'[a] = rows[a]
    BY <2>1
  <2>5. CASE b = last
    <3>1. b - 1 = Len(rows) /\ \A c \in a + 1 .. Len(rows) : rows'[c] = rows[c]
      BY <2>1, <2>5
    <3> QED BY <2>1, <2>3, <2>4, <2>5, <3>1
  <2>6. CASE b # last
    <3>1. /\ b \in DOMAIN rows /\ rows'[b] = rows[b] /\ b - 1 \in Int /\ b - 1 <= Len(rows)
          /\ \A c \in a + 1 .. b - 1 : rows'[c] = rows[c]
      BY <2>1, <2>6
    <3>2. \/ Cardinality(Keys(rows, a + 1, b - 1, rows[a].key)) >= MaxKeys
          \/ \E c \in a + 1 .. b - 1 :
               rows[c].key = rows[b].key /\ rows[c].id # rows[b].id /\ Away(rows[c].ts, rows[b].ts) > Window
      BY <2>4, <3>1 DEF CountedOnce, OtherKeys, Keys
    <3>3. CASE Cardinality(Keys(rows, a + 1, b - 1, rows[a].key)) >= MaxKeys
      BY <1>0, <2>1, <2>4, <3>1, <3>3, StretchKept
    <3> QED BY <2>4, <3>1, <3>2, <3>3
  <2> QED BY <2>5, <2>6
<1> QED BY <1>1, <1>2

Counting == Flight /\ Recalled /\ CountedOnce

LEMMA CountingInit == Init => Counting
<1> SUFFICES ASSUME Init PROVE Recalled /\ CountedOnce
  BY FlightInit DEF Counting
<1>1. DOMAIN rows = {}
  BY DEF Init
<1> QED BY <1>1 DEF Recalled, CountedOnce

LEMMA CountingStep == Counting /\ [Next]_vars => Counting'
<1> SUFFICES ASSUME Counting, [Next]_vars PROVE Recalled' /\ CountedOnce'
  BY FlightStep DEF Counting
<1>1. CASE UNCHANGED <<rows, recent>>
  BY <1>1 DEF Counting, Recalled, CountedOnce, OtherKeys
<1>2. ASSUME NEW i \in Ifaces, Filter(i) PROVE Recalled' /\ CountedOnce'
  <2>1. Recalled'
    BY <1>1, <1>2, RowsGain, AdmissionRecalled DEF Counting, Flight
  <2> QED BY <1>2, <2>1, CountedOnceStep DEF Counting
<1>3. CASE UNCHANGED filter
  BY <1>1, <1>3 DEF filter
<1>4. ASSUME NEW p \in Ports, Open(p) \/ Close(p) PROVE UNCHANGED filter
  BY <1>4 DEF Open, Close
<1>5. ASSUME NEW m \in Ids, NEW i \in Ifaces, Deliver(m, i) PROVE UNCHANGED filter
  BY <1>5 DEF Deliver
<1>6. ASSUME NEW i \in Ifaces, Classify(i) \/ Probe(i) \/ Remember(i) \/ Put(i) PROVE UNCHANGED filter
  BY <1>6 DEF Classify, Probe, Remember, Put
<1>7. Tick \/ UNCHANGED vars => UNCHANGED filter
  BY DEF Tick, vars
<1> QED BY <1>2, <1>3, <1>4, <1>5, <1>6, <1>7 DEF Next

(* A message is on the queue once, whatever the lag of the threads: unless *)
(* as many other keys passed the filter in between as it holds, or another *)
(* message of the same key did with a time stamp outside the window.       *)
THEOREM MessagesCountOnce == Spec => []CountedOnce
<1>1. Counting => CountedOnce
  BY DEF Counting
<1> QED BY CountingInit, CountingStep, <1>1, PTL DEF Spec

-----------------------------------------------------------------------------
(* Attribution.  What is in the table was open when it was read; what is   *)
(* cached or held follows from a table that was young when it was asked.   *)
OpenSince(sk, cl, s, t) == (\E p \in Ports : sk[p] = s) \/ cl[s] >= t
Allowance(step) == IF step = "filter" THEN ResultTtl + PortTtl ELSE PortTtl

Fresh ==
  /\ table.at \in Nat /\ table.at <= now
  /\ \A p \in DOMAIN table.map : OpenSince(sock, closed, table.map[p], table.at)
  /\ \A p \in DOMAIN results :
       /\ results[p].at <= now
       /\ results[p].process # 0 => OpenSince(sock, closed, results[p].process, results[p].at - PortTtl)
  /\ \A i \in Ifaces : hand[i] # Idle =>
       /\ hand[i].event.asked <= now
       /\ hand[i].event.process # 0 =>
            OpenSince(sock, closed, hand[i].event.process, hand[i].event.asked - Allowance(hand[i].step))
  /\ \A n \in DOMAIN rows :
       /\ rows[n].asked <= now
       /\ rows[n].process # 0 =>
            OpenSince(sock, closed, rows[n].process, rows[n].asked - Allowance("filter"))

(* A socket that was open since some time was open later, and stays one    *)
(* that was.                                                               *)
LEMMA OpenSinceEarlier ==
  ASSUME Shape, NEW s \in Sockets, NEW t \in Int, NEW u \in Int, u <= t, OpenSince(sock, closed, s, t)
  PROVE  OpenSince(sock, closed, s, u)
<1>1. closed[s] \in Int
  <2>1. 0 .. MaxTime \subseteq Int
    BY ConstantTypes
  <2> QED BY <2>1 DEF Shape, TypeOK
<1> QED BY <1>1 DEF OpenSince

LEMMA OpenSinceStays ==
  ASSUME Shape, [Next]_vars, NEW s \in Sockets, NEW t \in Int, t <= now, OpenSince(sock, closed, s, t)
  PROVE  OpenSince(sock', closed', s, t)
<1>0. /\ sock \in [Ports -> 0 .. opened] /\ closed \in [Sockets -> 0 .. MaxTime] /\ now \in Nat
      /\ s \in Nat /\ s # 0
  BY ConstantTypes DEF Shape, TypeOK, Sockets
<1>1. CASE UNCHANGED <<sock, closed>>
  BY <1>1
<1>2. ASSUME NEW p \in Ports, Open(p) PROVE OpenSince(sock', closed', s, t)
  <2>1. closed' = closed /\ \A q \in Ports : sock[q] = s => sock'[q] = s
    BY <1>0, <1>2 DEF Open
  <2> QED BY <2>1 DEF OpenSince
<1>3. ASSUME NEW p \in Ports, Close(p) PROVE OpenSince(sock', closed', s, t)
  <2>1. closed' = [closed EXCEPT ![sock[p]] = now] /\ sock' = [sock EXCEPT ![p] = 0]
    BY <1>3 DEF Close
  <2>2. CASE sock[p] = s
    BY <1>0, <2>1, <2>2 DEF OpenSince
  <2>3. CASE sock[p] # s
    <3>1. closed'[s] = closed[s] /\ \A q \in Ports : sock[q] = s => sock'[q] = s
      BY <1>0, <2>1, <2>3
    <3> QED BY <3>1 DEF OpenSince
  <2> QED BY <2>2, <2>3
<1>4. CASE UNCHANGED system
  BY <1>1, <1>4 DEF system
<1>5. ASSUME NEW m \in Ids, NEW i \in Ifaces, Deliver(m, i) PROVE UNCHANGED system
  BY <1>5 DEF Deliver
<1>6. ASSUME NEW i \in Ifaces, Classify(i) \/ Probe(i) \/ Remember(i) \/ Filter(i) \/ Put(i)
      PROVE  UNCHANGED system
  BY <1>6 DEF Classify, Probe, Remember, Filter, Put
<1>7. Tick \/ UNCHANGED vars => UNCHANGED system
  BY DEF Tick, vars
<1> QED BY <1>2, <1>3, <1>4, <1>5, <1>6, <1>7 DEF Next

(* What this module asks of the values that Fresh speaks of.               *)
LEMMA FreshTypes ==
  ASSUME Shape
  PROVE  /\ {ResultTtl, PortTtl, MaxTime, now} \subseteq Nat
         /\ \A i \in Ifaces : hand[i] # Idle =>
              /\ hand[i] \in [step : Steps, event : Events] /\ hand[i].event.asked \in Nat
              /\ hand[i].event.process # 0 => hand[i].event.process \in Sockets
         /\ \A p \in DOMAIN table.map : table.map[p] \in Sockets
<1>1. {ResultTtl, PortTtl, MaxTime, MaxSockets} \subseteq Nat
  BY SensorAssumption
<1>2. 0 .. MaxTime \subseteq Nat /\ \A x \in 0 .. MaxSockets : x # 0 => x \in Sockets
  BY <1>1 DEF Sockets
<1>3. \A e \in Events : e.asked \in Nat /\ (e.process # 0 => e.process \in Sockets)
  BY <1>2 DEF Events
<1>4. now \in Nat
  BY <1>2 DEF Shape, TypeOK
<1>5. \A i \in Ifaces : hand[i] # Idle => hand[i] \in [step : Steps, event : Events]
  BY DEF Shape, TypeOK, Steps
<1> QED BY <1>1, <1>2, <1>3, <1>4, <1>5 DEF Shape

LEMMA ResultTypes ==
  ASSUME Shape, NEW p \in DOMAIN results
  PROVE  results[p].at \in Nat /\ (results[p].process # 0 => results[p].process \in Sockets)
<1>1. 0 .. MaxTime \subseteq Nat /\ \A x \in 0 .. MaxSockets : x # 0 => x \in Sockets
  BY ConstantTypes DEF Sockets
<1>2. results[p].at \in 0 .. MaxTime /\ results[p].process \in 0 .. MaxSockets
  BY DEF Shape, TypeOK
<1> QED BY <1>1, <1>2

LEMMA RowTypes ==
  ASSUME Shape, NEW n \in DOMAIN rows
  PROVE  rows[n] \in Events /\ rows[n].asked \in Nat
<1>1. 0 .. MaxTime \subseteq Nat
  BY ConstantTypes
<1>2. rows[n] \in Events
  BY DEF Shape, TypeOK
<1> QED BY <1>1, <1>2 DEF Events

LEMMA TimePasses == Shape /\ [Next]_vars => now \in Nat /\ now' \in Nat /\ now <= now'
<1> SUFFICES ASSUME Shape, [Next]_vars PROVE now \in Nat /\ now' \in Nat /\ now <= now'
  OBVIOUS
<1>1. now \in Nat
  BY FreshTypes
<1>2. ASSUME NEW p \in Ports, Open(p) \/ Close(p) PROVE now' = now
  BY <1>2 DEF Open, Close
<1>3. ASSUME NEW m \in Ids, NEW i \in Ifaces, Deliver(m, i) PROVE now' = now
  BY <1>3 DEF Deliver
<1>4. ASSUME NEW i \in Ifaces, Classify(i) \/ Probe(i) \/ Remember(i) \/ Filter(i) \/ Put(i)
      PROVE  now' = now
  BY <1>4 DEF Classify, Probe, Remember, Filter, Put
<1>5. Tick => now' = now + 1
  BY DEF Tick
<1>6. UNCHANGED vars => now' = now
  BY DEF vars
<1> QED BY <1>1, <1>2, <1>3, <1>4, <1>5, <1>6 DEF Next

(* What stays where it is stays fresh.                                     *)
LEMMA ResultsStayFresh ==
  ASSUME Shape, Fresh, [Next]_vars, NEW p \in DOMAIN results
  PROVE  /\ results[p].at <= now'
         /\ results[p].process # 0 => OpenSince(sock', closed', results[p].process, results[p].at - PortTtl)
<1>1. now <= now' /\ now' \in Int
  BY TimePasses
<1>2. results[p].at \in Nat /\ PortTtl \in Nat /\ now \in Nat /\ results[p].at <= now
      /\ (results[p].process # 0 => results[p].process \in Sockets)
  <2>1. results[p].at \in Nat /\ (results[p].process # 0 => results[p].process \in Sockets)
    BY ResultTypes
  <2>2. PortTtl \in Nat /\ now \in Nat
    BY FreshTypes
  <2> QED BY <2>1, <2>2 DEF Fresh
<1>3. results[p].at - PortTtl \in Int /\ results[p].at - PortTtl <= now
  BY <1>2
<1> QED BY <1>1, <1>2, <1>3, OpenSinceStays DEF Fresh

LEMMA EventsStayFresh ==
  ASSUME Shape, [Next]_vars, NEW e \in Events, e.asked <= now, NEW step \in Steps,
         e.process # 0 => OpenSince(sock, closed, e.process, e.asked - Allowance(step))
  PROVE  /\ e.asked <= now'
         /\ e.process # 0 => OpenSince(sock', closed', e.process, e.asked - Allowance(step))
<1>1. now <= now' /\ now' \in Int /\ now \in Int
  BY TimePasses
<1>2. e.asked \in Nat /\ (e.process # 0 => e.process \in Sockets)
  <2>1. 0 .. MaxTime \subseteq Nat /\ \A x \in 0 .. MaxSockets : x # 0 => x \in Sockets
    BY ConstantTypes DEF Sockets
  <2> QED BY <2>1 DEF Events
<1>3. Allowance(step) \in Nat
  BY FreshTypes DEF Allowance
<1>4. e.asked - Allowance(step) \in Int /\ e.asked - Allowance(step) <= now
  BY <1>1, <1>2, <1>3
<1> QED BY <1>1, <1>2, <1>4, OpenSinceStays

(* The answer that Classify takes from the cache was young.                *)
LEMMA ClassifyFresh ==
  ASSUME Shape, Fresh, NEW i \in Ifaces, Classify(i), hand'[i] # Idle
  PROVE  /\ hand'[i] \in [step : Steps, event : Events]
         /\ hand'[i].event.asked <= now
         /\ hand'[i].event.process # 0 =>
              OpenSince(sock, closed, hand'[i].event.process,
                        hand'[i].event.asked - Allowance(hand'[i].step))
<1> DEFINE frame == Head(backlog[i])
           p == Packet[frame.id].port
<1>1. hand \in [Ifaces -> Held] /\ hand'[i] \in Held
  BY ClassifyShape DEF Shape, TypeOK, Held, Steps
<1>2. \/ /\ hand'[i] = [step |-> "filter", event |-> [Event(frame) EXCEPT !.process = results[p].process]]
         /\ Hit(p)
         /\ Attributed(frame)
      \/ \E step \in Steps : hand'[i] = [step |-> step, event |-> Event(frame)]
  BY <1>1 DEF Classify, Steps
<1>3. Event(frame).process = 0 /\ Event(frame).asked <= now /\ (Attributed(frame) => Event(frame).asked = now)
  BY FreshTypes DEF Event
<1>4. CASE \E step \in Steps : hand'[i] = [step |-> step, event |-> Event(frame)]
  <2> HIDE DEF frame
  <2> QED BY <1>1, <1>3, <1>4 DEF Held
<1>5. CASE /\ hand'[i] = [step |-> "filter", event |-> [Event(frame) EXCEPT !.process = results[p].process]]
           /\ Hit(p)
           /\ Attributed(frame)
  <2>1. /\ hand'[i].event.process = results[p].process /\ hand'[i].event.asked = now
        /\ hand'[i].step = "filter" /\ p \in DOMAIN results
    BY <1>5 DEF Event, Hit
  <2>0. now \in Nat /\ hand'[i].event \in Events
    BY <1>1, <2>1, FreshTypes DEF Held, Idle
  <2>2. ASSUME results[p].process # 0
        PROVE  OpenSince(sock, closed, results[p].process, now - Allowance("filter"))
    <3>1. /\ results[p].at \in Nat /\ PortTtl \in Nat /\ ResultTtl \in Nat /\ now \in Nat
          /\ results[p].process \in Sockets
      <4>1. results[p].at \in Nat /\ results[p].process \in Sockets
        <5> HIDE DEF p
        <5> QED BY <2>1, <2>2, ResultTypes
      <4>2. PortTtl \in Nat /\ ResultTtl \in Nat /\ now \in Nat
        BY FreshTypes
      <4> QED BY <4>1, <4>2
    <3>2. now - results[p].at <= ResultTtl
      BY <1>5, <2>2 DEF Hit, Ttl
    <3>3. OpenSince(sock, closed, results[p].process, results[p].at - PortTtl)
      BY <2>1, <2>2 DEF Fresh
    <3>4. /\ now - Allowance("filter") \in Int /\ results[p].at - PortTtl \in Int
          /\ now - Allowance("filter") <= results[p].at - PortTtl
      BY <3>1, <3>2 DEF Allowance
    <3> QED BY <3>1, <3>3, <3>4, OpenSinceEarlier
  <2> HIDE DEF p
  <2> QED BY <1>1, <2>0, <2>1, <2>2 DEF Held
<1> QED BY <1>2, <1>4, <1>5

(* The table that Probe goes by was read at most PortTtl before.           *)
LEMMA ProbeFresh ==
  ASSUME Shape, Fresh, NEW i \in Ifaces, Probe(i)
  PROVE  /\ table'.at \in Nat /\ table'.at <= now
         /\ \A q \in DOMAIN table'.map : OpenSince(sock, closed, table'.map[q], table'.at)
         /\ hand[i] # Idle /\ hand'[i] \in [step : Steps, event : Events] /\ hand'[i].step = "store"
         /\ hand'[i].event.asked = hand[i].event.asked
         /\ hand'[i].event.process # 0 =>
              OpenSince(sock, closed, hand'[i].event.process, hand[i].event.asked - PortTtl)
<1> DEFINE p == Packet[hand[i].event.id].port
           used == Refreshed(p)
           found == IF p \in DOMAIN used.map THEN used.map[p] ELSE 0
           owner == IF found \in owners \cup Holder(found) THEN found ELSE 0
<1>1. /\ table' = used /\ hand[i].step = "probe"
      /\ hand' = [hand EXCEPT ![i].step = "store", ![i].event.process = owner]
      /\ hand \in [Ifaces -> Held]
  BY DEF Probe, Shape, TypeOK, Held, Steps
<1>2. hand[i] \in [step : Steps, event : Events] /\ hand[i] # Idle /\ hand'[i] \in Held
  <2>1. hand[i] \in Held /\ hand[i].step # "idle"
    BY <1>1
  <2> QED BY <2>1, HeldEvent, ProbeShape
<1>3. hand'[i].step = "store" /\ hand'[i].event = [hand[i].event EXCEPT !.process = owner]
  <2> HIDE DEF owner
  <2> QED BY <1>1, <1>2
<1>4. hand'[i] \in [step : Steps, event : Events]
  <2>1. hand'[i].step # "idle"
    BY <1>3
  <2> QED BY <1>2, <2>1, HeldEvent
<1>5. hand'[i].event.asked = hand[i].event.asked /\ hand'[i].event.process = owner
  <2> HIDE DEF owner
  <2> QED BY <1>2, <1>3 DEF Events
<1>6. /\ used.at \in Nat /\ used.at <= now /\ now <= used.at + PortTtl
      /\ \A q \in DOMAIN used.map : /\ OpenSince(sock, closed, used.map[q], used.at)
                                    /\ used.map[q] \in Sockets
  <2>1. now \in Nat /\ PortTtl \in Nat /\ table.at \in Nat /\ \A q \in DOMAIN table.map : table.map[q] \in Sockets
    BY FreshTypes DEF Fresh
  <2>2. /\ Reading.at = now
        /\ \A q \in DOMAIN Reading.map : /\ OpenSince(sock, closed, Reading.map[q], now)
                                         /\ Reading.map[q] \in Sockets
    BY ConstantTypes DEF Reading, OpenSince, Shape, TypeOK, Sockets
  <2>3. CASE used = Reading
    <3> HIDE DEF used
    <3> QED BY <2>1, <2>2, <2>3
  <2>4. CASE used = table /\ ~ (now - table.at > PortTtl)
    <3> HIDE DEF used
    <3> QED BY <2>1, <2>4 DEF Fresh
  <2> QED BY <2>3, <2>4 DEF Refreshed
<1>7. ASSUME owner # 0 PROVE OpenSince(sock, closed, owner, hand[i].event.asked - PortTtl)
  <2>1. owner \in Sockets /\ OpenSince(sock, closed, owner, used.at)
    <3>1. p \in DOMAIN used.map /\ owner = used.map[p]
      BY <1>7
    <3> HIDE DEF owner, used, p
    <3> QED BY <1>6, <3>1
  <2>2. hand[i].event.asked \in Nat /\ hand[i].event.asked <= now /\ PortTtl \in Nat /\ now \in Nat
    BY <1>2, FreshTypes DEF Fresh
  <2> HIDE DEF owner, used
  <2>3. hand[i].event.asked - PortTtl \in Int /\ hand[i].event.asked - PortTtl <= used.at /\ used.at \in Int
    BY <1>6, <2>2
  <2> QED BY <2>1, <2>3, OpenSinceEarlier
<1> HIDE DEF owner, used
<1> QED BY <1>1, <1>2, <1>3, <1>4, <1>5, <1>6, <1>7

(* Nothing in the hands but that of one callback changes.                  *)
LEMMA HandsFresh ==
  ASSUME Shape, Fresh, [Next]_vars, NEW i \in Ifaces,
         \A j \in Ifaces : j # i => hand'[j] = hand[j],
         hand'[i] # Idle =>
           /\ hand'[i] \in [step : Steps, event : Events] /\ hand'[i].event.asked <= now
           /\ hand'[i].event.process # 0 =>
                OpenSince(sock, closed, hand'[i].event.process,
                          hand'[i].event.asked - Allowance(hand'[i].step))
  PROVE  \A j \in Ifaces : hand'[j] # Idle =>
           /\ hand'[j].event.asked <= now'
           /\ hand'[j].event.process # 0 =>
                OpenSince(sock', closed', hand'[j].event.process,
                          hand'[j].event.asked - Allowance(hand'[j].step))
<1> SUFFICES ASSUME NEW j \in Ifaces, hand'[j] # Idle
             PROVE  /\ hand'[j].event.asked <= now'
                    /\ hand'[j].event.process # 0 =>
                         OpenSince(sock', closed', hand'[j].event.process,
                                   hand'[j].event.asked - Allowance(hand'[j].step))
  OBVIOUS
<1>1. /\ hand'[j] \in [step : Steps, event : Events] /\ hand'[j].event.asked <= now
      /\ hand'[j].event.process # 0 =>
           OpenSince(sock, closed, hand'[j].event.process, hand'[j].event.asked - Allowance(hand'[j].step))
  <2>1. CASE j = i
    BY <2>1
  <2>2. CASE j # i
    <3>1. hand'[j] = hand[j] /\ hand[j] # Idle
      BY <2>2
    <3>2. hand[j] \in [step : Steps, event : Events]
      BY <3>1, FreshTypes
    <3> QED BY <3>1, <3>2 DEF Fresh
  <2> QED BY <2>1, <2>2
<1>2. hand'[j].event \in Events /\ hand'[j].step \in Steps
  BY <1>1
<1> QED BY <1>1, <1>2, EventsStayFresh

LEMMA FreshStep == Shape /\ Fresh /\ [Next]_vars => Fresh'
<1> SUFFICES ASSUME Shape, Fresh, [Next]_vars PROVE Fresh'
  OBVIOUS
<1> DEFINE HandsFreshNext ==
             \A j \in Ifaces : hand'[j] # Idle =>
               /\ hand'[j].event.asked <= now'
               /\ hand'[j].event.process # 0 =>
                    OpenSince(sock', closed', hand'[j].event.process,
                              hand'[j].event.asked - Allowance(hand'[j].step))
           TableFreshNext ==
             /\ table'.at \in Nat /\ table'.at <= now'
             /\ \A p \in DOMAIN table'.map : OpenSince(sock', closed', table'.map[p], table'.at)
           ResultsFreshNext ==
             \A p \in DOMAIN results' :
               /\ results'[p].at <= now'
               /\ results'[p].process # 0 =>
                    OpenSince(sock', closed', results'[p].process, results'[p].at - PortTtl)
           RowsFreshNext ==
             \A n \in DOMAIN rows' :
               /\ rows'[n].asked <= now'
               /\ rows'[n].process # 0 =>
                    OpenSince(sock', closed', rows'[n].process, rows'[n].asked - Allowance("filter"))
<1>0. now \in Nat /\ now' \in Nat /\ now <= now' /\ hand \in [Ifaces -> Held]
  BY TimePasses DEF Shape, TypeOK, Held, Steps
<1>1. ASSUME UNCHANGED hand PROVE HandsFreshNext
  <2> SUFFICES ASSUME NEW j \in Ifaces, hand[j] # Idle
               PROVE  /\ hand[j].event.asked <= now'
                      /\ hand[j].event.process # 0 =>
                           OpenSince(sock', closed', hand[j].event.process,
                                     hand[j].event.asked - Allowance(hand[j].step))
    BY <1>1
  <2>1. hand[j].event \in Events /\ hand[j].step \in Steps
    BY FreshTypes
  <2> QED BY <2>1, EventsStayFresh DEF Fresh
<1>2. ASSUME /\ table'.at \in Nat /\ table'.at <= now
             /\ \A p \in DOMAIN table'.map : /\ OpenSince(sock, closed, table'.map[p], table'.at)
                                             /\ table'.map[p] \in Sockets
      PROVE  TableFreshNext
  BY <1>0, <1>2, OpenSinceStays
<1>3. UNCHANGED table => TableFreshNext
  <2>1. \A p \in DOMAIN table.map : table.map[p] \in Sockets
    BY FreshTypes
  <2> HIDE DEF TableFreshNext
  <2> QED BY <1>2, <2>1 DEF Fresh
<1>4. UNCHANGED results => ResultsFreshNext
  BY ResultsStayFresh
<1>5. ASSUME NEW n \in DOMAIN rows
      PROVE  /\ rows[n].asked <= now'
             /\ rows[n].process # 0 =>
                  OpenSince(sock', closed', rows[n].process, rows[n].asked - Allowance("filter"))
  <2>1. rows[n] \in Events /\ "filter" \in Steps
    BY <1>5, RowTypes DEF Steps
  <2>2. /\ rows[n].asked <= now
        /\ rows[n].process # 0 =>
             OpenSince(sock, closed, rows[n].process, rows[n].asked - Allowance("filter"))
    BY <1>5 DEF Fresh
  <2> QED BY <2>1, <2>2, EventsStayFresh
<1>6. UNCHANGED rows => RowsFreshNext
  BY <1>5
<1>7. TableFreshNext /\ ResultsFreshNext /\ HandsFreshNext /\ RowsFreshNext => Fresh'
  BY DEF Fresh
<1>8. ASSUME NEW i \in Ifaces, Classify(i) PROVE Fresh'
  <2>1. UNCHANGED <<now, table, results, rows>> /\ \A j \in Ifaces : j # i => hand'[j] = hand[j]
    BY <1>0, <1>8 DEF Classify, filter, caches
  <2>2. HandsFreshNext
    <3>1. hand'[i] # Idle =>
            /\ hand'[i] \in [step : Steps, event : Events] /\ hand'[i].event.asked <= now
            /\ hand'[i].event.process # 0 =>
                 OpenSince(sock, closed, hand'[i].event.process,
                           hand'[i].event.asked - Allowance(hand'[i].step))
      BY <1>0, <1>8, ClassifyFresh
    <3> QED BY <2>1, <3>1, HandsFresh
  <2> HIDE DEF TableFreshNext, ResultsFreshNext, HandsFreshNext, RowsFreshNext
  <2> QED BY <1>3, <1>4, <1>6, <1>7, <2>1, <2>2
<1>9. ASSUME NEW i \in Ifaces, Probe(i) PROVE Fresh'
  <2>1. UNCHANGED <<now, results, rows>> /\ \A j \in Ifaces : j # i => hand'[j] = hand[j]
    BY <1>0, <1>9 DEF Probe, filter
  <2>2. TableFreshNext
    <3>1. \A p \in DOMAIN table'.map : table'.map[p] \in Sockets
      BY <1>9, ProbeShape
    <3>2. /\ table'.at \in Nat /\ table'.at <= now
          /\ \A q \in DOMAIN table'.map : OpenSince(sock, closed, table'.map[q], table'.at)
      BY <1>9, ProbeFresh
    <3> HIDE DEF TableFreshNext
    <3> QED BY <1>2, <3>1, <3>2
  <2>3. HandsFreshNext
    <3>1. /\ hand'[i] \in [step : Steps, event : Events] /\ hand'[i].event.asked <= now
          /\ hand'[i].event.process # 0 =>
               OpenSince(sock, closed, hand'[i].event.process,
                         hand'[i].event.asked - Allowance(hand'[i].step))
      <4>1. /\ hand[i] # Idle /\ hand'[i] \in [step : Steps, event : Events] /\ hand'[i].step = "store"
            /\ hand'[i].event.asked = hand[i].event.asked
            /\ hand'[i].event.process # 0 =>
                 OpenSince(sock, closed, hand'[i].event.process, hand[i].event.asked - PortTtl)
        BY <1>9, ProbeFresh
      <4>2. Allowance("store") = PortTtl
        BY DEF Allowance
      <4> QED BY <4>1, <4>2 DEF Fresh
    <3> QED BY <2>1, <3>1, HandsFresh
  <2> HIDE DEF TableFreshNext, ResultsFreshNext, HandsFreshNext, RowsFreshNext
  <2> QED BY <1>4, <1>6, <1>7, <2>1, <2>2, <2>3
<1>10. ASSUME NEW i \in Ifaces, Remember(i) PROVE Fresh'
  <2> DEFINE e == hand[i].event
             p == Packet[e.id].port
  <2>1. /\ UNCHANGED <<now, table, rows>> /\ \A j \in Ifaces : j # i => hand'[j] = hand[j]
        /\ hand' = [hand EXCEPT ![i].step = "filter"] /\ hand[i].step = "store"
        /\ results' = [q \in DOMAIN results \cup {p} |->
             IF q = p THEN [at |-> e.asked, process |-> e.process] ELSE results[q]]
    BY <1>0, <1>10 DEF Remember, filter
  <2>2. hand[i] \in [step : Steps, event : Events] /\ hand[i] # Idle
    <3>1. hand[i] \in Held /\ hand[i].step # "idle"
      BY <1>0, <2>1
    <3> QED BY <3>1, HeldEvent
  <2>3. /\ e \in Events /\ e.asked <= now /\ e.asked \in Nat /\ (e.process # 0 => e.process \in Sockets)
        /\ e.process # 0 => OpenSince(sock, closed, e.process, e.asked - Allowance("store"))
    BY <2>1, <2>2, FreshTypes DEF Fresh
  <2>4. Allowance("store") = PortTtl /\ Allowance("filter") = ResultTtl + PortTtl
        /\ ResultTtl \in Nat /\ PortTtl \in Nat
    BY FreshTypes DEF Allowance
  <2>5. hand'[i].step = "filter" /\ hand'[i].event = e /\ hand'[i] \in [step : Steps, event : Events]
    BY <1>0, <2>1, <2>2 DEF Steps
  <2> HIDE DEF e
  <2>6. e.process # 0 => OpenSince(sock, closed, e.process, e.asked - Allowance("filter"))
    <3>1. /\ e.asked - Allowance("filter") \in Int /\ e.asked - Allowance("store") \in Int
          /\ e.asked - Allowance("filter") <= e.asked - Allowance("store")
      BY <2>3, <2>4
    <3> QED BY <2>3, <3>1, OpenSinceEarlier
  <2>7. HandsFreshNext
    <3>1. /\ hand'[i] \in [step : Steps, event : Events] /\ hand'[i].event.asked <= now
          /\ hand'[i].event.process # 0 =>
               OpenSince(sock, closed, hand'[i].event.process,
                         hand'[i].event.asked - Allowance(hand'[i].step))
      BY <2>3, <2>5, <2>6
    <3> QED BY <2>1, <3>1, HandsFresh
  <2>8. ResultsFreshNext
    <3> SUFFICES ASSUME NEW q \in DOMAIN results'
                 PROVE  /\ results'[q].at <= now'
                        /\ results'[q].process # 0 =>
                             OpenSince(sock', closed', results'[q].process, results'[q].at - PortTtl)
      OBVIOUS
    <3>1. CASE q = p
      <4>1. results'[q].at = e.asked /\ results'[q].process = e.process
        BY <2>1, <3>1
      <4>2. "store" \in Steps
        BY DEF Steps
      <4>3. /\ e.asked <= now'
            /\ e.process # 0 => OpenSince(sock', closed', e.process, e.asked - PortTtl)
        BY <2>3, <2>4, <4>2, EventsStayFresh
      <4> QED BY <4>1, <4>3
    <3>2. CASE q # p
      <4>1. q \in DOMAIN results /\ results'[q] = results[q]
        BY <2>1, <3>2
      <4> QED BY <4>1, ResultsStayFresh
    <3> QED BY <3>1, <3>2
  <2> HIDE DEF TableFreshNext, ResultsFreshNext, HandsFreshNext, RowsFreshNext
  <2> QED BY <1>3, <1>6, <1>7, <2>1, <2>7, <2>8
<1>11. ASSUME NEW i \in Ifaces, Filter(i) PROVE Fresh'
  <2> DEFINE e == hand[i].event
  <2>1. /\ UNCHANGED <<now, table, results>> /\ hand' = [hand EXCEPT ![i] = Idle]
        /\ hand[i].step = "filter" /\ hand[i] # Idle /\ e \in Events
    BY <1>11, RowsGain DEF Filter, caches
  <2>2. HandsFreshNext
    <3>1. hand'[i] = Idle /\ \A j \in Ifaces : j # i => hand'[j] = hand[j]
      BY <1>0, <2>1
    <3> QED BY <3>1, HandsFresh
  <2>3. RowsFreshNext
    <3> SUFFICES ASSUME NEW n \in DOMAIN rows'
                 PROVE  /\ rows'[n].asked <= now'
                        /\ rows'[n].process # 0 =>
                             OpenSince(sock', closed', rows'[n].process, rows'[n].asked - Allowance("filter"))
      OBVIOUS
    <3>1. (n \in DOMAIN rows /\ rows'[n] = rows[n]) \/ rows'[n] = e
      BY <1>11, RowsGain
    <3>2. CASE n \in DOMAIN rows /\ rows'[n] = rows[n]
      BY <1>5, <3>2
    <3>3. CASE rows'[n] = e
      <4>1. "filter" \in Steps
        BY DEF Steps
      <4>2. /\ e.asked <= now
            /\ e.process # 0 => OpenSince(sock, closed, e.process, e.asked - Allowance("filter"))
        BY <2>1 DEF Fresh
      <4> HIDE DEF e
      <4> QED BY <2>1, <3>3, <4>1, <4>2, EventsStayFresh
    <3> QED BY <3>1, <3>2, <3>3
  <2> HIDE DEF TableFreshNext, ResultsFreshNext, HandsFreshNext, RowsFreshNext
  <2> QED BY <1>3, <1>4, <1>7, <2>1, <2>2, <2>3
<1>12. CASE UNCHANGED <<table, results, hand, rows>>
  <2> HIDE DEF TableFreshNext, ResultsFreshNext, HandsFreshNext, RowsFreshNext
  <2> QED BY <1>1, <1>3, <1>4, <1>6, <1>7, <1>12
<1>13. ASSUME NEW p \in Ports, Open(p) \/ Close(p) PROVE UNCHANGED <<table, results, hand, rows>>
  BY <1>13 DEF Open, Close, filter, caches
<1>14. ASSUME NEW m \in Ids, NEW i \in Ifaces, Deliver(m, i) PROVE UNCHANGED <<table, results, hand, rows>>
  BY <1>14 DEF Deliver, filter, caches
<1>15. Tick \/ UNCHANGED vars => UNCHANGED <<table, results, hand, rows>>
  BY DEF Tick, vars, filter, caches
<1>16. ASSUME NEW i \in Ifaces, Put(i) PROVE UNCHANGED <<table, results, hand, rows>>
  BY <1>16 DEF Put, filter, caches
<1> QED BY <1>8, <1>9, <1>10, <1>11, <1>12, <1>13, <1>14, <1>15, <1>16 DEF Next

(* A row names a process that owned the port of its query, or had owned it *)
(* no longer before than the ages the two caches allow together.           *)
THEOREM AttributionFresh == Spec => []AttributionIsFresh
<1>1. Init => Fresh
  <2> SUFFICES ASSUME Init PROVE Fresh
    OBVIOUS
  <2>1. /\ DOMAIN rows = {} /\ DOMAIN results = {} /\ DOMAIN table.map = {} /\ table.at = 0 /\ now = 0
        /\ \A i \in Ifaces : hand[i] = Idle
    BY DEF Init
  <2> QED BY <2>1 DEF Fresh
<1>2. Shape /\ Fresh => AttributionIsFresh
  <2> SUFFICES ASSUME Shape, Fresh, NEW n \in DOMAIN rows, rows[n].process # 0
               PROVE  HeldSince(rows[n].process, rows[n].asked - ResultTtl - PortTtl)
    BY DEF AttributionIsFresh
  <2>1. OpenSince(sock, closed, rows[n].process, rows[n].asked - (ResultTtl + PortTtl))
    BY DEF Fresh, Allowance
  <2>2. rows[n].asked \in Nat /\ ResultTtl \in Nat /\ PortTtl \in Nat
    BY RowTypes, SensorAssumption
  <2>3. rows[n].asked - (ResultTtl + PortTtl) = rows[n].asked - ResultTtl - PortTtl
    BY <2>2
  <2> QED BY <2>1, <2>3 DEF OpenSince, HeldSince
<1> QED BY InitShape, NextShape, <1>1, <1>2, FreshStep, PTL DEF Spec

=============================================================================
