------------------------------- MODULE Sensor -------------------------------
(***************************************************************************)
(* From the wire to the queue of the engine: the callbacks of the sniffers *)
(* (capture.py), the filter for duplicate frames they share, and the       *)
(* attribution of a query to the process that owns its socket              *)
(* (procattr.py) with its caches.                                          *)
(*                                                                         *)
(* The kernel hands one frame over more than once: the TX and RX copies of *)
(* a loopback or wireless interface, and the copies of two interfaces.     *)
(* Each interface has its own sniffer thread and its own backlog; the      *)
(* threads interleave between the critical sections of the two modules.    *)
(***************************************************************************)
EXTENDS Integers, Sequences, FiniteSets

CONSTANTS
  Ids,         (* the messages the hosts may send, each at most once       *)
  Packet,      (* what a message is: form, key, port                       *)
  Ifaces,      (* the captured interfaces                                  *)
  Ports,       (* (address, UDP port) pairs of this host                   *)
  MaxSockets,  (* bound: sockets opened on those ports                     *)
  Copies,      (* bound: frames the kernel delivers of each message        *)
  Jitter,      (* age at which the last copy of a frame is stamped         *)
  Lag,         (* bound: how far a sniffer thread may be behind            *)
  Retry,       (* time after which a host asks the same question again     *)
  Window,      (* DuplicateFilter._ECHO_WINDOW_S                           *)
  MaxKeys,     (* DuplicateFilter._MAX_KEYS                                *)
  ResultTtl, MissTtl, PortTtl,   (* _RESULT_TTL, _MISS_TTL, _PORTMAP_TTL   *)
  MaxTime      (* bound on the clock                                       *)

(* The window is above the jitter of the copies and below the back-off of  *)
(* a resolver (capture.py:316-318).  Nothing bounds the lag of a thread.   *)
ASSUME SensorAssumption ==
  /\ {MaxSockets, Jitter, Lag, Retry, MaxTime} \subseteq Nat
  /\ {Window, MaxKeys, ResultTtl, MissTtl, PortTtl} \subseteq Nat
  /\ MaxKeys > 0 /\ Jitter <= Window /\ Window + Jitter < Retry
  /\ Copies \in [Ids -> Nat \ {0}]
  /\ Packet \in [Ids -> [form : {"query", "response", "junk"}, key : STRING, port : Ports \cup {0}]]

VARIABLES
  now,
  sent,      (* per message: when it was sent, or -1                       *)
  copies,    (* per message: frames delivered so far                       *)
  backlog,   (* per interface: frames its sniffer has not taken            *)
  hand,      (* per interface: what its callback holds, and where it is    *)
  rows,      (* history: the events the filter has admitted, in order      *)
  recent,    (* DuplicateFilter._recent: each entry is an admission        *)
  dropped,   (* history: the events the filter has dropped                 *)
  putting,   (* per interface: the row its callback is to put, 0 for none  *)
  queue,     (* out_queue: the numbers of the rows, in the order of the put*)
  sock,      (* /proc/net/udp: the socket open on a port, 0 for none       *)
  opened,    (* sockets opened so far; a socket is its serial number       *)
  closed,    (* history: when a socket was closed                          *)
  table,     (* _port_inodes, or the empty table, with the time it was read*)
  owners,    (* _inode_pids: the sockets whose owner is known              *)
  results    (* _results: per port asked for, the answer and its time      *)

wire == <<sent, copies>>
filter == <<rows, recent, dropped>>
output == <<putting, queue>>
system == <<sock, opened, closed>>
caches == <<table, owners, results>>
vars == <<now, wire, backlog, hand, filter, output, system, caches>>

-----------------------------------------------------------------------------
Sockets == 1 .. MaxSockets
Idle == [step |-> "idle"]
Away(a, b) == IF a < b THEN b - a ELSE a - b

Init ==
  /\ now = 0
  /\ sent = [m \in Ids |-> -1] /\ copies = [m \in Ids |-> 0]
  /\ backlog = [i \in Ifaces |-> <<>>]
  /\ hand = [i \in Ifaces |-> Idle]
  /\ rows = <<>> /\ recent = {} /\ dropped = {}
  /\ putting = [i \in Ifaces |-> 0] /\ queue = <<>>
  /\ sock = [p \in Ports |-> 0] /\ opened = 0 /\ closed = [s \in Sockets |-> MaxTime]
  /\ table = [at |-> 0, map |-> <<>>] /\ owners = {}
  /\ results = <<>>

-----------------------------------------------------------------------------
(* The hosts and the kernel.                                               *)

(* A process opens a socket on a free port, or closes the one it has.      *)
Open(p) ==
  /\ sock[p] = 0 /\ opened < MaxSockets
  /\ opened' = opened + 1
  /\ sock' = [sock EXCEPT ![p] = opened + 1]
  /\ UNCHANGED <<now, wire, backlog, hand, filter, output, closed, caches>>

Close(p) ==
  /\ sock[p] # 0
  /\ closed' = [closed EXCEPT ![sock[p]] = now]
  /\ sock' = [sock EXCEPT ![p] = 0]
  /\ UNCHANGED <<now, wire, backlog, hand, filter, output, opened, caches>>

(* The answers to the A and the AAAA question of one lookup come together; *)
(* the same question is only asked again after a back-off.                 *)
MaySend(m) ==
  Packet[m].form = "query" =>
    \A k \in Ids : sent[k] >= 0 /\ Packet[k].form = "query" /\ Packet[k].key = Packet[m].key
                     => now - sent[k] >= Retry

(* A message is sent, or a further copy of its frame reaches the socket of *)
(* a sniffer; pkt.time is the kernel's.                                    *)
Deliver(m, i) ==
  /\ \/ sent[m] = -1 /\ MaySend(m)
     \/ sent[m] # -1 /\ now - sent[m] <= Jitter /\ copies[m] < Copies[m]
  /\ sent' = [sent EXCEPT ![m] = IF @ = -1 THEN now ELSE @]
  /\ copies' = [copies EXCEPT ![m] = @ + 1]
  /\ backlog' = [backlog EXCEPT ![i] = Append(@, [id |-> m, ts |-> now])]
  /\ UNCHANGED <<now, hand, filter, output, system, caches>>

(* A frame is handled before it is Lag old.                                *)
InTime(ts) == now < ts + Lag
Tick ==
  /\ now < MaxTime
  /\ \A i \in Ifaces : \A k \in DOMAIN backlog[i] : InTime(backlog[i][k].ts)
  /\ \A i \in Ifaces : hand[i] # Idle => InTime(hand[i].event.ts)
  /\ \A i \in Ifaces : putting[i] # 0 => InTime(rows[putting[i]].ts)
  /\ now' = now + 1
  /\ UNCHANGED <<wire, backlog, hand, filter, output, system, caches>>

-----------------------------------------------------------------------------
(* The callback of a sniffer.                                              *)

(* Junk has no DNS message or IP layer, no question, or fails to parse;    *)
(* all of it is dropped without a trace.                                   *)
Parses(frame) == Packet[frame.id].form # "junk"

(* procattr.resolve: an answer that is young enough is taken from the      *)
(* cache.                                                                  *)
Ttl(r) == IF r.process # 0 THEN ResultTtl ELSE MissTtl

(* A defect: an answer never ages.                                         *)
HitEver(p) == p \in DOMAIN results

Hit(p) == p \in DOMAIN results /\ now - results[p].at <= Ttl(results[p])

(* Only a query is attributed; port 0 means no UDP or TCP layer.           *)
Attributed(frame) == Packet[frame.id].form = "query" /\ Packet[frame.id].port # 0

(* packet_to_query and packet_to_response.  The fields of the key that a   *)
(* response lacks are constant in its key.                                 *)
Event(frame) == [id |-> frame.id, key |-> <<Packet[frame.id].form, Packet[frame.id].key>>,
                 ts |-> frame.ts, process |-> 0, asked |-> IF Attributed(frame) THEN now ELSE 0]

(* prn takes the next packet.                                              *)
Classify(i) ==
  /\ hand[i] = Idle /\ putting[i] = 0 /\ backlog[i] # <<>>
  /\ LET frame == Head(backlog[i])
         p == Packet[frame.id].port
     IN hand' = [hand EXCEPT ![i] =
          IF ~ Parses(frame) THEN Idle
          ELSE IF Attributed(frame) /\ ~ Hit(p)
          THEN [step |-> "probe", event |-> Event(frame)]
          ELSE [step |-> "filter", event |->
                 IF Attributed(frame) THEN [Event(frame) EXCEPT !.process = results[p].process]
                                      ELSE Event(frame)]]
  /\ backlog' = [backlog EXCEPT ![i] = Tail(@)]
  /\ UNCHANGED <<now, wire, filter, output, system, caches>>

(* The UDP tables of /proc/net, and the scan of /proc for the process that *)
(* holds a socket: none does once it is closed.                            *)
Reading == [at |-> now, map |-> [p \in {q \in Ports : sock[q] # 0} |-> sock[p]]]
Holder(s) == {s} \cap {sock[q] : q \in Ports} \cap Sockets

(* _resolve_uncached, under the lock: the table of ports is read again     *)
(* when it is old, empty or lacks the port; an owner that was found once   *)
(* is kept.  (The cap on the cached answers is left out: a miss is asked   *)
(* again.)                                                                 *)
Refreshed(p) ==
  IF now - table.at > PortTtl \/ p \notin DOMAIN table.map THEN Reading ELSE table

Probe(i) ==
  /\ hand[i].step = "probe"
  /\ LET p == Packet[hand[i].event.id].port
         found == IF p \in DOMAIN Refreshed(p).map THEN Refreshed(p).map[p] ELSE 0
         known == owners \cup Holder(found)
     IN /\ table' = Refreshed(p)
        /\ owners' = known
        /\ hand' = [hand EXCEPT ![i].step = "store",
                                ![i].event.process = IF found \in known THEN found ELSE 0]
  /\ UNCHANGED <<now, wire, backlog, filter, output, system, results>>

(* The answer is cached under the time resolve was called.                 *)
Remember(i) ==
  /\ hand[i].step = "store"
  /\ LET e == hand[i].event
         p == Packet[e.id].port
     IN results' = [q \in DOMAIN results \cup {p} |->
          IF q = p THEN [at |-> e.asked, process |-> e.process] ELSE results[q]]
  /\ hand' = [hand EXCEPT ![i].step = "filter"]
  /\ UNCHANGED <<now, wire, backlog, filter, output, system, table, owners>>

(* A defect: the time does not count.                                      *)
EchoesByKey(e) == \E n \in recent : rows[n].key = e.key

(* A defect: a copy with the earlier stamp is not taken for an echo.       *)
EchoesForward(e) ==
  \E n \in recent : rows[n].key = e.key /\ rows[n].ts <= e.ts /\ e.ts <= rows[n].ts + Window

(* DuplicateFilter.is_duplicate: against the last admission of the key.    *)
Echoes(e) == \E n \in recent : rows[n].key = e.key /\ Away(rows[n].ts, e.ts) <= Window

(* A defect: a key that is admitted again leaves its old entry.            *)
AdmittedAgain(e) == recent \cup {Len(rows) + 1}

(* A key moves to the end when it is admitted; the oldest leaves the map.  *)
Admitted(e) ==
  LET entries == {n \in recent : rows[n].key # e.key} \cup {Len(rows) + 1}
      oldest == CHOOSE n \in entries : \A k \in entries : n <= k
  IN IF Cardinality(entries) > MaxKeys THEN entries \ {oldest} ELSE entries

(* is_duplicate, under the lock of the filter.                             *)
Filter(i) ==
  /\ hand[i].step = "filter"
  /\ LET e == hand[i].event IN
       \/ /\ Echoes(e)
          /\ dropped' = dropped \cup {[id |-> e.id, key |-> e.key, ts |-> e.ts]}
          /\ UNCHANGED <<rows, recent, putting>>
       \/ /\ ~ Echoes(e)
          /\ recent' = Admitted(e) /\ rows' = Append(rows, e)
          /\ putting' = [putting EXCEPT ![i] = Len(rows) + 1]
          /\ UNCHANGED dropped
  /\ hand' = [hand EXCEPT ![i] = Idle]
  /\ UNCHANGED <<now, wire, backlog, queue, system, caches>>

(* The put, after the lock is released: another thread may be faster.      *)
Put(i) ==
  /\ putting[i] # 0
  /\ queue' = Append(queue, putting[i])
  /\ putting' = [putting EXCEPT ![i] = 0]
  /\ UNCHANGED <<now, wire, backlog, hand, filter, system, caches>>

Next ==
  \/ Tick
  \/ \E p \in Ports : Open(p) \/ Close(p)
  \/ \E m \in Ids, i \in Ifaces : Deliver(m, i)
  \/ \E i \in Ifaces : Classify(i) \/ Probe(i) \/ Remember(i) \/ Filter(i) \/ Put(i)

Spec == Init /\ [][Next]_vars

-----------------------------------------------------------------------------
Events == [id : Ids, key : {"query", "response"} \X STRING, ts : 0 .. MaxTime,
           process : 0 .. MaxSockets, asked : 0 .. MaxTime]
Frames == [id : Ids, ts : 0 .. MaxTime]

(* The variables hold what the program may put in them; the map of the     *)
(* filter has one entry for a key, and never more than its cap.            *)
TypeOK ==
  /\ now \in 0 .. MaxTime
  /\ sent \in [Ids -> -1 .. MaxTime] /\ (\A m \in Ids : copies[m] \in 0 .. Copies[m])
  /\ backlog \in [Ifaces -> Seq(Frames)]
  /\ hand \in [Ifaces -> {Idle} \cup [step : {"probe", "store", "filter"}, event : Events]]
  /\ putting \in [Ifaces -> Nat] /\ queue \in Seq(Nat)
  /\ rows \in Seq(Events) /\ recent \subseteq 1 .. Len(rows) /\ Cardinality(recent) <= MaxKeys
  /\ \A a, b \in recent : rows[a].key = rows[b].key => a = b
  /\ dropped \subseteq [id : Ids, key : {"query", "response"} \X STRING, ts : 0 .. MaxTime]
  /\ sock \in [Ports -> 0 .. opened] /\ opened \in 0 .. MaxSockets
  /\ closed \in [Sockets -> 0 .. MaxTime]
  /\ DOMAIN results \subseteq Ports
  /\ results \in [DOMAIN results -> [at : 0 .. MaxTime, process : 0 .. MaxSockets]]

(* "nothing real is discarded" (capture.py:318), for questions: the filter *)
(* drops a copy of one only when the same question is already on the queue *)
(* or about to be put there, however far a thread is behind.               *)
Handled(m) == \E e \in dropped : e.id = m
OnItsWay(n) == (\E i \in Ifaces : putting[i] = n) \/ \E k \in DOMAIN queue : queue[k] = n
Queued(m) == \E n \in DOMAIN rows : rows[n].id = m /\ OnItsWay(n)
QuestionsAreKept == \A m \in Ids : Packet[m].form = "query" /\ Handled(m) => Queued(m)

(* The same for answers: their key has neither a type nor a port, so the   *)
(* second answer of one lookup may fall into the window of the first.      *)
AnswersAreKept == \A m \in Ids : Packet[m].form = "response" /\ Handled(m) => Queued(m)

(* Whatever is dropped lies within the window of an event on the queue: a  *)
(* steady stream of copies must not push the window ahead of itself.       *)
DropsAreEchoes ==
  \A e \in dropped : \E n \in DOMAIN rows :
    rows[n].key = e.key /\ Away(rows[n].ts, e.ts) <= Window

(* A message is counted once, on however many interfaces it was captured   *)
(* and however late, unless in between a flood of other keys has pushed    *)
(* its key out, or another message of its key has moved the time stamp     *)
(* further away than the window.                                           *)
OtherKeys(a, b) == {rows[n].key : n \in a + 1 .. b - 1} \ {rows[a].key}
CountedOnce ==
  \A a, b \in DOMAIN rows :
    a < b /\ rows[a].id = rows[b].id =>
      \/ Cardinality(OtherKeys(a, b)) >= MaxKeys
      \/ \E n \in a + 1 .. b - 1 :
           rows[n].key = rows[b].key /\ rows[n].id # rows[b].id /\ Away(rows[n].ts, rows[b].ts) > Window

(* "the two copies of one captured frame always do [collide]"              *)
(* (capture.py:333-334): but for a flood, no message is counted twice.     *)
CopiesCollide ==
  \A a, b \in DOMAIN rows :
    a < b /\ rows[a].id = rows[b].id => Cardinality(OtherKeys(a, b)) >= MaxKeys

(* The process of a row owned the port of the query, or had owned it no    *)
(* longer ago than the two caches may be old: a port taken over by another *)
(* process is not attributed to its former owner for ever.                 *)
HeldSince(s, t) == (\E p \in Ports : sock[p] = s) \/ closed[s] >= t
AttributionIsFresh ==
  \A n \in DOMAIN rows : rows[n].process # 0 =>
    HeldSince(rows[n].process, rows[n].asked - ResultTtl - PortTtl)

=============================================================================
