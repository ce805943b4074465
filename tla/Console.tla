------------------------------ MODULE Console ------------------------------
(***************************************************************************)
(* What the console of ExfilTrap shows: the tables of storage.py that the  *)
(* pipeline appends to, the event stream and the statistics of             *)
(* dashboard/app.py that read them, and the purge that empties them.       *)
(*                                                                         *)
(* The pipeline and the API hold two connections to one database in        *)
(* autocommit mode, so every statement is an action: an insert, a select   *)
(* of the stream, a DELETE of one table.  The request threads, one for     *)
(* each stream and each poll, share the connection of the API and its      *)
(* lock.  Of the clock, only ages matter here: how long ago, up to the     *)
(* time-to-live of the cached statistics.                                  *)
(***************************************************************************)
EXTENDS Integers, FiniteSets

CONSTANTS
  Streams,   (* open consoles, each with one event stream                  *)
  Pollers,   (* request threads of /api/stats                              *)
  Purgers,   (* request threads of /api/purge                              *)
  Limit,     (* rows per read of the stream, per table                     *)
  Fresh,     (* time-to-live of the cached statistics                      *)
  MaxRows,   (* bound: rows ever inserted, per table                       *)
  MaxFaults  (* bound: reads of the stream that raise                      *)

Tables == {"queries", "events"}

ASSUME ConsoleAssumption ==
  /\ Limit \in [Tables -> Nat \ {0}]
  /\ Fresh \in Nat \ {0}
  /\ MaxRows \in [Tables -> Nat]
  /\ MaxFaults \in Nat

VARIABLES
  rows,    (* per table: the ids of its rows                               *)
  seq,     (* per table: the AUTOINCREMENT high-water mark                 *)
  phase,   (* per stream: what it does next                                *)
  cursor,  (* per stream and table: last_q, last_e                         *)
  batch,   (* per stream and table: the rows read and not yet sent         *)
  wiping,  (* per purger: its next step                                    *)
  cache,   (* _STATS_CACHE["v"]                                            *)
  poll,    (* per poller: the statistics it is computing                   *)
  faults,  (* reads that raised so far                                     *)
  got,     (* history: per stream and table, the rows sent                 *)
  owed,    (* history: ... and the rows inserted since, still in the table *)
  wiped    (* history: the age of the last DELETE                          *)

stream == <<phase, cursor, batch, got>>
stats == <<cache, poll>>
vars == <<rows, seq, stream, wiping, stats, faults, owed, wiped>>

-----------------------------------------------------------------------------
Absent == -1

(* Statistics: the time since their computation began, and whether rows    *)
(* they may count have been deleted meanwhile.                             *)
Figures == [age : Absent .. Fresh, old : BOOLEAN]
NoFigures == [age |-> Absent, old |-> FALSE]
Aged(v) == [v EXCEPT !.old = v.age # Absent]
Older(age) == IF age \in {Absent, Fresh} THEN age ELSE age + 1

(* COALESCE(MAX(id), 0)                                                    *)
MaxId(S) == IF S = {} THEN 0 ELSE CHOOSE i \in S : \A j \in S : j <= i

(* A defect: ORDER BY id DESC, as the tables of the page are read.         *)
NewestRows(t, c) ==
  LET new == {i \in rows[t] : i > c} IN
  {i \in new : Cardinality({j \in new : j > i}) < Limit[t]}

(* WHERE id > ? ORDER BY id ASC LIMIT ?                                    *)
RowsSince(t, c) ==
  LET new == {i \in rows[t] : i > c} IN
  {i \in new : Cardinality({j \in new : j < i}) < Limit[t]}

(* The connection has its cursor of the table.                             *)
Following(s, t) ==
  \/ phase[s] \in {"poll", "half", "send"}
  \/ phase[s] = "opening" /\ t = "queries"

(* Storage._lock: a purge holds it from its first DELETE to its last, and  *)
(* every other statement of the API's connection takes it.                 *)
Unlocked == \A p \in Purgers : wiping[p] # "more"

NoRows == [t \in Tables |-> {}]

Init ==
  /\ rows = NoRows
  /\ seq = [t \in Tables |-> 0]
  /\ phase = [s \in Streams |-> "off"]
  /\ cursor = [s \in Streams |-> [t \in Tables |-> 0]]
  /\ batch = [s \in Streams |-> NoRows]
  /\ wiping = [p \in Purgers |-> "idle"]
  /\ cache = NoFigures
  /\ poll = [p \in Pollers |-> NoFigures]
  /\ faults = 0
  /\ got = [s \in Streams |-> NoRows]
  /\ owed = [s \in Streams |-> NoRows]
  /\ wiped = Absent

Tick ==
  /\ cache' = [cache EXCEPT !.age = Older(@)]
  /\ poll' = [p \in Pollers |-> [poll[p] EXCEPT !.age = Older(@)]]
  /\ wiped' = Older(wiped)
  /\ UNCHANGED <<rows, seq, stream, wiping, faults, owed>>

-----------------------------------------------------------------------------
(* log_query and log_risk_event of the pipeline.                           *)
Insert(t) ==
  LET id == seq[t] + 1 IN
  /\ seq[t] < MaxRows[t]
  /\ seq' = [seq EXCEPT ![t] = id]
  /\ rows' = [rows EXCEPT ![t] = @ \cup {id}]
  /\ owed' = [s \in Streams |->
                IF Following(s, t) THEN [owed[s] EXCEPT ![t] = @ \cup {id}]
                                   ELSE owed[s]]
  /\ UNCHANGED <<stream, wiping, stats, faults, wiped>>

-----------------------------------------------------------------------------
(* The generator of /api/stream.                                           *)

Connect(s) ==
  /\ phase[s] = "off"
  /\ Unlocked
  /\ phase' = [phase EXCEPT ![s] = "opening"]
  /\ cursor' = [cursor EXCEPT ![s]["queries"] = MaxId(rows["queries"])]
  /\ UNCHANGED <<rows, seq, batch, got, wiping, stats, faults, owed, wiped>>

Open(s) ==
  /\ phase[s] = "opening"
  /\ Unlocked
  /\ phase' = [phase EXCEPT ![s] = "poll"]
  /\ cursor' = [cursor EXCEPT ![s]["events"] = MaxId(rows["events"])]
  /\ UNCHANGED <<rows, seq, batch, got, wiping, stats, faults, owed, wiped>>

ReadQueries(s) ==
  /\ phase[s] = "poll"
  /\ Unlocked
  /\ phase' = [phase EXCEPT ![s] = "half"]
  /\ batch' = [batch EXCEPT ![s]["queries"] =
                 RowsSince("queries", cursor[s]["queries"])]
  /\ UNCHANGED <<rows, seq, cursor, got, wiping, stats, faults, owed, wiped>>

ReadEvents(s) ==
  /\ phase[s] = "half"
  /\ Unlocked
  /\ phase' = [phase EXCEPT ![s] = "send"]
  /\ batch' = [batch EXCEPT ![s]["events"] =
                 RowsSince("events", cursor[s]["events"])]
  /\ UNCHANGED <<rows, seq, cursor, got, wiping, stats, faults, owed, wiped>>

(* "the stream must survive": the rows of this turn are read again.        *)
ReadFails(s) ==
  /\ phase[s] \in {"poll", "half"}
  /\ faults < MaxFaults
  /\ faults' = faults + 1
  /\ phase' = [phase EXCEPT ![s] = "poll"]
  /\ batch' = [batch EXCEPT ![s] = NoRows]
  /\ UNCHANGED <<rows, seq, cursor, got, wiping, stats, owed, wiped>>

(* The cursors move to the last row of each batch, and the frame is sent.  *)
Send(s) ==
  /\ phase[s] = "send"
  /\ phase' = [phase EXCEPT ![s] = "poll"]
  /\ cursor' = [cursor EXCEPT ![s] =
                  [t \in Tables |-> IF batch[s][t] = {} THEN @[t]
                                                        ELSE MaxId(batch[s][t])]]
  /\ got' = [got EXCEPT ![s] = [t \in Tables |-> @[t] \cup batch[s][t]]]
  /\ owed' = [owed EXCEPT ![s] = [t \in Tables |-> @[t] \ batch[s][t]]]
  /\ batch' = [batch EXCEPT ![s] = NoRows]
  /\ UNCHANGED <<rows, seq, wiping, stats, faults, wiped>>

(* GeneratorExit: the console has gone.                                    *)
Disconnect(s) ==
  /\ phase[s] \in {"opening", "poll", "send"}
  /\ phase' = [phase EXCEPT ![s] = "off"]
  /\ cursor' = [cursor EXCEPT ![s] = [t \in Tables |-> 0]]
  /\ got' = [got EXCEPT ![s] = NoRows]
  /\ batch' = [batch EXCEPT ![s] = NoRows]
  /\ owed' = [owed EXCEPT ![s] = NoRows]
  /\ UNCHANGED <<rows, seq, wiping, stats, faults, wiped>>

-----------------------------------------------------------------------------
(* /api/purge: one DELETE per table of the scope, then the cache is popped.*)

(* A defect: emptying a table starts its ids again.                        *)
DeleteRewinds(t) ==
  /\ rows' = [rows EXCEPT ![t] = {}]
  /\ seq' = [seq EXCEPT ![t] = 0]
  /\ owed' = [s \in Streams |-> [owed[s] EXCEPT ![t] = {}]]
  /\ wiped' = 0
  /\ cache' = Aged(cache)
  /\ poll' = [p \in Pollers |-> Aged(poll[p])]

Delete(t) ==
  /\ rows' = [rows EXCEPT ![t] = {}]
  /\ owed' = [s \in Streams |-> [owed[s] EXCEPT ![t] = {}]]
  /\ wiped' = 0
  /\ cache' = Aged(cache)
  /\ poll' = [p \in Pollers |-> Aged(poll[p])]
  /\ UNCHANGED seq

(* Scope "queries" has one table to delete, "evidence" has more.           *)
Purge(p, scope) ==
  /\ wiping[p] = "idle"
  /\ Unlocked
  /\ Delete("queries")
  /\ wiping' = [wiping EXCEPT ![p] = IF scope = "queries" THEN "pop" ELSE "more"]
  /\ UNCHANGED <<stream, faults>>

PurgeEvents(p) ==
  /\ wiping[p] = "more"
  /\ Delete("events")
  /\ wiping' = [wiping EXCEPT ![p] = "pop"]
  /\ UNCHANGED <<stream, faults>>

DropCache(p) ==
  /\ wiping[p] = "pop"
  /\ cache' = NoFigures
  /\ wiping' = [wiping EXCEPT ![p] = "idle"]
  /\ UNCHANGED <<rows, seq, stream, poll, faults, owed, wiped>>

-----------------------------------------------------------------------------
(* /api/stats.  A poll that hits the cache answers from it and changes     *)
(* nothing.                                                                *)

CacheHit == cache.age \in 0 .. Fresh - 1

Compute(p) ==
  /\ poll[p] = NoFigures
  /\ ~ CacheHit
  /\ poll' = [poll EXCEPT ![p] = [age |-> 0, old |-> FALSE]]
  /\ UNCHANGED <<rows, seq, stream, wiping, cache, faults, owed, wiped>>

(* A defect: the figures are stamped when they are ready.                  *)
PublishRestamped(p) ==
  /\ poll[p] # NoFigures
  /\ cache' = [poll[p] EXCEPT !.age = 0]
  /\ poll' = [poll EXCEPT ![p] = NoFigures]
  /\ UNCHANGED <<rows, seq, stream, wiping, faults, owed, wiped>>

(* The computed figures carry the time at which their computation began.   *)
Publish(p) ==
  /\ poll[p] # NoFigures
  /\ cache' = poll[p]
  /\ poll' = [poll EXCEPT ![p] = NoFigures]
  /\ UNCHANGED <<rows, seq, stream, wiping, faults, owed, wiped>>

-----------------------------------------------------------------------------
Streaming(s) == Open(s) \/ ReadQueries(s) \/ ReadEvents(s) \/ Send(s)

Next ==
  \/ Tick
  \/ \E t \in Tables : Insert(t)
  \/ \E s \in Streams : Connect(s) \/ Streaming(s) \/ ReadFails(s) \/ Disconnect(s)
  \/ \E p \in Purgers : PurgeEvents(p) \/ DropCache(p)
                        \/ \E scope \in {"queries", "evidence"} : Purge(p, scope)
  \/ \E p \in Pollers : Compute(p) \/ Publish(p)

Spec == Init /\ [][Next]_vars

(* The generator of an open stream and a purge that has begun keep         *)
(* running; nothing obliges the pipeline, a poll, a fault, a purge or a    *)
(* new connection to happen.                                               *)
FairSpec ==
  /\ Spec
  /\ \A s \in Streams : WF_vars(Streaming(s))
  /\ \A p \in Purgers : WF_vars(PurgeEvents(p) \/ DropCache(p))

-----------------------------------------------------------------------------
TypeOK ==
  /\ rows \in [Tables -> SUBSET Nat]
  /\ seq \in [Tables -> Nat]
  /\ \A t \in Tables : rows[t] \subseteq 1 .. seq[t] /\ seq[t] <= MaxRows[t]
  /\ phase \in [Streams -> {"off", "opening", "poll", "half", "send"}]
  /\ cursor \in [Streams -> [Tables -> Nat]]
  /\ \A s \in Streams, t \in Tables : cursor[s][t] <= seq[t]
  /\ batch \in [Streams -> [Tables -> SUBSET Nat]]
  /\ wiping \in [Purgers -> {"idle", "more", "pop"}]
  /\ cache \in Figures
  /\ poll \in [Pollers -> Figures]
  /\ faults \in 0 .. MaxFaults
  /\ got \in [Streams -> [Tables -> SUBSET Nat]]
  /\ owed \in [Streams -> [Tables -> SUBSET Nat]]
  /\ wiped \in Absent .. Fresh

(* No cursor ever passes a row its console is still owed: a purge between  *)
(* two reads, a read that raised, a batch cut by its limit or a burst of   *)
(* inserts never leaves a gap in the feed ("that cursor would sit above    *)
(* every future row", docstring of purge).                                 *)
NoGap ==
  \A s \in Streams, t \in Tables : \A i \in owed[s][t] : i > cursor[s][t]

(* The streams are typed and leave no gap.                                 *)
FeedSound == TypeOK /\ NoGap

(* A row inserted while a console is open reaches it, unless the row is    *)
(* purged or the console goes: the live feed never goes silent.            *)
RowsArrive ==
  \A s \in Streams, t \in Tables : \A i \in 1 .. MaxRows[t] :
    i \in owed[s][t] ~> i \notin owed[s][t]

(* Deleted rows are counted in no answer given from the cache a time-to-   *)
(* live or more after the deletion, however long the poll that computed    *)
(* them was at work across it ("never serving anything older than half a   *)
(* second"); while they are computed, they carry their age with them.      *)
PurgeSettles ==
  /\ CacheHit /\ cache.old => wiped < Fresh
  /\ \A p \in Pollers : poll[p].old => poll[p].age >= wiped

(* The stream implements the feed of each table: a console that opens gets *)
(* every row that is inserted and not purged once, in order, however its   *)
(* reads, inserts, purges and faults interleave.                           *)
FeedOf(s, t) == INSTANCE Feed WITH
  table <- rows[t], last <- seq[t], pos <- cursor[s][t], sent <- got[s][t]

FeedImplemented ==
  /\ \A s \in Streams, t \in Tables : FeedOf(s, t)!Init
  /\ [][\A s \in Streams, t \in Tables : [FeedOf(s, t)!Next]_(FeedOf(s, t)!feed)]_vars

=============================================================================
