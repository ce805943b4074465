--------------------------- MODULE Console_proofs ---------------------------
(* Proofs about Console: its types; that no cursor of a stream ever passes *)
(* a row its console is owed; that the figures of before a purge are not   *)
(* served beyond a time-to-live; and that every stream implements Feed.    *)
EXTENDS Console, FiniteSetTheorems, WellFoundedInduction, TLAPS

(* What the selects of storage.py answer.                                  *)

LEMMA Maximum ==
  ASSUME NEW n \in Nat, NEW S \in SUBSET (1 .. n), S # {}
  PROVE  \E i \in S : \A j \in S : j <= i
<1> DEFINE D == {n - i : i \in S}
<1>1. D \subseteq Nat /\ D # {}
  <2>1. \A i \in S : i \in Int /\ 1 <= i /\ i <= n
    OBVIOUS
  <2>2. \A i \in S : n - i \in Nat
    BY <2>1
  <2> QED BY <2>2
<1>2. PICK d \in D : \A e \in D : ~ (<<e, d>> \in OpToRel(<, Nat))
  <2> HIDE DEF D
  <2> QED BY <1>1, NatLessThanWellFounded, WFMin
<1>3. PICK i \in S : d = n - i
  OBVIOUS
<1>4. ASSUME NEW j \in S PROVE j <= i
  <2>1. n - j \in D /\ n - j \in Nat /\ d \in Nat
    OBVIOUS
  <2>2. ~ (n - j < d)
    <3> HIDE DEF D
    <3> QED BY <1>2, <2>1 DEF OpToRel
  <2> QED BY <1>3, <2>2
<1> QED BY <1>4

LEMMA MaxIdIsLast ==
  ASSUME NEW n \in Nat, NEW S \in SUBSET (1 .. n)
  PROVE  /\ MaxId(S) \in 0 .. n
         /\ S # {} => MaxId(S) \in S
         /\ \A j \in S : j <= MaxId(S)
<1>1. CASE S = {}
  BY <1>1 DEF MaxId
<1>2. CASE S # {}
  <2>1. MaxId(S) \in S /\ \A j \in S : j <= MaxId(S)
    BY <1>2, Maximum DEF MaxId
  <2>2. \A i \in S : i \in 0 .. n
    OBVIOUS
  <2> QED BY <1>2, <2>1, <2>2
<1> QED BY <1>1, <1>2

LEMMA RowsSinceIsPrefix ==
  ASSUME TypeOK, NEW t \in Tables, NEW c \in Nat
  PROVE  /\ RowsSince(t, c) \subseteq rows[t]
         /\ \A i \in rows[t] : i > c /\ i \notin RowsSince(t, c) =>
              \A j \in RowsSince(t, c) : j < i
<1> DEFINE new == {i \in rows[t] : i > c}
<1>1. rows[t] \subseteq Nat /\ IsFiniteSet(new)
  <2>1. seq[t] \in Nat /\ rows[t] \subseteq 1 .. seq[t]
    BY DEF TypeOK
  <2>2. IsFiniteSet(1 .. seq[t])
    BY <2>1, FS_Interval
  <2> QED BY <2>1, <2>2, FS_Subset
<1>2. ASSUME NEW i \in new, NEW j \in new, j \in RowsSince(t, c), ~ (j < i)
      PROVE  i \in RowsSince(t, c)
  <2>1. {k \in new : k < i} \in SUBSET {k \in new : k < j}
    BY <1>1, <1>2
  <2>2. IsFiniteSet({k \in new : k < j}) /\ IsFiniteSet({k \in new : k < i})
    BY <1>1, FS_Subset
  <2>3. Cardinality({k \in new : k < i}) <= Cardinality({k \in new : k < j})
    <3> HIDE DEF new
    <3> QED BY <2>1, <2>2, FS_Subset
  <2>4. /\ Cardinality({k \in new : k < i}) \in Nat
        /\ Cardinality({k \in new : k < j}) \in Nat
    <3> HIDE DEF new
    <3> QED BY <2>2, FS_CardinalityType
  <2>5. Cardinality({k \in new : k < j}) < Limit[t]
    BY <1>2 DEF RowsSince
  <2>6. Limit[t] \in Nat
    BY ConsoleAssumption
  <2>7. Cardinality({k \in new : k < i}) < Limit[t]
    BY <2>3, <2>4, <2>5, <2>6
  <2> QED BY <2>7 DEF RowsSince
<1>3. RowsSince(t, c) \subseteq new
  BY DEF RowsSince
<1> QED BY <1>2, <1>3

(* The types.                                                              *)

LEMMA OlderAge == \A age \in Absent .. Fresh : Older(age) \in Absent .. Fresh
BY ConsoleAssumption DEF Older, Absent

LEMMA FiguresAge ==
  /\ NoFigures \in Figures
  /\ [age |-> 0, old |-> FALSE] \in Figures
  /\ \A v \in Figures : Aged(v) \in Figures /\ [v EXCEPT !.age = Older(@)] \in Figures
<1> USE ConsoleAssumption
<1>1. NoFigures \in Figures /\ [age |-> 0, old |-> FALSE] \in Figures
  BY DEF NoFigures, Figures, Absent
<1>2. ASSUME NEW v \in Figures PROVE Aged(v) \in Figures
  BY DEF Aged, Figures
<1>3. ASSUME NEW v \in Figures PROVE [v EXCEPT !.age = Older(@)] \in Figures
  <2>1. Older(v.age) \in Absent .. Fresh
    BY OlderAge DEF Figures
  <2> QED BY <2>1 DEF Figures
<1> QED BY <1>1, <1>2, <1>3

LEMMA DeleteTypes ==
  ASSUME TypeOK, NEW t \in Tables, Delete(t),
         UNCHANGED <<stream, faults>>, wiping' \in [Purgers -> {"idle", "more", "pop"}]
  PROVE  TypeOK'
<1> USE ConsoleAssumption DEF TypeOK
<1>1. cache' \in Figures /\ poll' \in [Pollers -> Figures]
  BY FiguresAge DEF Delete
<1>2. wiped' \in Absent .. Fresh
  BY DEF Delete, Absent
<1>3. /\ rows' \in [Tables -> SUBSET Nat] /\ seq' \in [Tables -> Nat]
      /\ \A u \in Tables : rows'[u] \subseteq 1 .. seq'[u] /\ seq'[u] <= MaxRows[u]
  BY DEF Delete
<1>4. owed' \in [Streams -> [Tables -> SUBSET Nat]]
  BY DEF Delete
<1> QED BY <1>1, <1>2, <1>3, <1>4 DEF Delete, stream

(* A batch is of rows that have been inserted; with it the cursor it       *)
(* becomes stays within the ids given out.                                 *)
BatchInserted ==
  \A s \in Streams, t \in Tables : batch[s][t] \subseteq 1 .. seq[t]

LEMMA NextTypes == TypeOK /\ BatchInserted /\ [Next]_vars => TypeOK'
<1> SUFFICES ASSUME TypeOK, BatchInserted, [Next]_vars PROVE TypeOK'
  OBVIOUS
<1> USE ConsoleAssumption
<1>1. CASE Tick
  <2>1. cache' \in Figures /\ poll' \in [Pollers -> Figures]
    BY <1>1, FiguresAge DEF Tick, TypeOK
  <2>2. wiped' \in Absent .. Fresh
    BY <1>1, OlderAge DEF Tick, TypeOK
  <2> QED BY <1>1, <2>1, <2>2 DEF Tick, TypeOK, stream
<1>2. ASSUME NEW t \in Tables, Insert(t) PROVE TypeOK'
  <2>1. seq[t] + 1 \in Nat /\ seq[t] + 1 <= MaxRows[t]
    BY <1>2 DEF Insert, TypeOK
  <2>2. /\ rows' \in [Tables -> SUBSET Nat] /\ seq' \in [Tables -> Nat]
        /\ \A u \in Tables : rows'[u] \subseteq 1 .. seq'[u] /\ seq'[u] <= MaxRows[u]
        /\ \A u \in Tables : seq[u] <= seq'[u]
    BY <1>2, <2>1 DEF Insert, TypeOK
  <2>3. owed' \in [Streams -> [Tables -> SUBSET Nat]]
    BY <1>2, <2>1 DEF Insert, TypeOK
  <2>4. \A s \in Streams, u \in Tables : cursor[s][u] <= seq'[u]
    BY <2>2 DEF TypeOK
  <2> QED BY <1>2, <2>2, <2>3, <2>4 DEF Insert, TypeOK, stream, stats
<1>3. ASSUME NEW s \in Streams, Connect(s) \/ Open(s) PROVE TypeOK'
  <2>1. \A t \in Tables : MaxId(rows[t]) \in 0 .. seq[t]
    BY MaxIdIsLast DEF TypeOK
  <2>2. /\ cursor' \in [Streams -> [Tables -> Nat]]
        /\ \A r \in Streams, t \in Tables : cursor'[r][t] <= seq[t]
    <3>1. PICK u \in Tables : cursor' = [cursor EXCEPT ![s][u] = MaxId(rows[u])]
      BY <1>3 DEF Connect, Open, Tables
    <3>2. MaxId(rows[u]) \in Nat /\ MaxId(rows[u]) <= seq[u]
      BY <2>1 DEF TypeOK
    <3> QED BY <3>1, <3>2 DEF TypeOK
  <2> QED BY <1>3, <2>2 DEF Connect, Open, TypeOK, stats
<1>4. ASSUME NEW s \in Streams, ReadQueries(s) \/ ReadEvents(s) PROVE TypeOK'
  <2>1. \A t \in Tables : RowsSince(t, cursor[s][t]) \subseteq Nat
    BY RowsSinceIsPrefix DEF TypeOK
  <2>2. PICK t \in Tables :
          batch' = [batch EXCEPT ![s][t] = RowsSince(t, cursor[s][t])]
    BY <1>4 DEF ReadQueries, ReadEvents, Tables
  <2>3. batch' \in [Streams -> [Tables -> SUBSET Nat]]
    BY <2>1, <2>2 DEF TypeOK
  <2> QED BY <1>4, <2>3 DEF ReadQueries, ReadEvents, TypeOK, stats
<1>5. ASSUME NEW s \in Streams, ReadFails(s) PROVE TypeOK'
  BY <1>5 DEF ReadFails, TypeOK, NoRows, stats
<1>6. ASSUME NEW s \in Streams, Send(s) PROVE TypeOK'
  <2>1. \A t \in Tables : batch[s][t] # {} => MaxId(batch[s][t]) \in 0 .. seq[t]
    BY MaxIdIsLast DEF TypeOK, BatchInserted
  <2>2. /\ cursor' \in [Streams -> [Tables -> Nat]]
        /\ \A r \in Streams, t \in Tables : cursor'[r][t] <= seq[t]
    BY <1>6, <2>1 DEF Send, TypeOK
  <2> QED BY <1>6, <2>2 DEF Send, TypeOK, NoRows, stats
<1>7. ASSUME NEW s \in Streams, Disconnect(s) PROVE TypeOK'
  BY <1>7 DEF Disconnect, TypeOK, NoRows, stats
<1>8. ASSUME NEW p \in Purgers, NEW scope, Purge(p, scope) PROVE TypeOK'
  BY <1>8, DeleteTypes DEF Purge, TypeOK, Tables
<1>9. ASSUME NEW p \in Purgers, PurgeEvents(p) PROVE TypeOK'
  BY <1>9, DeleteTypes DEF PurgeEvents, TypeOK, Tables
<1>10. ASSUME NEW p \in Purgers, DropCache(p) PROVE TypeOK'
  BY <1>10, FiguresAge DEF DropCache, TypeOK, stream
<1>11. ASSUME NEW p \in Pollers, Compute(p) \/ Publish(p) PROVE TypeOK'
  <2>1. cache' \in Figures /\ poll' \in [Pollers -> Figures]
    <3>1. CASE Compute(p)
      BY <3>1, FiguresAge DEF Compute, TypeOK
    <3>2. CASE Publish(p)
      <4>1. NoFigures \in Figures /\ poll[p] \in Figures
        BY FiguresAge DEF TypeOK
      <4> QED BY <3>2, <4>1 DEF Publish, TypeOK
    <3> QED BY <1>11, <3>1, <3>2
  <2> QED BY <1>11, <2>1 DEF Compute, Publish, TypeOK, stream
<1>12. CASE UNCHANGED vars
  BY <1>12 DEF vars, stream, stats, TypeOK
<1> QED BY <1>1, <1>2, <1>3, <1>4, <1>5, <1>6, <1>7, <1>8, <1>9, <1>10, <1>11, <1>12
        DEF Next, Streaming

-----------------------------------------------------------------------------
(* What is owed to a console is in the table and ahead of its cursor, and  *)
(* a row its last read left out is behind every row that read found.       *)
Ahead ==
  \A s \in Streams, t \in Tables : \A i \in owed[s][t] :
    /\ i \in rows[t]
    /\ i > cursor[s][t]
    /\ i \in batch[s][t] \/ \A j \in batch[s][t] : j < i

(* Nothing is owed before there is a cursor.                               *)
OwedFollowing ==
  \A s \in Streams, t \in Tables : ~ Following(s, t) => owed[s][t] = {}

FeedInv == TypeOK /\ BatchInserted /\ OwedFollowing /\ Ahead

LEMMA InitFeed == Init => FeedInv
BY ConsoleAssumption
   DEF Init, FeedInv, TypeOK, BatchInserted, OwedFollowing, Ahead, NoRows,
       NoFigures, Figures, Absent

(* Emptying a table leaves less owed.                                      *)
LEMMA DeleteFeed ==
  ASSUME FeedInv, NEW t \in Tables, Delete(t), UNCHANGED stream
  PROVE  BatchInserted' /\ OwedFollowing' /\ Ahead'
<1> USE DEF FeedInv, TypeOK
<1>1. BatchInserted'
  BY DEF Delete, stream, BatchInserted
<1>2. \A s \in Streams, u \in Tables :
        owed'[s][u] = IF u = t THEN {} ELSE owed[s][u]
  BY DEF Delete
<1>3. OwedFollowing'
  BY <1>2 DEF OwedFollowing, Following, stream
<1>4. Ahead'
  BY <1>2 DEF Ahead, Delete, stream
<1> QED BY <1>1, <1>3, <1>4

LEMMA InsertFeed ==
  ASSUME FeedInv, NEW t \in Tables, Insert(t)
  PROVE  BatchInserted' /\ OwedFollowing' /\ Ahead'
<1> USE DEF FeedInv, TypeOK
<1> DEFINE id == seq[t] + 1
<1>1. /\ id \in Nat
      /\ \A u \in Tables : seq[u] \in Nat /\ seq'[u] = IF u = t THEN id ELSE seq[u]
      /\ \A u \in Tables : rows'[u] = IF u = t THEN rows[u] \cup {id} ELSE rows[u]
  <2>1. id \in Nat /\ \A u \in Tables : seq[u] \in Nat
    OBVIOUS
  <2>2. seq' = [seq EXCEPT ![t] = id] /\ rows' = [rows EXCEPT ![t] = @ \cup {id}]
    BY DEF Insert
  <2> HIDE DEF id
  <2> QED BY <2>1, <2>2
<1>2. \A s \in Streams, u \in Tables :
        owed'[s][u] = IF u = t /\ Following(s, t) THEN owed[s][u] \cup {id}
                                                  ELSE owed[s][u]
  <2>1. owed' = [s \in Streams |->
                   IF Following(s, t) THEN [owed[s] EXCEPT ![t] = @ \cup {id}]
                                      ELSE owed[s]]
    BY DEF Insert
  <2> HIDE DEF id
  <2> QED BY <2>1
<1>3. UNCHANGED <<phase, cursor, batch>>
  BY DEF Insert, stream
<1>4. BatchInserted'
  <2>1. ASSUME NEW u \in Tables PROVE 1 .. seq[u] \subseteq 1 .. seq'[u]
    <3> HIDE DEF FeedInv, TypeOK
    <3>1. CASE u = t
      <4>1. seq[u] \in Nat /\ seq'[u] = seq[u] + 1
        BY <1>1, <3>1
      <4> QED BY <4>1
    <3>2. CASE u # t
      BY <1>1, <3>2
    <3> QED BY <3>1, <3>2
  <2> QED BY <1>3, <2>1 DEF BatchInserted
<1>5. OwedFollowing'
  BY <1>2, <1>3 DEF OwedFollowing, Following
<1>6. ASSUME NEW s \in Streams, NEW u \in Tables, NEW i \in owed'[s][u]
      PROVE  /\ i \in rows'[u]
             /\ i > cursor[s][u]
             /\ i \in batch[s][u] \/ \A j \in batch[s][u] : j < i
  <2>1. CASE i \in owed[s][u]
    BY <1>1, <2>1 DEF Ahead
  <2>2. CASE u = t /\ i = id
    <3>1. cursor[s][t] \in Nat /\ cursor[s][t] < id
      BY <1>1
    <3>2. \A j \in batch[s][t] : j < id
      <4>1. \A j \in 1 .. seq[t] : j < id
        BY <1>1
      <4> QED BY <4>1 DEF BatchInserted
    <3> QED BY <1>1, <2>2, <3>1, <3>2
  <2> QED BY <1>2, <1>6, <2>1, <2>2
<1> QED BY <1>3, <1>4, <1>5, <1>6 DEF Ahead

LEMMA ReadFeed ==
  ASSUME FeedInv, NEW s \in Streams, ReadQueries(s) \/ ReadEvents(s)
  PROVE  BatchInserted' /\ OwedFollowing' /\ Ahead'
<1> USE DEF FeedInv, TypeOK
<1>1. PICK t \in Tables :
        /\ batch' = [batch EXCEPT ![s][t] = RowsSince(t, cursor[s][t])]
        /\ UNCHANGED <<rows, seq, cursor, owed>>
  BY DEF ReadQueries, ReadEvents, Tables
<1>2. \A r \in Streams, u \in Tables :
        batch'[r][u] = IF r = s /\ u = t THEN RowsSince(t, cursor[s][t])
                                         ELSE batch[r][u]
  BY <1>1
<1>3. /\ RowsSince(t, cursor[s][t]) \subseteq rows[t]
      /\ \A i \in rows[t] : i > cursor[s][t] /\ i \notin RowsSince(t, cursor[s][t]) =>
           \A j \in RowsSince(t, cursor[s][t]) : j < i
  BY RowsSinceIsPrefix
<1>4. BatchInserted'
  BY <1>1, <1>2, <1>3 DEF BatchInserted
<1>5. OwedFollowing'
  <2>1. phase[s] \in {"poll", "half"} /\ \A r \in Streams \ {s} : phase'[r] = phase[r]
    BY DEF ReadQueries, ReadEvents
  <2>2. phase'[s] \in {"half", "send"}
    BY DEF ReadQueries, ReadEvents
  <2> QED BY <1>1, <2>1, <2>2 DEF OwedFollowing, Following
<1>6. Ahead'
  BY <1>1, <1>2, <1>3 DEF Ahead
<1> QED BY <1>4, <1>5, <1>6

LEMMA SendFeed ==
  ASSUME FeedInv, NEW s \in Streams, Send(s)
  PROVE  BatchInserted' /\ OwedFollowing' /\ Ahead'
<1> USE DEF FeedInv, TypeOK
<1>1. /\ UNCHANGED <<rows, seq>>
      /\ \A r \in Streams, t \in Tables :
           /\ batch'[r][t] = IF r = s THEN {} ELSE batch[r][t]
           /\ owed'[r][t] = IF r = s THEN owed[r][t] \ batch[r][t] ELSE owed[r][t]
           /\ cursor'[r][t] = IF r = s /\ batch[r][t] # {} THEN MaxId(batch[r][t])
                                                         ELSE cursor[r][t]
  BY DEF Send, NoRows
<1>2. BatchInserted'
  BY <1>1 DEF BatchInserted
<1>3. OwedFollowing'
  <2>1. phase[s] = "send" /\ phase' = [phase EXCEPT ![s] = "poll"]
    BY DEF Send
  <2> QED BY <1>1, <2>1 DEF OwedFollowing, Following
<1>4. ASSUME NEW t \in Tables, NEW i \in owed[s][t], i \notin batch[s][t], batch[s][t] # {}
      PROVE  i > MaxId(batch[s][t])
  <2>1. MaxId(batch[s][t]) \in batch[s][t]
    BY <1>4, MaxIdIsLast DEF BatchInserted
  <2> QED BY <1>4, <2>1 DEF Ahead
<1>5. Ahead'
  <2>1. ASSUME NEW r \in Streams, NEW t \in Tables, NEW i \in owed'[r][t]
        PROVE  /\ i \in rows[t]
               /\ i > cursor'[r][t]
               /\ i \in batch'[r][t] \/ \A j \in batch'[r][t] : j < i
    <3>1. i \in owed[r][t]
      BY <1>1, <2>1
    <3> HIDE DEF TypeOK
    <3>0. /\ i \in rows[t]
          /\ i > cursor[r][t]
          /\ i \in batch[r][t] \/ \A j \in batch[r][t] : j < i
      BY <3>1 DEF Ahead
    <3>2. CASE r = s
      <4>1. i \notin batch[s][t] /\ i \in owed[s][t]
        BY <1>1, <2>1, <3>1, <3>2
      <4>2. batch'[r][t] = {}
        BY <1>1, <3>2
      <4>3. i > cursor'[r][t]
        BY <1>1, <1>4, <3>0, <3>2, <4>1
      <4> QED BY <3>0, <4>2, <4>3
    <3>3. CASE r # s
      BY <1>1, <3>0, <3>3
    <3> QED BY <3>2, <3>3
  <2> QED BY <1>1, <2>1 DEF Ahead
<1> QED BY <1>2, <1>3, <1>5

LEMMA NextFeed == FeedInv /\ [Next]_vars => FeedInv'
<1> SUFFICES ASSUME FeedInv, [Next]_vars PROVE FeedInv'
  OBVIOUS
<1> SUFFICES BatchInserted' /\ OwedFollowing' /\ Ahead'
  BY NextTypes DEF FeedInv
<1> USE DEF FeedInv
<1>1. CASE Tick
  BY <1>1 DEF Tick, stream, BatchInserted, OwedFollowing, Following, Ahead
<1>2. ASSUME NEW t \in Tables, Insert(t)
      PROVE  BatchInserted' /\ OwedFollowing' /\ Ahead'
  BY <1>2, InsertFeed
<1>3. ASSUME NEW s \in Streams, Connect(s) \/ Open(s)
      PROVE  BatchInserted' /\ OwedFollowing' /\ Ahead'
  <2>1. PICK t \in Tables : /\ cursor' = [cursor EXCEPT ![s][t] = MaxId(rows[t])]
                            /\ owed[s][t] = {}
                            /\ UNCHANGED <<rows, seq, batch, owed>>
    BY <1>3 DEF Connect, Open, Tables, OwedFollowing, Following
  <2>2. OwedFollowing'
    <3>1. phase[s] \in {"off", "opening"} /\ phase'[s] \in {"opening", "poll"}
          /\ \A r \in Streams \ {s} : phase'[r] = phase[r]
      BY <1>3 DEF Connect, Open, TypeOK
    <3>2. phase[s] = "off" => phase'[s] = "opening"
      BY <1>3 DEF Connect, Open, TypeOK
    <3> QED BY <1>3, <2>1, <3>1, <3>2 DEF OwedFollowing, Following
  <2>3. Ahead'
    BY <2>1 DEF Ahead, TypeOK
  <2> QED BY <2>1, <2>2, <2>3 DEF BatchInserted
<1>4. ASSUME NEW s \in Streams, ReadQueries(s) \/ ReadEvents(s)
      PROVE  BatchInserted' /\ OwedFollowing' /\ Ahead'
  BY <1>4, ReadFeed
<1>5. ASSUME NEW s \in Streams, Send(s)
      PROVE  BatchInserted' /\ OwedFollowing' /\ Ahead'
  BY <1>5, SendFeed
<1>6. ASSUME NEW s \in Streams, ReadFails(s) \/ Disconnect(s)
      PROVE  BatchInserted' /\ OwedFollowing' /\ Ahead'
  <2>1. /\ UNCHANGED <<rows, seq>>
        /\ batch' = [batch EXCEPT ![s] = NoRows]
        /\ \/ UNCHANGED <<owed, cursor>>
           \/ owed' = [owed EXCEPT ![s] = NoRows] /\ \A r \in Streams \ {s} : cursor'[r] = cursor[r]
    BY <1>6 DEF ReadFails, Disconnect, TypeOK
  <2>2. BatchInserted'
    BY <2>1 DEF BatchInserted, NoRows, TypeOK
  <2>3. OwedFollowing'
    <3>1. CASE ReadFails(s)
      BY <3>1 DEF ReadFails, OwedFollowing, Following, TypeOK
    <3>2. CASE Disconnect(s)
      BY <3>2 DEF Disconnect, OwedFollowing, Following, TypeOK, NoRows
    <3> QED BY <1>6, <3>1, <3>2
  <2>4. Ahead'
    BY <2>1 DEF Ahead, NoRows, TypeOK
  <2> QED BY <2>2, <2>3, <2>4
<1>7. ASSUME NEW p \in Purgers, NEW scope, Purge(p, scope) \/ PurgeEvents(p)
      PROVE  BatchInserted' /\ OwedFollowing' /\ Ahead'
  <2>1. UNCHANGED stream /\ \E t \in Tables : Delete(t)
    BY <1>7 DEF Purge, PurgeEvents, Tables
  <2> QED BY <2>1, DeleteFeed
<1>8. ASSUME NEW p \in Purgers, DropCache(p)
      PROVE  BatchInserted' /\ OwedFollowing' /\ Ahead'
  BY <1>8 DEF DropCache, stream, BatchInserted, OwedFollowing, Following, Ahead
<1>9. ASSUME NEW p \in Pollers, Compute(p) \/ Publish(p)
      PROVE  BatchInserted' /\ OwedFollowing' /\ Ahead'
  BY <1>9 DEF Compute, Publish, stream, BatchInserted, OwedFollowing, Following, Ahead
<1>10. CASE UNCHANGED vars
  BY <1>10 DEF vars, stream, BatchInserted, OwedFollowing, Following, Ahead
<1> QED BY <1>1, <1>2, <1>3, <1>4, <1>5, <1>6, <1>7, <1>8, <1>9, <1>10
        DEF Next, Streaming

THEOREM FeedInvariant == Spec => []FeedInv
BY InitFeed, NextFeed, PTL DEF Spec

(* Every variable keeps its type, whatever the number of consoles, polls   *)
(* and purges and the limits of the reads.                                 *)
THEOREM TypeCorrect == Spec => []TypeOK
BY FeedInvariant, PTL DEF FeedInv

(* No cursor of an open stream ever stands at or above a row that was      *)
(* inserted since the console opened, has not been sent to it and is still *)
(* in the table: no row is passed over.                                    *)
THEOREM NoRowPassedOver == Spec => []NoGap
<1>1. FeedInv => NoGap
  BY DEF FeedInv, Ahead, NoGap
<1> QED BY <1>1, FeedInvariant, PTL

(* What a console has been sent is a sound feed: the cursors have their    *)
(* types and none of them has passed a row it owes.                        *)
THEOREM FeedIsSound == Spec => []FeedSound
<1>1. TypeOK /\ NoGap => FeedSound
  BY DEF FeedSound
<1> QED BY TypeCorrect, NoRowPassedOver, <1>1, PTL

-----------------------------------------------------------------------------
(* The statistics.  Figures that count deleted rows are at least as old as *)
(* the last deletion.                                                      *)
Dated(v) == v.old => v.age >= wiped /\ v.age # Absent
FiguresDated == Dated(cache) /\ \A p \in Pollers : Dated(poll[p])

(* A deletion makes every figure of before it old, and none as old as it.  *)
LEMMA AgedDated ==
  ASSUME NEW v \in Figures, NEW w \in Absent .. Fresh, w = 0
  PROVE  Aged(v).old => Aged(v).age >= w /\ Aged(v).age # Absent
<1>1. v.age \in -1 .. Fresh /\ Fresh \in Nat
  BY ConsoleAssumption DEF Figures, Absent
<1>2. Aged(v).age = v.age /\ Aged(v).old = (v.age # -1)
  BY DEF Figures, Aged, Absent
<1>3. Aged(v).old => v.age # -1
  BY <1>2, Zenon
<1>4. v.age # -1 => v.age >= 0
  BY <1>1
<1> QED BY <1>2, <1>3, <1>4 DEF Absent

(* Figures and deletion grow older together, up to the time-to-live.       *)
LEMMA OlderDated ==
  ASSUME NEW v \in Figures, NEW w \in Absent .. Fresh, v.old => v.age >= w /\ v.age # Absent
  PROVE  LET u == [v EXCEPT !.age = Older(@)]
         IN  u.old => u.age >= Older(w) /\ u.age # Absent
BY ConsoleAssumption DEF Figures, Older, Absent

LEMMA NextDated == TypeOK /\ FiguresDated /\ [Next]_vars => FiguresDated'
<1> SUFFICES ASSUME TypeOK, FiguresDated, [Next]_vars PROVE FiguresDated'
  OBVIOUS
<1>0. cache \in Figures /\ poll \in [Pollers -> Figures] /\ wiped \in Absent .. Fresh
  BY DEF TypeOK
<1>1. CASE Tick
  <2>1. wiped' = Older(wiped) /\ cache' = [cache EXCEPT !.age = Older(@)]
        /\ \A p \in Pollers : poll'[p] = [poll[p] EXCEPT !.age = Older(@)]
    BY <1>1 DEF Tick
  <2>2. Dated(cache)'
    BY <1>0, <2>1, OlderDated DEF FiguresDated, Dated
  <2>3. \A p \in Pollers : Dated(poll[p])'
    BY <1>0, <2>1, OlderDated DEF FiguresDated, Dated
  <2> QED BY <2>2, <2>3 DEF FiguresDated
<1>2. ASSUME NEW t \in Tables, Delete(t) PROVE FiguresDated'
  <2>1. wiped' = 0 /\ wiped' \in Absent .. Fresh /\ cache' = Aged(cache)
        /\ \A p \in Pollers : poll'[p] = Aged(poll[p])
    BY <1>2, ConsoleAssumption DEF Delete, Absent
  <2>2. Dated(cache)'
    BY <1>0, <2>1, AgedDated DEF Dated
  <2>3. \A p \in Pollers : Dated(poll[p])'
    BY <1>0, <2>1, AgedDated DEF Dated
  <2> QED BY <2>2, <2>3 DEF FiguresDated
<1>3. ASSUME NEW p \in Purgers, DropCache(p) PROVE FiguresDated'
  BY <1>3 DEF DropCache, NoFigures, FiguresDated, Dated
<1>4. ASSUME NEW p \in Pollers, Compute(p) \/ Publish(p) PROVE FiguresDated'
  <2>1. wiped' = wiped
    BY <1>4 DEF Compute, Publish
  <2>2. CASE Compute(p)
    BY <1>0, <2>1, <2>2 DEF Compute, FiguresDated, Dated
  <2>3. CASE Publish(p)
    BY <1>0, <2>1, <2>3 DEF Publish, FiguresDated, Dated, NoFigures
  <2> QED BY <1>4, <2>2, <2>3
<1>5. CASE UNCHANGED <<stats, wiped>>
  BY <1>5 DEF stats, FiguresDated, Dated
<1>6. \/ UNCHANGED <<stats, wiped>> \/ Tick
      \/ \E t \in Tables : Delete(t)
      \/ \E p \in Purgers : DropCache(p)
      \/ \E p \in Pollers : Compute(p) \/ Publish(p)
  BY DEF Next, Insert, Connect, Streaming, Open, ReadQueries, ReadEvents, Send, ReadFails,
         Disconnect, Purge, PurgeEvents, vars, Tables
<1> QED BY <1>1, <1>2, <1>3, <1>4, <1>5, <1>6

(* Deleted rows are in no answer of the cache a time-to-live or more after *)
(* the deletion, and a poll carries their age with it while it computes.   *)
THEOREM PurgesSettle == Spec => []PurgeSettles
<1>1. Init => FiguresDated
  BY DEF Init, FiguresDated, Dated, NoFigures
<1>2. TypeOK /\ FiguresDated => PurgeSettles
  BY ConsoleAssumption DEF TypeOK, Figures, FiguresDated, Dated, PurgeSettles, CacheHit, Absent
<1> QED BY <1>1, <1>2, NextDated, TypeCorrect, PTL DEF Spec

-----------------------------------------------------------------------------
(* The stream implements the feed of each table.                           *)

(* A connection without all its cursors has received and read nothing; a   *)
(* batch is the lowest rows above the cursor, and what it left in the      *)
(* table lies above it.                                                    *)
LowestRows ==
  \A s \in Streams, t \in Tables :
    /\ phase[s] \in {"off", "opening"} => got[s][t] = {} /\ batch[s][t] = {}
    /\ \A j \in batch[s][t] : j > cursor[s][t]
    /\ \A i \in rows[t] : i > cursor[s][t] /\ i \notin batch[s][t] =>
         \A j \in batch[s][t] : j < i

(* What a step may be to the tables and the streams.                       *)
LEMMA StreamMoves ==
  ASSUME [Next]_vars
  PROVE  \/ UNCHANGED <<rows, seq, stream>>
         \/ \E t \in Tables : Insert(t) \/ (Delete(t) /\ UNCHANGED stream)
         \/ \E s \in Streams : \/ Connect(s) \/ Open(s) \/ ReadQueries(s) \/ ReadEvents(s)
                               \/ Send(s) \/ ReadFails(s) \/ Disconnect(s)
BY DEF Next, Streaming, Tick, Purge, PurgeEvents, DropCache, Compute, Publish, vars, Tables

LEMMA NextLowest == FeedInv /\ LowestRows /\ [Next]_vars => LowestRows'
<1> SUFFICES ASSUME FeedInv, LowestRows, [Next]_vars PROVE LowestRows'
  OBVIOUS
<1>0. /\ rows \in [Tables -> SUBSET Nat] /\ seq \in [Tables -> Nat]
      /\ cursor \in [Streams -> [Tables -> Nat]] /\ batch \in [Streams -> [Tables -> SUBSET Nat]]
      /\ got \in [Streams -> [Tables -> SUBSET Nat]]
      /\ phase \in [Streams -> {"off", "opening", "poll", "half", "send"}]
      /\ \A s \in Streams, t \in Tables : batch[s][t] \subseteq 1 .. seq[t]
  BY DEF FeedInv, TypeOK, BatchInserted
<1>1. ASSUME NEW t \in Tables, Insert(t) PROVE LowestRows'
  <2>1. UNCHANGED stream /\ \A u \in Tables : \A i \in rows'[u] : i \in rows[u] \/ (u = t /\ i = seq[t] + 1)
    BY <1>0, <1>1 DEF Insert
  <2>2. \A s \in Streams : \A j \in batch[s][t] : j < seq[t] + 1
    BY <1>0
  <2> QED BY <2>1, <2>2 DEF LowestRows, stream
<1>2. ASSUME NEW t \in Tables, Delete(t), UNCHANGED stream PROVE LowestRows'
  <2>1. \A u \in Tables : rows'[u] \subseteq rows[u]
    BY <1>0, <1>2 DEF Delete
  <2> QED BY <1>2, <2>1 DEF LowestRows, stream
<1>3. ASSUME NEW s \in Streams, Connect(s) \/ Open(s) PROVE LowestRows'
  <2>1. PICK t \in Tables : cursor' = [cursor EXCEPT ![s][t] = MaxId(rows[t])]
    BY <1>3 DEF Connect, Open, Tables
  <2>2. /\ phase[s] \in {"off", "opening"} /\ UNCHANGED <<rows, batch, got>>
        /\ \A r \in Streams \ {s} : phase'[r] = phase[r] /\ cursor'[r] = cursor[r]
    BY <1>0, <1>3, <2>1 DEF Connect, Open
  <2> QED BY <2>2 DEF LowestRows
<1>4. ASSUME NEW s \in Streams, ReadQueries(s) \/ ReadEvents(s) PROVE LowestRows'
  <2>1. PICK t \in Tables :
          /\ batch' = [batch EXCEPT ![s][t] = RowsSince(t, cursor[s][t])]
          /\ UNCHANGED <<rows, cursor, got>>
    BY <1>4 DEF ReadQueries, ReadEvents, Tables
  <2>2. /\ phase'[s] \in {"half", "send"}
        /\ \A r \in Streams \ {s} : phase'[r] = phase[r]
    BY <1>0, <1>4 DEF ReadQueries, ReadEvents
  <2>3. /\ \A j \in RowsSince(t, cursor[s][t]) : j > cursor[s][t]
        /\ \A i \in rows[t] : i > cursor[s][t] /\ i \notin RowsSince(t, cursor[s][t]) =>
             \A j \in RowsSince(t, cursor[s][t]) : j < i
    <3>1. \A j \in RowsSince(t, cursor[s][t]) : j > cursor[s][t]
      BY DEF RowsSince
    <3> QED BY <1>0, <3>1, RowsSinceIsPrefix DEF FeedInv
  <2>4. \A r \in Streams, u \in Tables :
          batch'[r][u] = IF r = s /\ u = t THEN RowsSince(t, cursor[s][t]) ELSE batch[r][u]
    BY <1>0, <2>1
  <2> QED BY <2>1, <2>2, <2>3, <2>4 DEF LowestRows
<1>5. ASSUME NEW s \in Streams, Send(s) \/ ReadFails(s) \/ Disconnect(s) PROVE LowestRows'
  <2>1. /\ UNCHANGED rows /\ \A t \in Tables : batch'[s][t] = {}
        /\ \A r \in Streams \ {s} : phase'[r] = phase[r] /\ cursor'[r] = cursor[r]
                                    /\ got'[r] = got[r] /\ batch'[r] = batch[r]
    BY <1>0, <1>5 DEF Send, ReadFails, Disconnect, NoRows
  <2>2. phase'[s] \in {"off", "opening"} => \A t \in Tables : got'[s][t] = {}
    BY <1>0, <1>5 DEF Send, ReadFails, Disconnect, NoRows
  <2> QED BY <2>1, <2>2 DEF LowestRows
<1>6. CASE UNCHANGED <<rows, seq, stream>>
  BY <1>6 DEF LowestRows, stream
<1> QED BY <1>1, <1>2, <1>3, <1>4, <1>5, <1>6, StreamMoves

(* Two tables: what one step of the console is to the feed of each.        *)
LEMMA StepOfFeed ==
  ASSUME FeedInv, LowestRows, [Next]_vars, NEW s \in Streams, NEW t \in Tables
  PROVE  [FeedOf(s, t)!Next]_(FeedOf(s, t)!feed)
<1> DEFINE Step == [FeedOf(s, t)!Next]_(FeedOf(s, t)!feed)
<1>0. /\ rows \in [Tables -> SUBSET Nat] /\ seq \in [Tables -> Nat]
      /\ cursor \in [Streams -> [Tables -> Nat]] /\ batch \in [Streams -> [Tables -> SUBSET Nat]]
      /\ got \in [Streams -> [Tables -> SUBSET Nat]]
      /\ \A u \in Tables : rows[u] \subseteq 1 .. seq[u]
      /\ batch[s][t] \subseteq 1 .. seq[t]
  BY DEF FeedInv, TypeOK, BatchInserted
<1>1. CASE UNCHANGED <<rows[t], seq[t], cursor[s][t], got[s][t]>>
  BY <1>1 DEF FeedOf!feed
<1>2. ASSUME NEW u \in Tables, Insert(u) PROVE Step
  <2>1. CASE u = t
    BY <1>0, <1>2, <2>1 DEF Insert, stream, FeedOf!Next, FeedOf!Insert
  <2>2. CASE u # t
    BY <1>0, <1>1, <1>2, <2>2 DEF Insert, stream
  <2> QED BY <2>1, <2>2
<1>3. ASSUME NEW u \in Tables, Delete(u), UNCHANGED stream PROVE Step
  <2>1. CASE u = t
    BY <1>0, <1>3, <2>1 DEF Delete, stream, FeedOf!Next, FeedOf!Purge
  <2>2. CASE u # t
    BY <1>0, <1>1, <1>3, <2>2 DEF Delete, stream
  <2> QED BY <2>1, <2>2
<1>4. ASSUME NEW r \in Streams, Connect(r) \/ Open(r) PROVE Step
  <2>1. PICK u \in Tables : cursor' = [cursor EXCEPT ![r][u] = MaxId(rows[u])]
    BY <1>4 DEF Connect, Open, Tables
  <2>2. phase[r] \in {"off", "opening"} /\ UNCHANGED <<rows, seq, got>>
    BY <1>4 DEF Connect, Open
  <2>3. CASE r = s /\ u = t
    <3>1. cursor'[s][t] = MaxId(rows[t]) /\ got[s][t] = {}
      BY <1>0, <2>1, <2>2, <2>3 DEF LowestRows
    <3>2. cursor'[s][t] \in 0 .. seq[t] /\ \A i \in rows[t] : i <= cursor'[s][t]
      BY <1>0, <3>1, MaxIdIsLast
    <3> QED BY <2>2, <3>1, <3>2 DEF FeedOf!Next, FeedOf!Open
  <2>4. CASE ~ (r = s /\ u = t)
    BY <1>0, <1>1, <2>1, <2>2, <2>4
  <2> QED BY <2>3, <2>4
<1>5. ASSUME NEW r \in Streams, Send(r) PROVE Step
  <2>1. /\ UNCHANGED <<rows, seq>>
        /\ cursor'[s][t] = IF r = s /\ batch[s][t] # {} THEN MaxId(batch[s][t]) ELSE cursor[s][t]
        /\ got'[s][t] = IF r = s THEN got[s][t] \cup batch[s][t] ELSE got[s][t]
    BY <1>0, <1>5 DEF Send
  <2>2. CASE r = s /\ batch[s][t] # {}
    <3> DEFINE top == MaxId(batch[s][t])
               D == batch[s][t]
    <3>1. top \in D /\ top \in 0 .. seq[t] /\ \A j \in D : j <= top
      BY <1>0, <2>2, MaxIdIsLast
    <3>2. \A j \in D : j > cursor[s][t]
      BY DEF LowestRows
    <3>3. top \in (cursor[s][t] + 1) .. seq[t] /\ D \subseteq (cursor[s][t] + 1) .. top
      <4> HIDE DEF top
      <4> QED BY <1>0, <3>1, <3>2
    <3>4. rows[t] \cap ((cursor[s][t] + 1) .. top) \subseteq D
      <4>1. SUFFICES ASSUME NEW i \in rows[t], i \in (cursor[s][t] + 1) .. top, i \notin D
                     PROVE  FALSE
        OBVIOUS
      <4>2. top < i
        BY <1>0, <3>1, <4>1 DEF LowestRows
      <4>3. top \in Int /\ i \in Int /\ i <= top
        <5> HIDE DEF top, D
        <5> QED BY <1>0, <3>1, <4>1
      <4> HIDE DEF top, D
      <4> QED BY <4>2, <4>3
    <3>5. cursor'[s][t] = top /\ got'[s][t] = got[s][t] \cup D
      BY <2>1, <2>2
    <3> HIDE DEF top, D
    <3> QED BY <2>1, <3>3, <3>4, <3>5 DEF FeedOf!Next, FeedOf!Deliver
  <2>3. CASE ~ (r = s /\ batch[s][t] # {})
    BY <1>0, <1>1, <2>1, <2>3
  <2> QED BY <2>2, <2>3
<1>6. ASSUME NEW r \in Streams, Disconnect(r) PROVE Step
  <2>1. CASE r = s
    BY <1>0, <1>6, <2>1 DEF Disconnect, NoRows, FeedOf!Next, FeedOf!Close
  <2>2. CASE r # s
    BY <1>0, <1>1, <1>6, <2>2 DEF Disconnect
  <2> QED BY <2>1, <2>2
<1>7. \/ UNCHANGED <<rows, seq, cursor, got>>
      \/ \E u \in Tables : Insert(u) \/ (Delete(u) /\ UNCHANGED stream)
      \/ \E r \in Streams : Connect(r) \/ Open(r) \/ Send(r) \/ Disconnect(r)
  BY StreamMoves DEF ReadQueries, ReadEvents, ReadFails, stream
<1> QED BY <1>1, <1>2, <1>3, <1>4, <1>5, <1>6, <1>7

(* Every step of a console is a step of the feed of each of its tables, or *)
(* nothing to it: a row inserted while it is open and not purged reaches   *)
(* it once and in order, however reads, inserts, purges and faults mix.    *)
THEOREM ConsoleImplementsFeed == Spec => FeedImplemented
<1>1. Init => LowestRows /\ \A s \in Streams, t \in Tables : FeedOf(s, t)!Init
  BY DEF Init, LowestRows, NoRows, FeedOf!Init
<1>2. FeedInv /\ LowestRows /\ [Next]_vars
        => [\A s \in Streams, t \in Tables : [FeedOf(s, t)!Next]_(FeedOf(s, t)!feed)]_vars
  BY StepOfFeed
<1> QED BY <1>1, <1>2, NextLowest, FeedInvariant, PTL DEF Spec, FeedImplemented

(* The same of one console and one table, as the refinement of Feed.       *)
THEOREM StreamIsAFeed ==
  ASSUME NEW CONSTANT s \in Streams, NEW CONSTANT t \in Tables
  PROVE  Spec => FeedOf(s, t)!Spec
<1>1. Init => LowestRows /\ FeedOf(s, t)!Init
  BY DEF Init, LowestRows, NoRows, FeedOf!Init
<1>2. FeedInv /\ LowestRows /\ [Next]_vars => [FeedOf(s, t)!Next]_(FeedOf(s, t)!feed)
  BY StepOfFeed
<1> QED BY <1>1, <1>2, NextLowest, FeedInvariant, PTL DEF Spec, FeedOf!Spec

=============================================================================
