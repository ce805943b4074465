--------------------------- MODULE Sinkhole_proofs ---------------------------
(* Proofs about Sinkhole: its type invariant, and that in every            *)
(* interleaving of the engine, the reaper, the operator's requests, faults *)
(* and restarts nothing untouchable is sunk, the two halves of the index   *)
(* agree, no block outlives its time-to-live and a conviction rests on     *)
(* evidence; and that the file and the index agree in a serial run.        *)
EXTENDS Sinkhole, FiniteSetTheorems, WellFoundedInduction, TLAPS

(* Every non-empty set of naturals has a least element: the expiry a       *)
(* restarted process adopts exists.                                        *)
LEMMA LeastNatural ==
  ASSUME NEW T \in SUBSET Nat, T # {}
  PROVE  \E x \in T : \A y \in T : x <= y
<1>1. IsWellFoundedOn(OpToRel(<, Nat), Nat)
  BY NatLessThanWellFounded
<1>2. PICK x \in T : \A y \in T : ~ (<<y, x>> \in OpToRel(<, Nat))
  BY <1>1, WFMin
<1>3. \A y \in T : ~ (y < x)
  BY <1>2 DEF OpToRel
<1> QED BY <1>3

(* What a restarted process adopts for a name is Absent when the file has  *)
(* no live line for it, and the expiry of one of its live lines otherwise. *)
LEMMA AdoptedExpiry ==
  ASSUME NEW live \in SUBSET Line, \A l \in live : l.exp \in Nat, NEW n \in Names
  PROVE  \/ n \notin NamesIn(live) /\ Adopted(n, live) = Absent
         \/ \E l \in live : l.name = n /\ Adopted(n, live) = l.exp
<1>1. CASE n \notin NamesIn(live)
  BY <1>1 DEF Adopted
<1>2. CASE n \in NamesIn(live)
  <2> DEFINE T == {l.exp : l \in {k \in live : k.name = n}}
  <2>1. T \in SUBSET Nat /\ T # {}
    BY <1>2 DEF NamesIn
  <2>2. PICK x \in T : \A y \in T : x <= y
    BY <2>1, LeastNatural
  <2>3. \A l \in live : l.name = n => x <= l.exp
    BY <2>2
  <2>4. Adopted(n, live) \in T
    BY <1>2, <2>2, <2>3 DEF Adopted
  <2> QED BY <2>4
<1> QED BY <1>1, <1>2

-----------------------------------------------------------------------------
(* A sink keeps the types, whatever part of the channel it reaches.        *)
LEMMA SinkTypes ==
  ASSUME TypeOK, NEW q \in Names, Sink(q)
  PROVE  /\ hosts' \in File
         /\ expires' \in [Names -> Int]
         /\ sunk' \in [Names -> Int]
         /\ faults' \in 0 .. MaxFaults
<1>1. Channel(q) \subseteq Names
  BY SinkholeAssumption DEF Channel
<1>2. PICK W \in SUBSET Names : SinkNames(q, W)
  BY <1>1 DEF Sink, SinkDone, SinkBreaks
<1>3. now + TTL \in Int
  BY SinkholeAssumption DEF TypeOK
<1>4. [name : W, exp : {now + TTL}] \subseteq Line
  BY <1>3 DEF Line
<1>5. hosts' \in File
  BY <1>2, <1>4 DEF SinkNames, TypeOK, File
<1>6. expires' \in [Names -> Int] /\ sunk' \in [Names -> Int]
  BY <1>2, <1>3 DEF SinkNames, TypeOK
<1>7. faults' \in 0 .. MaxFaults
  BY SinkholeAssumption DEF Sink, SinkDone, SinkBreaks, TypeOK
<1> QED BY <1>5, <1>6, <1>7

LEMMA VerdictTypes ==
  ASSUME TypeOK, NEW q \in Names, NEW ev \in Evidence, NEW ts \in Int,
         Verdict(q, ev, ts)
  PROVE  TypeOK'
<1> DEFINE b == BaseOf[q]
<1>1. b \in Names /\ now + TTL \in Int /\ StrikesNeeded \in Nat
  BY SinkholeAssumption DEF TypeOK
<1>2. /\ now' = now /\ running' = running /\ crashes' = crashes
      /\ stage' = stage /\ todo' = todo /\ clearing' = clearing /\ copy' = copy
  BY DEF Verdict, rewrite
<1>3. BlankCard \in [Slots -> Int] /\ Pruned(strikes[b], ts) \in [Slots -> Int]
  BY <1>1 DEF BlankCard, Absent, Pruned, TypeOK
<1>4. Counted(b, ev) \in 0 .. StrikesNeeded
  BY <1>1 DEF Counted, TypeOK
<1>5. CASE Immediate(q, ev)
  <2>1. convicted' \in [Names -> Int] /\ earned' \subseteq Names
    BY <1>1, <1>5 DEF Immediate, Convict, TypeOK
  <2>2. strikes' = strikes /\ credit' = credit /\ Sink(q)
    BY <1>5 DEF Immediate
  <2> QED BY <1>2, <2>1, <2>2, SinkTypes DEF TypeOK
<1>6. CASE OnSight(q, ev)
  <2>1. /\ convicted' = convicted /\ strikes' = strikes
        /\ credit' = credit /\ earned' = earned /\ Sink(q)
    BY <1>6 DEF OnSight, history
  <2> QED BY <1>2, <2>1, SinkTypes DEF TypeOK
<1>7. CASE Strike(q, ev, ts)
  <2>1. PICK s \in Slots :
          LET card == [Pruned(strikes[b], ts) EXCEPT ![s] = ts] IN
          IF Full(card)
          THEN /\ Convict(b)
               /\ strikes' = [strikes EXCEPT ![b] = BlankCard]
               /\ Sink(q)
               /\ credit' = [credit EXCEPT ![b] = 0]
               /\ earned' = IF Counted(b, ev) >= StrikesNeeded
                            THEN earned \cup {b} ELSE earned \ {b}
          ELSE /\ strikes' = [strikes EXCEPT ![b] = card]
               /\ credit' = [credit EXCEPT ![b] = Counted(b, ev)]
               /\ UNCHANGED <<hosts, expires, sunk, convicted, faults, earned>>
    BY <1>7 DEF Strike
  <2> DEFINE card == [Pruned(strikes[b], ts) EXCEPT ![s] = ts]
  <2>2. card \in [Slots -> Int]
    BY <1>3
  <2>3. CASE Full(card)
    <3>1. /\ Convict(b) /\ strikes' = [strikes EXCEPT ![b] = BlankCard]
          /\ Sink(q) /\ credit' = [credit EXCEPT ![b] = 0]
          /\ earned' \in {earned \cup {b}, earned \ {b}}
      BY <2>1, <2>3
    <3>2. convicted' \in [Names -> Int] /\ earned' \subseteq Names
      BY <1>1, <3>1 DEF Convict, TypeOK
    <3>3. strikes' \in [Names -> [Slots -> Int]]
      BY <1>3, <3>1 DEF TypeOK
    <3>4. credit' \in [Names -> 0 .. StrikesNeeded]
      BY <1>1, <3>1 DEF TypeOK
    <3> QED BY <1>2, <3>1, <3>2, <3>3, <3>4, SinkTypes DEF TypeOK
  <2>4. CASE ~ Full(card)
    <3>1. /\ strikes' = [strikes EXCEPT ![b] = card]
          /\ credit' = [credit EXCEPT ![b] = Counted(b, ev)]
          /\ UNCHANGED <<hosts, expires, sunk, convicted, faults, earned>>
      BY <2>1, <2>4
    <3>2. strikes' \in [Names -> [Slots -> Int]]
      BY <2>2, <3>1 DEF TypeOK
    <3>3. credit' \in [Names -> 0 .. StrikesNeeded]
      BY <1>4, <3>1 DEF TypeOK
    <3> QED BY <1>2, <3>1, <3>2, <3>3 DEF TypeOK
  <2> QED BY <2>3, <2>4
<1> QED BY <1>5, <1>6, <1>7 DEF Verdict

(* The steps of a rewrite move lines between the file and the copies, and  *)
(* never make a line that was in neither.                                  *)
LEMMA RewriteTypes ==
  ASSUME TypeOK, NEW p \in Rewriters, Rewriting(p)
  PROVE  TypeOK'
<1>1. CASE ReadLines(p)
  <2>1. PICK S \in todo[p] :
          /\ copy' = [copy EXCEPT ![p] = [hosts EXCEPT !.lines = Without(@, S)]]
          /\ todo' = [todo EXCEPT ![p] = @ \ {S}]
    BY <1>1 DEF ReadLines
  <2>2. [hosts EXCEPT !.lines = Without(@, S)] \in File
    BY DEF TypeOK, File, Without
  <2>3. copy' \in [Rewriters -> File]
    BY <2>1, <2>2 DEF TypeOK
  <2>4. todo' \in [Rewriters -> SUBSET SUBSET Names]
    BY <2>1 DEF TypeOK
  <2> QED BY <1>1, <2>3, <2>4 DEF ReadLines, TypeOK, index, history
<1>2. CASE Truncate(p)
  <2>1. EmptyFile \in File
    BY DEF EmptyFile, File
  <2> QED BY <1>2, <2>1 DEF Truncate, TypeOK, index, history
<1>3. CASE WriteBack(p)
  <2>1. PICK rest \in SUBSET hosts.lines, own \in {FALSE, hosts.own} :
          hosts' = [lines |-> copy[p].lines \cup rest, own |-> copy[p].own \/ own]
    BY <1>3 DEF WriteBack
  <2>2. hosts' \in File
    BY <2>1 DEF TypeOK, File
  <2>3. EmptyFile \in File
    BY DEF EmptyFile, File
  <2>4. stage' \in [Rewriters -> {"idle", "read", "truncate", "write", "clear", "sweep", "dead"}]
    BY <1>3 DEF WriteBack, TypeOK
  <2>5. copy' \in [Rewriters -> File]
    BY <1>3, <2>3 DEF WriteBack, TypeOK
  <2> QED BY <1>3, <2>2, <2>4, <2>5 DEF WriteBack, TypeOK, index, history
<1>4. CASE ClearIndex(p)
  BY <1>4, SinkholeAssumption
  DEF ClearIndex, TypeOK, Nowhere, Absent, BlankCard
<1>5. CASE OpenFails(p)
  <2>1. EmptyFile \in File
    BY DEF EmptyFile, File
  <2> QED BY <1>5, <2>1, SinkholeAssumption
          DEF OpenFails, TypeOK, index, history
<1> QED BY <1>1, <1>2, <1>3, <1>4, <1>5 DEF Rewriting

-----------------------------------------------------------------------------
(* A restarted process adopts a well-typed expiry for every name.          *)
LEMMA StartTypes ==
  ASSUME TypeOK, Start
  PROVE  TypeOK'
<1>1. Live \in SUBSET Line /\ \A l \in Live : l.exp \in Nat
  BY SinkholeAssumption DEF Live, TypeOK, File, Line
<1>2. \A n \in Names : Adopted(n, Live) \in Int
  BY <1>1, AdoptedExpiry DEF Absent, Line
<1>3. expires' \in [Names -> Int] /\ sunk' \in [Names -> Int]
  BY <1>2 DEF Start
<1>4. EmptyFile \in File /\ [hosts EXCEPT !.lines = Live] \in File
  BY <1>1 DEF EmptyFile, TypeOK, File
<1>5. hosts' \in File /\ copy' \in [Rewriters -> File]
  BY <1>4 DEF Start, TypeOK
<1>6. stage' \in [Rewriters -> {"idle", "read", "truncate", "write", "clear", "sweep", "dead"}]
  BY DEF Start, TypeOK
<1>7. running' \in BOOLEAN
  BY DEF Start, TypeOK
<1> QED BY <1>3, <1>5, <1>6, <1>7 DEF Start, TypeOK, history

(* So does the write back of the lines it keeps, and a file that cannot be *)
(* opened.                                                                 *)
LEMMA SweepTypes ==
  ASSUME TypeOK, Sweep \/ StartBreaks
  PROVE  TypeOK'
<1>1. Maint \in Rewriters
  BY DEF Rewriters
<1>2. CASE Sweep
  <2>1. EmptyFile \in File
    BY DEF EmptyFile, File
  <2> QED BY <1>1, <1>2, <2>1 DEF Sweep, TypeOK, index, history
<1>3. CASE StartBreaks
  <2>1. faults' \in 0 .. MaxFaults
    BY <1>3, SinkholeAssumption DEF StartBreaks, TypeOK
  <2>2. UNCHANGED <<now, hosts, expires, sunk, convicted, strikes, stage, todo,
                    clearing, copy, crashes, credit, earned>>
    BY <1>3 DEF StartBreaks, index, rewrite, history
  <2>3. running' = TRUE \/ running' = running
    BY <1>3, Zenon DEF StartBreaks
  <2>4. running' \in BOOLEAN
    BY <2>3, Zenon DEF TypeOK
  <2> QED BY <2>1, <2>2, <2>4 DEF TypeOK
<1> QED BY <1>2, <1>3

(* Every step of the specification keeps the types.                        *)
LEMMA NextTypes == TypeOK /\ [Next]_vars => TypeOK'
<1> SUFFICES ASSUME TypeOK, [Next]_vars PROVE TypeOK'
  OBVIOUS
<1>1. CASE Tick
  BY <1>1, SinkholeAssumption DEF Tick, TypeOK, index, rewrite, history
<1>2. ASSUME NEW q \in Names, NEW ev \in Evidence, NEW lag \in 0 .. Lag,
             Verdict(q, ev, now - lag)
      PROVE  TypeOK'
  <2>1. now - lag \in Int
    BY SinkholeAssumption DEF TypeOK
  <2> QED BY <1>2, <2>1, VerdictTypes
<1>3. ASSUME NEW p \in ApiThreads, Cleanup(p) PROVE TypeOK'
  BY <1>3 DEF Cleanup, TypeOK, Rewriters, index, history
<1>4. ASSUME NEW p \in ApiThreads, NEW q \in Names, Unblock(p, q) PROVE TypeOK'
  <2>1. BlankCard \in [Slots -> Int]
    BY DEF BlankCard, Absent
  <2>2. BaseOf[q] \in Names /\ StrikesNeeded \in Nat
    BY SinkholeAssumption
  <2> DEFINE freedBase == BaseOf[q] # q /\ sunk[BaseOf[q]] # Absent
             gone == {q} \cup (IF freedBase THEN {BaseOf[q]} ELSE {})
  <2>3. gone \subseteq Names
    BY <2>2
  <2>4. todo' = [todo EXCEPT ![p] = {{n} : n \in gone \ (Popular \ {q})}]
    BY <1>4 DEF Unblock
  <2>5. {{n} : n \in gone \ (Popular \ {q})} \in SUBSET SUBSET Names
    BY <2>3
  <2>6. todo' \in [Rewriters -> SUBSET SUBSET Names]
    BY <2>4, <2>5 DEF TypeOK
  <2>7. /\ expires' \in [Names -> Int] /\ sunk' \in [Names -> Int]
        /\ convicted' \in [Names -> Int]
    BY <1>4 DEF Unblock, Forget, Absent, TypeOK
  <2>8. strikes' \in [Names -> [Slots -> Int]]
    BY <1>4, <2>1 DEF Unblock, TypeOK
  <2>9. credit' \in [Names -> 0 .. StrikesNeeded] /\ earned' \subseteq Names
    BY <1>4, <2>2 DEF Unblock, TypeOK
  <2> QED BY <1>4, <2>6, <2>7, <2>8, <2>9 DEF Unblock, TypeOK
<1>5. CASE Reap
  <2> DEFINE freed == {n \in Names : expires[n] # Absent /\ expires[n] <= now}
  <2>1. {{n} : n \in freed} \in SUBSET SUBSET Names
    OBVIOUS
  <2>2. todo' = [todo EXCEPT ![Maint] = {{n} : n \in freed}]
    BY <1>5 DEF Reap
  <2>3. todo' \in [Rewriters -> SUBSET SUBSET Names]
    BY <2>1, <2>2 DEF TypeOK
  <2> QED BY <1>5, <2>3 DEF Reap, Forget, Absent, TypeOK
<1>6. ASSUME NEW p \in Rewriters, Rewriting(p) PROVE TypeOK'
  BY <1>6, RewriteTypes
<1>7. CASE Crash
  <2>1. EmptyFile \in File
    BY DEF EmptyFile, File
  <2>2. BlankCard \in [Slots -> Int] /\ Nowhere \in [Names -> Int]
    BY DEF BlankCard, Nowhere, Absent
  <2>3. crashes' \in 0 .. MaxCrashes /\ now' = now /\ hosts' = hosts /\ faults' = faults
    BY <1>7, SinkholeAssumption DEF Crash, TypeOK
  <2>4. /\ strikes' \in [Names -> [Slots -> Int]]
        /\ expires' \in [Names -> Int] /\ sunk' \in [Names -> Int]
        /\ convicted' \in [Names -> Int]
    BY <1>7, <2>2 DEF Crash
  <2>5. credit' \in [Names -> 0 .. StrikesNeeded]
    BY <1>7, SinkholeAssumption DEF Crash
  <2>6. /\ stage' \in [Rewriters -> {"idle", "read", "truncate", "write", "clear", "sweep", "dead"}]
        /\ todo' \in [Rewriters -> SUBSET SUBSET Names]
        /\ copy' \in [Rewriters -> File]
        /\ clearing' \subseteq Rewriters /\ earned' \subseteq Names /\ running' \in BOOLEAN
    BY <1>7, <2>1 DEF Crash
  <2> QED BY <2>3, <2>4, <2>5, <2>6 DEF TypeOK
<1>8. CASE Start \/ Sweep \/ StartBreaks
  BY <1>8, StartTypes, SweepTypes
<1>9. CASE UNCHANGED vars
  BY <1>9 DEF vars, index, rewrite, history, TypeOK
<1> QED BY <1>1, <1>2, <1>3, <1>4, <1>5, <1>6, <1>7, <1>8, <1>9 DEF Next

(* The type invariant, for every set of names and threads and every bound. *)
THEOREM TypeCorrect == Spec => []TypeOK
<1>1. Init => TypeOK
  BY SinkholeAssumption
  DEF Init, TypeOK, File, EmptyFile, Nowhere, BlankCard, Absent
<1> QED BY <1>1, NextTypes, PTL DEF Spec

-----------------------------------------------------------------------------
(* The three safety invariants are inductive together: the expiry a base   *)
(* keeps through setdefault stays below the new one only because no entry  *)
(* of the index reaches beyond a time-to-live from now.                    *)
Safe == TypeOK /\ RefusedNeverSunk /\ IndexPaired /\ BlocksBounded

LEMMA ChannelTouchable ==
  ASSUME NEW q \in Names, ~ Refused(q)
  PROVE  /\ q \in Channel(q) /\ Channel(q) \subseteq Names
         /\ Channel(q) \cap Untouchable = {}
         /\ BaseOf[q] \in Names \ Untouchable
BY SinkholeAssumption DEF Refused, Channel, Untouchable

(* A sink of a name that is not refused keeps the three invariants, the    *)
(* bound on convictions apart, which a sink does not touch.                *)
LEMMA SinkSafe ==
  ASSUME Safe, NEW q \in Names, ~ Refused(q), Sink(q), now' = now
  PROVE  /\ \A l \in hosts'.lines : l.name \notin Untouchable /\ l.exp <= now + TTL
         /\ \A n \in Untouchable : expires'[n] = Absent /\ sunk'[n] = Absent
         /\ IndexPaired'
         /\ \A n \in Names : sunk'[n] <= now + TTL
<1>1. PICK W \in SUBSET Channel(q) : SinkNames(q, W)
  BY ChannelTouchable DEF Sink, SinkDone, SinkBreaks
<1>2. W \subseteq Names /\ W \cap Untouchable = {} /\ Untouchable \subseteq Names
  BY ChannelTouchable, <1>1, SinkholeAssumption DEF Untouchable
<1>3. now + TTL \in Nat /\ TTL \in Nat
  BY SinkholeAssumption DEF Safe, TypeOK
<1>4. hosts'.lines = hosts.lines \cup [name : W, exp : {now + TTL}]
  BY <1>1 DEF SinkNames, Safe, TypeOK, File
<1>5. \A l \in hosts'.lines : l.name \notin Untouchable /\ l.exp <= now + TTL
  BY <1>2, <1>3, <1>4 DEF Safe, RefusedNeverSunk, BlocksBounded
<1>6. \A n \in Names :
        /\ n \in W => sunk'[n] = now + TTL
        /\ n \notin W => sunk'[n] = sunk[n] /\ expires'[n] = expires[n]
        /\ n \in W => expires'[n] = now + TTL
                       \/ (expires[n] # Absent /\ expires'[n] = expires[n])
  BY <1>1 DEF SinkNames
<1>7. \A n \in Untouchable : expires'[n] = Absent /\ sunk'[n] = Absent
  BY <1>2, <1>6 DEF Safe, RefusedNeverSunk
<1>8. IndexPaired'
  <2> SUFFICES ASSUME NEW n \in Names
               PROVE  /\ (expires'[n] = Absent) = (sunk'[n] = Absent)
                      /\ expires'[n] <= sunk'[n]
    BY DEF IndexPaired
  <2>1. /\ (expires[n] = Absent) = (sunk[n] = Absent)
        /\ expires[n] <= sunk[n] /\ sunk[n] <= now + TTL
        /\ expires[n] \in Int /\ sunk[n] \in Int
    BY DEF Safe, IndexPaired, BlocksBounded, TypeOK
  <2>2. CASE n \in W
    BY <1>3, <1>6, <2>1, <2>2 DEF Absent
  <2>3. CASE n \notin W
    BY <1>6, <2>1, <2>3
  <2> QED BY <2>2, <2>3
<1>9. \A n \in Names : sunk'[n] <= now + TTL
  BY <1>3, <1>6 DEF Safe, BlocksBounded
<1> QED BY <1>5, <1>7, <1>8, <1>9

(* What the escalation leaves of the convictions: one base more at most,   *)
(* and that base is not untouchable.                                       *)
LEMMA VerdictSafe ==
  ASSUME Safe, NEW q \in Names, NEW ev \in Evidence, NEW ts \in Int,
         Verdict(q, ev, ts)
  PROVE  RefusedNeverSunk' /\ IndexPaired' /\ BlocksBounded'
<1> DEFINE b == BaseOf[q]
<1>1. ~ Refused(q) /\ b \in Names \ Untouchable /\ Untouchable \subseteq Names
  BY ChannelTouchable, SinkholeAssumption DEF Verdict, Untouchable
<1>2. now' = now /\ copy' = copy
  BY DEF Verdict, rewrite
<1>3. convicted' = convicted \/ convicted' = [convicted EXCEPT ![b] = now + TTL]
  BY DEF Verdict, Immediate, OnSight, Strike, Convict
<1>4. Sink(q) \/ UNCHANGED <<hosts, expires, sunk>>
  BY DEF Verdict, Immediate, OnSight, Strike
<1>5. now + TTL \in Nat
  BY SinkholeAssumption DEF Safe, TypeOK
<1>6. /\ \A n \in Names : convicted'[n] <= now + TTL
      /\ \A n \in Untouchable : convicted'[n] = Absent
  BY <1>1, <1>3, <1>5 DEF Safe, RefusedNeverSunk, BlocksBounded, TypeOK
<1>7. /\ \A l \in hosts'.lines : l.name \notin Untouchable /\ l.exp <= now + TTL
      /\ \A n \in Untouchable : expires'[n] = Absent /\ sunk'[n] = Absent
      /\ IndexPaired'
      /\ \A n \in Names : sunk'[n] <= now + TTL
  <2>1. CASE Sink(q)
    BY <1>1, <1>2, <2>1, SinkSafe
  <2>2. CASE UNCHANGED <<hosts, expires, sunk>>
    BY <2>2 DEF Safe, RefusedNeverSunk, IndexPaired, BlocksBounded
  <2> QED BY <1>4, <2>1, <2>2
<1>8. RefusedNeverSunk'
  BY <1>2, <1>6, <1>7 DEF Safe, RefusedNeverSunk
<1>9. BlocksBounded'
  BY <1>2, <1>6, <1>7 DEF Safe, BlocksBounded
<1> QED BY <1>7, <1>8, <1>9

(* Lines only travel between the file and the copies.                      *)
LEMMA RewriteSafe ==
  ASSUME Safe, NEW p \in Rewriters, Rewriting(p)
  PROVE  RefusedNeverSunk' /\ IndexPaired' /\ BlocksBounded'
<1> USE DEF Safe
<1>1. now' = now /\ now + TTL \in Nat /\ Untouchable \subseteq Names
  BY SinkholeAssumption
  DEF TypeOK, Rewriting, ReadLines, Truncate, WriteBack, ClearIndex, OpenFails, Untouchable
<1>2. \/ UNCHANGED <<expires, sunk, convicted>>
      \/ expires' = Nowhere /\ sunk' = Nowhere /\ convicted' = Nowhere
  BY DEF Rewriting, ReadLines, Truncate, WriteBack, ClearIndex, OpenFails, index
<1>3. /\ IndexPaired'
      /\ \A n \in Names : sunk'[n] <= now + TTL /\ convicted'[n] <= now + TTL
      /\ \A n \in Untouchable :
           expires'[n] = Absent /\ sunk'[n] = Absent /\ convicted'[n] = Absent
  BY <1>1, <1>2 DEF IndexPaired, BlocksBounded, RefusedNeverSunk, Nowhere, Absent
<1> DEFINE Old == hosts.lines \cup UNION {copy[r].lines : r \in Rewriters}
<1>4. \A l \in Old : l.name \notin Untouchable /\ l.exp <= now + TTL
  BY DEF RefusedNeverSunk, BlocksBounded
<1>5. hosts'.lines \subseteq Old /\ \A r \in Rewriters : copy'[r].lines \subseteq Old
  <2>1. CASE ReadLines(p)
    <3>1. PICK S \in todo[p] :
            copy' = [copy EXCEPT ![p] = [hosts EXCEPT !.lines = Without(@, S)]]
      BY <2>1 DEF ReadLines
    <3>2. hosts' = hosts /\ Without(hosts.lines, S) \subseteq hosts.lines
      BY <2>1 DEF ReadLines, Without
    <3>3. copy'[p].lines = Without(hosts.lines, S)
      BY <3>1 DEF TypeOK, File
    <3> QED BY <3>1, <3>2, <3>3 DEF TypeOK
  <2>2. CASE Truncate(p)
    BY <2>2 DEF Truncate, EmptyFile
  <2>3. CASE WriteBack(p)
    <3>1. hosts'.lines \subseteq copy[p].lines \cup hosts.lines
      BY <2>3 DEF WriteBack
    <3>2. copy' = [copy EXCEPT ![p] = EmptyFile]
      BY <2>3 DEF WriteBack
    <3> QED BY <3>1, <3>2 DEF TypeOK, EmptyFile
  <2>4. CASE ClearIndex(p)
    BY <2>4 DEF ClearIndex
  <2>5. CASE OpenFails(p)
    BY <2>5 DEF OpenFails, EmptyFile, TypeOK
  <2> QED BY <2>1, <2>2, <2>3, <2>4, <2>5 DEF Rewriting
<1> QED BY <1>1, <1>3, <1>4, <1>5 DEF RefusedNeverSunk, BlocksBounded

(* A restarted process adopts nothing but what the file still holds.       *)
LEMMA StartSafe ==
  ASSUME Safe, Start
  PROVE  RefusedNeverSunk' /\ IndexPaired' /\ BlocksBounded'
<1> USE DEF Safe
<1>1. Live \in SUBSET Line /\ \A l \in Live : l.exp \in Nat
  BY SinkholeAssumption DEF Live, TypeOK, File, Line
<1>2. now' = now /\ convicted' = convicted
      /\ now + TTL \in Nat /\ Untouchable \subseteq Names
  BY SinkholeAssumption DEF Start, TypeOK, Untouchable
<1>3. /\ hosts'.lines \subseteq Live
      /\ \A p \in Rewriters : copy'[p].lines \subseteq copy[p].lines \cup Live
  <2>1. CASE hosts.lines = Live
    BY <2>1 DEF Start
  <2>2. CASE hosts.lines # Live
    <3>1. hosts' = EmptyFile /\ copy' = [copy EXCEPT ![Maint] = [hosts EXCEPT !.lines = Live]]
      BY <2>2 DEF Start
    <3>2. [hosts EXCEPT !.lines = Live].lines = Live
      BY DEF TypeOK, File
    <3> QED BY <3>1, <3>2 DEF EmptyFile, TypeOK
  <2> QED BY <2>1, <2>2
<1>4. \A n \in Names :
        /\ expires'[n] = Adopted(n, Live) /\ sunk'[n] = Adopted(n, Live)
        /\ \/ n \notin NamesIn(Live) /\ Adopted(n, Live) = Absent
           \/ \E l \in Live : l.name = n /\ Adopted(n, Live) = l.exp
  BY <1>1, AdoptedExpiry DEF Start
<1>5. \A l \in Live : l.name \notin Untouchable /\ l.exp <= now + TTL
  BY DEF Live, RefusedNeverSunk, BlocksBounded
<1>6. \A n \in Names : sunk'[n] <= now + TTL /\ expires'[n] = sunk'[n]
  <2> SUFFICES ASSUME NEW n \in Names
               PROVE  sunk'[n] <= now + TTL /\ expires'[n] = sunk'[n]
    OBVIOUS
  <2>1. CASE Adopted(n, Live) = Absent
    BY <1>4, <2>1, SinkholeAssumption DEF Absent, TypeOK
  <2>2. CASE \E l \in Live : l.name = n /\ Adopted(n, Live) = l.exp
    BY <1>4, <1>5, <2>2
  <2> QED BY <1>4, <2>1, <2>2
<1>7. \A n \in Untouchable : expires'[n] = Absent /\ sunk'[n] = Absent
  BY <1>2, <1>4, <1>5
<1>8. \A n \in Names : expires'[n] \in Int
  BY NextTypes DEF Next, TypeOK
<1>9. IndexPaired'
  BY <1>6, <1>8 DEF IndexPaired
<1> QED BY <1>2, <1>3, <1>5, <1>6, <1>7, <1>9 DEF RefusedNeverSunk, BlocksBounded

(* The write back restores what the start has kept.                        *)
LEMMA SweepSafe ==
  ASSUME Safe, Sweep
  PROVE  RefusedNeverSunk' /\ IndexPaired' /\ BlocksBounded'
<1> USE DEF Safe
<1>1. /\ now' = now /\ UNCHANGED <<expires, sunk, convicted>>
      /\ Maint \in Rewriters /\ hosts' = copy[Maint]
      /\ \A p \in Rewriters : copy'[p].lines \subseteq copy[p].lines
  BY DEF Sweep, index, Rewriters, EmptyFile, TypeOK
<1> QED BY <1>1 DEF RefusedNeverSunk, IndexPaired, BlocksBounded

LEMMA NextSafe == Safe /\ [Next]_vars => Safe'
<1> SUFFICES ASSUME Safe, [Next]_vars
             PROVE  RefusedNeverSunk' /\ IndexPaired' /\ BlocksBounded'
  BY NextTypes DEF Safe
<1> USE DEF Safe
<1>0. now \in Nat /\ TTL \in Nat /\ Untouchable \subseteq Names
  BY SinkholeAssumption DEF TypeOK, Untouchable
<1>1. CASE Tick
  <2>1. now' = now + 1 /\ UNCHANGED <<hosts, copy, expires, sunk, convicted>>
    BY <1>1 DEF Tick, index, rewrite
  <2>2. \A x \in Int : x <= now + TTL => x <= now' + TTL
    BY <1>0, <2>1
  <2>3. BlocksBounded'
    BY <2>1, <2>2 DEF BlocksBounded, TypeOK, File, Line
  <2> QED BY <2>1, <2>3 DEF RefusedNeverSunk, IndexPaired
<1>2. ASSUME NEW q \in Names, NEW ev \in Evidence, NEW lag \in 0 .. Lag,
             Verdict(q, ev, now - lag)
      PROVE  RefusedNeverSunk' /\ IndexPaired' /\ BlocksBounded'
  <2>1. now - lag \in Int
    BY <1>0, SinkholeAssumption
  <2> QED BY <1>2, <2>1, VerdictSafe
<1>3. ASSUME UNCHANGED <<now, hosts, copy>>,
             NEW A \in SUBSET Names, NEW B \in SUBSET Names,
             expires' = Forget(expires, A), sunk' = Forget(sunk, A),
             convicted' = Forget(convicted, B)
      PROVE  RefusedNeverSunk' /\ IndexPaired' /\ BlocksBounded'
  (* Forgetting entries of the index, which is all unblock and reap do in  *)
  (* their critical sections.                                              *)
  BY <1>0, <1>3 DEF Forget, Absent, RefusedNeverSunk, IndexPaired, BlocksBounded
<1>4. ASSUME NEW p \in ApiThreads, Cleanup(p)
      PROVE  RefusedNeverSunk' /\ IndexPaired' /\ BlocksBounded'
  BY <1>4 DEF Cleanup, index, RefusedNeverSunk, IndexPaired, BlocksBounded
<1>5. ASSUME NEW p \in ApiThreads, NEW q \in Names, Unblock(p, q)
      PROVE  RefusedNeverSunk' /\ IndexPaired' /\ BlocksBounded'
  <2>1. BaseOf[q] \in Names
    BY SinkholeAssumption
  <2> QED BY <1>3, <1>5, <2>1 DEF Unblock
<1>6. CASE Reap
  BY <1>3, <1>6 DEF Reap
<1>7. ASSUME NEW p \in Rewriters, Rewriting(p)
      PROVE  RefusedNeverSunk' /\ IndexPaired' /\ BlocksBounded'
  BY <1>7, RewriteSafe
<1>8. CASE Crash
  BY <1>0, <1>8 DEF Crash, Nowhere, Absent, EmptyFile,
     RefusedNeverSunk, IndexPaired, BlocksBounded
<1>9. CASE Start \/ Sweep
  BY <1>9, StartSafe, SweepSafe
<1>10. CASE UNCHANGED vars \/ StartBreaks
  BY <1>10 DEF StartBreaks, vars, index, rewrite, RefusedNeverSunk, IndexPaired, BlocksBounded
<1> QED BY <1>1, <1>2, <1>4, <1>5, <1>6, <1>7, <1>8, <1>9, <1>10 DEF Next

LEMMA SafeCorrect == Spec => []Safe
<1>1. Init => TypeOK
  BY SinkholeAssumption
  DEF Init, TypeOK, File, EmptyFile, Nowhere, BlankCard, Absent
<1>2. Init => Safe
  BY <1>1, SinkholeAssumption
  DEF Init, Safe, RefusedNeverSunk, IndexPaired, BlocksBounded, Untouchable,
      EmptyFile, Nowhere, Absent
<1> QED BY <1>2, NextSafe, PTL DEF Spec

(* Popular infrastructure, names that would inject a line, and names under *)
(* a popular base are never written, put back, indexed or convicted.       *)
THEOREM NothingRefusedIsSunk == Spec => []RefusedNeverSunk
BY SafeCorrect, PTL DEF Safe

(* A name is_sunk can report from an entry is a name the reaper will free. *)
THEOREM IndexIsPaired == Spec => []IndexPaired
BY SafeCorrect, PTL DEF Safe

(* No line, entry or conviction outlives the time-to-live from now on.     *)
THEOREM BlocksAreBounded == Spec => []BlocksBounded
BY SafeCorrect, PTL DEF Safe

(* The index and the file it indexes are sound: the types, the pairing and *)
(* the bound on what a block may outlive hold together.                    *)
THEOREM IndexIsSound == Spec => []IndexSound
<1>1. TypeOK /\ IndexPaired /\ BlocksBounded => IndexSound
  BY DEF IndexSound
<1> QED BY TypeCorrect, IndexIsPaired, BlocksAreBounded, <1>1, PTL

-----------------------------------------------------------------------------
(* The evidence behind a conviction.  A card never holds more stamps than  *)
(* its base has credit: each stamp was one verdict on the domain itself,   *)
(* and pruning only loses stamps.  No stamp is later than the clock.       *)
Filled(card) == {s \in Slots : card[s] # Absent}

Backed(card, c) == Cardinality(Filled(card)) <= c

OneWindow(card) ==
  \A r, s \in Slots :
    card[r] # Absent /\ card[s] # Absent => card[r] - card[s] < TTL + Lag

Evident(card, c, t) ==
  /\ Backed(card, c)
  /\ OneWindow(card)
  /\ \A s \in Slots : card[s] <= t

Grounded ==
  /\ TypeOK
  /\ \A b \in Names : Evident(strikes[b], credit[b], now)
  /\ ConvictionEarned

LEMMA FilledSlots ==
  ASSUME NEW card
  PROVE  /\ IsFiniteSet(Filled(card)) /\ Cardinality(Filled(card)) \in 0 .. StrikesNeeded
         /\ Full(card) => Cardinality(Filled(card)) = StrikesNeeded
<1>1. StrikesNeeded \in Nat /\ Slots = 1 .. StrikesNeeded
  BY SinkholeAssumption DEF Slots
<1>2. IsFiniteSet(Slots) /\ Cardinality(Slots) = StrikesNeeded
  BY <1>1, FS_Interval
<1>3. Filled(card) \subseteq Slots
  BY DEF Filled
<1>4. Full(card) => Filled(card) = Slots
  BY DEF Full, Filled
<1> QED BY <1>1, <1>2, <1>3, <1>4, FS_Subset, FS_CardinalityType

LEMMA BlankIsEvident ==
  ASSUME NEW c \in Nat, NEW t \in Nat
  PROVE  Evident(BlankCard, c, t)
<1>1. Filled(BlankCard) = {}
  BY DEF Filled, BlankCard
<1> QED BY <1>1, FS_EmptySet DEF Evident, Backed, OneWindow, BlankCard, Absent

(* One more stamp, not later than the clock and not older than Lag: one    *)
(* more slot filled at most, and the card is still of one window.          *)
LEMMA StampIsEvident ==
  ASSUME NEW card \in [Slots -> Int], NEW c \in 0 .. StrikesNeeded, NEW t \in Nat,
         Evident(card, c, t), NEW ts \in Nat, ts <= t, t - ts <= Lag, NEW s \in Slots
  PROVE  LET new == [Pruned(card, ts) EXCEPT ![s] = ts]
         IN  /\ Cardinality(Filled(new)) <= c + 1
             /\ OneWindow(new) /\ \A r \in Slots : new[r] <= t
<1> DEFINE old == Pruned(card, ts)
           new == [old EXCEPT ![s] = ts]
<1>1. TTL \in Nat \ {0} /\ Lag \in Nat
  BY SinkholeAssumption
<1>2. \A r \in Slots : /\ new[r] = IF r = s THEN ts ELSE old[r]
                       /\ old[r] = IF card[r] > ts - TTL THEN card[r] ELSE Absent
  BY DEF Pruned
<1>3. Filled(old) \subseteq Filled(card) /\ Filled(new) = Filled(old) \cup {s}
  BY <1>2 DEF Filled, Absent
<1>4. Cardinality(Filled(old)) <= c /\ Cardinality(Filled(old)) \in Nat
  <2>1. /\ IsFiniteSet(Filled(card)) /\ Cardinality(Filled(card)) \in Nat
        /\ IsFiniteSet(Filled(old)) /\ Cardinality(Filled(old)) \in Nat
    BY FilledSlots
  <2>2. Cardinality(Filled(old)) <= Cardinality(Filled(card))
    BY <1>3, <2>1, FS_Subset
  <2> QED BY <2>1, <2>2 DEF Evident, Backed
<1>5. Cardinality(Filled(new)) <= c + 1
  <2>1. IsFiniteSet(Filled(old)) /\ Filled(new) = Filled(old) \cup {s}
    BY <1>3, FilledSlots
  <2> HIDE DEF old, new
  <2>2. \/ Cardinality(Filled(new)) = Cardinality(Filled(old))
        \/ Cardinality(Filled(new)) = Cardinality(Filled(old)) + 1
    BY <2>1, FS_AddElement
  <2> QED BY <1>4, <2>2
<1>6. \A r \in Slots : new[r] <= t
  BY <1>2 DEF Evident, Absent
<1>7. OneWindow(new)
  <2> SUFFICES ASSUME NEW x \in Slots, NEW y \in Slots,
                      new[x] # Absent, new[y] # Absent
               PROVE  new[x] - new[y] < TTL + Lag
    BY DEF OneWindow
  <2>1. CASE x = s
    BY <1>1, <1>2, <2>1
  <2>2. CASE x # s /\ y = s
    BY <1>1, <1>2, <2>2 DEF Evident
  <2>3. CASE x # s /\ y # s
    BY <1>1, <1>2, <2>3 DEF Evident, OneWindow
  <2> QED BY <2>1, <2>2, <2>3
<1> QED BY <1>5, <1>6, <1>7

(* A verdict: a conviction by strikes needs a full card, and a full card   *)
(* is StrikesNeeded verdicts on the domain itself.                         *)
LEMMA VerdictGrounded ==
  ASSUME Grounded, NEW q \in Names, NEW ev \in Evidence, NEW lag \in 0 .. Lag,
         Verdict(q, ev, now - lag)
  PROVE  /\ \A b \in Names : Evident(strikes'[b], credit'[b], now)
         /\ ConvictionEarned'
<1> DEFINE b == BaseOf[q]
           ts == now - lag
<1>1. /\ b \in Names /\ now \in Nat /\ TTL \in Nat /\ ts \in Nat /\ ts <= now
      /\ now - ts <= Lag /\ StrikesNeeded \in Nat
  BY SinkholeAssumption DEF Grounded, TypeOK, Verdict
<1>2. /\ strikes \in [Names -> [Slots -> Int]] /\ convicted \in [Names -> Int]
      /\ credit \in [Names -> 0 .. StrikesNeeded]
  BY DEF Grounded, TypeOK
<1>3. CASE Immediate(q, ev)
  BY <1>1, <1>2, <1>3 DEF Immediate, Convict, Grounded, ConvictionEarned
<1>4. CASE OnSight(q, ev)
  BY <1>4 DEF OnSight, history, Grounded, ConvictionEarned
<1>5. CASE Strike(q, ev, ts)
  <2>1. PICK s \in Slots :
          LET card == [Pruned(strikes[b], ts) EXCEPT ![s] = ts] IN
          IF Full(card)
          THEN /\ Convict(b)
               /\ strikes' = [strikes EXCEPT ![b] = BlankCard]
               /\ Sink(q)
               /\ credit' = [credit EXCEPT ![b] = 0]
               /\ earned' = IF Counted(b, ev) >= StrikesNeeded
                            THEN earned \cup {b} ELSE earned \ {b}
          ELSE /\ strikes' = [strikes EXCEPT ![b] = card]
               /\ credit' = [credit EXCEPT ![b] = Counted(b, ev)]
               /\ UNCHANGED <<hosts, expires, sunk, convicted, faults, earned>>
    BY <1>5 DEF Strike
  <2> DEFINE card == [Pruned(strikes[b], ts) EXCEPT ![s] = ts]
  <2>2. /\ Cardinality(Filled(card)) <= credit[b] + 1
        /\ OneWindow(card) /\ \A r \in Slots : card[r] <= now
    <3>1. Evident(strikes[b], credit[b], now)
      BY <1>1 DEF Grounded
    <3>2. strikes[b] \in [Slots -> Int] /\ credit[b] \in 0 .. StrikesNeeded
      BY <1>1, <1>2
    <3> HIDE DEF b, ts
    <3> QED BY <1>1, <3>1, <3>2, StampIsEvident
  <2>3. Cardinality(Filled(card)) <= Counted(b, ev)
    <3>1. ev = "domain"
      BY <1>5 DEF Verdict, Actionable, Strike
    <3>2. Cardinality(Filled(card)) \in 0 .. StrikesNeeded
      BY FilledSlots
    <3> QED BY <1>1, <1>2, <2>2, <3>1, <3>2 DEF Counted
  <2>4. CASE Full(card)
    <3>1. Counted(b, ev) >= StrikesNeeded
      BY <1>1, <1>2, <2>3, <2>4, FilledSlots DEF Counted
    <3>2. /\ Convict(b) /\ strikes' = [strikes EXCEPT ![b] = BlankCard]
          /\ credit' = [credit EXCEPT ![b] = 0]
          /\ earned' = earned \cup {b}
      BY <2>1, <2>4, <3>1
    <3>3. Evident(BlankCard, 0, now)
      BY <1>1, BlankIsEvident
    <3>4. \A n \in Names : Evident(strikes'[n], credit'[n], now)
      BY <1>1, <1>2, <3>2, <3>3 DEF Grounded
    <3>5. ConvictionEarned'
      BY <1>1, <1>2, <3>2 DEF Convict, Grounded, ConvictionEarned
    <3> QED BY <3>4, <3>5
  <2>5. CASE ~ Full(card)
    <3>1. /\ strikes' = [strikes EXCEPT ![b] = card]
          /\ credit' = [credit EXCEPT ![b] = Counted(b, ev)]
          /\ UNCHANGED <<convicted, earned>>
      BY <2>1, <2>5
    <3>2. Evident(card, Counted(b, ev), now)
      BY <2>2, <2>3 DEF Evident, Backed
    <3>3. \A n \in Names : Evident(strikes'[n], credit'[n], now)
      BY <1>1, <1>2, <3>1, <3>2 DEF Grounded
    <3> QED BY <3>1, <3>3 DEF Grounded, ConvictionEarned
  <2> QED BY <2>4, <2>5
<1> QED BY <1>3, <1>4, <1>5 DEF Verdict

LEMMA NextGrounded == Grounded /\ [Next]_vars => Grounded'
<1> SUFFICES ASSUME Grounded, [Next]_vars
             PROVE  /\ \A b \in Names : Evident(strikes'[b], credit'[b], now')
                    /\ ConvictionEarned'
  BY NextTypes DEF Grounded
<1>1. /\ now \in Nat /\ StrikesNeeded \in Nat
      /\ strikes \in [Names -> [Slots -> Int]] /\ convicted \in [Names -> Int]
      /\ credit \in [Names -> 0 .. StrikesNeeded]
  BY SinkholeAssumption DEF Grounded, TypeOK
<1>2. \A b \in Names : Evident(strikes[b], credit[b], now)
  BY DEF Grounded
<1>3. Evident(BlankCard, 0, now)
  BY <1>1, BlankIsEvident
<1>4. CASE Tick
  <2>1. now' = now + 1 /\ UNCHANGED <<strikes, credit, convicted, earned>>
    BY <1>4 DEF Tick, index, history
  <2>2. \A b \in Names, s \in Slots : strikes[b][s] <= now + 1
    BY <1>1, <1>2 DEF Evident
  <2>3. \A b \in Names : Evident(strikes[b], credit[b], now + 1)
    BY <1>2, <2>2 DEF Evident
  <2> QED BY <2>1, <2>3 DEF Grounded, ConvictionEarned
<1>5. ASSUME NEW q \in Names, NEW ev \in Evidence, NEW lag \in 0 .. Lag,
             Verdict(q, ev, now - lag)
      PROVE  /\ \A b \in Names : Evident(strikes'[b], credit'[b], now')
             /\ ConvictionEarned'
  BY <1>5, VerdictGrounded DEF Verdict
<1>6. ASSUME NEW p \in ApiThreads, NEW q \in Names, Unblock(p, q)
      PROVE  /\ \A b \in Names : Evident(strikes'[b], credit'[b], now')
             /\ ConvictionEarned'
  (* The pardon wipes the card with the credit, and the grounds with the   *)
  (* conviction.                                                           *)
  <2>1. BaseOf[q] \in Names /\ now' = now
    BY <1>6, SinkholeAssumption DEF Unblock
  <2>2. \A b \in Names : Evident(strikes'[b], credit'[b], now)
    BY <1>1, <1>2, <1>3, <1>6, <2>1 DEF Unblock
  <2>3. ConvictionEarned'
    BY <1>6 DEF Unblock, Forget, Grounded, ConvictionEarned
  <2> QED BY <2>1, <2>2, <2>3
<1>7. CASE Reap
  BY <1>2, <1>7 DEF Reap, Forget, Grounded, ConvictionEarned
<1>8. ASSUME UNCHANGED <<now, strikes, credit, convicted, earned>>
      PROVE  /\ \A b \in Names : Evident(strikes'[b], credit'[b], now')
             /\ ConvictionEarned'
  BY <1>2, <1>8 DEF Grounded, ConvictionEarned
<1>9. ASSUME now' = now, convicted' = Nowhere,
             strikes' = [n \in Names |-> BlankCard], credit' = [n \in Names |-> 0]
      PROVE  /\ \A b \in Names : Evident(strikes'[b], credit'[b], now')
             /\ ConvictionEarned'
  BY <1>3, <1>9 DEF Nowhere, ConvictionEarned
<1>10. ASSUME NEW p \in Rewriters, Rewriting(p)
       PROVE  \/ UNCHANGED <<now, strikes, credit, convicted, earned>>
              \/ ClearIndex(p)
  BY <1>10 DEF Rewriting, ReadLines, Truncate, WriteBack, OpenFails, index, history
<1>11. ASSUME NEW p \in Rewriters, ClearIndex(p)
       PROVE  /\ \A b \in Names : Evident(strikes'[b], credit'[b], now')
              /\ ConvictionEarned'
  BY <1>9, <1>11 DEF ClearIndex
<1>12. CASE Crash
  BY <1>9, <1>12 DEF Crash
<1>13. Start \/ Sweep \/ StartBreaks
       => UNCHANGED <<now, strikes, credit, convicted, earned>>
  BY DEF Start, Sweep, StartBreaks, index, history
<1>14. ASSUME NEW p \in ApiThreads, Cleanup(p)
       PROVE  UNCHANGED <<now, strikes, credit, convicted, earned>>
  BY <1>14 DEF Cleanup, index, history
<1>15. UNCHANGED vars => UNCHANGED <<now, strikes, credit, convicted, earned>>
  BY DEF vars, index, history
<1> QED
  BY <1>4, <1>5, <1>6, <1>7, <1>8, <1>10, <1>11, <1>12, <1>13, <1>14, <1>15
  DEF Next

(* A base is convicted on a confirmed decode, or on StrikesNeeded verdicts *)
(* about the domain itself within one window, and on nothing else: pruning *)
(* never lets an old verdict count twice, and a pardon wipes the card.     *)
THEOREM ConvictionsHaveGrounds == Spec => []EvidenceSound
<1>1. Init => TypeOK
  BY SinkholeAssumption
  DEF Init, TypeOK, File, EmptyFile, Nowhere, BlankCard, Absent
<1>2. Init => Grounded
  BY <1>1, BlankIsEvident DEF Init, Grounded, ConvictionEarned, Nowhere
<1>3. Grounded => EvidenceSound
  BY DEF Grounded, Evident, OneWindow, EvidenceSound, StrikesInWindow
<1> QED BY <1>2, <1>3, NextGrounded, PTL DEF Spec

-----------------------------------------------------------------------------
(* The file and the index in a serial, fault-free run.  Between a critical *)
(* section and the end of its rewrite the file lags behind the index by    *)
(* exactly the names still to remove; a clear is the other way round.      *)
Resting == {"idle", "dead"}

Owed(p) == UNION todo[p]

(* What the file will hold when the rewrite of p is through.               *)
Goal(p) == IF p \in clearing THEN {} ELSE Tracked

AtWork(p) ==
  /\ stage[p] = "read" => NamesIn(hosts.lines) \ Owed(p) = Goal(p)
  /\ stage[p] \in {"truncate", "write"} =>
       NamesIn(copy[p].lines) \ Owed(p) = Goal(p)
  /\ stage[p] = "write" => hosts.lines = {}
  /\ stage[p] = "clear" => p \in clearing /\ hosts.lines = {}

OneRewriter ==
  \A p, q \in Rewriters : stage[p] \notin Resting /\ stage[q] \notin Resting => p = q

(* In a process that is not up only the sweep of its start may be under    *)
(* way, and what it will write back is what it has indexed.                *)
DownInStep ==
  /\ ~ running => /\ clearing = {}
                  /\ \A p \in Rewriters : stage[p] \in Resting \/ (p = Maint /\ Sweeping)
  /\ Sweeping => ~ running /\ NamesIn(copy[Maint].lines) = Tracked

InStep ==
  /\ Safe
  /\ OneRewriter
  /\ DownInStep
  /\ \A p \in Rewriters : AtWork(p)
  /\ \A p \in clearing : stage[p] \notin Resting
  /\ IndexMatchesFile

(* Removing the lines of a set of names removes those names from the file. *)
LEMMA NamesWithout ==
  ASSUME NEW lines, NEW S
  PROVE  NamesIn(Without(lines, S)) = NamesIn(lines) \ S
BY DEF NamesIn, Without

(* A sink writes and indexes the same names, wherever it stops.            *)
LEMMA SinkInStep ==
  ASSUME TypeOK, NEW q \in Names, Sink(q), NamesIn(hosts.lines) = Tracked
  PROVE  NamesIn(hosts'.lines) = Tracked'
<1>1. PICK W \in SUBSET Names : SinkNames(q, W)
  BY SinkholeAssumption DEF Sink, SinkDone, SinkBreaks, Channel
<1>2. now + TTL \in Nat
  BY SinkholeAssumption DEF TypeOK
<1>3. hosts'.lines = hosts.lines \cup [name : W, exp : {now + TTL}]
  BY <1>1 DEF SinkNames, TypeOK, File
<1>4. NamesIn([name : W, exp : {now + TTL}]) = W
  <2>1. ASSUME NEW w \in W
        PROVE  w \in NamesIn([name : W, exp : {now + TTL}])
    <3>1. [name |-> w, exp |-> now + TTL] \in [name : W, exp : {now + TTL}]
      OBVIOUS
    <3>2. [name |-> w, exp |-> now + TTL].name = w
      OBVIOUS
    <3> QED BY <3>1, <3>2, Zenon DEF NamesIn
  <2>2. NamesIn([name : W, exp : {now + TTL}]) \subseteq W
    BY DEF NamesIn
  <2> QED BY <2>1, <2>2
<1>5. NamesIn(hosts'.lines) = NamesIn(hosts.lines) \cup W
  BY <1>3, <1>4 DEF NamesIn
<1>6. \A n \in Names : (expires'[n] # Absent) = (n \in W \/ expires[n] # Absent)
  BY <1>1, <1>2 DEF SinkNames, Absent
<1>7. Tracked' = Tracked \cup W
  BY <1>6 DEF Tracked
<1> QED BY <1>5, <1>7

(* The steps of the one rewrite under way.                                 *)
LEMMA RewriteInStep ==
  ASSUME ~ Interleave, MaxFaults = 0, InStep, NEW p \in Rewriters, Rewriting(p),
         running, TypeOK'
  PROVE  /\ OneRewriter' /\ IndexMatchesFile'
         /\ \A q \in Rewriters : AtWork(q)'
         /\ \A q \in clearing' : stage'[q] \notin Resting
<1>1. TypeOK /\ OneRewriter /\ AtWork(p) /\ ~ OpenFails(p)
  BY DEF InStep, Safe, TypeOK, OpenFails
<1>2. /\ stage \in [Rewriters -> {"idle", "read", "truncate", "write", "clear", "sweep", "dead"}]
      /\ todo \in [Rewriters -> SUBSET SUBSET Names]
      /\ copy \in [Rewriters -> File] /\ hosts \in File /\ clearing \subseteq Rewriters
  BY <1>1 DEF TypeOK
<1>3. stage[p] \notin Resting /\ \A q \in Rewriters \ {p} : stage[q] \in Resting
  BY <1>1, <1>2 DEF OneRewriter, Rewriting, ReadLines, Truncate, WriteBack, ClearIndex,
     OpenFails, Resting
<1>4. \A q \in Rewriters \ {p} : stage'[q] = stage[q]
  BY <1>1, <1>2 DEF Rewriting, ReadLines, Truncate, WriteBack, ClearIndex
<1>5. OneRewriter'
  BY <1>3, <1>4 DEF OneRewriter
<1>6. \A q \in Rewriters \ {p} : AtWork(q)'
  BY <1>3, <1>4 DEF AtWork, Resting
<1>7. \A q \in clearing : q = p
  BY <1>2, <1>3 DEF InStep
<1>8. CASE ReadLines(p)
  <2>1. PICK S \in todo[p] :
          /\ copy' = [copy EXCEPT ![p] = [hosts EXCEPT !.lines = Without(@, S)]]
          /\ todo' = [todo EXCEPT ![p] = @ \ {S}]
    BY <1>8 DEF ReadLines
  <2>2. /\ copy'[p].lines = Without(hosts.lines, S) /\ todo'[p] = todo[p] \ {S}
        /\ stage'[p] = "truncate"
        /\ clearing' = clearing /\ Tracked' = Tracked
    BY <1>2, <1>8, <2>1 DEF ReadLines, File, index, Tracked
  <2>3. NamesIn(hosts.lines) \ Owed(p) = Goal(p)
    BY <1>1, <1>8 DEF ReadLines, AtWork
  <2>4. UNION todo[p] = S \cup UNION todo'[p]
    BY <2>1, <2>2
  <2>5. NamesIn(copy'[p].lines) \ UNION todo'[p] = Goal(p)
    BY <2>2, <2>3, <2>4, NamesWithout DEF Owed
  <2>6. AtWork(p)'
    BY <2>2, <2>5 DEF AtWork, Owed, Goal
  <2>7. ~ Quiet'
    BY <2>2 DEF Quiet
  <2> QED BY <1>5, <1>6, <1>7, <2>2, <2>6, <2>7 DEF IndexMatchesFile, Resting
<1>9. CASE Truncate(p)
  <2>1. /\ stage'[p] = "write" /\ stage[p] = "truncate" /\ hosts'.lines = {}
        /\ UNCHANGED <<copy, todo, clearing>> /\ Tracked' = Tracked
    BY <1>2, <1>9 DEF Truncate, EmptyFile, index, Tracked
  <2>2. NamesIn(copy[p].lines) \ Owed(p) = Goal(p)
    BY <1>1, <2>1 DEF AtWork
  <2>3. AtWork(p)'
    BY <2>1, <2>2 DEF AtWork, Owed, Goal
  <2>4. ~ Quiet'
    BY <2>1 DEF Quiet
  <2> QED BY <1>5, <1>6, <1>7, <2>1, <2>3, <2>4 DEF IndexMatchesFile, Resting
<1>10. CASE WriteBack(p)
  <2>1. stage[p] = "write" /\ hosts.lines = {} /\ NamesIn(copy[p].lines) \ Owed(p) = Goal(p)
    BY <1>1, <1>10 DEF WriteBack, AtWork
  <2>2. /\ hosts'.lines = copy[p].lines
        /\ UNCHANGED <<todo, clearing>> /\ Tracked' = Tracked
        /\ stage'[p] = IF todo[p] # {} THEN "read"
                       ELSE IF p \in clearing THEN "clear" ELSE "idle"
    BY <1>2, <1>10, <2>1 DEF WriteBack, index, Tracked
  <2>3. CASE todo[p] # {}
    <3>1. AtWork(p)' /\ ~ Quiet'
      BY <2>1, <2>2, <2>3 DEF AtWork, Owed, Goal, Quiet
    <3> QED BY <1>5, <1>6, <1>7, <2>2, <2>3, <3>1 DEF IndexMatchesFile, Resting
  <2>4. CASE todo[p] = {}
    <3>1. NamesIn(hosts'.lines) = Goal(p)
      BY <2>1, <2>2, <2>4 DEF Owed
    <3>2. p \in clearing => hosts'.lines = {}
      BY <3>1 DEF Goal, NamesIn
    <3>3. AtWork(p)'
      BY <2>2, <2>4, <3>2 DEF AtWork
    <3>4. p \notin clearing => NamesIn(hosts'.lines) = Tracked'
      BY <2>2, <3>1 DEF Goal
    <3>5. p \in clearing => ~ Quiet' /\ stage'[p] \notin Resting
      BY <2>2, <2>4 DEF Quiet, Resting
    <3> QED BY <1>5, <1>6, <1>7, <2>2, <3>3, <3>4, <3>5 DEF IndexMatchesFile
  <2> QED BY <2>3, <2>4
<1>11. CASE ClearIndex(p)
  <2>1. /\ stage[p] = "clear" /\ hosts' = hosts /\ hosts.lines = {}
        /\ stage'[p] = "idle" /\ clearing' = clearing \ {p}
    BY <1>1, <1>2, <1>11 DEF ClearIndex, AtWork
  <2>2. Tracked' = {} /\ NamesIn(hosts'.lines) = {}
    BY <1>11, <2>1 DEF ClearIndex, Tracked, Nowhere, NamesIn
  <2>3. AtWork(p)'
    BY <2>1 DEF AtWork
  <2> QED BY <1>5, <1>6, <1>7, <2>1, <2>2, <2>3 DEF IndexMatchesFile
<1> QED BY <1>1, <1>8, <1>9, <1>10, <1>11 DEF Rewriting

LEMMA NextInStep ==
  ASSUME ~ Interleave, MaxFaults = 0, InStep, [Next]_vars
  PROVE  InStep'
<1>0. Safe' /\ TypeOK /\ TypeOK' /\ Safe
  BY NextSafe DEF InStep, Safe
<1> SUFFICES /\ OneRewriter' /\ DownInStep'
             /\ \A p \in Rewriters : AtWork(p)'
             /\ \A p \in clearing' : stage'[p] \notin Resting
             /\ IndexMatchesFile'
  BY <1>0 DEF InStep
<1>1. /\ stage \in [Rewriters -> {"idle", "read", "truncate", "write", "clear", "sweep", "dead"}]
      /\ todo \in [Rewriters -> SUBSET SUBSET Names] /\ clearing \subseteq Rewriters
  BY <1>0 DEF TypeOK
<1>2. OneRewriter /\ (\A p \in Rewriters : AtWork(p)) /\ IndexMatchesFile
  BY DEF InStep
<1>3. ASSUME UNCHANGED <<running, hosts, expires, stage, todo, clearing, copy>>
      PROVE  /\ OneRewriter' /\ DownInStep'
             /\ \A p \in Rewriters : AtWork(p)'
             /\ \A p \in clearing' : stage'[p] \notin Resting
             /\ IndexMatchesFile'
  <2>1. /\ OneRewriter' = OneRewriter /\ Quiet' = Quiet /\ IndexMatchesFile' = IndexMatchesFile
        /\ \A p \in Rewriters : AtWork(p)' = AtWork(p)
    BY <1>3 DEF OneRewriter, Quiet, IndexMatchesFile, AtWork, Owed, Goal, Tracked
  <2>2. DownInStep' = DownInStep
    BY <1>3 DEF DownInStep, Sweeping, Tracked
  <2> QED BY <1>3, <2>1, <2>2 DEF InStep
(* A thread enters: nobody else is at work, and it enters with the file    *)
(* and the index in step.                                                  *)
<1>4. MayEnter => /\ running /\ Quiet /\ NamesIn(hosts.lines) = Tracked /\ clearing = {}
                  /\ \A p \in Rewriters : stage[p] \in Resting
  BY <1>1, <1>2 DEF MayEnter, IndexMatchesFile, Quiet, Resting, InStep
<1>5. ASSUME MayEnter, running' = running, hosts' = hosts, NEW p \in Rewriters,
             stage' = [stage EXCEPT ![p] = "read"], clearing' \subseteq {p},
             NamesIn(hosts.lines) \ UNION todo'[p] = IF clearing' = {} THEN Tracked' ELSE {}
      PROVE  /\ OneRewriter' /\ DownInStep'
             /\ \A q \in Rewriters : AtWork(q)'
             /\ \A q \in clearing' : stage'[q] \notin Resting
             /\ IndexMatchesFile'
  <2>1. stage'[p] = "read" /\ \A q \in Rewriters \ {p} : stage'[q] \in Resting
    BY <1>1, <1>4, <1>5
  <2>2. AtWork(p)'
    BY <1>5, <2>1 DEF AtWork, Owed, Goal
  <2>3. \A q \in Rewriters \ {p} : AtWork(q)'
    BY <2>1 DEF AtWork, Resting
  <2>4. ~ Quiet' /\ running'
    BY <1>4, <1>5, <2>1 DEF Quiet
  <2>5. DownInStep'
    BY <2>1, <2>4 DEF DownInStep, Sweeping, Resting, Rewriters
  <2> QED BY <1>5, <2>1, <2>2, <2>3, <2>4, <2>5 DEF OneRewriter, IndexMatchesFile, Resting
<1>6. CASE Tick
  BY <1>3, <1>6 DEF Tick, index, rewrite
<1>7. ASSUME NEW q \in Names, NEW ev \in Evidence, NEW lag \in 0 .. Lag,
             Verdict(q, ev, now - lag)
      PROVE  /\ OneRewriter' /\ DownInStep'
             /\ \A p \in Rewriters : AtWork(p)'
             /\ \A p \in clearing' : stage'[p] \notin Resting
             /\ IndexMatchesFile'
  <2>1. MayEnter /\ UNCHANGED <<running, stage, todo, clearing, copy>>
    BY <1>7 DEF Verdict, rewrite
  <2>2. Sink(q) \/ UNCHANGED <<hosts, expires>>
    BY <1>7 DEF Verdict, Immediate, OnSight, Strike
  <2>3. NamesIn(hosts'.lines) = Tracked'
    BY <1>0, <1>4, <2>1, <2>2, SinkInStep DEF Tracked
  <2>4. OneRewriter' /\ running' /\ \A p \in Rewriters : stage'[p] \in Resting
    BY <1>2, <1>4, <2>1 DEF OneRewriter
  <2>5. \A p \in Rewriters : AtWork(p)'
    BY <2>4 DEF AtWork, Resting
  <2>6. DownInStep'
    BY <2>4 DEF DownInStep, Sweeping, Resting, Rewriters
  <2> QED BY <1>4, <2>1, <2>3, <2>4, <2>5, <2>6 DEF IndexMatchesFile
<1>8. ASSUME NEW p \in ApiThreads, Cleanup(p)
      PROVE  /\ OneRewriter' /\ DownInStep'
             /\ \A q \in Rewriters : AtWork(q)'
             /\ \A q \in clearing' : stage'[q] \notin Resting
             /\ IndexMatchesFile'
  <2>1. p \in Rewriters /\ MayEnter /\ clearing' = {p} /\ UNION todo'[p] = Names
    BY <1>1, <1>4, <1>8 DEF Cleanup, Rewriters
  <2>2. NamesIn(hosts.lines) \subseteq Names
    BY <1>0 DEF NamesIn, TypeOK, File, Line
  <2> QED BY <1>5, <1>8, <2>1, <2>2 DEF Cleanup
<1>9. ASSUME NEW p \in ApiThreads, NEW q \in Names, Unblock(p, q)
      PROVE  /\ OneRewriter' /\ DownInStep'
             /\ \A r \in Rewriters : AtWork(r)'
             /\ \A r \in clearing' : stage'[r] \notin Resting
             /\ IndexMatchesFile'
  <2> DEFINE b == BaseOf[q]
             gone == {q} \cup (IF b # q /\ sunk[b] # Absent THEN {b} ELSE {})
  <2>1. /\ p \in Rewriters /\ MayEnter /\ clearing' = {} /\ hosts' = hosts
        /\ stage' = [stage EXCEPT ![p] = "read"] /\ running' = running
        /\ todo'[p] = {{n} : n \in gone \ (Popular \ {q})}
        /\ expires' = Forget(expires, gone)
    BY <1>1, <1>4, <1>9 DEF Unblock, Rewriters
  <2>2. UNION todo'[p] = gone \ (Popular \ {q})
    BY <2>1
  <2>3. Tracked' = Tracked \ gone
    BY <2>1 DEF Tracked, Forget
  (* A popular name was not in the file to begin with.                     *)
  <2>4. Tracked \cap Popular = {}
    BY <1>0, SinkholeAssumption DEF Tracked, Safe, RefusedNeverSunk, Untouchable
  <2>5. NamesIn(hosts.lines) \ UNION todo'[p] = Tracked'
    BY <1>4, <2>1, <2>2, <2>3, <2>4
  <2> QED BY <1>5, <2>1, <2>5
<1>10. CASE Reap
  <2> DEFINE freed == {n \in Names : expires[n] # Absent /\ expires[n] <= now}
  <2>1. /\ Maint \in Rewriters /\ MayEnter /\ clearing' = {} /\ hosts' = hosts
        /\ stage' = [stage EXCEPT ![Maint] = IF freed = {} THEN "idle" ELSE "read"]
        /\ stage[Maint] = "idle" /\ running' = running
        /\ todo'[Maint] = {{n} : n \in freed}
        /\ expires' = Forget(expires, freed) /\ UNCHANGED <<clearing, copy>>
        /\ \A p \in Rewriters \ {Maint} : todo'[p] = todo[p]
    BY <1>1, <1>4, <1>10 DEF Reap, Rewriters
  <2>2. UNION todo'[Maint] = freed /\ Tracked' = Tracked \ freed
    BY <2>1 DEF Tracked, Forget
  <2>3. CASE freed # {}
    <3>1. NamesIn(hosts.lines) \ UNION todo'[Maint] = Tracked'
      BY <1>4, <2>1, <2>2
    <3> QED BY <1>5, <2>1, <2>3, <3>1
  <2>4. CASE freed = {}
    <3>1. stage' = stage /\ Tracked' = Tracked /\ \A p \in Rewriters : stage'[p] \in Resting
      BY <1>1, <1>4, <2>1, <2>2, <2>4
    <3>2. \A p \in Rewriters : AtWork(p)'
      BY <3>1 DEF AtWork, Resting
    <3>3. DownInStep'
      BY <1>4, <2>1, <3>1 DEF DownInStep, Sweeping, Resting
    <3> QED BY <1>2, <1>4, <2>1, <3>1, <3>2, <3>3 DEF OneRewriter, IndexMatchesFile
  <2> QED BY <2>3, <2>4
<1>11. ASSUME NEW p \in Rewriters, Rewriting(p)
       PROVE  /\ OneRewriter' /\ DownInStep'
              /\ \A q \in Rewriters : AtWork(q)'
              /\ \A q \in clearing' : stage'[q] \notin Resting
              /\ IndexMatchesFile'
  <2>1. running /\ running' = running
    BY <1>11 DEF Rewriting, ReadLines, Truncate, WriteBack, ClearIndex, OpenFails
  <2>2. \A q \in Rewriters : stage'[q] = "sweep" => stage[q] = "sweep"
    BY <1>1, <1>11 DEF Rewriting, ReadLines, Truncate, WriteBack, ClearIndex, OpenFails
  <2>3. DownInStep'
    BY <2>1, <2>2 DEF InStep, DownInStep, Sweeping, Rewriters
  <2> QED BY <1>0, <1>11, <2>1, <2>3, RewriteInStep
<1>12. ASSUME \A p \in Rewriters : stage'[p] = "idle", clearing' = {},
              running' => NamesIn(hosts'.lines) = Tracked'
       PROVE  /\ OneRewriter' /\ DownInStep'
              /\ \A q \in Rewriters : AtWork(q)'
              /\ \A q \in clearing' : stage'[q] \notin Resting
              /\ IndexMatchesFile'
  <2>1. OneRewriter' /\ \A q \in Rewriters : AtWork(q)'
    BY <1>12 DEF OneRewriter, AtWork, Resting
  <2>2. ~ Sweeping'
    BY <1>12 DEF Sweeping, Rewriters
  <2>3. \A q \in Rewriters : stage'[q] \in Resting
    BY <1>12 DEF Resting
  <2>4. DownInStep'
    BY <1>12, <2>2, <2>3 DEF DownInStep
  <2> QED BY <1>12, <2>1, <2>4 DEF IndexMatchesFile
<1>13. CASE Crash
  BY <1>12, <1>13 DEF Crash
<1>14. CASE Start
  <2>1. Live \in SUBSET Line /\ \A l \in Live : l.exp \in Nat
    BY <1>0, SinkholeAssumption DEF Live, TypeOK, File, Line
  <2>2. \A n \in Names : (Adopted(n, Live) # Absent) = (n \in NamesIn(Live))
    BY <2>1, AdoptedExpiry DEF Absent, NamesIn
  <2>3. NamesIn(Live) = Tracked'
    BY <1>14, <2>1, <2>2 DEF Start, Tracked, NamesIn, Line
  (* A killed process left no thread behind.                               *)
  <2>4. ~ running /\ clearing = {} /\ \A p \in Rewriters : stage[p] \in Resting
    BY <1>14 DEF Start, Restarting, InStep, DownInStep
  <2>5. clearing' = {} /\ Maint \in Rewriters
    BY <1>14, <2>4 DEF Start, Rewriters
  <2>6. CASE hosts.lines = Live
    <3>1. running' /\ hosts' = hosts /\ stage' = stage
      BY <1>14, <2>6 DEF Start
    <3>2. \A p \in Rewriters : AtWork(p)'
      BY <2>4, <3>1 DEF AtWork, Resting
    <3>3. DownInStep'
      BY <2>4, <2>5, <3>1 DEF DownInStep, Sweeping, Resting
    <3> QED BY <2>3, <2>4, <2>5, <2>6, <3>1, <3>2, <3>3 DEF IndexMatchesFile, OneRewriter
  <2>7. CASE hosts.lines # Live
    <3>1. /\ ~ running' /\ stage' = [stage EXCEPT ![Maint] = "sweep"]
          /\ copy' = [copy EXCEPT ![Maint] = [hosts EXCEPT !.lines = Live]]
      BY <1>14, <2>4, <2>7 DEF Start
    <3>2. stage'[Maint] = "sweep" /\ \A p \in Rewriters \ {Maint} : stage'[p] \in Resting
      BY <1>1, <2>4, <2>5, <3>1
    <3>3. copy'[Maint].lines = Live
      BY <1>0, <2>5, <3>1 DEF TypeOK, File
    <3>4. \A p \in Rewriters : AtWork(p)'
      BY <3>2 DEF AtWork, Resting
    <3>5. DownInStep'
      BY <2>3, <2>5, <3>1, <3>2, <3>3 DEF DownInStep, Sweeping
    <3> QED BY <2>5, <3>1, <3>2, <3>4, <3>5 DEF IndexMatchesFile, OneRewriter, Resting
  <2> QED BY <2>6, <2>7
<1>15. CASE Sweep
  <2>1. ~ running /\ Sweeping /\ clearing = {} /\ NamesIn(copy[Maint].lines) = Tracked
    BY <1>15 DEF Sweep, InStep, DownInStep
  <2>2. /\ hosts' = copy[Maint] /\ clearing' = {} /\ Tracked' = Tracked
        /\ stage' = [stage EXCEPT ![Maint] = "idle"] /\ running'
    BY <1>15, <2>1 DEF Sweep, index, Tracked
  <2>3. \A p \in Rewriters : stage'[p] \in Resting
    BY <1>1, <2>1, <2>2 DEF InStep, DownInStep, Resting
  <2>4. \A p \in Rewriters : AtWork(p)'
    BY <2>3 DEF AtWork, Resting
  <2>5. DownInStep'
    BY <1>1, <2>2 DEF DownInStep, Sweeping, Rewriters
  <2> QED BY <2>1, <2>2, <2>3, <2>4, <2>5 DEF OneRewriter, IndexMatchesFile
<1>16. CASE StartBreaks
  BY <1>0, <1>16 DEF StartBreaks, TypeOK
<1>17. CASE UNCHANGED vars
  BY <1>3, <1>17 DEF vars, index, rewrite
<1> QED
  BY <1>6, <1>7, <1>8, <1>9, <1>10, <1>11, <1>13, <1>14, <1>15,
     <1>16, <1>17 DEF Next

(* Where no thread runs between the steps of a rewrite and the file can    *)
(* always be opened, the file holds exactly the names the index tracks     *)
(* whenever no rewrite is under way: after sinks, unblocks, clears and     *)
(* reaping, and after a kill at any step of a rewrite or of a start.       *)
THEOREM TheFileIsTheIndex ==
  ASSUME ~ Interleave, MaxFaults = 0
  PROVE  Spec => []IndexMatchesFile
<1>1. Init => InStep
  <2>1. Init => TypeOK
    BY SinkholeAssumption
    DEF Init, TypeOK, File, EmptyFile, Nowhere, BlankCard, Absent
  <2>2. Init => Safe
    BY <2>1, SinkholeAssumption
    DEF Init, Safe, RefusedNeverSunk, IndexPaired, BlocksBounded, Untouchable,
        EmptyFile, Nowhere, Absent
  <2> QED BY <2>2 DEF Init, InStep, OneRewriter, DownInStep, Sweeping, Rewriters,
                      AtWork, Resting, IndexMatchesFile,
                      NamesIn, Tracked, Nowhere
<1>2. InStep /\ [Next]_vars => InStep'
  BY NextInStep
<1>3. InStep => IndexMatchesFile
  BY DEF InStep
<1> QED BY <1>1, <1>2, <1>3, PTL DEF Spec

=============================================================================
