--------------------------- MODULE Service_proofs ---------------------------
(* Proofs about Service: its types, and, for a single console, that the    *)
(* policy uses what is armed, that whoever guards the hosts file knows it  *)
(* and that the tables keep what the operator decided.  And, below, about  *)
(* Desktop, which starts and stops whole engines: that a start which       *)
(* reports success leaves one.                                             *)
EXTENDS Service, Desktop, SequenceTheorems, TLAPS

Requests ==
  [op : {"none", "arm", "disarm", "clear", "mute", "unmute"},
   step : {"done", "slot", "make", "load", "attach", "clean", "store", "read", "bind"},
   domain : SUBSET Domains, seen : SUBSET Domains, obj : Nat]

Works ==
  [at : {"none", "read", "truncate", "write", "clear"}, obj : Nat, todo : SUBSET Names,
   copy : SUBSET Names]

Shaped == TypeOK /\ request \in [Consoles -> Requests]

(* Who holds a sinkhole holds one that was made in this life.              *)
Linked ==
  /\ \A c \in Consoles : request[c].obj \in Objects \cup {0}
  /\ \A w \in Workers : work[w].obj \in Objects \cup {0}

Typed == Shaped /\ Linked

(* The types of the parts that change together.                            *)
ProcessType ==
  /\ host \in Hosts /\ phase \in Phases /\ starts \in 0 .. MaxStarts
  /\ ended \in {"runs", "killed", "refused", "raised", "stopped"}
  /\ hook \in BOOLEAN /\ stop \in BOOLEAN /\ svcStop \in GivenUp .. Patience
  /\ final \in [Finalizers -> {"none", "sleep", "close"}]
SlotType ==
  /\ file \subseteq Names /\ index \in Seq(SUBSET Names) /\ batch \in BOOLEAN
  /\ slot \in Objects \cup {0} /\ policy \in Objects \cup {0} /\ hand \in Objects \cup {0}
TableType ==
  /\ mutedTable \subseteq Domains /\ muted \subseteq Domains /\ slip \in BOOLEAN /\ aside \in BOOLEAN
  /\ ledger \in [main : {"old", "none", "filling", "new"}, rows : BOOLEAN, legacy : BOOLEAN]
RequestType == request \in [Consoles -> Requests] /\ asked \in 0 .. MaxRequests
WorkType == work \in [Workers -> Works] /\ raced \in BOOLEAN

LEMMA TypedParts == Shaped <=> ProcessType /\ SlotType /\ TableType /\ RequestType /\ WorkType
<1>1. {hook, stop, batch, slip, aside, raced} \subseteq BOOLEAN
        <=> /\ hook \in BOOLEAN /\ stop \in BOOLEAN /\ batch \in BOOLEAN /\ slip \in BOOLEAN
            /\ aside \in BOOLEAN /\ raced \in BOOLEAN
  OBVIOUS
<1>2. {slot, policy, hand} \subseteq Objects \cup {0}
        <=> slot \in Objects \cup {0} /\ policy \in Objects \cup {0} /\ hand \in Objects \cup {0}
  OBVIOUS
<1>3. mutedTable \cup muted \subseteq Domains <=> mutedTable \subseteq Domains /\ muted \subseteq Domains
  OBVIOUS
<1> QED BY <1>1, <1>2, <1>3
    DEF Shaped, TypeOK, ProcessType, SlotType, TableType, RequestType, WorkType, Works

(* The same of the next state.                                             *)
LEMMA TypedPartsNext ==
  Shaped' <=> ProcessType' /\ SlotType' /\ TableType' /\ RequestType' /\ WorkType'
BY TypedParts, PTL

LEMMA ConstantTypes ==
  /\ Patience \in Nat /\ MaxStarts \in Nat /\ MaxRequests \in Nat /\ Seeds \subseteq Domains /\ AtBoot \in BOOLEAN
  /\ GivenUp = -2 /\ 0 \in GivenUp .. Patience /\ -1 \in GivenUp .. Patience
<1>1. Patience \in Nat /\ MaxStarts \in Nat /\ MaxRequests \in Nat /\ Seeds \subseteq Domains /\ AtBoot \in BOOLEAN
  BY ServiceAssumption
<1>2. GivenUp = -2 /\ GivenUp \in Int
  BY DEF GivenUp
<1>3. 0 \in GivenUp .. Patience /\ -1 \in GivenUp .. Patience
  BY <1>1, <1>2
<1> QED BY <1>1, <1>2, <1>3

LEMMA IdleType == Idle \in Requests
BY DEF Idle, Requests

LEMMA NoWorkType == AtRest \in Works /\ NoWork \in [Workers -> Works]
BY DEF AtRest, NoWork, Works

(* The threads that may rewrite the file are three kinds that do not meet. *)
LEMMA WorkerKinds ==
  /\ Finalizers \subseteq Workers /\ Consoles \subseteq Workers /\ Maint \in Workers
  /\ Maint \notin Finalizers /\ Maint \notin Consoles
BY ServiceAssumption DEF Workers

(* An object of the slot changes: the list keeps its length.               *)
LEMMA IndexUpdate ==
  ASSUME NEW s \in Seq(SUBSET Names), NEW i \in 1 .. Len(s), NEW v \in SUBSET Names
  PROVE  /\ [s EXCEPT ![i] = v] \in Seq(SUBSET Names) /\ Len([s EXCEPT ![i] = v]) = Len(s)
         /\ [s EXCEPT ![i] = v][i] = v
BY ExceptSeq

LEMMA IndexAppend ==
  ASSUME NEW s \in Seq(SUBSET Names), NEW v \in SUBSET Names
  PROVE  /\ Append(s, v) \in Seq(SUBSET Names) /\ Len(Append(s, v)) = Len(s) + 1
         /\ Append(s, v)[Len(s) + 1] = v /\ Len(s) \in Nat
OBVIOUS

LEMMA GoneTypes ==
  ASSUME Typed, NEW how \in {"killed", "refused", "raised", "stopped"}, Gone(how)
  PROVE  /\ ProcessType' /\ SlotType' /\ RequestType' /\ WorkType' /\ muted' = {} /\ slip' = FALSE
<1> USE ConstantTypes, IdleType DEF Gone
<1>1. ProcessType'
  BY DEF ProcessType, Typed, Shaped, TypeOK, Phases
<1>2. SlotType'
  <2>1. index' = <<>> /\ slot' = 0 /\ policy' = 0 /\ hand' = 0 /\ batch' = FALSE /\ file' = file
    OBVIOUS
  <2>2. index' \in Seq(SUBSET Names)
    BY <2>1, EmptySeq
  <2> QED BY <2>1, <2>2 DEF SlotType, Typed, Shaped, TypeOK
<1>3. RequestType'
  BY DEF RequestType, Typed, Shaped, TypeOK
<1>4. WorkType'
  BY NoWorkType DEF WorkType
<1> QED BY <1>1, <1>2, <1>3, <1>4

LEMMA InitTyped == Init => Typed
<1> SUFFICES ASSUME Init PROVE Typed
  OBVIOUS
<1> USE ConstantTypes, IdleType DEF Init
<1>1. ProcessType
  <2>1. starts \in 0 .. MaxStarts /\ svcStop \in GivenUp .. Patience
    OBVIOUS
  <2>2. phase \in Phases /\ ended \in {"killed", "refused", "raised", "stopped"} /\ host \in Hosts
    BY DEF Phases
  <2>3. hook \in BOOLEAN /\ stop \in BOOLEAN /\ final \in [Finalizers -> {"none", "sleep", "close"}]
    OBVIOUS
  <2> QED BY <2>1, <2>2, <2>3 DEF ProcessType
<1>2. SlotType
  <2>1. index = <<>> /\ slot = 0 /\ policy = 0 /\ hand = 0 /\ batch = FALSE /\ file = {}
    OBVIOUS
  <2>2. index \in Seq(SUBSET Names)
    BY <2>1, EmptySeq
  <2> QED BY <2>1, <2>2 DEF SlotType
<1>3. TableType
  <2>1. ledger \in [main : {"old", "none", "filling", "new"}, rows : BOOLEAN, legacy : BOOLEAN]
    <3> DEFINE L == [main : {"old", "none", "filling", "new"}, rows : BOOLEAN, legacy : BOOLEAN]
    <3>1. OldLedger \in L /\ NewLedger \in L
      BY DEF OldLedger, NewLedger
    <3>2. ledger = OldLedger \/ ledger = NewLedger
      OBVIOUS
    <3> QED BY <3>1, <3>2
  <2>2. mutedTable = {} /\ muted = {} /\ slip = FALSE /\ aside = FALSE
    OBVIOUS
  <2> QED BY <2>1, <2>2 DEF TableType
<1>4. RequestType
  BY DEF RequestType
<1>5. WorkType
  BY NoWorkType DEF WorkType
<1>6. Linked
  BY DEF Linked, NoWork, AtRest, Idle, Objects
<1> QED BY <1>1, <1>2, <1>3, <1>4, <1>5, <1>6, TypedParts DEF Typed

LEMMA StartingTyped ==
  ASSUME Typed, Starting PROVE Shaped'
<1> USE ConstantTypes
<1>0. ProcessType /\ SlotType /\ TableType /\ RequestType /\ WorkType
  BY TypedParts DEF Typed
<1>1. ASSUME UNCHANGED <<file, index, slot, policy, batch, hand>> PROVE SlotType'
  BY <1>0, <1>1 DEF SlotType, Objects
<1>9. ASSUME UNCHANGED <<console, rewrites>> PROVE RequestType' /\ WorkType'
  BY <1>0, <1>9 DEF RequestType, WorkType, console, rewrites
<1>2. ASSUME UNCHANGED <<tables, mutes>> PROVE TableType'
  BY <1>0, <1>2 DEF TableType, tables, mutes
<1>3. CASE Check
  <2>1. CASE Gone("refused")
    BY <1>0, <1>3, <2>1, GoneTypes, TypedPartsNext DEF Check, TableType, tables
  <2>2. CASE ~ Gone("refused")
    BY <1>0, <1>1, <1>2, <1>3, <1>9, <2>2, TypedPartsNext
       DEF Check, ProcessType, Phases, sinkhole, engine
  <2> QED BY <2>1, <2>2
<1>4. CASE Open
  <2>1. ledger' \in [main : {"old", "none", "filling", "new"}, rows : BOOLEAN, legacy : BOOLEAN]
    BY <1>0, <1>4 DEF Open, Schema, TableType
  <2> QED BY <1>0, <1>1, <1>4, <1>9, <2>1, TypedPartsNext
      DEF Open, ProcessType, TableType, Phases, sinkhole, engine, mutes
<1>5. CASE Migrate
  <2>1. ledger' \in [main : {"old", "none", "filling", "new"}, rows : BOOLEAN, legacy : BOOLEAN]
    BY <1>0, <1>5 DEF Migrate, Migrated, TableType
  <2>2. mutedTable' \subseteq Domains /\ phase' \in Phases
    BY <1>0, <1>5 DEF Migrate, TableType, ProcessType, Phases
  <2> QED BY <1>0, <1>1, <1>5, <1>9, <2>1, <2>2, TypedPartsNext
      DEF Migrate, ProcessType, TableType, sinkhole, engine, mutes
<1>6. CASE Build
  <2>1. index \in Seq(SUBSET Names) /\ file \in SUBSET Names /\ Len(index) \in Nat
    BY <1>0 DEF SlotType
  <2>2. index' \in Seq(SUBSET Names) /\ slot' \in 1 .. Len(index') \cup {0} /\ Len(index) <= Len(index')
    <3>1. CASE AtBoot
      BY <1>6, <2>1, <3>1, IndexAppend DEF Build, Made
    <3>2. CASE ~ AtBoot
      BY <1>0, <1>6, <2>1, <3>2 DEF Build, SlotType, Objects
    <3> QED BY <3>1, <3>2
  <2>3. Len(index') \in Nat
    BY <2>2
  <2>4. SlotType'
    BY <1>0, <1>6, <2>1, <2>2, <2>3 DEF Build, SlotType, Objects, engine
  <2>5. TableType'
    BY <1>0, <1>6 DEF Build, TableType, tables
  <2> QED BY <1>0, <1>6, <1>9, <2>4, <2>5, TypedPartsNext DEF Build, ProcessType, Phases
<1>7. CASE Publish \/ Feed \/ Run
  BY <1>0, <1>1, <1>2, <1>7, <1>9, TypedPartsNext
     DEF Publish, Feed, Run, ProcessType, Phases, sinkhole, engine
<1>8. CASE Return
  BY <1>0, <1>8, GoneTypes, TypedPartsNext DEF Return, TableType, tables
<1> QED BY <1>3, <1>4, <1>5, <1>6, <1>7, <1>8 DEF Starting

(* A cleanup begins, and a rewrite goes on.                                *)
LEMMA CleanupType ==
  ASSUME WorkType, NEW w \in Workers, NEW o \in Nat, Cleanup(w, o) PROVE WorkType'
<1>1. [AtRest EXCEPT !.at = "truncate", !.obj = o] \in Works
  BY DEF AtRest, Works
<1> QED BY <1>1 DEF WorkType, Cleanup, Removing

LEMMA RewritingFrame ==
  ASSUME NEW w, Rewriting(w)
  PROVE  UNCHANGED <<process, slot, policy, raced, engine, console, tables, mutes>>
BY DEF Rewriting, Truncate, WriteBack, ClearIndex

LEMMA RewritingTyped ==
  ASSUME Typed, NEW w \in Workers, Rewriting(w) PROVE Shaped'
<1>0. ProcessType /\ SlotType /\ TableType /\ RequestType /\ WorkType
  BY TypedParts DEF Typed
<1>1. work[w] \in Works /\ AtRest \in Works
  BY <1>0, NoWorkType DEF WorkType
<1>2. work' \in [Workers -> Works]
  <2>1. CASE Truncate(w)
    BY <1>0, <1>1, <2>1 DEF Truncate, WorkType, Works
  <2>2. CASE WriteBack(w)
    <3>1. work' = [work EXCEPT ![w] = Written(work[w])]
      BY <2>2 DEF WriteBack
    <3>2. [work[w] EXCEPT !.at = "clear"] \in Works /\ [work[w] EXCEPT !.at = "read", !.copy = {}] \in Works
      BY <1>1 DEF Works
    <3>3. Written(work[w]) \in Works
      BY <1>1, <3>2 DEF Written
    <3> QED BY <1>0, <1>1, <3>1, <3>3 DEF WorkType
  <2>3. CASE ClearIndex(w)
    BY <1>0, <1>1, <2>3 DEF ClearIndex, WorkType
  <2> QED BY <2>1, <2>2, <2>3 DEF Rewriting
<1>3. file' \subseteq Names
  BY <1>0, <1>1 DEF Rewriting, Truncate, WriteBack, ClearIndex, SlotType, Works
<1>4. index' \in Seq(SUBSET Names) /\ Len(index') = Len(index)
  <2>1. CASE ClearIndex(w)
    <3>1. index' = [index EXCEPT ![work[w].obj] = {}]
      BY <2>1 DEF ClearIndex
    <3>2. CASE work[w].obj \in 1 .. Len(index)
      BY <1>0, <3>1, <3>2, IndexUpdate DEF SlotType
    <3>3. CASE work[w].obj \notin 1 .. Len(index)
      <4>1. index' = index
        BY <1>0, <3>1, <3>3 DEF SlotType
      <4> QED BY <1>0, <4>1 DEF SlotType
    <3> QED BY <3>2, <3>3
  <2>2. CASE ~ ClearIndex(w)
    BY <1>0, <2>2 DEF Rewriting, Truncate, WriteBack, SlotType
  <2> QED BY <2>1, <2>2
<1>5. SlotType' /\ WorkType'
  BY <1>0, <1>2, <1>3, <1>4, RewritingFrame DEF SlotType, Objects, WorkType, engine
<1> QED BY <1>0, <1>5, RewritingFrame, TypedPartsNext
    DEF ProcessType, TableType, RequestType, process, console, tables, mutes

LEMMA RequestedTyped ==
  ASSUME Typed, Requested PROVE Shaped'
<1>0. ProcessType /\ SlotType /\ TableType /\ RequestType /\ WorkType
  BY TypedParts DEF Typed
<1>1. ASSUME NEW f \in Finalizers, Poll(f) PROVE Shaped'
  <2>1. svcStop' \in GivenUp .. Patience
    BY <1>0, <1>1, ConstantTypes DEF Poll, ProcessType, GivenUp
  <2> QED BY <1>0, <1>1, <2>1, TypedPartsNext
      DEF Poll, AskStop, RequestStop, ProcessType, SlotType, Objects, TableType, RequestType, WorkType,
          sinkhole, rewrites, engine, console, tables, mutes
<1>2. ASSUME NEW f \in Finalizers, Clear(f) PROVE Shaped'
  <2>1. WorkType'
    <3>1. CASE Cleanup(f, slot)
      BY <1>0, <3>1, CleanupType, WorkerKinds DEF SlotType, Objects
    <3>2. CASE UNCHANGED rewrites
      BY <1>0, <3>2 DEF WorkType, rewrites
    <3> QED BY <1>2, <3>1, <3>2 DEF Clear
  <2> QED BY <1>0, <1>2, <2>1, TypedPartsNext
      DEF Clear, ProcessType, SlotType, Objects, TableType, RequestType, engine, console, tables, mutes
<1>3. ASSUME NEW f \in Finalizers, Exit(f) PROVE Shaped'
  BY <1>0, <1>3, GoneTypes, TypedPartsNext DEF Exit, TableType, tables
<1> QED BY <1>1, <1>2, <1>3, RewritingTyped, WorkerKinds DEF Requested

(* The worker and the reaper leave the slot and the requests alone.        *)
LEMMA WorkingFrame ==
  ASSUME Working PROVE UNCHANGED <<process, slot, policy, console, tables, mutes>>
<1>1. CASE \E w \in Consoles \cup {Maint} : Rewriting(w)
  BY <1>1, RewritingFrame
<1>2. CASE TakeBatch \/ PickUp \/ EndBatch \/ (\E n \in Names : Sink(n)) \/ Reap \/ ReadLines
  BY <1>2 DEF TakeBatch, PickUp, EndBatch, Sink, Reap, ReadLines, sinkhole
<1> QED BY <1>1, <1>2 DEF Working

LEMMA WorkingTyped ==
  ASSUME Typed, Working PROVE Shaped'
<1>0. ProcessType /\ SlotType /\ TableType /\ RequestType /\ WorkType
  BY TypedParts DEF Typed
<1>1. CASE \E w \in Consoles \cup {Maint} : Rewriting(w)
  BY <1>1, RewritingTyped, WorkerKinds
<1>2. ASSUME TakeBatch \/ PickUp \/ EndBatch \/ (\E n \in Names : Sink(n)) \/ Reap \/ ReadLines
      PROVE  Shaped'
  <2>1. file' \subseteq Names /\ index' \in Seq(SUBSET Names) /\ Len(index') = Len(index)
        /\ batch' \in BOOLEAN /\ hand' \in {0, hand, policy} /\ WorkType'
    <3>1. CASE TakeBatch \/ PickUp \/ EndBatch
      BY <1>0, <3>1 DEF SlotType, WorkType, TakeBatch, PickUp, EndBatch, sinkhole, rewrites
    <3>2. ASSUME NEW n \in Names, Sink(n)
          PROVE  file' \subseteq Names /\ index' \in Seq(SUBSET Names) /\ Len(index') = Len(index)
                 /\ batch' \in BOOLEAN /\ hand' \in {0, hand, policy} /\ WorkType'
      <4>1. hand \in 1 .. Len(index) /\ index \in Seq(SUBSET Names) /\ index[hand] \cup {n} \in SUBSET Names
        BY <1>0, <3>2 DEF SlotType, Objects, Sink
      <4>2. index' \in Seq(SUBSET Names) /\ Len(index') = Len(index)
        BY <3>2, <4>1, IndexUpdate DEF Sink
      <4>3. WorkType'
        BY <1>0, <3>2 DEF Sink, WorkType, Cleaning
      <4> QED BY <1>0, <3>2, <4>2, <4>3 DEF SlotType, Sink
    <3>3. CASE Reap
      <4>1. PICK freed \in SUBSET index[policy] :
               /\ index' = [index EXCEPT ![policy] = @ \ freed]
               /\ work' = [work EXCEPT ![Maint] = [AtRest EXCEPT !.at = "read", !.todo = freed]]
        BY <3>3 DEF Reap
      <4>2. policy \in 1 .. Len(index) /\ index \in Seq(SUBSET Names) /\ index[policy] \in SUBSET Names
        BY <1>0, <3>3 DEF SlotType, Objects, Reap
      <4>3. index' \in Seq(SUBSET Names) /\ Len(index') = Len(index)
        <5>1. index[policy] \ freed \in SUBSET Names
          BY <4>2
        <5> QED BY <4>1, <4>2, <5>1, IndexUpdate
      <4>4. WorkType'
        <5>1. [AtRest EXCEPT !.at = "read", !.todo = freed] \in Works
          BY <4>1, <4>2 DEF AtRest, Works
        <5>2. raced' \in BOOLEAN
          BY <1>0, <3>3 DEF Reap, WorkType, Cleaning
        <5> QED BY <1>0, <4>1, <5>1, <5>2 DEF WorkType
      <4> QED BY <1>0, <3>3, <4>3, <4>4 DEF SlotType, Reap, engine
    <3>4. CASE ReadLines
      <4>1. PICK n \in work[Maint].todo :
               work' = [work EXCEPT ![Maint].at = "truncate", ![Maint].todo = @ \ {n},
                                    ![Maint].copy = file \ {n}]
        BY <3>4 DEF ReadLines
      <4>2. work[Maint] \in Works
        BY <1>0, WorkerKinds DEF WorkType
      <4>3. [work[Maint] EXCEPT !.at = "truncate", !.todo = @ \ {n}, !.copy = file \ {n}] \in Works
        BY <1>0, <4>2 DEF Works, SlotType
      <4>4. work' = [work EXCEPT ![Maint] = [work[Maint] EXCEPT !.at = "truncate", !.todo = @ \ {n},
                                                                !.copy = file \ {n}]]
        BY <1>0, <4>1, <4>2 DEF WorkType, Works
      <4> QED BY <1>0, <3>4, <4>3, <4>4 DEF ReadLines, SlotType, WorkType, engine
    <3> QED BY <1>2, <3>1, <3>2, <3>3, <3>4
  <2>2. SlotType'
    BY <1>0, <2>1, WorkingFrame, <1>2 DEF SlotType, Objects, Working
  <2>3. UNCHANGED <<process, console, tables, mutes>>
    BY <1>2, WorkingFrame DEF Working
  <2> QED BY <1>0, <2>1, <2>2, <2>3, TypedPartsNext
      DEF ProcessType, TableType, RequestType, process, console, tables, mutes
<1> QED BY <1>1, <1>2 DEF Working

LEMMA HandlingTyped ==
  ASSUME Typed, Handling PROVE Shaped'
<1>0. ProcessType /\ SlotType /\ TableType /\ RequestType /\ WorkType
  BY TypedParts DEF Typed
<1> PICK c \in Consoles : \/ Ask(c) \/ Arm(c) \/ Make(c) \/ Disarm(c) \/ Clean(c) \/ Load(c) \/ Attach(c)
                          \/ ClearNow(c) \/ Store(c) \/ Read(c) \/ Bind(c)
  BY DEF Handling
<1>1. RequestType'
  <2>1. request[c] \in Requests /\ slot \in Nat /\ muted \subseteq Domains
    BY <1>0 DEF RequestType, SlotType, TableType, Objects
  <2>2. request'[c] \in Requests /\ request' = [request EXCEPT ![c] = request'[c]]
    <3>1. CASE Ask(c)
      <4>1. request[c] = Idle /\ Idle \in Requests
        BY <3>1, IdleType DEF Ask
      <4>2. \/ \E op \in {"arm", "disarm", "clear"} :
                 request' = [request EXCEPT ![c] = [Idle EXCEPT !.op = op, !.step = "slot"]]
            \/ \E d \in Domains :
                 \/ request' = [request EXCEPT ![c] = [Idle EXCEPT !.op = "mute", !.step = "store", !.domain = {d}]]
                 \/ request' = [request EXCEPT ![c] = [Idle EXCEPT !.op = "unmute", !.step = "read", !.domain = {d}]]
        BY <3>1 DEF Ask
      <4>3. \A op \in {"arm", "disarm", "clear"} : [Idle EXCEPT !.op = op, !.step = "slot"] \in Requests
        BY <4>1 DEF Requests
      <4>4. \A d \in Domains :
              /\ [Idle EXCEPT !.op = "mute", !.step = "store", !.domain = {d}] \in Requests
              /\ [Idle EXCEPT !.op = "unmute", !.step = "read", !.domain = {d}] \in Requests
        BY <4>1 DEF Requests
      <4> QED BY <1>0, <4>2, <4>3, <4>4 DEF RequestType
    <3>2. CASE Arm(c) \/ Make(c) \/ Clean(c)
      BY <1>0, <2>1, <3>2 DEF Arm, Make, Clean, Goto, Requests, RequestType
    <3>3. CASE Disarm(c) \/ Load(c)
      BY <1>0, <2>1, <3>3 DEF Disarm, Load, Handed, Requests, RequestType
    <3>4. CASE Attach(c) \/ ClearNow(c)
      BY <1>0, <2>1, <3>4, IdleType DEF Attach, ClearNow, Finish, RequestType
    <3>5. CASE Store(c)
      BY <1>0, <2>1, <3>5, IdleType DEF Store, Goto, Finish, Requests, RequestType
    <3>6. CASE Read(c)
      BY <1>0, <2>1, <3>6 DEF Read, Requests, RequestType
    <3>7. CASE Bind(c)
      BY <1>0, <2>1, <3>7, IdleType DEF Bind, Goto, Finish, Requests, RequestType
    <3> QED BY <3>1, <3>2, <3>3, <3>4, <3>5, <3>6, <3>7
  <2>3. asked' \in 0 .. MaxRequests
    <3>1. CASE Ask(c)
      <4>1. asked < MaxRequests /\ asked' = asked + 1
        BY <3>1 DEF Ask
      <4> QED BY <1>0, <4>1, ConstantTypes DEF RequestType
    <3>2. CASE ~ Ask(c)
      <4>1. asked' = asked
        BY <3>2 DEF Arm, Make, Disarm, Clean, Load, Attach, ClearNow, Store, Read, Bind
      <4> QED BY <1>0, <4>1 DEF RequestType
    <3> QED BY <3>1, <3>2
  <2> QED BY <1>0, <2>2, <2>3 DEF RequestType
<1>2. SlotType'
  <2>1. CASE UNCHANGED <<file, index, slot, policy, batch, hand>>
    BY <1>0, <2>1 DEF SlotType, Objects
  <2>2. CASE Make(c)
    <3>1. /\ index' \in Seq(SUBSET Names) /\ Len(index') = Len(index) + 1 /\ Len(index) \in Nat
          /\ slot' = Len(index) + 1 /\ UNCHANGED <<file, policy, batch, hand>>
      BY <1>0, <2>2, IndexAppend DEF Make, Made, SlotType, engine
    <3> QED BY <1>0, <3>1 DEF SlotType, Objects
  <2>3. CASE Disarm(c)
    BY <1>0, <2>3 DEF Disarm, SlotType, Objects, engine
  <2>4. CASE Attach(c)
    <3>1. request[c].obj \in Objects \cup {0}
      BY DEF Typed, Linked
    <3> QED BY <1>0, <2>4, <3>1 DEF Attach, SlotType, Objects, engine
  <2>5. CASE Ask(c) \/ Arm(c) \/ Clean(c) \/ Load(c) \/ ClearNow(c) \/ Store(c) \/ Read(c) \/ Bind(c)
    BY <2>1, <2>5 DEF Ask, Arm, Clean, Load, ClearNow, Store, Read, Bind, sinkhole, engine
  <2> QED BY <2>2, <2>3, <2>4, <2>5
<1>3. TableType'
  <2>1. CASE UNCHANGED <<tables, mutes>>
    BY <1>0, <2>1 DEF TableType, tables, mutes
  <2>2. request[c].domain \subseteq Domains /\ request[c].seen \subseteq Domains
    BY <1>0 DEF RequestType, Requests
  <2>3. CASE Store(c) \/ Bind(c)
    BY <1>0, <2>2, <2>3 DEF Store, Bind, TableType, tables
  <2> QED BY <2>1, <2>3 DEF Ask, Arm, Make, Disarm, Clean, Load, Attach, ClearNow, Read
<1>4. ProcessType'
  <2>1. UNCHANGED process
    BY DEF Ask, Arm, Make, Disarm, Clean, Load, Attach, ClearNow, Store, Read, Bind
  <2> QED BY <1>0, <2>1 DEF ProcessType, process
<1>5. WorkType'
  <2>1. CASE UNCHANGED rewrites
    BY <1>0, <2>1 DEF WorkType, rewrites
  <2>2. CASE Make(c)
    BY <1>0, <2>2 DEF Make, WorkType, Removing
  <2>3. CASE Clean(c) \/ ClearNow(c)
    <3>1. request[c].obj \in Nat /\ slot \in Nat
      BY <1>0 DEF RequestType, Requests, SlotType, Objects
    <3>2. Cleanup(c, request[c].obj) \/ Cleanup(c, slot) \/ UNCHANGED rewrites
      BY <2>3 DEF Clean, ClearNow
    <3> QED BY <1>0, <2>1, <3>1, <3>2, CleanupType, WorkerKinds
  <2>4. CASE Ask(c) \/ Arm(c) \/ Disarm(c) \/ Load(c) \/ Attach(c) \/ Store(c) \/ Read(c) \/ Bind(c)
    BY <2>1, <2>4 DEF Ask, Arm, Disarm, Load, Attach, Store, Read, Bind, sinkhole
  <2> QED BY <2>2, <2>3, <2>4
<1> QED BY <1>1, <1>2, <1>3, <1>4, <1>5, TypedPartsNext

LEMMA OutsideTyped ==
  ASSUME Typed, Outside PROVE Shaped'
<1> USE ConstantTypes
<1>0. ProcessType /\ SlotType /\ TableType /\ RequestType /\ WorkType
  BY TypedParts DEF Typed
<1>1. CASE Start \/ SvcStop \/ \E f \in Finalizers : Signal(f)
  <2>1. ProcessType'
    <3>1. CASE Start
      BY <1>0, <3>1 DEF Start, ProcessType, Phases
    <3>2. CASE SvcStop
      BY <1>0, <3>2 DEF SvcStop, ProcessType
    <3>3. CASE \E f \in Finalizers : Signal(f)
      BY <1>0, <3>3 DEF Signal, RequestStop, ProcessType
    <3> QED BY <1>1, <3>1, <3>2, <3>3
  <2> QED BY <1>0, <1>1, <2>1, TypedPartsNext
      DEF Start, SvcStop, Signal, SlotType, Objects, TableType, RequestType, WorkType,
          sinkhole, rewrites, engine, console, tables, mutes
<1>2. CASE Kill
  BY <1>0, <1>2, GoneTypes, TypedPartsNext DEF Kill, TableType, tables
<1>3. CASE (\E given \in BOOLEAN : Launch(given)) \/ \E d \in Domains : EditAside(d)
  <2>1. aside' \in BOOLEAN /\ mutedTable' \subseteq Domains /\ slip' \in BOOLEAN /\ UNCHANGED <<muted, ledger>>
    BY <1>0, <1>3 DEF Launch, EditAside, TableType, mutes
  <2>2. RequestType'
    BY <1>0, <1>3 DEF Launch, EditAside, RequestType, console
  <2> QED BY <1>0, <1>3, <2>1, <2>2, TypedPartsNext
      DEF Launch, EditAside, ProcessType, SlotType, Objects, TableType, WorkType,
          process, sinkhole, rewrites, engine
<1> QED BY <1>1, <1>2, <1>3 DEF Outside

LEMMA UnchangedTyped == Typed /\ UNCHANGED vars => Typed'
BY DEF vars, Typed, Shaped, Linked, TypeOK, Objects, process, sinkhole, rewrites, engine, console, tables, mutes

(* No step takes an object away, but for the end of the process.           *)
LEMMA ObjectsKept ==
  ASSUME Typed, Next PROVE Objects \subseteq Objects' \/ \E how : Gone(how)
<1>0. index \in Seq(SUBSET Names) /\ file \in SUBSET Names /\ Len(index) \in Nat
  BY DEF Typed, Shaped, TypeOK
<1>1. CASE UNCHANGED index
  BY <1>1 DEF Objects
<1>2. ASSUME index' = Append(index, file) PROVE Objects \subseteq Objects'
  BY <1>0, <1>2, IndexAppend DEF Objects
<1>3. ASSUME NEW i, NEW v, index' = [index EXCEPT ![i] = v] PROVE Objects \subseteq Objects'
  <2>1. index \in [1 .. Len(index) -> SUBSET Names]
    BY <1>0
  <2>2. DOMAIN index' = 1 .. Len(index)
    BY <1>3, <2>1
  <2>3. Len(index') = Len(index)
    BY <1>0, <2>2, LenProperties
  <2> QED BY <2>3 DEF Objects
<1>4. CASE Starting
  <2>1. CASE Build
    BY <1>1, <1>2, <2>1 DEF Build, Made
  <2>2. CASE ~ Build
    BY <1>1, <1>4, <2>2 DEF Starting, Check, Open, Migrate, Publish, Feed, Run, Return, sinkhole
  <2> QED BY <2>1, <2>2
<1>5. ASSUME NEW w, Rewriting(w) PROVE Objects \subseteq Objects'
  <2>1. CASE ClearIndex(w)
    BY <1>3, <2>1 DEF ClearIndex
  <2>2. CASE Truncate(w) \/ WriteBack(w)
    BY <1>1, <2>2 DEF Truncate, WriteBack, Objects
  <2> QED BY <1>5, <2>1, <2>2 DEF Rewriting
<1>6. CASE Requested
  BY <1>1, <1>5, <1>6 DEF Requested, Poll, Clear, Exit, sinkhole
<1>7. CASE Working
  <2>1. CASE TakeBatch \/ PickUp \/ EndBatch \/ ReadLines
    BY <1>1, <2>1 DEF TakeBatch, PickUp, EndBatch, ReadLines, sinkhole
  <2>2. CASE Reap
    BY <1>3, <2>2 DEF Reap
  <2>3. CASE \E n \in Names : Sink(n)
    BY <1>3, <2>3 DEF Sink
  <2> QED BY <1>5, <1>7, <2>1, <2>2, <2>3 DEF Working
<1>8. CASE Handling
  <2>1. PICK c \in Consoles : \/ Ask(c) \/ Arm(c) \/ Make(c) \/ Disarm(c) \/ Clean(c) \/ Load(c) \/ Attach(c)
                              \/ ClearNow(c) \/ Store(c) \/ Read(c) \/ Bind(c)
    BY <1>8 DEF Handling
  <2>2. CASE Make(c)
    BY <1>2, <2>2 DEF Make, Made
  <2>3. CASE ~ Make(c)
    BY <1>1, <2>1, <2>3 DEF Ask, Arm, Disarm, Clean, Load, Attach, ClearNow, Store, Read, Bind, sinkhole
  <2> QED BY <2>2, <2>3
<1>9. CASE Outside
  BY <1>1, <1>9 DEF Outside, Start, Kill, SvcStop, Signal, Launch, EditAside, sinkhole
<1> QED BY <1>4, <1>6, <1>7, <1>8, <1>9 DEF Next

LEMMA GoneLinked == ASSUME NEW how, Gone(how) PROVE Linked'
BY DEF Gone, Linked, NoWork, AtRest, Idle

LEMMA LinkedStep ==
  ASSUME Typed, Next PROVE Linked'
<1> USE WorkerKinds
<1> SUFFICES ASSUME Objects \subseteq Objects', \A how : ~ Gone(how) PROVE Linked'
  BY ObjectsKept, GoneLinked
<1>0. /\ request \in [Consoles -> Requests] /\ work \in [Workers -> Works] /\ slot \in Objects \cup {0}
      /\ Linked
  BY DEF Typed, Shaped, TypeOK, Works
<1>1. ASSUME UNCHANGED request, UNCHANGED work PROVE Linked'
  BY <1>0, <1>1 DEF Linked
<1>2. ASSUME NEW w \in Workers, NEW r, r.obj \in Objects \cup {0}, work' = [work EXCEPT ![w] = r]
      PROVE  \A v \in Workers : work'[v].obj \in Objects' \cup {0}
  BY <1>0, <1>2 DEF Linked
<1>3. ASSUME NEW w \in Workers, NEW o \in Objects \cup {0}, Cleanup(w, o)
      PROVE  \A v \in Workers : work'[v].obj \in Objects' \cup {0}
  <2>1. [AtRest EXCEPT !.at = "truncate", !.obj = o].obj = o
    BY DEF AtRest
  <2> QED BY <1>2, <1>3, <2>1 DEF Cleanup
<1>4. ASSUME NEW w \in Workers, Rewriting(w) PROVE Linked'
  <2>1. UNCHANGED request
    BY <1>4, RewritingFrame DEF console
  <2>2. work[w] \in Works /\ AtRest.obj = 0 /\ work[w].obj \in Objects \cup {0}
    BY <1>0 DEF AtRest, Linked
  <2>3. \E r : r.obj \in Objects \cup {0} /\ work' = [work EXCEPT ![w] = r]
    <3>1. CASE Truncate(w)
      <4>1. [work[w] EXCEPT !.at = "write"].obj = work[w].obj
        BY <2>2 DEF Works
      <4>2. work' = [work EXCEPT ![w] = [work[w] EXCEPT !.at = "write"]]
        BY <1>0, <3>1 DEF Truncate
      <4> QED BY <2>2, <4>1, <4>2
    <3>2. CASE WriteBack(w)
      <4>1. Written(work[w]).obj \in {work[w].obj, 0}
        BY <2>2 DEF Written, Works
      <4> QED BY <2>2, <3>2, <4>1 DEF WriteBack
    <3>3. CASE ClearIndex(w)
      BY <2>2, <3>3 DEF ClearIndex
    <3> QED BY <1>4, <3>1, <3>2, <3>3 DEF Rewriting
  <2> QED BY <1>0, <1>2, <2>1, <2>3 DEF Linked
<1>5. CASE Starting
  BY <1>1, <1>5 DEF Starting, Check, Open, Migrate, Build, Publish, Feed, Run, Return, sinkhole, rewrites, console
<1>6. CASE Requested
  <2>1. ASSUME NEW f \in Finalizers, Clear(f) PROVE Linked'
    <3>1. \A v \in Workers : work'[v].obj \in Objects' \cup {0}
      <4>1. CASE UNCHANGED rewrites
        BY <1>0, <4>1 DEF Linked, rewrites
      <4> QED BY <1>0, <1>3, <2>1, <4>1 DEF Clear
    <3> QED BY <1>0, <2>1, <3>1 DEF Clear, Linked, console
  <2> QED BY <1>1, <1>4, <1>6, <2>1 DEF Requested, Poll, Exit, sinkhole, rewrites, console
<1>7. CASE Working
  <2>1. CASE TakeBatch \/ PickUp \/ EndBatch \/ \E n \in Names : Sink(n)
    BY <1>1, <2>1 DEF TakeBatch, PickUp, EndBatch, Sink, sinkhole, rewrites, console
  <2>2. CASE Reap \/ ReadLines
    <3>1. \E r : r.obj \in Objects \cup {0} /\ work' = [work EXCEPT ![Maint] = r]
      <4>1. CASE Reap
        <5>1. PICK freed : work' = [work EXCEPT ![Maint] = [AtRest EXCEPT !.at = "read", !.todo = freed]]
          BY <4>1 DEF Reap
        <5>2. [AtRest EXCEPT !.at = "read", !.todo = freed].obj = 0
          BY DEF AtRest
        <5> QED BY <5>1, <5>2
      <4>2. CASE ReadLines
        <5>1. PICK n : work' = [work EXCEPT ![Maint].at = "truncate", ![Maint].todo = @ \ {n},
                                            ![Maint].copy = file \ {n}]
          BY <4>2 DEF ReadLines
        <5> DEFINE r == [work[Maint] EXCEPT !.at = "truncate", !.todo = @ \ {n}, !.copy = file \ {n}]
        <5>2. r.obj = work[Maint].obj /\ work' = [work EXCEPT ![Maint] = r]
          BY <1>0, <5>1 DEF Works
        <5>3. r.obj \in Objects \cup {0}
          BY <1>0, <5>2 DEF Linked
        <5> HIDE DEF r
        <5> QED BY <5>2, <5>3
      <4> QED BY <2>2, <4>1, <4>2
    <3>2. \A v \in Workers : work'[v].obj \in Objects' \cup {0}
      BY <1>2, <3>1
    <3> QED BY <1>0, <2>2, <3>2 DEF Reap, ReadLines, Linked, console
  <2> QED BY <1>4, <1>7, <2>1, <2>2 DEF Working
<1>8. CASE Handling
  <2>1. PICK c \in Consoles : \/ Ask(c) \/ Arm(c) \/ Make(c) \/ Disarm(c) \/ Clean(c) \/ Load(c) \/ Attach(c)
                              \/ ClearNow(c) \/ Store(c) \/ Read(c) \/ Bind(c)
    BY <1>8 DEF Handling
  <2>2. request'[c].obj \in Objects \cup {0} /\ \A d \in Consoles \ {c} : request'[d] = request[d]
    <3>1. request[c] \in Requests /\ request[c].obj \in Objects \cup {0}
      BY <1>0 DEF Linked
    <3>2. CASE Ask(c)
      <4>1. \/ \E op \in {"arm", "disarm", "clear"} :
                 request' = [request EXCEPT ![c] = [Idle EXCEPT !.op = op, !.step = "slot"]]
            \/ \E d \in Domains :
                 \/ request' = [request EXCEPT ![c] = [Idle EXCEPT !.op = "mute", !.step = "store", !.domain = {d}]]
                 \/ request' = [request EXCEPT ![c] = [Idle EXCEPT !.op = "unmute", !.step = "read", !.domain = {d}]]
        BY <3>2 DEF Ask
      <4>2. \E r : r.obj = 0 /\ request' = [request EXCEPT ![c] = r]
        BY <4>1 DEF Idle
      <4> QED BY <1>0, <4>2
    <3>3. CASE Arm(c) \/ Make(c) \/ Clean(c) \/ Read(c)
      BY <1>0, <3>1, <3>3 DEF Arm, Make, Clean, Read, Goto, Requests
    <3>4. CASE Disarm(c) \/ Load(c)
      BY <1>0, <3>1, <3>4 DEF Disarm, Load, Handed, Requests
    <3>5. CASE Attach(c) \/ ClearNow(c) \/ Store(c) \/ Bind(c)
      BY <1>0, <3>1, <3>5 DEF Attach, ClearNow, Store, Bind, Goto, Finish, Idle, Requests
    <3> QED BY <2>1, <3>2, <3>3, <3>4, <3>5
  <2>3. \A v \in Workers : work'[v].obj \in Objects' \cup {0}
    <3>1. CASE UNCHANGED work
      BY <1>0, <3>1 DEF Linked
    <3>2. CASE Clean(c) \/ ClearNow(c)
      <4>1. request[c].obj \in Objects \cup {0}
        BY <1>0 DEF Linked
      <4> QED BY <1>0, <1>3, <3>1, <3>2, <4>1 DEF Clean, ClearNow, rewrites
    <3> QED BY <2>1, <3>1, <3>2
        DEF Ask, Arm, Make, Disarm, Load, Attach, Store, Read, Bind, sinkhole, rewrites
  <2> QED BY <1>0, <2>2, <2>3 DEF Linked
<1>9. CASE Outside
  BY <1>1, <1>9 DEF Outside, Start, Kill, SvcStop, Signal, Launch, EditAside, sinkhole, rewrites, console
<1> QED BY <1>5, <1>6, <1>7, <1>8, <1>9 DEF Next

LEMMA NextTyped == Typed /\ [Next]_vars => Typed'
BY UnchangedTyped, StartingTyped, RequestedTyped, WorkingTyped, HandlingTyped, OutsideTyped, LinkedStep
   DEF Next, Typed

(* The types of the service, for any hosts, consoles and bounds.           *)
THEOREM TypeCorrect == Spec => []TypeOK
<1>1. Typed => TypeOK
  BY DEF Typed, Shaped
<1> QED BY InitTyped, NextTyped, <1>1, PTL DEF Spec

-----------------------------------------------------------------------------
AllIdle == \A c \in Consoles : request[c] = Idle

(* Below the console is one.  Of two, one may load what is in the slot and *)
(* hand it to the policy after the other has disarmed it, and each may find*)
(* the slot empty and make a sinkhole of which the other knows nothing.    *)
OneConsole == \A c, d \in Consoles : c = d

(* Nothing is built before the policy is, and nothing survives a process.  *)
Unbuilt ==
  ~ Built => /\ slot = 0 /\ policy = 0 /\ hand = 0 /\ batch = FALSE /\ work = NoWork /\ raced = FALSE
             /\ AllIdle

(* Only the reaper holds names to remove, and a copy of the lines to keep; *)
(* whoever cleans an object up writes no managed line back.                *)
Roles ==
  /\ work[Maint].obj = 0 /\ work[Maint].at # "clear"
  /\ \A w \in Workers \ {Maint} : work[w].copy = {}

(* While the slot is armed no policy has another sinkhole.  As long as no  *)
(* write met a rewrite, what the reaper is about to leave in the file is   *)
(* known or still to be removed, and no clearing meets a line.             *)
Pending == index[slot] \cup work[Maint].todo
Sound ==
  /\ ~ Removing => file \subseteq index[slot]
  /\ Removing => ~ Cleaning(slot, {"truncate", "write", "clear"})
  /\ work[Maint].at \in {"read", "write"} => file \subseteq Pending
  /\ work[Maint].at \in {"truncate", "write"} => work[Maint].copy \subseteq Pending
  /\ Cleaning(slot, {"write", "clear"}) => file = {}
Known == Roles /\ (slot # 0 => policy \in {0, slot} /\ (~ raced => Sound))

(* Where a request has brought the slot and the policy.                    *)
Agreeing ==
  /\ Built /\ AllIdle => policy = slot
  /\ \A c \in Consoles :
       /\ request[c].op \in {"clear", "mute", "unmute"} => policy = slot
       /\ request[c].op \in {"arm", "disarm"} /\ request[c].step = "slot" => policy = slot
       /\ request[c].op = "arm" /\ request[c].step = "make" => slot = 0 /\ policy = 0
       /\ request[c].op = "disarm" /\ request[c].step # "slot" => slot = 0
       /\ request[c].step = "attach" => request[c].obj = slot

Guarded == Typed /\ Unbuilt /\ Known /\ Agreeing

LEMMA IdleFields == Idle.op = "none" /\ Idle.step = "done"
BY DEF Idle

LEMMA NoWorkKnown == work = NoWork => Roles /\ ~ Removing /\ \A o, S : "none" \notin S => ~ Cleaning(o, S)
BY WorkerKinds DEF NoWork, AtRest, Roles, Removing, Cleaning

LEMMA GuardedInit == Init => Guarded
<1> SUFFICES ASSUME Init PROVE Guarded
  OBVIOUS
<1>1. Unbuilt /\ Known /\ ~ Built
  BY NoWorkKnown DEF Init, Unbuilt, Known, Built, AllIdle
<1>2. Agreeing
  BY <1>1, IdleFields DEF Init, Agreeing
<1> QED BY <1>1, <1>2, InitTyped DEF Guarded

LEMMA GoneGuarded ==
  ASSUME NEW how, Gone(how)
  PROVE  Unbuilt' /\ Known' /\ Agreeing'
<1>1. ~ Built' /\ Unbuilt'
  BY DEF Gone, Built, Unbuilt, AllIdle
<1>2. Known'
  <2>1. slot' = 0 /\ work' = NoWork
    BY DEF Gone
  <2>2. \A w \in Workers : work'[w] = AtRest
    BY <2>1 DEF NoWork
  <2> QED BY <2>1, <2>2, WorkerKinds DEF Known, Roles, AtRest
<1>3. Agreeing'
  BY <1>1, IdleFields DEF Gone, Agreeing
<1> QED BY <1>1, <1>2, <1>3

(* Steps that leave the sinkhole, the engine and the requests alone.       *)
LEMMA StillGuarded ==
  ASSUME Guarded, UNCHANGED <<file, index, slot, policy, work, raced, batch, hand, request>>,
         Built' <=> Built
  PROVE  Unbuilt' /\ Known' /\ Agreeing'
BY DEF Guarded, Unbuilt, Known, Roles, Sound, Pending, Removing, Cleaning, Agreeing, AllIdle

LEMMA StartingGuarded ==
  ASSUME Guarded, Starting PROVE Unbuilt' /\ Known' /\ Agreeing'
<1> USE DEF console, rewrites
<1>1. CASE Check
  <2>1. CASE Gone("refused")
    BY <2>1, GoneGuarded
  <2>2. CASE ~ Gone("refused")
    BY <1>1, <2>2, StillGuarded DEF Check, Built, sinkhole, engine
  <2> QED BY <2>1, <2>2
<1>2. CASE Open
  BY <1>2, StillGuarded DEF Open, Built, sinkhole, engine
<1>3. CASE Migrate
  BY <1>3, StillGuarded DEF Migrate, Built, sinkhole, engine
<1>4. CASE Build
  <2>1. ~ Built /\ Built' /\ UNCHANGED <<file, work, raced, batch, hand, request>> /\ policy' = slot'
    BY <1>4 DEF Build, Built, engine
  <2>2. slot = 0 /\ AllIdle /\ AllIdle' /\ work = NoWork
    BY <2>1 DEF Guarded, Unbuilt, AllIdle
  <2>3. slot' # 0 => file' \subseteq index'[slot']
    <3>1. CASE AtBoot
      <4>1. index' = Append(index, file) /\ slot' = Len(index) + 1
        BY <1>4, <3>1 DEF Build, Made
      <4>2. index \in Seq(SUBSET Names) /\ file \in SUBSET Names
        BY DEF Guarded, Typed, Shaped, TypeOK
      <4>3. index'[slot'] = file
        BY <4>1, <4>2, IndexAppend
      <4> QED BY <2>1, <4>3
    <3>2. CASE ~ AtBoot
      BY <1>4, <2>2, <3>2 DEF Build
    <3> QED BY <3>1, <3>2
  <2>4. Agreeing'
    BY <2>1, <2>2, IdleFields DEF Agreeing, AllIdle
  <2>5. Known'
    BY <2>1, <2>2, <2>3, WorkerKinds DEF Known, Sound, Roles, Removing, Cleaning, NoWork, AtRest
  <2> QED BY <2>1, <2>4, <2>5 DEF Unbuilt
<1>5. CASE Publish \/ Feed \/ Run
  BY <1>5, StillGuarded DEF Publish, Feed, Run, Built, sinkhole, engine
<1>6. CASE Return
  BY <1>6, GoneGuarded DEF Return
<1> QED BY <1>1, <1>2, <1>3, <1>4, <1>5, <1>6 DEF Starting

(* The beginning of a cleanup changes nothing yet but who is at work.      *)
LEMMA CleanupKnown ==
  ASSUME Guarded, NEW w \in Workers \ {Maint}, NEW o \in Objects \cup {0}, Cleanup(w, o),
         UNCHANGED <<file, index, policy>>, slot' \in {0, slot}
  PROVE  Known'
<1>0. work \in [Workers -> Works]
  BY DEF Guarded, Typed, Shaped, TypeOK, Works
<1> DEFINE r == [AtRest EXCEPT !.at = "truncate", !.obj = o]
<1>1. work' = [work EXCEPT ![w] = r] /\ r.at = "truncate" /\ r.obj = o /\ r.copy = {}
  BY DEF Cleanup, AtRest
<1> HIDE DEF r
<1>2. work'[Maint] = work[Maint] /\ work'[w] = r /\ \A v \in Workers \ {w} : work'[v] = work[v]
  BY <1>0, <1>1, WorkerKinds
<1>3. Roles'
  BY <1>1, <1>2 DEF Guarded, Known, Roles
<1>4. ASSUME slot' # 0 PROVE policy' \in {0, slot'} /\ (~ raced' => Sound')
  <2>1. slot' = slot /\ policy' \in {0, slot'}
    BY <1>4 DEF Guarded, Known
  <2>2. ASSUME ~ raced' PROVE Sound'
    <3>1. ~ raced /\ (o = slot => ~ Removing) /\ Sound
      BY <1>4, <2>1, <2>2 DEF Cleanup, Guarded, Known
    <3>2. Removing' <=> Removing
      BY <1>2 DEF Removing
    <3>3. Cleaning(slot, {"write", "clear"})' => Cleaning(slot, {"write", "clear"})
      BY <1>1, <1>2, <2>1 DEF Cleaning
    <3>4. Cleaning(slot, {"truncate", "write", "clear"})' => o = slot \/ Cleaning(slot, {"truncate", "write", "clear"})
      BY <1>1, <1>2, <2>1 DEF Cleaning
    <3> QED BY <1>2, <2>1, <3>1, <3>2, <3>3, <3>4 DEF Sound, Pending
  <2> QED BY <2>1, <2>2
<1> QED BY <1>3, <1>4 DEF Known

(* A rewrite goes on.                                                      *)
LEMMA RewritingKnown ==
  ASSUME Guarded, NEW w \in Workers, Rewriting(w)
  PROVE  Known'
<1>0. /\ work \in [Workers -> Works] /\ index \in Seq(SUBSET Names) /\ work[w] \in Works
      /\ slot \in 1 .. Len(index) \cup {0} /\ work[w].obj \in 1 .. Len(index) \cup {0}
  BY DEF Guarded, Typed, Shaped, TypeOK, Linked, Works, Objects
<1>1. UNCHANGED <<slot, policy, raced>>
  BY RewritingFrame
<1>2. Roles /\ (slot # 0 => policy \in {0, slot} /\ (~ raced => Sound))
  BY DEF Guarded, Known
<1>3. work' = [work EXCEPT ![w] = work'[w]] /\ \A v \in Workers \ {w} : work'[v] = work[v]
  BY <1>0 DEF Rewriting, Truncate, WriteBack, ClearIndex
<1>4. CASE Truncate(w)
  <2>1. work[w].at = "truncate" /\ file' = {} /\ UNCHANGED index
    BY <1>4 DEF Truncate
  <2>2. /\ work'[w].at = "write" /\ work'[w].obj = work[w].obj /\ work'[w].todo = work[w].todo
        /\ work'[w].copy = work[w].copy
    BY <1>0, <1>4 DEF Truncate, Works
  <2>5. \A v \in Workers :
          /\ work'[v].obj = work[v].obj /\ work'[v].copy = work[v].copy
          /\ v = w \/ work'[v].at = work[v].at
    BY <1>3, <2>2
  <2>3. Roles'
    BY <1>2, <2>2, <2>5, WorkerKinds DEF Roles
  <2>4. ASSUME slot # 0, Sound PROVE Sound'
    <3>1. Removing' <=> Removing
      BY <2>1, <2>2, <2>5, WorkerKinds DEF Removing
    <3>2. Cleaning(slot, {"truncate", "write", "clear"})' => Cleaning(slot, {"truncate", "write", "clear"})
      BY <1>1, <1>3, <2>1, <2>2 DEF Cleaning
    <3>3. work'[Maint].copy = work[Maint].copy /\ work'[Maint].todo = work[Maint].todo
          /\ (work'[Maint].at \in {"truncate", "write"} => work[Maint].at \in {"truncate", "write"})
      BY <1>3, <2>1, <2>2, WorkerKinds
    <3> QED BY <1>1, <2>1, <2>4, <3>1, <3>2, <3>3 DEF Sound, Pending
  <2> QED BY <1>1, <1>2, <2>3, <2>4 DEF Known
<1>5. CASE WriteBack(w)
  <2>1. work[w].at = "write" /\ UNCHANGED index /\ file' \subseteq work[w].copy \cup file
    BY <1>5 DEF WriteBack
  <2>2. work'[w] = Written(work[w])
    BY <1>0, <1>5 DEF WriteBack
  <2>3. work'[w].obj \in {0, work[w].obj} /\ work'[w].todo \subseteq work[w].todo
        /\ work'[w].copy \subseteq work[w].copy
    BY <1>0, <2>2 DEF Written, AtRest, Works
  <2>4. CASE w = Maint
    <3>1. work[w].obj = 0
      BY <1>2, <2>4 DEF Roles
    <3>2. \/ work[w].todo # {} /\ work'[w].at = "read" /\ work'[w].todo = work[w].todo
          \/ work[w].todo = {} /\ work'[w].at = "none"
      BY <1>0, <2>2, <3>1 DEF Written, AtRest, Works
    <3>3. Roles'
      BY <1>2, <1>3, <2>3, <2>4, <3>1, <3>2 DEF Roles
    <3>4. ASSUME slot # 0, Sound PROVE Sound'
      <4>1. file' \subseteq Pending /\ Removing
        BY <2>1, <2>4, <3>4 DEF Sound, Removing
      <4>2. ~ Cleaning(slot, {"truncate", "write", "clear"})'
        <5>1. ~ Cleaning(slot, {"truncate", "write", "clear"})
          BY <3>4, <4>1 DEF Sound
        <5> QED BY <1>1, <1>3, <2>3, <3>1, <3>4, <5>1 DEF Cleaning
      <4>3. ~ Cleaning(slot, {"write", "clear"})'
        BY <4>2 DEF Cleaning
      <4> QED BY <1>1, <2>1, <2>4, <3>2, <4>1, <4>2, <4>3 DEF Sound, Pending, Removing
    <3> QED BY <1>1, <1>2, <3>3, <3>4 DEF Known
  <2>5. CASE w # Maint
    <3>1. work[w].copy = {} /\ file' \subseteq file /\ work'[Maint] = work[Maint]
      BY <1>2, <1>3, <2>1, <2>5, WorkerKinds DEF Roles
    <3>2. Roles'
      BY <1>2, <1>3, <2>3, <2>5, <3>1 DEF Roles
    <3>3. ASSUME slot # 0, Sound PROVE Sound'
      <4>1. Cleaning(slot, {"truncate", "write", "clear"})' => Cleaning(slot, {"truncate", "write", "clear"})
        BY <1>1, <1>3, <2>1, <2>3, <3>3 DEF Cleaning
      <4>2. Cleaning(slot, {"write", "clear"})' => Cleaning(slot, {"write", "clear"})
        BY <1>1, <1>3, <2>1, <2>3, <3>3 DEF Cleaning
      <4> QED BY <1>1, <2>1, <3>1, <3>3, <4>1, <4>2 DEF Sound, Pending, Removing
    <3> QED BY <1>1, <1>2, <3>2, <3>3 DEF Known
  <2> QED BY <2>4, <2>5
<1>6. CASE ClearIndex(w)
  <2>1. work[w].at = "clear" /\ UNCHANGED file /\ work'[w] = AtRest
        /\ index' = [index EXCEPT ![work[w].obj] = {}]
    BY <1>0, <1>6 DEF ClearIndex
  <2>2. w # Maint /\ work'[Maint] = work[Maint]
    BY <1>2, <1>3, <2>1, WorkerKinds DEF Roles
  <2>3. Roles'
    BY <1>2, <1>3, <2>1, <2>2 DEF Roles, AtRest
  <2>4. ASSUME slot # 0, Sound PROVE Sound'
    <3>1. Cleaning(slot, {"truncate", "write", "clear"})' => Cleaning(slot, {"truncate", "write", "clear"})
      BY <1>1, <1>3, <2>1 DEF Cleaning, AtRest
    <3>2. Cleaning(slot, {"write", "clear"})' => Cleaning(slot, {"write", "clear"})
      BY <1>1, <1>3, <2>1 DEF Cleaning, AtRest
    <3>3. CASE work[w].obj = slot
      <4>1. Cleaning(slot, {"write", "clear"}) /\ Cleaning(slot, {"truncate", "write", "clear"})
        BY <2>1, <3>3 DEF Cleaning
      <4>2. file = {} /\ ~ Removing
        BY <2>4, <4>1 DEF Sound
      <4>3. work[Maint].at = "none"
        BY <4>2 DEF Removing
      <4> QED BY <1>1, <2>1, <2>2, <4>2, <4>3 DEF Sound, Removing
    <3>4. CASE work[w].obj # slot
      <4>1. index'[slot] = index[slot]
        BY <1>0, <2>1, <2>4, <3>4
      <4> QED BY <1>1, <2>1, <2>2, <2>4, <3>1, <3>2, <4>1 DEF Sound, Pending, Removing
    <3> QED BY <3>3, <3>4
  <2> QED BY <1>1, <1>2, <2>3, <2>4 DEF Known
<1> QED BY <1>4, <1>5, <1>6 DEF Rewriting

LEMMA RewritingGuarded ==
  ASSUME Guarded, NEW w \in Workers, Rewriting(w)
  PROVE  Unbuilt' /\ Known' /\ Agreeing'
<1>1. UNCHANGED <<phase, slot, policy, request, batch, hand>>
  BY RewritingFrame DEF process, engine, console
<1>2. Built
  <2>1. work[w].at # "none"
    BY DEF Rewriting, Truncate, WriteBack, ClearIndex
  <2> QED BY <2>1 DEF Guarded, Unbuilt, NoWork, AtRest
<1>3. Unbuilt' /\ Agreeing'
  BY <1>1, <1>2 DEF Guarded, Unbuilt, Built, Agreeing, AllIdle
<1> QED BY <1>3, RewritingKnown

LEMMA RequestedGuarded ==
  ASSUME Guarded, Requested PROVE Unbuilt' /\ Known' /\ Agreeing'
<1>1. ASSUME NEW f \in Finalizers, Poll(f) PROVE Unbuilt' /\ Known' /\ Agreeing'
  BY <1>1, StillGuarded DEF Poll, Built, sinkhole, rewrites, engine, console
<1>2. ASSUME NEW f \in Finalizers, Clear(f) PROVE Unbuilt' /\ Known' /\ Agreeing'
  <2>1. UNCHANGED <<phase, file, index, slot, policy, batch, hand, request>>
    BY <1>2 DEF Clear, engine, console
  <2>2. CASE UNCHANGED rewrites
    BY <2>1, <2>2, StillGuarded DEF rewrites, Built
  <2>3. CASE slot # 0 /\ Cleanup(f, slot)
    <3>1. Known'
      <4>1. slot \in Objects \cup {0}
        BY DEF Guarded, Typed, Shaped, TypeOK
      <4> QED BY <2>1, <2>3, <4>1, CleanupKnown, WorkerKinds
    <3>2. Unbuilt' /\ Agreeing'
      BY <2>1, <2>3 DEF Guarded, Unbuilt, Agreeing, AllIdle, Built
    <3> QED BY <3>1, <3>2
  <2> QED BY <1>2, <2>2, <2>3 DEF Clear
<1>3. ASSUME NEW f \in Finalizers, Exit(f) PROVE Unbuilt' /\ Known' /\ Agreeing'
  BY <1>3, GoneGuarded DEF Exit
<1> QED BY <1>1, <1>2, <1>3, RewritingGuarded, WorkerKinds DEF Requested

LEMMA WorkingGuarded ==
  ASSUME Guarded, Working PROVE Unbuilt' /\ Known' /\ Agreeing'
<1>0. /\ index \in Seq(SUBSET Names) /\ slot \in 1 .. Len(index) \cup {0}
      /\ policy \in 1 .. Len(index) \cup {0} /\ hand \in 1 .. Len(index) \cup {0}
      /\ work \in [Workers -> Works]
  BY DEF Guarded, Typed, Shaped, TypeOK, Objects, Works
<1>1. UNCHANGED <<phase, slot, policy, request>>
  BY WorkingFrame DEF process, console
<1>2. CASE \E w \in Consoles \cup {Maint} : Rewriting(w)
  BY <1>2, RewritingGuarded, WorkerKinds
<1>3. CASE TakeBatch \/ PickUp \/ EndBatch \/ (\E n \in Names : Sink(n)) \/ Reap \/ ReadLines
  <2>1. Built
    <3>1. CASE TakeBatch \/ PickUp \/ EndBatch \/ (\E n \in Names : Sink(n)) \/ Reap
      BY <3>1 DEF TakeBatch, PickUp, EndBatch, Sink, Reap, Feeding, Built, Guarded, Unbuilt
    <3>2. CASE ReadLines
      BY <3>2, WorkerKinds DEF ReadLines, Guarded, Unbuilt, NoWork, AtRest
    <3> QED BY <1>3, <3>1, <3>2
  <2>2. Unbuilt' /\ Agreeing'
    BY <1>1, <2>1 DEF Unbuilt, Built, Guarded, Agreeing, AllIdle
  <2>3. CASE TakeBatch \/ PickUp \/ EndBatch
    <3>1. UNCHANGED <<file, index, slot, policy, work, raced>>
      BY <2>3 DEF TakeBatch, PickUp, EndBatch, sinkhole, rewrites
    <3>2. Known'
      BY <3>1 DEF Guarded, Known, Roles, Sound, Pending, Removing, Cleaning
    <3> QED BY <2>2, <3>2
  <2>4. ASSUME NEW n \in Names, Sink(n) PROVE Known'
    <3>1. /\ hand \in 1 .. Len(index) /\ file' = file \cup {n} /\ UNCHANGED work
          /\ index' = [index EXCEPT ![hand] = index[hand] \cup {n}]
          /\ ~ raced' => /\ ~ raced /\ (slot # 0 => hand = slot)
                         /\ ~ Cleaning(hand, {"write", "clear"})
      BY <1>0, <2>4 DEF Sink
    <3>2. Roles'
      BY <3>1 DEF Guarded, Known, Roles
    <3>3. ASSUME slot # 0, ~ raced' PROVE Sound'
      <4>1. hand = slot /\ Sound /\ ~ Cleaning(slot, {"write", "clear"})
        BY <3>1, <3>3 DEF Guarded, Known
      <4>2. index'[slot] = index[slot] \cup {n}
        BY <1>0, <3>1, <4>1
      <4>3. /\ Removing' <=> Removing
            /\ \A S : Cleaning(slot, S)' <=> Cleaning(slot, S)
        BY <1>1, <3>1 DEF Removing, Cleaning
      <4> QED BY <1>1, <3>1, <4>1, <4>2, <4>3 DEF Sound, Pending
    <3> QED BY <1>1, <3>2, <3>3 DEF Guarded, Known
  <2>5. CASE Reap
    <3>1. PICK freed \in SUBSET index[policy] :
             /\ index' = [index EXCEPT ![policy] = @ \ freed]
             /\ work' = [work EXCEPT ![Maint] = [AtRest EXCEPT !.at = "read", !.todo = freed]]
      BY <2>5 DEF Reap
    <3>2. policy # 0 /\ ~ Removing /\ UNCHANGED file
          /\ (~ raced' => ~ raced /\ ~ Cleaning(slot, {"truncate", "write", "clear"}))
      BY <2>5 DEF Reap
    <3>3. /\ work'[Maint].at = "read" /\ work'[Maint].obj = 0 /\ work'[Maint].todo = freed
          /\ \A v \in Workers \ {Maint} : work'[v] = work[v]
      BY <1>0, <3>1, WorkerKinds DEF AtRest
    <3>4. Roles'
      BY <3>3 DEF Guarded, Known, Roles
    <3>5. ASSUME slot # 0, ~ raced' PROVE Sound'
      <4>1. policy = slot /\ Sound /\ file \subseteq index[slot]
        BY <3>2, <3>5 DEF Guarded, Known, Sound
      <4>2. index'[slot] = index[slot] \ freed
        BY <1>0, <3>1, <3>5, <4>1
      <4>3. ~ Cleaning(slot, {"truncate", "write", "clear"})'
        BY <1>1, <3>2, <3>3, <3>5 DEF Cleaning
      <4>4. ~ Cleaning(slot, {"write", "clear"})'
        BY <4>3 DEF Cleaning
      <4>5. file' \subseteq index'[slot'] \cup work'[Maint].todo
        BY <1>1, <3>2, <3>3, <4>1, <4>2
      <4> QED BY <3>3, <4>3, <4>4, <4>5 DEF Sound, Pending, Removing
    <3> QED BY <1>1, <2>2, <3>4, <3>5 DEF Guarded, Known
  <2>6. CASE ReadLines
    <3>1. PICK n \in work[Maint].todo :
             work' = [work EXCEPT ![Maint].at = "truncate", ![Maint].todo = @ \ {n}, ![Maint].copy = file \ {n}]
      BY <2>6 DEF ReadLines
    <3>2. work[Maint].at = "read" /\ UNCHANGED <<file, index, raced>>
      BY <2>6 DEF ReadLines
    <3>3. /\ work'[Maint].at = "truncate" /\ work'[Maint].obj = work[Maint].obj
          /\ work'[Maint].todo = work[Maint].todo \ {n} /\ work'[Maint].copy = file \ {n}
          /\ \A v \in Workers \ {Maint} : work'[v] = work[v]
      BY <1>0, <3>1, WorkerKinds DEF Works
    <3>4. Roles'
      BY <3>3 DEF Guarded, Known, Roles
    <3>5. ASSUME slot # 0, ~ raced' PROVE Sound'
      <4>1. Sound /\ Removing /\ work[Maint].obj = 0
        BY <3>2, <3>5 DEF Guarded, Known, Removing, Roles
      <4>2. ~ Cleaning(slot, {"truncate", "write", "clear"})'
        <5>1. ~ Cleaning(slot, {"truncate", "write", "clear"})
          BY <4>1 DEF Sound
        <5> QED BY <1>1, <3>3, <3>5, <4>1, <5>1 DEF Cleaning
      <4>3. ~ Cleaning(slot, {"write", "clear"})'
        BY <4>2 DEF Cleaning
      <4>4. file \subseteq index[slot] \cup work[Maint].todo
        BY <3>2, <4>1 DEF Sound, Pending
      <4> QED BY <1>1, <3>2, <3>3, <4>2, <4>3, <4>4 DEF Sound, Pending, Removing
    <3> QED BY <1>1, <2>2, <3>2, <3>4, <3>5 DEF Guarded, Known
  <2> QED BY <1>3, <2>2, <2>3, <2>4, <2>5, <2>6
<1> QED BY <1>2, <1>3 DEF Working

LEMMA HandlingGuarded ==
  ASSUME OneConsole, Guarded, Handling PROVE Unbuilt' /\ Known' /\ Agreeing'
<1>0. /\ index \in Seq(SUBSET Names) /\ slot \in 1 .. Len(index) \cup {0} /\ file \in SUBSET Names
      /\ policy \in 1 .. Len(index) \cup {0} /\ request \in [Consoles -> Requests]
      /\ work \in [Workers -> Works] /\ Linked
  BY DEF Guarded, Typed, Shaped, TypeOK, Objects, Works
<1> PICK c \in Consoles : \/ Ask(c) \/ Arm(c) \/ Make(c) \/ Disarm(c) \/ Clean(c) \/ Load(c) \/ Attach(c)
                          \/ ClearNow(c) \/ Store(c) \/ Read(c) \/ Bind(c)
  BY DEF Handling
<1>1. \A d \in Consoles : d = c
  BY DEF OneConsole
<1>2. phase = "serving" /\ phase' = phase /\ Built /\ Built'
  BY DEF Ask, Arm, Make, Disarm, Clean, Load, Attach, ClearNow, Store, Read, Bind, At, process, Built
<1>3. Unbuilt'
  BY <1>2 DEF Unbuilt
<1> DEFINE r == request[c]
           s == request'[c]
<1>4. ASSUME s = Idle => policy' = slot',
             s.op \in {"clear", "mute", "unmute"} => policy' = slot',
             s.op \in {"arm", "disarm"} /\ s.step = "slot" => policy' = slot',
             s.op = "arm" /\ s.step = "make" => slot' = 0 /\ policy' = 0,
             s.op = "disarm" /\ s.step # "slot" => slot' = 0,
             s.step = "attach" => s.obj = slot'
      PROVE  Agreeing'
  BY <1>1, <1>4 DEF Agreeing, AllIdle
<1>5. /\ r = Idle => policy = slot
      /\ r.op \in {"clear", "mute", "unmute"} => policy = slot
      /\ r.op \in {"arm", "disarm"} /\ r.step = "slot" => policy = slot
      /\ r.op = "arm" /\ r.step = "make" => slot = 0 /\ policy = 0
      /\ r.op = "disarm" /\ r.step # "slot" => slot = 0
      /\ r.step = "attach" => r.obj = slot
  BY <1>1, <1>2 DEF Guarded, Agreeing, AllIdle
<1>6. ASSUME UNCHANGED <<file, index, slot, policy, work, raced>> PROVE Known'
  BY <1>6 DEF Guarded, Known, Roles, Sound, Pending, Removing, Cleaning
<1>7. r \in Requests
  BY <1>0
<1>8. CASE Ask(c)
  <2>1. r = Idle /\ UNCHANGED <<file, index, slot, policy, work, raced>>
    BY <1>8 DEF Ask, sinkhole, rewrites
  <2>2. s.op \in {"arm", "disarm", "clear", "mute", "unmute"} /\ s.step \in {"slot", "store", "read"}
        /\ (s.op \in {"arm", "disarm", "clear"} => s.step = "slot")
    <3>1. \/ \E op \in {"arm", "disarm", "clear"} :
               request' = [request EXCEPT ![c] = [Idle EXCEPT !.op = op, !.step = "slot"]]
          \/ \E d \in Domains :
               \/ request' = [request EXCEPT ![c] = [Idle EXCEPT !.op = "mute", !.step = "store", !.domain = {d}]]
               \/ request' = [request EXCEPT ![c] = [Idle EXCEPT !.op = "unmute", !.step = "read", !.domain = {d}]]
      BY <1>8 DEF Ask
    <3>2. \/ \E op \in {"arm", "disarm", "clear"} : s = [Idle EXCEPT !.op = op, !.step = "slot"]
          \/ \E d \in Domains :
               \/ s = [Idle EXCEPT !.op = "mute", !.step = "store", !.domain = {d}]
               \/ s = [Idle EXCEPT !.op = "unmute", !.step = "read", !.domain = {d}]
      BY <1>0, <3>1
    <3> HIDE DEF s
    <3> QED BY <3>2 DEF Idle
  <2>3. policy' = slot'
    BY <1>5, <2>1
  <2>4. Agreeing'
    BY <1>4, <2>2, <2>3
  <2> QED BY <1>3, <1>6, <2>1, <2>4
<1>9. CASE Arm(c)
  <2>1. r.op = "arm" /\ r.step = "slot" /\ UNCHANGED <<file, index, slot, policy, work, raced>>
        /\ s.op = "arm" /\ s.step = (IF slot = 0 THEN "make" ELSE "load")
    BY <1>0, <1>7, <1>9 DEF Arm, At, Goto, sinkhole, rewrites, Requests
  <2>2. s # Idle
    BY <2>1, IdleFields
  <2>3. Agreeing'
    BY <1>4, <1>5, <2>1, <2>2
  <2> QED BY <1>3, <1>6, <2>1, <2>3
<1>10. CASE Make(c)
  <2>1. /\ r.op = "arm" /\ r.step = "make" /\ UNCHANGED <<file, policy, work>> /\ raced' = Removing
        /\ index' = Append(index, file) /\ slot' = Len(index) + 1
        /\ s.op = "arm" /\ s.step = "load"
    BY <1>0, <1>7, <1>10 DEF Make, Made, At, Goto, Requests
  <2>2. s # Idle /\ policy' = 0
    BY <1>5, <2>1, IdleFields
  <2>3. index'[slot'] = file
    BY <1>0, <2>1, IndexAppend
  <2>4. Known'
    <3>1. Roles'
      BY <2>1 DEF Guarded, Known, Roles
    <3>2. \A w \in Workers : work[w].obj # slot'
      BY <1>0, <2>1 DEF Linked, Objects
    <3>3. ASSUME ~ raced' PROVE Sound'
      BY <2>1, <2>3, <3>2, <3>3 DEF Sound, Removing, Cleaning
    <3> QED BY <2>2, <3>1, <3>3 DEF Known
  <2>5. Agreeing'
    BY <1>4, <2>1, <2>2
  <2> QED BY <1>3, <2>4, <2>5
<1>11. CASE Disarm(c)
  <2>1. /\ r.op = "disarm" /\ slot' = 0 /\ s.op = "disarm" /\ s.step \in {"load", "clean"}
        /\ UNCHANGED rewrites
    BY <1>0, <1>7, <1>11 DEF Disarm, At, Requests
  <2>2. s # Idle
    BY <2>1, IdleFields
  <2>3. Agreeing'
    BY <1>4, <2>1, <2>2
  <2>4. Known'
    BY <2>1 DEF Guarded, Known, Roles, rewrites
  <2> QED BY <1>3, <2>3, <2>4
<1>12. CASE Clean(c)
  <2>1. /\ r.op = "disarm" /\ r.step = "clean" /\ UNCHANGED <<file, index, slot, policy>>
        /\ s.op = "disarm" /\ s.step = "load" /\ Cleanup(c, r.obj)
    BY <1>0, <1>7, <1>12 DEF Clean, At, Goto, Requests
  <2>2. s # Idle /\ slot' = 0 /\ r.obj \in Objects \cup {0}
    BY <1>0, <1>5, <2>1, IdleFields DEF Linked
  <2>3. Agreeing'
    BY <1>4, <2>1, <2>2
  <2>4. Known'
    BY <2>1, <2>2, CleanupKnown, WorkerKinds
  <2> QED BY <1>3, <2>3, <2>4
<1>13. CASE Load(c)
  <2>1. /\ r.op \in {"arm", "disarm"} /\ r.step = "load"
        /\ UNCHANGED <<file, index, slot, policy, work, raced>>
        /\ s.op = r.op /\ s.step = "attach" /\ s.obj = slot
    BY <1>0, <1>7, <1>13 DEF Load, Handed, At, sinkhole, rewrites, Requests
  <2>2. s # Idle
    BY <2>1, IdleFields
  <2>3. Agreeing'
    BY <1>4, <1>5, <2>1, <2>2
  <2> QED BY <1>3, <1>6, <2>1, <2>3
<1>14. CASE Attach(c)
  <2>1. /\ r.step = "attach" /\ policy' = r.obj /\ slot' = slot /\ s = Idle
        /\ UNCHANGED <<file, index, work, raced>>
    BY <1>0, <1>14 DEF Attach, At, Finish, rewrites
  <2>2. policy' = slot' /\ s.op = "none" /\ s.step = "done"
    BY <1>5, <2>1, IdleFields
  <2>3. Known'
    BY <2>1, <2>2 DEF Guarded, Known, Roles, Sound, Pending, Removing, Cleaning
  <2>4. Agreeing'
    BY <1>4, <2>2
  <2> QED BY <1>3, <2>3, <2>4
<1>15. CASE ClearNow(c)
  <2>1. r.op = "clear" /\ UNCHANGED <<file, index, slot, policy>> /\ s = Idle
        /\ (Cleanup(c, slot) \/ UNCHANGED rewrites)
    BY <1>0, <1>15 DEF ClearNow, At, Finish
  <2>2. s.op = "none" /\ s.step = "done" /\ policy' = slot'
    BY <1>5, <2>1, IdleFields
  <2>3. Known'
    <3>1. slot \in Objects \cup {0}
      BY <1>0 DEF Objects
    <3> QED BY <1>6, <2>1, <3>1, CleanupKnown, WorkerKinds DEF rewrites
  <2>4. Agreeing'
    BY <1>4, <2>2
  <2> QED BY <1>3, <2>3, <2>4
<1>16. CASE Store(c) \/ Read(c) \/ Bind(c)
  <2>1. r.op \in {"mute", "unmute"} /\ UNCHANGED <<file, index, slot, policy, work, raced>>
        /\ s.op \in {"none", "mute", "unmute"} /\ s.step # "attach"
    BY <1>0, <1>7, <1>16, IdleFields
       DEF Store, Read, Bind, At, Goto, Finish, sinkhole, rewrites, Requests
  <2>2. policy' = slot'
    BY <1>5, <2>1
  <2>3. Agreeing'
    BY <1>4, <2>1, <2>2
  <2> QED BY <1>3, <1>6, <2>1, <2>3
<1> QED BY <1>8, <1>9, <1>10, <1>11, <1>12, <1>13, <1>14, <1>15, <1>16

LEMMA GuardedStep ==
  ASSUME OneConsole PROVE Guarded /\ [Next]_vars => Guarded'
<1> SUFFICES ASSUME Guarded, [Next]_vars PROVE Unbuilt' /\ Known' /\ Agreeing'
  BY NextTyped DEF Guarded
<1> USE DEF rewrites, console
<1>1. CASE Kill
  BY <1>1, GoneGuarded DEF Kill
<1>2. CASE Start \/ SvcStop \/ \E f \in Finalizers : Signal(f)
  BY <1>2, StillGuarded DEF Start, SvcStop, Signal, Built, sinkhole, engine
<1>3. CASE (\E given \in BOOLEAN : Launch(given)) \/ \E d \in Domains : EditAside(d)
  BY <1>3, StillGuarded DEF Launch, EditAside, Built, process, sinkhole, engine
<1>4. CASE UNCHANGED vars
  BY <1>4, StillGuarded DEF vars, Built, process, sinkhole, engine
<1> QED BY <1>1, <1>2, <1>3, <1>4, StartingGuarded, RequestedGuarded, WorkingGuarded, HandlingGuarded
        DEF Next, Outside

(* With one console at work, between two of its requests the policy uses   *)
(* what is in the slot, over kills, stops and any number of finalizers.    *)
THEOREM PolicyUsesSlot == ASSUME OneConsole PROVE Spec => []SlotAgrees
<1>1. Guarded => SlotAgrees
  BY DEF Guarded, Agreeing, AllIdle, SlotAgrees
<1>2. Guarded /\ [Next]_vars => Guarded'
  BY GuardedStep
<1> QED BY GuardedInit, <1>1, <1>2, PTL DEF Spec

(* With one console at work, whoever is in the slot knows every managed    *)
(* line of the hosts file between two rounds of the reaper, over kills in  *)
(* the middle of a rewrite, finalizers and disarmings, unless a write met  *)
(* one of the rewrites that GuardKnowsFile names.                          *)
THEOREM GuardKnows == ASSUME OneConsole PROVE Spec => []GuardKnowsFile
<1>1. Guarded => GuardKnowsFile
  BY DEF Guarded, Typed, Shaped, Known, Sound, GuardKnowsFile
<1>2. Guarded /\ [Next]_vars => Guarded'
  BY GuardedStep
<1> QED BY GuardedInit, <1>1, <1>2, PTL DEF Spec

-----------------------------------------------------------------------------
(* The tables.  How far the one request has come with the table of muted   *)
(* domains and the live set; a set of domains that bypasses one of the two *)
(* is a slip.                                                              *)
Halfway(r, live, table) ==
  /\ r.op \notin {"mute", "unmute"} => live = table
  /\ r.op = "mute" /\ r.step = "store" => live = table
  /\ r.op = "mute" /\ r.step = "read" => table = live \cup r.domain
  /\ r.op = "mute" /\ r.step = "bind" => table = r.seen
  /\ r.op = "unmute" /\ r.step = "read" => live = table
  /\ r.op = "unmute" /\ r.step = "bind" => live = table /\ r.seen = live \ r.domain
  /\ r.op = "unmute" /\ r.step = "store" => live = table \ r.domain

Muting ==
  /\ ~ Built => AllIdle
  /\ Built /\ ~ slip => /\ AllIdle => muted = mutedTable
                        /\ \A c \in Consoles : Halfway(request[c], muted, mutedTable)

(* The rows of an old ledger are in the table or in the one put aside.     *)
RowsKept == ledger.rows \/ ledger.legacy

LEMMA RowsKeptStep == Typed /\ RowsKept /\ [Next]_vars => RowsKept'
<1> SUFFICES ASSUME Typed, RowsKept, [Next]_vars PROVE RowsKept'
  OBVIOUS
<1>1. ledger \in [main : {"old", "none", "filling", "new"}, rows : BOOLEAN, legacy : BOOLEAN]
  BY DEF Typed, Shaped, TypeOK
<1>2. CASE Open
  BY <1>1, <1>2 DEF Open, Schema, RowsKept
<1>3. CASE Migrate
  BY <1>1, <1>3 DEF Migrate, Migrated, RowsKept
<1>4. CASE UNCHANGED ledger
  BY <1>4 DEF RowsKept
<1>5. ASSUME Starting PROVE Open \/ Migrate \/ UNCHANGED ledger
  BY <1>5 DEF Starting, Check, Build, Publish, Feed, Run, Return, tables
<1>6. ASSUME Requested \/ Working \/ Outside PROVE UNCHANGED ledger
  BY <1>6, RewritingFrame, WorkingFrame
     DEF Requested, Poll, Clear, Exit, Outside, Start, Kill, SvcStop, Signal, Launch, EditAside, tables
<1>7. ASSUME Handling PROVE UNCHANGED ledger
  BY <1>7 DEF Handling, Ask, Arm, Make, Disarm, Clean, Load, Attach, ClearNow, Store, Read, Bind, tables
<1>8. ASSUME UNCHANGED vars PROVE UNCHANGED ledger
  BY <1>8 DEF vars, tables
<1> QED BY <1>2, <1>3, <1>4, <1>5, <1>6, <1>7, <1>8 DEF Next

(* Steps that leave the two sets and the requests alone.                   *)
LEMMA StillMuting ==
  ASSUME Muting, UNCHANGED <<muted, mutedTable, slip, request>>, Built' <=> Built
  PROVE  Muting'
BY DEF Muting, Halfway, AllIdle

LEMMA GoneMuting == ASSUME NEW how, Gone(how) PROVE Muting'
BY DEF Gone, Muting, Built, AllIdle

LEMMA StartingMuting ==
  ASSUME Muting, Starting PROVE Muting'
<1> USE DEF console
<1>1. CASE Check
  <2>1. CASE Gone("refused")
    BY <2>1, GoneMuting
  <2>2. CASE ~ Gone("refused")
    BY <1>1, <2>2, StillMuting DEF Check, Built, mutes, tables
  <2> QED BY <2>1, <2>2
<1>2. CASE Open
  BY <1>2, StillMuting DEF Open, Built, mutes
<1>3. CASE Migrate
  <2>1. ~ Built /\ ~ Built' /\ request' = request
    BY <1>3 DEF Migrate, Built
  <2> QED BY <2>1 DEF Muting, AllIdle
<1>4. CASE Build
  <2>1. ~ Built /\ muted' = mutedTable' /\ request' = request
    BY <1>4 DEF Build, Built, tables
  <2>2. AllIdle' /\ \A c \in Consoles : request'[c] = Idle
    BY <2>1 DEF Muting, AllIdle
  <2>3. \A c \in Consoles : request'[c].op = "none"
    BY <2>2, IdleFields
  <2> QED BY <2>1, <2>2, <2>3 DEF Muting, Halfway
<1>5. CASE Publish \/ Feed \/ Run
  BY <1>5, StillMuting DEF Publish, Feed, Run, Built, mutes, tables
<1>6. CASE Return
  BY <1>6, GoneMuting DEF Return
<1> QED BY <1>1, <1>2, <1>3, <1>4, <1>5, <1>6 DEF Starting

LEMMA HandlingMuting ==
  ASSUME OneConsole, Typed, Muting, Handling PROVE Muting'
<1> PICK c \in Consoles : \/ Ask(c) \/ Arm(c) \/ Make(c) \/ Disarm(c) \/ Clean(c) \/ Load(c) \/ Attach(c)
                          \/ ClearNow(c) \/ Store(c) \/ Read(c) \/ Bind(c)
  BY DEF Handling
<1>1. \A d \in Consoles : d = c
  BY DEF OneConsole
<1>2. phase = "serving" /\ Built /\ Built' /\ request \in [Consoles -> Requests]
  BY DEF Ask, Arm, Make, Disarm, Clean, Load, Attach, ClearNow, Store, Read, Bind, At, process, Built, Typed, Shaped
<1> DEFINE r == request[c]
           s == request'[c]
<1>3. r \in Requests
  BY <1>2
<1>4. ASSUME ~ slip' => Halfway(s, muted', mutedTable') PROVE Muting'
  <2>1. \A d \in Consoles : ~ slip' => Halfway(request'[d], muted', mutedTable')
    BY <1>1, <1>4
  <2>2. AllIdle' /\ ~ slip' => muted' = mutedTable'
    BY <1>4, IdleFields DEF AllIdle, Halfway
  <2> QED BY <1>2, <2>1, <2>2 DEF Muting
<1>5. ~ slip => Halfway(r, muted, mutedTable)
  BY <1>2 DEF Muting
<1>6. ASSUME Ask(c) \/ Arm(c) \/ Make(c) \/ Disarm(c) \/ Clean(c) \/ Load(c) \/ Attach(c) \/ ClearNow(c)
      PROVE  Muting'
  <2>1. UNCHANGED <<muted, mutedTable, slip>>
    BY <1>6 DEF Ask, Arm, Make, Disarm, Clean, Load, Attach, ClearNow, mutes, tables
  <2>2. r.op \notin {"mute", "unmute"} /\ (~ slip => muted = mutedTable)
    <3>1. r.op \notin {"mute", "unmute"}
      BY <1>6, IdleFields DEF Ask, Arm, Make, Disarm, Clean, Load, Attach, ClearNow, At
    <3> HIDE DEF r
    <3> QED BY <1>5, <3>1 DEF Halfway
  <2>3. \/ s.op \notin {"mute", "unmute"}
        \/ s.op = "mute" /\ s.step = "store"
        \/ s.op = "unmute" /\ s.step = "read"
    <3>1. CASE Ask(c)
      <4>1. \/ \E op \in {"arm", "disarm", "clear"} :
                 request' = [request EXCEPT ![c] = [Idle EXCEPT !.op = op, !.step = "slot"]]
            \/ \E d \in Domains :
                 \/ request' = [request EXCEPT ![c] = [Idle EXCEPT !.op = "mute", !.step = "store", !.domain = {d}]]
                 \/ request' = [request EXCEPT ![c] = [Idle EXCEPT !.op = "unmute", !.step = "read", !.domain = {d}]]
        BY <3>1 DEF Ask
      <4>2. \/ \E op \in {"arm", "disarm", "clear"} : s = [Idle EXCEPT !.op = op, !.step = "slot"]
            \/ \E d \in Domains :
                 \/ s = [Idle EXCEPT !.op = "mute", !.step = "store", !.domain = {d}]
                 \/ s = [Idle EXCEPT !.op = "unmute", !.step = "read", !.domain = {d}]
        BY <1>2, <4>1
      <4> HIDE DEF s
      <4> QED BY <4>2 DEF Idle
    <3>2. CASE Attach(c) \/ ClearNow(c)
      BY <1>2, <3>2, IdleFields DEF Attach, ClearNow, Finish
    <3>3. CASE Arm(c) \/ Make(c) \/ Disarm(c) \/ Clean(c) \/ Load(c)
      <4>1. s.op = r.op
        BY <1>2, <1>3, <3>3 DEF Arm, Make, Disarm, Clean, Load, Goto, Requests
      <4> QED BY <2>2, <4>1
    <3> QED BY <1>6, <3>1, <3>2, <3>3
  <2>4. ~ slip' => Halfway(s, muted', mutedTable')
    <3> HIDE DEF s
    <3> QED BY <2>1, <2>2, <2>3 DEF Halfway
  <2> QED BY <1>4, <2>1, <2>2, <2>4
<1>7. CASE Store(c)
  <2>1. UNCHANGED muted /\ r.step = "store" /\ r.op \in {"mute", "unmute"}
    BY <1>7 DEF Store, At
  <2>2. CASE /\ mutedTable' = IF r.op = "mute" THEN mutedTable \cup r.domain ELSE mutedTable \ r.domain
             /\ IF r.op = "mute" THEN Goto(c, "read") ELSE Finish(c)
             /\ UNCHANGED slip
    <3>1. CASE r.op = "mute"
      <4>1. s = [r EXCEPT !.step = "read"] /\ mutedTable' = mutedTable \cup r.domain
        BY <1>2, <2>2, <3>1 DEF Goto
      <4>2. s.op = "mute" /\ s.step = "read" /\ s.domain = r.domain
        BY <1>3, <3>1, <4>1 DEF Requests
      <4>3. ~ slip' => mutedTable' = muted' \cup s.domain
        BY <1>5, <2>1, <2>2, <3>1, <4>1, <4>2 DEF Halfway
      <4> QED BY <1>4, <4>2, <4>3, IdleFields DEF Halfway
    <3>2. CASE r.op = "unmute"
      <4>1. s = Idle /\ mutedTable' = mutedTable \ r.domain
        BY <1>2, <2>2, <3>2 DEF Finish
      <4>2. ~ slip' => mutedTable' = muted'
        BY <1>5, <2>1, <2>2, <3>2, <4>1 DEF Halfway
      <4> QED BY <1>4, <4>1, <4>2, IdleFields DEF Halfway
    <3> QED BY <2>1, <3>1, <3>2
  <2>3. CASE Finish(c) /\ slip' = (slip \/ r.op = "unmute") /\ UNCHANGED mutedTable
    <3>1. s = Idle
      BY <1>2, <2>3 DEF Finish
    <3>2. ~ slip' => ~ slip /\ r.op = "mute"
      BY <2>1, <2>3
    <3>3. ~ slip' => muted' = mutedTable'
      BY <1>5, <2>1, <2>3, <3>2 DEF Halfway
    <3> QED BY <1>4, <3>1, <3>3, IdleFields DEF Halfway
  <2> QED BY <1>7, <2>2, <2>3 DEF Store
<1>8. CASE Read(c)
  <2>1. /\ UNCHANGED <<muted, mutedTable, slip>> /\ r.step = "read" /\ r.op \in {"mute", "unmute"}
        /\ s = [r EXCEPT !.step = "bind", !.seen = IF r.op = "mute" THEN muted \cup r.domain
                                                                  ELSE muted \ r.domain]
    BY <1>2, <1>8 DEF Read, At, tables, mutes
  <2>2. /\ s.op = r.op /\ s.step = "bind" /\ s.domain = r.domain
        /\ s.seen = IF r.op = "mute" THEN muted \cup r.domain ELSE muted \ r.domain
    BY <1>3, <2>1 DEF Requests
  <2>3. ~ slip' => Halfway(s, muted', mutedTable')
    <3> HIDE DEF s
    <3> QED BY <1>5, <2>1, <2>2 DEF Halfway
  <2> QED BY <1>4, <2>1, <2>2, <2>3, IdleFields
<1>9. CASE Bind(c)
  <2>1. UNCHANGED <<mutedTable, slip>> /\ r.step = "bind" /\ r.op \in {"mute", "unmute"} /\ muted' = r.seen
    BY <1>9 DEF Bind, At, tables
  <2>2. CASE r.op = "mute"
    <3>1. s = Idle
      BY <1>2, <1>9, <2>2 DEF Bind, Finish
    <3>2. ~ slip' => muted' = mutedTable'
      BY <1>5, <2>1, <2>2 DEF Halfway
    <3> QED BY <1>4, <3>1, <3>2, IdleFields DEF Halfway
  <2>3. CASE r.op = "unmute"
    <3>1. s = [r EXCEPT !.step = "store"]
      BY <1>2, <1>9, <2>3 DEF Bind, Goto
    <3>2. s.op = "unmute" /\ s.step = "store" /\ s.domain = r.domain
      BY <1>3, <2>3, <3>1 DEF Requests
    <3>3. ~ slip' => muted' = mutedTable' \ s.domain
      BY <1>5, <2>1, <2>3, <3>2 DEF Halfway
    <3> QED BY <1>4, <3>2, <3>3, IdleFields DEF Halfway
  <2> QED BY <2>1, <2>2, <2>3
<1> QED BY <1>6, <1>7, <1>8, <1>9

LEMMA MutingStep ==
  ASSUME OneConsole PROVE Typed /\ Muting /\ [Next]_vars => Muting'
<1> SUFFICES ASSUME Typed, Muting, [Next]_vars PROVE Muting'
  OBVIOUS
<1> USE DEF console
<1>1. CASE Requested
  <2>1. ASSUME NEW f \in Finalizers, Poll(f) \/ Clear(f) PROVE Muting'
    BY <2>1, StillMuting DEF Poll, Clear, Built, tables, mutes
  <2>2. ASSUME NEW f \in Finalizers, Exit(f) PROVE Muting'
    BY <2>2, GoneMuting DEF Exit
  <2>3. ASSUME NEW f \in Finalizers, Rewriting(f) PROVE Muting'
    BY <2>3, RewritingFrame, StillMuting DEF Built, process, tables, mutes
  <2> QED BY <1>1, <2>1, <2>2, <2>3 DEF Requested
<1>2. CASE Working
  BY <1>2, WorkingFrame, StillMuting DEF Built, process, tables, mutes
<1>3. CASE Kill
  BY <1>3, GoneMuting DEF Kill
<1>4. CASE Start \/ SvcStop \/ (\E f \in Finalizers : Signal(f)) \/ \E given \in BOOLEAN : Launch(given)
  BY <1>4, StillMuting DEF Start, SvcStop, Signal, Launch, Built, process, tables, mutes
<1>5. ASSUME NEW d \in Domains, EditAside(d) PROVE Muting'
  BY <1>5 DEF EditAside, Muting, Built, AllIdle, process
<1>6. CASE UNCHANGED vars
  BY <1>6, StillMuting DEF vars, Built, process, tables, mutes
<1> QED BY <1>1, <1>2, <1>3, <1>4, <1>5, <1>6, StartingMuting, HandlingMuting DEF Next, Outside

(* With one console at work, the live set is the table of muted domains    *)
(* between its requests, over kills, restarts and writes that raise, unless*)
(* a change bypassed it; and a start that is killed in the middle of a     *)
(* migration never leaves the rows of the ledger nowhere.                  *)
THEOREM TablesAreKept == ASSUME OneConsole PROVE Spec => []TablesSurvive
<1>1. Init => Muting /\ RowsKept
  BY DEF Init, Muting, Built, AllIdle, RowsKept, OldLedger, NewLedger
<1>2. Muting /\ RowsKept => TablesSurvive
  BY DEF Muting, RowsKept, AllIdle, TablesSurvive
<1>3. Typed /\ Muting /\ [Next]_vars => Muting'
  BY MutingStep
<1> QED BY InitTyped, NextTyped, RowsKeptStep, <1>1, <1>2, <1>3, PTL DEF Spec

-----------------------------------------------------------------------------
(* The desktop shell, which starts and stops engines from outside and      *)
(* shares no variable with one: that a start which reports success leaves  *)
(* an engine behind.                                                       *)

Engines(D) ==
  [kind : {"bundle", "unit", "terminal", "service"}, shaky : BOOLEAN,
   state : {"starting", "serving", "stopping", "gone"}, after : SUBSET D]

(* The engines are a sequence that steps extend or change in its places.   *)
LEMMA EnginesType ==
  ASSUME ShellTypeOK
  PROVE  /\ engines \in Seq(Engines(DOMAIN engines))
         /\ Len(engines) \in Nat /\ DOMAIN engines = 1 .. Len(engines)
         /\ \A e \in DOMAIN engines : engines[e] \in Engines(DOMAIN engines)
<1>1. engines \in Seq(Engines(DOMAIN engines))
  BY DEF ShellTypeOK, Engines
<1> QED BY <1>1

LEMMA SameEngines ==
  ASSUME ShellTypeOK, NEW f \in [DOMAIN engines -> Engines(DOMAIN engines)]
  PROVE  f \in Seq(Engines(DOMAIN f)) /\ DOMAIN f = DOMAIN engines
<1>1. DOMAIN f = 1 .. Len(engines) /\ Len(engines) \in Nat
  BY EnginesType
<1>2. f \in UNION {[1 .. n -> Engines(DOMAIN f)] : n \in Nat}
  BY <1>1
<1> QED BY <1>1, <1>2, SeqDef

LEMMA OneMoreEngine ==
  ASSUME ShellTypeOK, NEW kind \in {"bundle", "unit", "terminal", "service"}, NEW shaky \in BOOLEAN,
         Launched(kind, shaky)
  PROVE  LET new == Len(engines) + 1 IN
         /\ engines' \in Seq(Engines(DOMAIN engines')) /\ DOMAIN engines' = DOMAIN engines \cup {new}
         /\ new \notin DOMAIN engines
         /\ \A e \in DOMAIN engines : engines'[e] = engines[e]
         /\ engines'[new].kind = kind /\ engines'[new].shaky = shaky
         /\ engines'[new].state = "starting" /\ engines'[new].after = Stopping
<1> DEFINE new == Len(engines) + 1
           one == [kind |-> kind, state |-> "starting", shaky |-> shaky, after |-> Stopping]
           D == 1 .. Len(engines)
<1>1. /\ engines \in Seq(Engines(D)) /\ Len(engines) \in Nat /\ DOMAIN engines = D
      /\ engines' = Append(engines, one)
  BY EnginesType DEF Launched
<1>2. D \cup {new} = 1 .. Len(engines) + 1 /\ new \notin D
  BY <1>1
<1>3. one \in Engines(1 .. Len(engines) + 1)
  BY <1>1, <1>2 DEF Engines, Stopping
<1>4. engines \in Seq(Engines(1 .. Len(engines) + 1))
  <2>1. Engines(D) \subseteq Engines(1 .. Len(engines) + 1)
    BY <1>2 DEF Engines
  <2> QED BY <1>1, <2>1
<1>5. /\ engines' \in Seq(Engines(1 .. Len(engines) + 1)) /\ Len(engines') = Len(engines) + 1
      /\ \A e \in D : engines'[e] = engines[e] /\ engines'[new] = one
  <2> HIDE DEF one
  <2> QED BY <1>1, <1>3, <1>4, AppendProperties
<1>6. engines'[new] = one
  <2> HIDE DEF one
  <2> QED BY <1>1, <1>3, <1>4, AppendProperties
<1>7. DOMAIN engines' = 1 .. Len(engines) + 1
  BY <1>1, <1>5
<1>8. /\ engines'[new].kind = kind /\ engines'[new].shaky = shaky
      /\ engines'[new].state = "starting" /\ engines'[new].after = Stopping
  BY <1>6
<1> HIDE DEF one
<1> QED BY <1>1, <1>2, <1>5, <1>7, <1>8

(* What the helpers of the actions do to the engines, one by one.          *)
LEMMA LeaveEffect ==
  ASSUME ShellTypeOK, NEW E, Leave(E)
  PROVE  /\ engines' \in Seq(Engines(DOMAIN engines')) /\ DOMAIN engines' = DOMAIN engines
         /\ \A e \in DOMAIN engines :
              /\ engines'[e].kind = engines[e].kind /\ engines'[e].shaky = engines[e].shaky
              /\ e \in E => engines'[e].state = "gone"
              /\ e \notin E => engines'[e] = engines[e]
         /\ port' = IF port \in E THEN 0 ELSE port
<1>1. \A e \in DOMAIN engines : engines[e] \in Engines(DOMAIN engines)
  BY EnginesType
<1>2. engines' = [e \in DOMAIN engines |->
         IF e \in E THEN [engines[e] EXCEPT !.state = "gone", !.after = {}] ELSE engines[e]]
  BY DEF Leave
<1>3. ASSUME NEW e \in DOMAIN engines
      PROVE  /\ engines'[e] \in Engines(DOMAIN engines)
             /\ engines'[e].kind = engines[e].kind /\ engines'[e].shaky = engines[e].shaky
             /\ e \in E => engines'[e].state = "gone"
             /\ e \notin E => engines'[e] = engines[e]
  <2>1. engines'[e] = IF e \in E THEN [engines[e] EXCEPT !.state = "gone", !.after = {}] ELSE engines[e]
    BY <1>2
  <2>2. engines[e] \in Engines(DOMAIN engines)
    BY <1>1
  <2>3. CASE e \in E
    <3>1. engines'[e] = [engines[e] EXCEPT !.state = "gone", !.after = {}]
      BY <2>1, <2>3
    <3> QED BY <2>2, <2>3, <3>1 DEF Engines
  <2> QED BY <2>1, <2>2, <2>3
<1>4. engines' \in [DOMAIN engines -> Engines(DOMAIN engines)]
  BY <1>2, <1>3
<1> QED BY <1>3, <1>4, SameEngines DEF Leave

LEMMA AskEffect ==
  ASSUME ShellTypeOK, NEW E, AskToStop(E)
  PROVE  /\ engines' \in Seq(Engines(DOMAIN engines')) /\ DOMAIN engines' = DOMAIN engines
         /\ \A e \in DOMAIN engines :
              /\ engines'[e].kind = engines[e].kind /\ engines'[e].shaky = engines[e].shaky
              /\ engines'[e].after = engines[e].after
              /\ e \in E /\ engines[e].state # "gone" => engines'[e].state = "stopping"
              /\ e \notin E \/ engines[e].state = "gone" => engines'[e] = engines[e]
<1>1. \A e \in DOMAIN engines : engines[e] \in Engines(DOMAIN engines)
  BY EnginesType
<1>2. engines' = [e \in DOMAIN engines |->
         IF e \in E /\ engines[e].state # "gone" THEN [engines[e] EXCEPT !.state = "stopping"]
                                                 ELSE engines[e]]
  BY DEF AskToStop
<1>3. engines' \in [DOMAIN engines -> Engines(DOMAIN engines)]
  BY <1>1, <1>2 DEF Engines
<1> QED BY <1>1, <1>2, <1>3, SameEngines DEF Engines

(* Whoever has the port is a process that serves or is to stop, and only   *)
(* an engine of the bundle can miss files of its directory.                *)
Held == port # 0 => port \in DOMAIN engines /\ engines[port].state \in {"serving", "stopping"}
Sturdy == \A e \in DOMAIN engines : engines[e].kind # "bundle" => ~ engines[e].shaky

LEMMA LaunchedKnown ==
  ASSUME ShellTypeOK, Held, Sturdy, NEW kind \in {"bundle", "unit", "terminal", "service"},
         NEW shaky \in BOOLEAN, kind # "bundle" => ~ shaky, Launched(kind, shaky), port' = port
  PROVE  engines' \in Seq(Engines(DOMAIN engines')) /\ Held' /\ Sturdy'
<1> DEFINE new == Len(engines) + 1
<1>1. /\ DOMAIN engines' = DOMAIN engines \cup {new} /\ new \notin DOMAIN engines
      /\ \A e \in DOMAIN engines : engines'[e] = engines[e]
      /\ engines'[new].kind = kind /\ engines'[new].shaky = shaky
  BY OneMoreEngine DEF new
<1> HIDE DEF new
<1>2. Held'
  BY <1>1 DEF Held
<1>3. Sturdy'
  BY <1>1 DEF Sturdy
<1> QED BY <1>2, <1>3, OneMoreEngine

LEMMA LeaveKnown ==
  ASSUME ShellTypeOK, Held, Sturdy, NEW E, Leave(E)
  PROVE  engines' \in Seq(Engines(DOMAIN engines')) /\ Held' /\ Sturdy'
BY LeaveEffect DEF Held, Sturdy

LEMMA AskKnown ==
  ASSUME ShellTypeOK, Held, Sturdy, NEW E, AskToStop(E), port' = port
  PROVE  engines' \in Seq(Engines(DOMAIN engines')) /\ Held' /\ Sturdy'
<1>1. Held'
  <2> SUFFICES ASSUME port # 0 PROVE port \in DOMAIN engines' /\ engines'[port].state \in {"serving", "stopping"}
    BY DEF Held
  <2>1. port \in DOMAIN engines /\ engines[port].state \in {"serving", "stopping"}
    BY DEF Held
  <2>2. CASE port \in E
    BY <2>1, <2>2, AskEffect
  <2>3. CASE port \notin E
    BY <2>1, <2>3, AskEffect
  <2> QED BY <2>2, <2>3
<1>2. Sturdy'
  BY AskEffect DEF Sturdy
<1> QED BY <1>1, <1>2, AskEffect

LEMMA BindEffect ==
  ASSUME ShellTypeOK, NEW e \in DOMAIN engines, Listen(e), port = 0
  PROVE  /\ engines' \in Seq(Engines(DOMAIN engines')) /\ DOMAIN engines' = DOMAIN engines
         /\ \A d \in DOMAIN engines \ {e} : engines'[d] = engines[d]
         /\ engines'[e].kind = engines[e].kind /\ engines'[e].shaky = engines[e].shaky
         /\ engines'[e].after = engines[e].after
         /\ engines[e].state = "starting" => engines'[e].state = "serving"
         /\ engines[e].state # "starting" => engines'[e] = engines[e]
         /\ port' = e /\ engines'[e].state \in {"serving", "stopping"}
<1>1. \A d \in DOMAIN engines : engines[d] \in Engines(DOMAIN engines)
  BY EnginesType
<1>2. /\ engines' = [engines EXCEPT ![e].state = IF @ = "starting" THEN "serving" ELSE @]
      /\ engines[e].state \in {"starting", "stopping"} /\ port' = e
  BY DEF Listen
<1>3. engines = [d \in DOMAIN engines |-> engines[d]]
  BY EnginesType
<1>4. /\ \A d \in DOMAIN engines \ {e} : engines'[d] = engines[d]
      /\ engines'[e] = [engines[e] EXCEPT !.state = IF @ = "starting" THEN "serving" ELSE @]
      /\ DOMAIN engines' = DOMAIN engines /\ engines' = [d \in DOMAIN engines |-> engines'[d]]
  BY <1>2, <1>3
<1>5. /\ engines'[e] \in Engines(DOMAIN engines)
      /\ engines'[e].kind = engines[e].kind /\ engines'[e].shaky = engines[e].shaky
      /\ engines'[e].after = engines[e].after
      /\ engines[e].state = "starting" => engines'[e].state = "serving"
      /\ engines[e].state # "starting" => engines'[e] = engines[e]
  <2>1. engines[e] \in Engines(DOMAIN engines)
    BY <1>1
  <2>2. CASE engines[e].state = "starting"
    <3>1. engines'[e] = [engines[e] EXCEPT !.state = "serving"]
      BY <1>4, <2>2
    <3> QED BY <2>1, <2>2, <3>1 DEF Engines
  <2>3. CASE engines[e].state # "starting"
    <3>1. engines'[e] = engines[e]
      BY <1>4, <2>1, <2>3 DEF Engines
    <3> QED BY <2>1, <2>3, <3>1
  <2> QED BY <2>2, <2>3
<1>6. engines' \in [DOMAIN engines -> Engines(DOMAIN engines)]
  BY <1>1, <1>4, <1>5
<1> QED BY <1>2, <1>4, <1>5, <1>6, SameEngines

LEMMA BindKnown ==
  ASSUME ShellTypeOK, Held, Sturdy, NEW e \in DOMAIN engines, Listen(e)
  PROVE  engines' \in Seq(Engines(DOMAIN engines')) /\ Held' /\ Sturdy'
<1>1. CASE port # 0
  BY <1>1, LeaveKnown DEF Listen
<1>2. CASE port = 0
  BY <1>2, BindEffect DEF Held, Sturdy
<1> QED BY <1>1, <1>2

LEMMA RemoveEffect ==
  ASSUME ShellTypeOK, NEW s \in Starts, Remove(s)
  PROVE  /\ engines' \in Seq(Engines(DOMAIN engines')) /\ DOMAIN engines' = DOMAIN engines
         /\ \A e \in DOMAIN engines :
              /\ engines'[e].kind = engines[e].kind /\ engines'[e].state = engines[e].state
              /\ engines'[e].after = engines[e].after
              /\ engines[e].kind # "bundle" => engines'[e].shaky = engines[e].shaky
<1>1. \A d \in DOMAIN engines : engines[d] \in Engines(DOMAIN engines)
  BY EnginesType
<1>2. CASE engines' = engines
  BY <1>2, EnginesType
<1>3. CASE engines' = [e \in DOMAIN engines |->
             [engines[e] EXCEPT !.shaky = @ \/ (engines[e].kind = "bundle" /\ Alive(e))]]
  <2>1. ASSUME NEW e \in DOMAIN engines
        PROVE  /\ engines'[e] \in Engines(DOMAIN engines)
               /\ engines'[e].kind = engines[e].kind /\ engines'[e].state = engines[e].state
               /\ engines'[e].after = engines[e].after
               /\ engines[e].kind # "bundle" => engines'[e].shaky = engines[e].shaky
    <3>1. engines[e] \in Engines(DOMAIN engines)
      BY <1>1
    <3> DEFINE b == engines[e].shaky \/ (engines[e].kind = "bundle" /\ Alive(e))
    <3>2. engines'[e] = [engines[e] EXCEPT !.shaky = b]
      BY <1>3
    <3>3. b \in BOOLEAN /\ (engines[e].kind # "bundle" => b = engines[e].shaky)
      BY <3>1 DEF Engines
    <3> HIDE DEF b
    <3> QED BY <3>1, <3>2, <3>3 DEF Engines
  <2>2. engines' \in [DOMAIN engines -> Engines(DOMAIN engines)]
    BY <1>3, <2>1
  <2> QED BY <2>1, <2>2, SameEngines
<1> QED BY <1>2, <1>3 DEF Remove

LEMMA RemoveKnown ==
  ASSUME ShellTypeOK, Held, Sturdy, NEW s \in Starts, Remove(s)
  PROVE  engines' \in Seq(Engines(DOMAIN engines')) /\ Held' /\ Sturdy'
<1>1. port' = port
  BY DEF Remove
<1> QED BY <1>1, RemoveEffect DEF Held, Sturdy

ShellTypes == ShellTypeOK /\ Held /\ Sturdy

(* What the shell itself keeps.                                            *)
Paths == {"none", "check", "net", "locate", "prompt"} \cup Staging \cup Rooted \cup Ended
Desk ==
  /\ package \in Packages /\ window \in {"closed", "waiting", "dashboard"}
  /\ step \in [Starts -> Paths]
  /\ stage \in {"none", "partial", "whole"} /\ dir \in {"none", "partial", "whole"}
  /\ maker \in Starts \cup {"none"}
  /\ overlap \subseteq Starts /\ last \in Ended \cup {"none"}

LEMMA DeskTypes == ShellTypeOK <=> /\ Desk /\ engines \in Seq(Engines(DOMAIN engines))
                                    /\ (port # 0 => Alive(port))
<1>1. {stage, dir} \subseteq {"none", "partial", "whole"}
        <=> stage \in {"none", "partial", "whole"} /\ dir \in {"none", "partial", "whole"}
  OBVIOUS
<1> QED BY <1>1 DEF ShellTypeOK, Desk, Paths, Engines

LEMMA DeskTypesNext == ShellTypeOK' <=> /\ Desk' /\ (engines \in Seq(Engines(DOMAIN engines)))'
                                         /\ (port # 0 => Alive(port))'
BY DeskTypes, PTL

LEMMA GotoType ==
  ASSUME step \in [Starts -> Paths], NEW s \in Starts, NEW to \in Paths, Proceed(s, to)
  PROVE  /\ step' \in [Starts -> Paths] /\ step'[s] = to
         /\ \A t \in Starts \ {s} : step'[t] = step[t]
BY DEF Proceed

LEMMA DeskStep == Desk /\ [ShellNext]_shellVars => Desk'
<1> SUFFICES ASSUME Desk, [ShellNext]_shellVars PROVE Desk'
  OBVIOUS
<1> USE DEF Desk, End, Ended, shell, files, system, history
<1>0. /\ {"none", "check", "net", "locate", "prompt", "ok", "failed", "skipped", "unstage", "restage",
          "systemctl", "pkill", "rm", "cp", "copying", "launch", "look"} \subseteq Paths
      /\ "auto" \in Starts
  BY DEF Paths, Staging, Rooted, Starts
<1>1. CASE OpenShell
  BY <1>0, <1>1, GotoType DEF OpenShell
<1>2. CASE PollApi \/ Quit
  BY <1>2 DEF PollApi, Quit
<1>3. CASE AskApi
  BY <1>0, <1>3, GotoType DEF AskApi
<1>4. ASSUME NEW s \in Starts, Prepare(s) PROVE Desk'
  <2>1. CASE Press(s)
    BY <1>0, <2>1, GotoType DEF Press
  <2>2. CASE NetStart(s)
    BY <1>0, <2>2, GotoType DEF NetStart
  <2>3. CASE Locate(s)
    BY <1>0, <2>3, GotoType DEF Locate
  <2>4. CASE Unstage(s)
    BY <1>0, <2>4, GotoType DEF Unstage, Meets, Others
  <2>5. CASE Restage(s)
    BY <1>0, <2>5, GotoType DEF Restage
  <2>6. CASE Prompt(s)
    BY <1>0, <2>6, GotoType DEF Prompt, Meets, Others
  <2> QED BY <1>4, <2>1, <2>2, <2>3, <2>4, <2>5, <2>6 DEF Prepare
<1>5. ASSUME NEW s \in Starts, Script(s) PROVE Desk'
  <2>1. CASE StopUnit(s)
    BY <1>0, <2>1, GotoType DEF StopUnit
  <2>2. CASE Pkill(s)
    BY <1>0, <2>2, GotoType DEF Pkill
  <2>3. CASE Remove(s)
    BY <1>0, <2>3, GotoType DEF Remove
  <2>4. CASE Copy(s)
    BY <1>0, <2>4, GotoType DEF Copy
  <2>5. CASE Copied(s)
    BY <1>0, <2>5, GotoType DEF Copied, Failed, Source
  <2>6. CASE LaunchEngine(s)
    BY <1>0, <2>6, GotoType DEF LaunchEngine
  <2>7. CASE Look(s)
    BY <1>0, <2>7, GotoType DEF Look
  <2> QED BY <1>5, <2>1, <2>2, <2>3, <2>4, <2>5, <2>6, <2>7 DEF Script
<1>6. ASSUME NEW e \in DOMAIN engines,
             Listen(e) \/ FinalizerDone(e) \/ Refuse(e) \/ StopOutside(e)
      PROVE  Desk'
  BY <1>6 DEF Listen, FinalizerDone, Refuse, StopOutside, Elsewhere
<1>7. ASSUME NEW kind \in {"unit", "terminal"}, FromOutside(kind) PROVE Desk'
  BY <1>7 DEF FromOutside
<1>8. CASE UNCHANGED shellVars
  BY <1>8 DEF shellVars
<1> QED BY <1>1, <1>2, <1>3, <1>4, <1>5, <1>6, <1>7, <1>8 DEF ShellNext

LEMMA EnginesStep ==
  ASSUME ShellTypes, [ShellNext]_shellVars
  PROVE  engines' \in Seq(Engines(DOMAIN engines')) /\ Held' /\ Sturdy'
<1>0. ShellTypeOK /\ Held /\ Sturdy /\ engines \in Seq(Engines(DOMAIN engines))
  BY EnginesType DEF ShellTypes
<1>1. CASE UNCHANGED <<engines, port>>
  BY <1>0, <1>1 DEF Held, Sturdy
<1>2. CASE OpenShell \/ PollApi \/ Quit \/ AskApi
  BY <1>1, <1>2 DEF OpenShell, PollApi, Quit, AskApi, system
<1>3. ASSUME NEW s \in Starts, Prepare(s)
      PROVE  engines' \in Seq(Engines(DOMAIN engines')) /\ Held' /\ Sturdy'
  <2>1. CASE NetStart(s)
    BY <1>0, <1>1, <2>1, LaunchedKnown DEF NetStart
  <2>2. CASE Press(s) \/ Locate(s) \/ Unstage(s) \/ Restage(s) \/ Prompt(s)
    BY <1>1, <2>2 DEF Press, Locate, Unstage, Restage, Prompt, system
  <2> QED BY <1>3, <2>1, <2>2 DEF Prepare
<1>4. ASSUME NEW s \in Starts, Script(s)
      PROVE  engines' \in Seq(Engines(DOMAIN engines')) /\ Held' /\ Sturdy'
  <2>1. CASE StopUnit(s)
    BY <1>0, <2>1, LeaveKnown DEF StopUnit
  <2>2. CASE Pkill(s)
    BY <1>0, <2>2, LeaveKnown, AskKnown DEF Pkill
  <2>3. CASE Remove(s)
    BY <1>0, <2>3, RemoveKnown
  <2>4. CASE LaunchEngine(s)
    BY <1>0, <1>1, <2>4, LaunchedKnown DEF LaunchEngine
  <2>5. CASE Copy(s) \/ Copied(s) \/ Look(s)
    BY <1>1, <2>5 DEF Copy, Copied, Look, system
  <2> QED BY <1>4, <2>1, <2>2, <2>3, <2>4, <2>5 DEF Script
<1>5. ASSUME NEW e \in DOMAIN engines,
             Listen(e) \/ FinalizerDone(e) \/ Refuse(e) \/ StopOutside(e)
      PROVE  engines' \in Seq(Engines(DOMAIN engines')) /\ Held' /\ Sturdy'
  <2>1. CASE StopOutside(e)
    BY <1>0, <2>1, AskKnown DEF StopOutside
  <2>2. CASE FinalizerDone(e) \/ Refuse(e)
    BY <1>0, <2>2, LeaveKnown DEF FinalizerDone, Refuse
  <2> QED BY <1>0, <1>5, <2>1, <2>2, BindKnown
<1>6. ASSUME NEW kind \in {"unit", "terminal"}, FromOutside(kind)
      PROVE  engines' \in Seq(Engines(DOMAIN engines')) /\ Held' /\ Sturdy'
  BY <1>0, <1>6, LaunchedKnown DEF FromOutside
<1>7. CASE UNCHANGED shellVars
  BY <1>1, <1>7 DEF shellVars, system
<1> QED BY <1>2, <1>3, <1>4, <1>5, <1>6, <1>7 DEF ShellNext

LEMMA ShellTypesStep == ShellTypes /\ [ShellNext]_shellVars => ShellTypes'
<1> SUFFICES ASSUME ShellTypes, [ShellNext]_shellVars PROVE ShellTypes'
  OBVIOUS
<1>1. engines' \in Seq(Engines(DOMAIN engines')) /\ Held' /\ Sturdy'
  BY EnginesStep
<1>2. Desk
  BY DeskTypes DEF ShellTypes
<1>3. Desk'
  BY <1>2, DeskStep
<1>4. Held' => (port' # 0 => Alive(port)')
  BY DEF Held, Alive
<1> QED BY <1>1, <1>3, <1>4, DeskTypesNext DEF ShellTypes


(* The inductive invariant.  A start is engaged from the moment it has met *)
(* the others to its end; without an overlap at most one is, and what it   *)
(* relies on is there: a whole mirror, a directory it has made itself, no  *)
(* running engine of the bundle once pkill has passed.                     *)
Engaged(s) == step[s] \in Rooted \cup {"restage"} \/ (package = "appimage" /\ step[s] = "prompt")
Lone == overlap = {} => \A s, t \in Starts : Engaged(s) /\ Engaged(t) => s = t
Routes ==
  \A s \in Starts :
    /\ step[s] = "net" => package = "windows"
    /\ step[s] \notin {"none", "net"} \cup Ended => package # "windows"
    /\ step[s] \in Staging => package = "appimage"
Bundled == {e \in Running : engines[e].kind = "bundle"}
FilesOf(s) ==
  /\ package = "appimage" /\ step[s] \in {"prompt"} \cup Rooted => stage = "whole"
  /\ step[s] \in {"rm", "cp", "copying", "launch"} => Bundled = {}
  /\ step[s] = "cp" => dir = "none"
  /\ step[s] = "copying" => dir # "none" /\ maker = s
  /\ step[s] = "launch" => dir = "whole"
Files == overlap = {} => \A s \in Starts : FilesOf(s)

(* A session to come: one engine serves, or will find the port free,       *)
(* having been launched after all those that are to stop; and none that    *)
(* runs misses files.                                                      *)
Awaits(e) == engines[e].state = "serving" \/ Stopping \subseteq engines[e].after
Session ==
  /\ \A e \in Running : ~ engines[e].shaky
  /\ \E e \in Running : Awaits(e)
Sessions ==
  overlap = {} =>
    /\ (\A s \in Starts : ~ Engaged(s)) /\ last = "ok" => Session
    /\ \A s \in Starts : step[s] = "look" => Session

ShellInv == ShellTypes /\ Routes /\ Lone /\ Files /\ Sessions

(* An engine that binds, exits, refuses or is told to stop changes neither *)
(* its kind nor its files, and nobody starts to run.                       *)
Passes(e) == Listen(e) \/ FinalizerDone(e) \/ Refuse(e) \/ StopOutside(e)

LEMMA PassesEffect ==
  ASSUME ShellTypes, NEW e \in DOMAIN engines, Passes(e)
  PROVE  /\ DOMAIN engines' = DOMAIN engines /\ Running' \subseteq Running
         /\ \A d \in DOMAIN engines : engines'[d].kind = engines[d].kind
                                      /\ engines'[d].shaky = engines[d].shaky
<1>0. ShellTypeOK
  BY DEF ShellTypes
<1>1. CASE Leave({e})
  <2>1. /\ DOMAIN engines' = DOMAIN engines
        /\ \A d \in DOMAIN engines : /\ engines'[d].kind = engines[d].kind
                                     /\ engines'[d].shaky = engines[d].shaky
                                     /\ engines'[d].state = "gone" \/ engines'[d] = engines[d]
    BY <1>0, <1>1, LeaveEffect
  <2> QED BY <2>1 DEF Running
<1>2. CASE AskToStop({e})
  <2>1. /\ DOMAIN engines' = DOMAIN engines
        /\ \A d \in DOMAIN engines : /\ engines'[d].kind = engines[d].kind
                                     /\ engines'[d].shaky = engines[d].shaky
                                     /\ engines'[d].state = "stopping" \/ engines'[d] = engines[d]
    BY <1>0, <1>2, AskEffect
  <2> QED BY <2>1 DEF Running
<1>3. CASE Listen(e) /\ port = 0
  <2>1. /\ DOMAIN engines' = DOMAIN engines
        /\ \A d \in DOMAIN engines \ {e} : engines'[d] = engines[d]
        /\ engines'[e].kind = engines[e].kind /\ engines'[e].shaky = engines[e].shaky
        /\ engines[e].state # "starting" => engines'[e] = engines[e]
    BY <1>0, <1>3, BindEffect
  <2> QED BY <2>1 DEF Running
<1> QED BY <1>1, <1>2, <1>3 DEF Passes, Listen, FinalizerDone, Refuse, StopOutside

LEMMA BundledStays ==
  ASSUME ShellTypes, NEW e \in DOMAIN engines, Passes(e), Bundled = {}
  PROVE  Bundled' = {}
<1>1. Running \subseteq DOMAIN engines
  BY DEF Running
<1> QED BY <1>1, PassesEffect DEF Bundled

LEMMA LaunchedOutside ==
  ASSUME ShellTypes, NEW kind \in {"unit", "terminal"}, FromOutside(kind), Bundled = {}
  PROVE  Bundled' = {}
<1> DEFINE new == Len(engines) + 1
<1>1. /\ DOMAIN engines' = DOMAIN engines \cup {new}
      /\ \A e \in DOMAIN engines : engines'[e] = engines[e]
      /\ engines'[new].kind = kind
  BY OneMoreEngine DEF ShellTypes, FromOutside, new
<1> HIDE DEF new
<1> QED BY <1>1 DEF Bundled, Running

(* A session outlives an engine that is through with its finalizer.        *)
LEMMA SessionOutlives ==
  ASSUME ShellTypes, Session, NEW e \in DOMAIN engines, Leave({e}),
         NEW w \in Running, Awaits(w), w # e
  PROVE  Session'
<1>1. /\ DOMAIN engines' = DOMAIN engines
      /\ engines'[e].state = "gone"
      /\ \A d \in DOMAIN engines : d # e => engines'[d] = engines[d]
      /\ \A d \in DOMAIN engines : engines'[d].shaky = engines[d].shaky
  BY LeaveEffect DEF ShellTypes
<1>2. Running' \subseteq Running /\ w \in Running'
  BY <1>1 DEF Running
<1>3. Stopping' \subseteq Stopping
  BY <1>1 DEF Stopping
<1>4. w \in DOMAIN engines /\ engines'[w] = engines[w]
  BY <1>1 DEF Running
<1>5. Awaits(w)'
  BY <1>3, <1>4 DEF Awaits
<1>6. \A d \in Running' : ~ engines'[d].shaky
  <2>1. Running \subseteq DOMAIN engines
    BY DEF Running
  <2> QED BY <1>1, <1>2, <2>1 DEF Session
<1> QED BY <1>2, <1>5, <1>6 DEF Session

(* The engine that finds the port taken was either not the one awaited, or *)
(* the finalizers before it are through and it yields to one that serves.  *)
LEMMA SessionBind ==
  ASSUME ShellTypes, SlowStart, Session, NEW e \in DOMAIN engines, Listen(e)
  PROVE  Session'
<1>0. ShellTypeOK /\ \A d \in DOMAIN engines : engines[d] \in Engines(DOMAIN engines)
  BY EnginesType DEF ShellTypes
<1>1. PICK w \in Running : Awaits(w)
  BY DEF Session
<1>2. CASE port # 0 /\ w # e
  BY <1>1, <1>2, SessionOutlives DEF Listen
<1>3. CASE port # 0 /\ w = e
  <2>1. port \in DOMAIN engines /\ engines[port].state \in {"serving", "stopping"} /\ port # e
    BY <1>3 DEF ShellTypes, Held, Listen
  <2>2. engines[e].state = "starting"
    BY <1>1, <1>3 DEF Running, Listen
  <2>3. Stopping = {}
    <3>1. \A d \in Stopping : Alive(d)
      BY DEF Stopping, Alive
    <3>2. Stopping \subseteq engines[e].after
      BY <1>1, <1>3, <2>2 DEF Awaits
    <3>3. \A d \in engines[e].after : ~ Alive(d)
      BY DEF Listen
    <3> QED BY <3>1, <3>2, <3>3
  <2>4. engines[port].state = "serving"
    BY <2>1, <2>3 DEF Stopping
  <2>5. port \in Running /\ Awaits(port)
    BY <2>1, <2>4 DEF Running, Awaits
  <2> QED BY <1>3, <2>1, <2>5, SessionOutlives DEF Listen
<1>4. CASE port = 0
  <2>1. /\ DOMAIN engines' = DOMAIN engines
        /\ \A d \in DOMAIN engines \ {e} : engines'[d] = engines[d]
        /\ engines'[e].shaky = engines[e].shaky
        /\ engines[e].state = "starting" => engines'[e].state = "serving"
        /\ engines[e].state # "starting" => engines'[e] = engines[e]
    BY <1>0, <1>4, BindEffect
  <2>2. Running' = Running /\ Stopping' = Stopping
    BY <2>1 DEF Running, Stopping
  <2>3. \A d \in Running' : ~ engines'[d].shaky
    <3>1. Running \subseteq DOMAIN engines
      BY DEF Running
    <3> QED BY <2>1, <2>2, <3>1 DEF Session
  <2>4. Awaits(w)'
    <3>1. w \in DOMAIN engines
      BY DEF Running
    <3>2. CASE w = e /\ engines[e].state = "starting"
      BY <2>1, <3>2 DEF Awaits
    <3>3. CASE w # e \/ engines[e].state # "starting"
      BY <1>1, <2>1, <2>2, <3>1, <3>3 DEF Awaits
    <3> QED BY <3>2, <3>3
  <2> QED BY <2>2, <2>3, <2>4 DEF Session
<1> QED BY <1>2, <1>3, <1>4

LEMMA SessionStays ==
  ASSUME ShellTypes, SlowStart, Session, NEW e \in DOMAIN engines, Passes(e), ~ Elsewhere
  PROVE  Session'
<1>1. PICK w \in Running : Awaits(w)
  BY DEF Session
<1>2. CASE FinalizerDone(e)
  BY <1>1, <1>2, SessionOutlives DEF FinalizerDone, Running, Stopping
<1>3. CASE Refuse(e)
  <2>1. engines[e].shaky
    BY <1>3 DEF Refuse
  <2>2. w # e
    BY <2>1 DEF Session
  <2> QED BY <1>1, <1>3, <2>2, SessionOutlives DEF Refuse
<1>4. CASE StopOutside(e)
  BY <1>4 DEF StopOutside
<1> QED BY <1>2, <1>3, <1>4, SessionBind DEF Passes

LEMMA SessionBesides ==
  ASSUME ShellTypes, Session, NEW kind \in {"unit", "terminal"}, FromOutside(kind)
  PROVE  Session'
<1> DEFINE new == Len(engines) + 1
<1>1. /\ DOMAIN engines' = DOMAIN engines \cup {new}
      /\ \A e \in DOMAIN engines : engines'[e] = engines[e]
      /\ ~ engines'[new].shaky /\ engines'[new].state = "starting"
  BY OneMoreEngine DEF ShellTypes, FromOutside, new
<1> HIDE DEF new
<1>2. Running \subseteq Running' /\ Stopping' \subseteq Stopping
  BY <1>1 DEF Running, Stopping
<1> QED BY <1>1, <1>2 DEF Session, Awaits, Running

(* An engine launched where none that runs misses files: whatever is to    *)
(* stop is on the list it waits for.                                       *)
LEMMA SessionLaunched ==
  ASSUME ShellTypes, \A e \in Running : ~ engines[e].shaky,
         NEW kind \in {"bundle", "unit", "terminal", "service"}, Launched(kind, FALSE)
  PROVE  Session'
<1>1. PICK new :
        /\ DOMAIN engines' = DOMAIN engines \cup {new}
        /\ \A e \in DOMAIN engines : engines'[e] = engines[e]
        /\ ~ engines'[new].shaky /\ engines'[new].state = "starting" /\ engines'[new].after = Stopping
  BY OneMoreEngine DEF ShellTypes
<1>2. new \in Running' /\ Stopping' \subseteq Stopping
  BY <1>1 DEF Running, Stopping
<1>3. \A e \in Running' : ~ engines'[e].shaky
  BY <1>1 DEF Running
<1> QED BY <1>1, <1>2, <1>3 DEF Session, Awaits

(* The steps of the engines.                                               *)
LEMMA EngineStepInv ==
  ASSUME ShellInv, ShellTypes', SlowStart,
         \/ \E e \in DOMAIN engines : Passes(e)
         \/ \E kind \in {"unit", "terminal"} : FromOutside(kind)
  PROVE  Routes' /\ Lone' /\ Files' /\ Sessions'
<1>0. ShellTypes /\ Routes /\ Lone /\ Files /\ Sessions
  BY DEF ShellInv
<1>1. UNCHANGED <<package, step, stage, dir, maker>> /\ (UNCHANGED <<overlap, last>> \/ Elsewhere)
  BY DEF Passes, Listen, FinalizerDone, Refuse, StopOutside, FromOutside, shell,
         files, history
<1>2. overlap' = {} => overlap = {}
  BY <1>1 DEF Elsewhere
<1>3. Routes' /\ Lone'
  BY <1>0, <1>1, <1>2 DEF Routes, Lone, Engaged
<1>4. Bundled = {} => Bundled' = {}
  BY <1>0, BundledStays, LaunchedOutside
<1>5. Files'
  BY <1>0, <1>1, <1>2, <1>4 DEF Files, FilesOf
<1>6. Session /\ ~ Elsewhere => Session'
  BY <1>0, SessionStays, SessionBesides
<1>7. Sessions'
  <2>1. CASE Elsewhere
    <3>1. last' # "ok" /\ (overlap' = {} => \A s \in Starts : ~ Touches(s))
      BY <2>1 DEF Elsewhere
    <3>2. \A s \in Starts : step[s] = "look" => Touches(s)
      BY DEF Touches, Rooted
    <3> QED BY <1>1, <3>1, <3>2 DEF Sessions
  <2>2. CASE ~ Elsewhere
    <3>1. UNCHANGED <<overlap, last>>
      BY <1>1, <2>2
    <3> QED BY <1>0, <1>1, <1>6, <2>2, <3>1 DEF Sessions, Engaged
  <2> QED BY <2>1, <2>2
<1> QED BY <1>3, <1>5, <1>7

(* The ways of a start.                                                    *)
LEMMA Way ==
  ASSUME ShellTypes, Routes, NEW s \in Starts, NEW to \in Paths, Proceed(s, to), UNCHANGED package,
         to = "net" => package = "windows",
         to \notin {"none", "net"} \cup Ended => package # "windows",
         to \in Staging => package = "appimage"
  PROVE  Routes'
<1>1. step'[s] = to /\ \A t \in Starts \ {s} : step'[t] = step[t]
  BY GotoType, DeskTypes DEF ShellTypes, Desk
<1> QED BY <1>1 DEF Routes

LEMMA RoutesStep ==
  ASSUME ShellTypes, Routes, "auto" \notin Presses, [ShellNext]_shellVars
  PROVE  Routes'
<1> USE DEF End, Ended, Rooted, Staging, shell
<1>0. /\ {"none", "check", "net", "locate", "prompt", "ok", "failed", "skipped", "unstage", "restage",
          "systemctl", "pkill", "rm", "cp", "copying", "launch", "look"} \subseteq Paths
      /\ "auto" \in Starts
  BY DEF Paths, Starts
<1>1. CASE UNCHANGED <<package, step>>
  BY <1>1 DEF Routes
<1>2. CASE OpenShell
  <2>1. CASE package = "windows"
    BY <1>1, <1>2, <2>1 DEF OpenShell
  <2> QED BY <1>0, <1>2, <2>1, Way DEF OpenShell
<1>3. CASE AskApi
  <2>1. package # "windows"
    BY <1>0, <1>3 DEF Routes, AskApi
  <2> QED BY <1>0, <1>3, <2>1, Way DEF AskApi
<1>4. ASSUME NEW s \in Starts, Press(s) PROVE Routes'
  BY <1>0, <1>4, Way DEF Press
<1>5. ASSUME NEW s \in Starts, NetStart(s) PROVE Routes'
  BY <1>0, <1>5, Way DEF NetStart
<1>6. ASSUME NEW s \in Starts, Locate(s) PROVE Routes'
  <2>1. package # "windows"
    BY <1>6 DEF Routes, Locate
  <2> QED BY <1>0, <1>6, <2>1, Way DEF Locate
<1>7. ASSUME NEW s \in Starts, Unstage(s) \/ Restage(s) PROVE Routes'
  <2>1. package = "appimage"
    BY <1>7 DEF Routes, Unstage, Restage
  <2> QED BY <1>0, <1>7, <2>1, Way DEF Unstage, Restage
<1>8. ASSUME NEW s \in Starts, Prompt(s) \/ Script(s) PROVE Routes'
  <2> USE DEF Prompt, Script, StopUnit, Pkill, Remove, Copy, Copied,
              Failed, LaunchEngine, Look
  <2>1. package # "windows"
    BY <1>8 DEF Routes
  <2>2. PICK to \in {"systemctl", "failed", "pkill", "rm", "cp", "copying", "launch", "look", "ok"} :
          Proceed(s, to) /\ UNCHANGED package
    BY <1>8
  <2> QED BY <1>0, <2>1, <2>2, Way
<1>9. CASE PollApi \/ Quit \/ (\E e \in DOMAIN engines : Passes(e))
           \/ (\E kind \in {"unit", "terminal"} : FromOutside(kind)) \/ UNCHANGED shellVars
  BY <1>1, <1>9 DEF PollApi, Quit, Passes, Listen, FinalizerDone, Refuse, StopOutside,
                    FromOutside, shellVars
<1> QED BY <1>2, <1>3, <1>4, <1>5, <1>6, <1>7, <1>8, <1>9 DEF ShellNext, Prepare, Passes

(* A step of a start that engages nobody and reports no success.           *)
LEMMA QuietStep ==
  ASSUME ShellInv, NEW s \in Starts, NEW to \in Paths, Proceed(s, to),
         to \notin Rooted \cup {"restage"}, package = "appimage" => to # "prompt",
         (~ Engaged(s) /\ UNCHANGED last) \/ last' # "ok",
         UNCHANGED <<package, stage, dir, maker, engines, overlap>>
  PROVE  Lone' /\ Files' /\ Sessions'
<1>0. Lone /\ Files /\ Sessions
  BY DEF ShellInv
<1>1. step'[s] = to /\ \A t \in Starts \ {s} : step'[t] = step[t]
  BY GotoType, DeskTypes DEF ShellInv, ShellTypes, Desk
<1>2. ~ Engaged(s)' /\ \A t \in Starts \ {s} : Engaged(t)' <=> Engaged(t)
  BY <1>1 DEF Engaged
<1>3. Lone'
  BY <1>0, <1>2 DEF Lone
<1>4. Bundled' = Bundled /\ (Session' <=> Session)
  BY DEF Bundled, Session, Awaits, Running, Stopping
<1>5. Files'
  <2>1. FilesOf(s)'
    BY <1>1 DEF FilesOf, Rooted
  <2>2. ASSUME NEW t \in Starts \ {s}, FilesOf(t) PROVE FilesOf(t)'
    BY <1>1, <1>4, <2>2 DEF FilesOf
  <2> QED BY <1>0, <2>1, <2>2 DEF Files
<1>6. Sessions'
  <2>1. to # "look"
    BY DEF Rooted
  <2>2. overlap' = {} => \A t \in Starts : step'[t] = "look" => Session'
    BY <1>0, <1>1, <1>4, <2>1 DEF Sessions
  <2>3. overlap' = {} /\ (\A t \in Starts : ~ Engaged(t)') /\ last' = "ok" => Session'
    BY <1>0, <1>2, <1>4 DEF Sessions
  <2> QED BY <2>2, <2>3 DEF Sessions
<1> QED BY <1>3, <1>5, <1>6

(* A step of a start where no other is engaged.                            *)
LEMMA AloneStep ==
  ASSUME ShellTypes, NEW s \in Starts, NEW to \in Paths, Proceed(s, to), UNCHANGED package,
         \A t \in Starts \ {s} : ~ Engaged(t), FilesOf(s)',
         ~ Engaged(s)' /\ last' = "ok" => Session', to = "look" => Session'
  PROVE  Lone' /\ Files' /\ Sessions'
<1>1. step'[s] = to /\ \A t \in Starts \ {s} : step'[t] = step[t]
  BY GotoType, DeskTypes DEF ShellTypes, Desk
<1>2. \A t \in Starts \ {s} : ~ Engaged(t)'
  BY <1>1 DEF Engaged
<1>3. Lone'
  BY <1>2 DEF Lone
<1>4. ASSUME NEW t \in Starts \ {s}
      PROVE  step'[t] \notin Rooted /\ ~ (package' = "appimage" /\ step'[t] = "prompt")
  BY <1>2 DEF Engaged
<1>5. Files'
  BY <1>4 DEF Files, FilesOf, Rooted
<1>6. Sessions'
  <2>1. \A t \in Starts \ {s} : step'[t] # "look"
    BY <1>4 DEF Rooted
  <2> QED BY <1>1, <2>1 DEF Sessions
<1> QED BY <1>3, <1>5, <1>6

(* The steps of a start before the script.                                 *)
LEMMA StartStepInv ==
  ASSUME ShellInv, NEW s \in Starts, Prepare(s), overlap' = {}
  PROVE  Lone' /\ Files' /\ Sessions'
<1> USE DEF End, shell, files, system, history
<1>0. ShellTypes /\ Routes /\ Lone /\ Files /\ Sessions
  BY DEF ShellInv
<1>1. /\ {"none", "check", "net", "locate", "prompt", "ok", "failed", "skipped", "unstage", "restage",
          "systemctl", "pkill", "rm", "cp", "copying", "launch", "look"} \subseteq Paths
      /\ Rooted = {"systemctl", "pkill", "rm", "cp", "copying", "launch", "look"}
      /\ Staging = {"unstage", "restage"} /\ Ended = {"ok", "failed", "skipped"}
  BY DEF Paths, Rooted, Staging, Ended
<1>2. \A to \in Paths : Proceed(s, to) => step'[s] = to
  BY <1>0, GotoType, DeskTypes DEF ShellTypes, Desk
<1>3. \A t \in Starts : Engaged(t) => Touches(t)
  BY DEF Engaged, Touches, Staging
<1>4. Meets(s) => \A t \in Starts \ {s} : ~ Engaged(t)
  BY <1>3 DEF Meets, Others
<1>5. UNCHANGED overlap /\ Engaged(s) => \A t \in Starts \ {s} : ~ Engaged(t)
  BY <1>0 DEF Lone
<1>6. Meets(s) => overlap = {}
  BY DEF Meets
<1>7. CASE Press(s)
  BY <1>1, <1>7, QuietStep DEF Press, Engaged
<1>8. CASE NetStart(s)
  <2>1. package = "windows" /\ ~ Engaged(s)
    BY <1>0, <1>1, <1>8 DEF Routes, NetStart, Engaged
  <2>2. \A t \in Starts : ~ Engaged(t)
    BY <1>0, <1>1, <2>1 DEF Routes, Engaged
  <2>3. CASE End(s, "failed") /\ UNCHANGED engines
    BY <1>1, <1>8, <2>1, <2>3, QuietStep DEF NetStart
  <2>4. CASE /\ \A e \in DOMAIN engines : ~ Alive(e)
             /\ Launched("service", FALSE) /\ End(s, "ok")
    <3>1. Running = {}
      BY <2>4 DEF Running, Alive
    <3>2. Session'
      BY <1>0, <2>4, <3>1, SessionLaunched
    <3>3. step'[s] = "ok"
      BY <1>1, <1>2, <2>4
    <3>4. FilesOf(s)'
      BY <1>1, <3>3 DEF FilesOf
    <3> QED BY <1>0, <1>1, <1>8, <2>2, <2>4, <3>2, <3>4, AloneStep DEF NetStart
  <2> QED BY <1>8, <2>3, <2>4 DEF NetStart
<1>9. CASE Locate(s)
  BY <1>1, <1>9, QuietStep DEF Locate, Engaged
<1>10. CASE Unstage(s)
  <2>1. step'[s] = "restage" /\ Proceed(s, "restage") /\ UNCHANGED package
    BY <1>1, <1>2, <1>10 DEF Unstage
  <2>2. FilesOf(s)' /\ Engaged(s)'
    BY <1>1, <2>1 DEF FilesOf, Engaged
  <2> QED BY <1>0, <1>1, <1>4, <1>10, <2>1, <2>2, AloneStep DEF Unstage
<1>11. CASE Restage(s)
  <2>1. Engaged(s) /\ package = "appimage" /\ UNCHANGED <<package, overlap>>
    BY <1>0, <1>1, <1>11 DEF Restage, Engaged, Routes
  <2>2. CASE stage' = "whole" /\ Proceed(s, "prompt")
    <3>1. step'[s] = "prompt"
      BY <1>1, <1>2, <2>2
    <3>2. FilesOf(s)' /\ Engaged(s)'
      BY <1>1, <2>1, <2>2, <3>1 DEF FilesOf, Engaged
    <3> QED BY <1>0, <1>1, <1>5, <2>1, <2>2, <3>2, AloneStep
  <2>3. CASE End(s, "failed")
    <3>1. step'[s] = "failed"
      BY <1>1, <1>2, <2>3
    <3>2. FilesOf(s)'
      BY <1>1, <3>1 DEF FilesOf
    <3> QED BY <1>0, <1>1, <1>5, <2>1, <2>3, <3>2, AloneStep
  <2> QED BY <1>11, <2>2, <2>3 DEF Restage
<1>12. CASE Prompt(s)
  <2>1. CASE End(s, "failed") /\ UNCHANGED overlap
    BY <1>1, <1>12, <2>1, QuietStep DEF Prompt
  <2>2. CASE Proceed(s, "systemctl") /\ Meets(s)
    <3>1. step[s] = "prompt" /\ step'[s] = "systemctl" /\ UNCHANGED <<package, stage>>
      BY <1>1, <1>2, <1>12, <2>2 DEF Prompt
    <3>2. package = "appimage" => stage = "whole"
      BY <1>0, <1>6, <2>2, <3>1 DEF Files, FilesOf
    <3>3. FilesOf(s)' /\ Engaged(s)'
      BY <1>1, <3>1, <3>2 DEF FilesOf, Engaged
    <3> QED BY <1>0, <1>1, <1>4, <2>2, <3>1, <3>3, AloneStep
  <2> QED BY <1>12, <2>1, <2>2 DEF Prompt
<1> QED BY <1>7, <1>8, <1>9, <1>10, <1>11, <1>12 DEF Prepare

(* The steps of the script: nobody else is engaged.                        *)
LEMMA ScriptStepInv ==
  ASSUME ShellInv, NEW s \in Starts, Script(s), overlap' = {}
  PROVE  Lone' /\ Files' /\ Sessions'
<1> USE DEF End, shell, files, system, history
<1>0. ShellTypes /\ Routes /\ Lone /\ Files /\ Sessions /\ ShellTypeOK
  BY DEF ShellInv, ShellTypes
<1>1. /\ {"none", "check", "net", "locate", "prompt", "ok", "failed", "skipped", "unstage", "restage",
          "systemctl", "pkill", "rm", "cp", "copying", "launch", "look"} \subseteq Paths
      /\ Rooted = {"systemctl", "pkill", "rm", "cp", "copying", "launch", "look"}
  BY DEF Paths, Rooted, Staging, Ended
<1>2. \A to \in Paths : Proceed(s, to) => step'[s] = to
  BY <1>0, GotoType, DeskTypes DEF ShellTypes, Desk
<1>3. step[s] \in Rooted /\ UNCHANGED <<package, stage, overlap>>
  BY <1>1 DEF Script, StopUnit, Pkill, Remove, Copy, Copied, LaunchEngine,
              Look
<1>4. \A t \in Starts \ {s} : ~ Engaged(t)
  BY <1>3 DEF Lone, Engaged, ShellInv
<1>5. FilesOf(s) /\ (package' = "appimage" => stage' = "whole") /\ (step[s] = "look" => Session)
  BY <1>0, <1>3 DEF Files, FilesOf, Sessions
<1>6. ASSUME NEW to \in Paths, Proceed(s, to), FilesOf(s)', to \in Rooted \ {"look"}
      PROVE  Lone' /\ Files' /\ Sessions'
  <2>1. Engaged(s)' /\ to # "look"
    BY <1>2, <1>6 DEF Engaged
  <2> QED BY <1>0, <1>3, <1>4, <1>6, <2>1, AloneStep
<1>7. CASE StopUnit(s)
  <2>1. Proceed(s, "pkill") /\ step'[s] = "pkill"
    BY <1>1, <1>2, <1>7 DEF StopUnit
  <2>2. FilesOf(s)'
    BY <1>1, <1>5, <2>1 DEF FilesOf
  <2> QED BY <1>1, <1>6, <2>1, <2>2
<1>8. CASE Pkill(s)
  <2>1. Proceed(s, "rm") /\ step'[s] = "rm"
    BY <1>1, <1>2, <1>8 DEF Pkill
  <2>2. Bundled' = {}
    <3>1. CASE AskToStop(Named)
      <4>1. /\ DOMAIN engines' = DOMAIN engines
            /\ \A e \in DOMAIN engines :
                 /\ engines'[e].kind = engines[e].kind
                 /\ e \in Named /\ engines[e].state # "gone" => engines'[e].state = "stopping"
                 /\ e \notin Named \/ engines[e].state = "gone" => engines'[e] = engines[e]
        BY <1>0, <3>1, AskEffect
      <4> QED BY <4>1 DEF Bundled, Running, Named, Alive
    <3>2. CASE /\ Leave({e \in Named : engines[e].state = "starting"})
               /\ {e \in Named : engines[e].state = "serving"} = {}
      <4> DEFINE E == {e \in Named : engines[e].state = "starting"}
      <4>1. /\ DOMAIN engines' = DOMAIN engines
            /\ \A e \in DOMAIN engines :
                 /\ engines'[e].kind = engines[e].kind
                 /\ e \in E => engines'[e].state = "gone"
                 /\ e \notin E => engines'[e] = engines[e]
        <5> HIDE DEF E
        <5> QED BY <1>0, <3>2, LeaveEffect DEF E
      <4> QED BY <3>2, <4>1 DEF Bundled, Running, Named, Alive
    <3> QED BY <1>8, <3>1, <3>2 DEF Pkill
  <2>3. FilesOf(s)'
    BY <1>1, <1>5, <2>1, <2>2 DEF FilesOf
  <2> QED BY <1>1, <1>6, <2>1, <2>3
<1>9. CASE Remove(s)
  <2>1. CASE dir' = "none" /\ Proceed(s, "cp")
    <3>1. step'[s] = "cp"
      BY <1>1, <1>2, <2>1
    <3>2. Bundled = {}
      BY <1>5, <1>9 DEF FilesOf, Remove
    <3>3. Bundled' = {}
      BY <1>0, <1>9, <3>2, RemoveEffect DEF Bundled, Running
    <3>4. FilesOf(s)'
      BY <1>1, <1>5, <2>1, <3>1, <3>3 DEF FilesOf
    <3> QED BY <1>1, <1>6, <2>1, <3>4
  <2>2. CASE End(s, "failed") /\ UNCHANGED <<dir, maker, engines>>
    BY <1>1, <1>3, <2>2, QuietStep
  <2> QED BY <1>9, <2>1, <2>2 DEF Remove
<1>10. CASE Copy(s)
  <2>1. Proceed(s, "copying") /\ step'[s] = "copying"
    BY <1>1, <1>2, <1>10 DEF Copy
  <2>2. Bundled' = {} /\ dir' = "partial" /\ maker' = s
    BY <1>5, <1>10 DEF FilesOf, Copy, Bundled, Running
  <2>3. FilesOf(s)'
    BY <1>1, <1>5, <2>1, <2>2 DEF FilesOf
  <2> QED BY <1>1, <1>6, <2>1, <2>3
<1>11. CASE Copied(s)
  <2>1. CASE dir' = (IF maker = s THEN Source ELSE dir) /\ Proceed(s, "launch")
    <3>1. step'[s] = "launch"
      BY <1>1, <1>2, <2>1
    <3>2. Bundled' = {} /\ dir' = "whole"
      BY <1>3, <1>5, <1>11, <2>1 DEF FilesOf, Copied, Source, Bundled, Running
    <3>3. FilesOf(s)'
      BY <1>1, <1>5, <3>1, <3>2 DEF FilesOf
    <3> QED BY <1>1, <1>6, <2>1, <3>3
  <2>2. CASE Failed(s) /\ UNCHANGED dir
    BY <1>1, <1>11, <2>2, QuietStep DEF Copied, Failed
  <2> QED BY <1>11, <2>1, <2>2 DEF Copied
<1>12. CASE LaunchEngine(s)
  <2>1. Proceed(s, "look") /\ step'[s] = "look" /\ UNCHANGED last
    BY <1>1, <1>2, <1>12 DEF LaunchEngine
  <2>2. dir = "whole" /\ Bundled = {}
    BY <1>5, <1>12 DEF FilesOf, LaunchEngine
  <2>3. Launched("bundle", FALSE)
    BY <1>12, <2>2 DEF LaunchEngine
  <2>4. \A e \in Running : ~ engines[e].shaky
    BY <1>0, <2>2 DEF ShellTypes, Sturdy, Bundled, Running
  <2>5. Session'
    BY <1>0, <2>3, <2>4, SessionLaunched
  <2>6. FilesOf(s)'
    BY <1>1, <1>5, <2>1 DEF FilesOf
  <2> QED BY <1>0, <1>1, <1>3, <1>4, <2>1, <2>5, <2>6, AloneStep
<1>13. CASE Look(s)
  <2>1. PICK how \in {"ok", "failed"} : Proceed(s, how) /\ UNCHANGED engines
    BY <1>13 DEF Look
  <2>2. step'[s] = how /\ FilesOf(s)'
    BY <1>1, <1>2, <2>1 DEF FilesOf
  <2>3. Session
    BY <1>5, <1>13 DEF Look
  <2>4. Session'
    BY <2>1, <2>3 DEF Session, Awaits, Running, Stopping
  <2> QED BY <1>0, <1>1, <1>3, <1>4, <2>1, <2>2, <2>4, AloneStep
<1> QED BY <1>7, <1>8, <1>9, <1>10, <1>11, <1>12, <1>13 DEF Script

LEMMA ShellInvStep ==
  ASSUME ShellInv, [ShellNext]_shellVars, "auto" \notin Presses, SlowStart
  PROVE  ShellInv'
<1> USE DEF shell, files, system, history
<1>0. ShellTypes' /\ Routes'
  BY ShellTypesStep, RoutesStep DEF ShellInv
<1>1. Lone /\ Files /\ Sessions
  BY DEF ShellInv
<1>2. CASE overlap' # {}
  BY <1>0, <1>2 DEF ShellInv, Lone, Files, Sessions
<1>3. CASE OpenShell \/ AskApi
  <2>1. /\ {"none", "check", "locate", "skipped"} \subseteq Paths \ (Rooted \cup {"restage", "prompt"})
        /\ "auto" \in Starts
    BY DEF Paths, Starts, Staging, Rooted, Ended
  <2>2. step["auto"] \in {"none", "check"} /\ UNCHANGED <<package, stage, dir, maker, engines, overlap, last>>
    BY <1>3 DEF OpenShell, AskApi
  <2>3. ~ Engaged("auto")
    BY <2>2 DEF Engaged, Rooted
  <2>4. CASE \E to \in {"check", "locate", "skipped"} : Proceed("auto", to)
    BY <1>0, <2>1, <2>2, <2>3, <2>4, QuietStep DEF ShellInv
  <2>5. CASE UNCHANGED step
    BY <1>0, <1>1, <2>2, <2>5 DEF ShellInv, Lone, Engaged, Files, FilesOf, Bundled, Sessions, Session, Awaits,
                                  Running, Stopping
  <2> QED BY <1>3, <2>4, <2>5 DEF OpenShell, AskApi
<1>4. CASE PollApi \/ Quit \/ UNCHANGED shellVars
  <2>1. UNCHANGED <<package, step, stage, dir, maker, engines, overlap, last>>
    BY <1>4 DEF PollApi, Quit, shellVars
  <2> QED BY <1>0, <1>1, <2>1 DEF ShellInv, Lone, Engaged, Files, FilesOf, Bundled, Sessions, Session, Awaits,
                                  Running, Stopping
<1>5. ASSUME NEW s \in Starts, Prepare(s) \/ Script(s) PROVE ShellInv'
  BY <1>0, <1>2, <1>5, StartStepInv, ScriptStepInv DEF ShellInv
<1>6. CASE \/ \E e \in DOMAIN engines : Passes(e)
           \/ \E kind \in {"unit", "terminal"} : FromOutside(kind)
  BY <1>0, <1>6, EngineStepInv DEF ShellInv
<1> QED BY <1>3, <1>4, <1>5, <1>6 DEF ShellNext, Passes

LEMMA ShellInvInit == ShellInit /\ "auto" \notin Presses => ShellInv
<1> SUFFICES ASSUME ShellInit PROVE ShellInv
  OBVIOUS
<1> USE DEF ShellInit
<1>1. \A s \in Starts : step[s] = "none"
  OBVIOUS
<1>2. engines = <<>> /\ DOMAIN engines = {} /\ engines \in Seq(Engines(DOMAIN engines))
  OBVIOUS
<1>3. Desk
  BY DEF Desk, Paths, Ended
<1>4. ShellTypes
  BY <1>2, <1>3, DeskTypes DEF ShellTypes, Held, Sturdy
<1>5. Routes /\ Lone /\ Files
  BY <1>1 DEF Routes, Lone, Engaged, Files, FilesOf, Staging, Rooted
<1>6. Sessions
  BY <1>1 DEF Sessions
<1> QED BY <1>4, <1>5, <1>6 DEF ShellInv

(* FreshSession: "pressing Start always yields a fresh, working session"   *)
(* (main.rs): when the last start reported success and no other ran at the *)
(* same time, an engine is there that nobody has told to stop.             *)
(* It holds however many starts, engines from elsewhere and packages there *)
(* are, provided that an engine needs longer to bind than a finalizer      *)
(* sleeps; without that TLC finds the start that gives up its port to the  *)
(* engine it replaces.                                                     *)
THEOREM FreshStarts ==
  ASSUME SlowStart
  PROVE  ShellSpec => []FreshSession
<1>1. ShellInit => ShellInv
  BY ShellInvInit, DesktopAssumption
<1>2. ShellInv /\ [ShellNext]_shellVars => ShellInv'
  BY ShellInvStep, DesktopAssumption
<1>3. ShellInv => FreshSession
  <2>1. \A s \in Starts : Engaged(s) => Touches(s)
    BY DEF Engaged, Touches, Staging
  <2> QED BY <2>1 DEF ShellInv, ShellTypes, Sessions, Session, FreshSession, Quiet
<1> QED BY <1>1, <1>2, <1>3, PTL DEF ShellSpec

=============================================================================
