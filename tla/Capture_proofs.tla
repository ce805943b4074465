--------------------------- MODULE Capture_proofs ---------------------------
(* Proofs about Capture: its types, the honesty of the status, and that    *)
(* systemd restarts no service that captures and works.                    *)
EXTENDS Capture, TLAPS

LEMMA IntervalType == Interval \in Nat \ {0} /\ Cap \in Nat
BY CaptureAssumption DEF Interval, Cap

LEMMA NotYetType == NotYet \in [Names -> 0 .. Cap]
BY IntervalType DEF NotYet

LEMMA HereIsSupervised ==
  ASSUME turn \in DOMAIN Ifaces
  PROVE  Here \in Names
BY DEF Here, Names

LEMMA NextTurnType ==
  ASSUME turn \in DOMAIN Ifaces
  PROVE  NextTurn \in 0 .. Len(Ifaces)
BY CaptureAssumption DEF NextTurn

(* The watchdog thread is due whenever its interval is over: without that, *)
(* the count of ticks since it woke would not be bounded.                  *)
Timed == TypeOK /\ (wake = Interval => "watchdog" \in due)

LEMMA InitTypes == Init => Timed
<1> SUFFICES ASSUME Init PROVE Timed
  OBVIOUS
<1> USE IntervalType, CaptureAssumption DEF Init
<1>1. /\ up \in BOOLEAN /\ starting \in BOOLEAN /\ stuck \in BOOLEAN
      /\ site \in Sites /\ driver \in BOOLEAN /\ provider \in BOOLEAN
  OBVIOUS
<1>2. works \in [Names -> BOOLEAN] /\ seen \in [Names -> BOOLEAN] /\ owed \in [Names -> BOOLEAN]
  OBVIOUS
<1>3. /\ sniffer \in [Names -> {None, "alive", "died", "failed"}]
      /\ mark \in [Names -> {None, "ok", "down"}]
      /\ cause \in [Names -> {None, "socket", "spawn"}]
  OBVIOUS
<1>4. turn \in 0 .. Len(Ifaces) /\ due \subseteq {"supervisor", Worker, "watchdog"}
  OBVIOUS
<1>5. beat \in 0 .. Stall + 1 /\ wake \in 0 .. Interval /\ ping \in 0 .. WatchdogSec
  OBVIOUS
<1>6. lasted \in [Names -> 0 .. Cap]
  BY NotYetType
<1> QED BY <1>1, <1>2, <1>3, <1>4, <1>5, <1>6 DEF TypeOK, Timed

LEMMA SpawnTypes ==
  ASSUME TypeOK, NEW exc \in {None, "socket"}, Spawn(exc), Here \in Names
  PROVE  /\ sniffer' \in [Names -> {None, "alive", "died", "failed"}]
         /\ mark' \in [Names -> {None, "ok", "down"}]
         /\ cause' \in [Names -> {None, "socket", "spawn"}]
         /\ owed' \in [Names -> BOOLEAN]
         /\ lasted' \in [Names -> 0 .. Cap]
<1>1. PICK outcome \in Outcomes(Here) :
        LET raised == outcome = "raises" IN
        /\ sniffer' = IF raised THEN sniffer ELSE [sniffer EXCEPT ![Here] = outcome]
        /\ mark' = [mark EXCEPT ![Here] = IF raised THEN "down" ELSE Unconfirmed]
        /\ cause' = Explained(Here, IF raised THEN "spawn" ELSE exc)
        /\ owed' = [owed EXCEPT ![Here] = @ \/ raised \/ exc # None]
        /\ lasted' = [lasted EXCEPT ![Here] = 0]
  BY DEF Spawn
<1>2. outcome \in {"raises", "alive", "died", "failed"}
  BY DEF Outcomes
<1>3. sniffer' \in [Names -> {None, "alive", "died", "failed"}]
  BY <1>1, <1>2 DEF TypeOK
<1>4. mark' \in [Names -> {None, "ok", "down"}]
  BY <1>1 DEF TypeOK, Unconfirmed
<1>5. cause' \in [Names -> {None, "socket", "spawn"}]
  BY <1>1 DEF TypeOK, Explained
<1>6. owed' \in [Names -> BOOLEAN]
  BY <1>1 DEF TypeOK
<1>7. lasted' \in [Names -> 0 .. Cap]
  BY <1>1, IntervalType DEF TypeOK
<1> QED BY <1>3, <1>4, <1>5, <1>6, <1>7

LEMMA AdvanceTypes ==
  ASSUME TypeOK, Advance, turn \in DOMAIN Ifaces
  PROVE  /\ turn' \in 0 .. Len(Ifaces)
         /\ due' \subseteq {"supervisor", Worker, "watchdog"}
         /\ starting' \in BOOLEAN
BY NextTurnType DEF Advance, TypeOK

LEMMA NextTypes == Timed /\ [Next]_vars => Timed'
<1> SUFFICES ASSUME Timed, [Next]_vars PROVE Timed'
  OBVIOUS
<1> USE CaptureAssumption, IntervalType
<1>1. CASE Start
  <2>1. /\ wake' \in 0 .. Interval /\ wake' # Interval
        /\ beat' \in 0 .. Stall + 1 /\ ping' \in 0 .. WatchdogSec
        /\ turn' \in 0 .. Len(Ifaces)
    BY <1>1 DEF Start
  <2>2. /\ sniffer' \in [Names -> {None, "alive", "died", "failed"}]
        /\ mark' \in [Names -> {None, "ok", "down"}]
        /\ cause' \in [Names -> {None, "socket", "spawn"}]
        /\ seen' \in [Names -> BOOLEAN] /\ owed' \in [Names -> BOOLEAN]
    BY <1>1 DEF Start
  <2>3. lasted' \in [Names -> 0 .. Cap]
    BY <1>1, NotYetType DEF Start
  <2>4. due' \subseteq {"supervisor", Worker, "watchdog"}
    BY <1>1 DEF Start
  <2>5. up' \in BOOLEAN /\ starting' \in BOOLEAN /\ stuck' \in BOOLEAN
        /\ works' \in [Names -> BOOLEAN]
        /\ site' \in Sites /\ driver' \in BOOLEAN /\ provider' \in BOOLEAN
    BY <1>1 DEF Start, Timed, TypeOK
  <2> QED BY <2>1, <2>2, <2>3, <2>4, <2>5 DEF Timed, TypeOK
<1>2. CASE Tick
  <2>1. lasted' \in [Names -> 0 .. Cap]
    BY <1>2 DEF Tick, Timed, TypeOK, Older
  <2>2. beat' \in 0 .. Stall + 1 /\ ping' \in 0 .. WatchdogSec
    BY <1>2 DEF Tick, Timed, TypeOK, Older
  <2>3. turn' \in 0 .. Len(Ifaces)
    BY <1>2 DEF Tick
  <2>4. wake' \in 0 .. Interval /\ (wake' = Interval => "watchdog" \in due')
    BY <1>2 DEF Tick, backend, TypeOK, Timed
  <2> QED BY <1>2, <2>1, <2>2, <2>3, <2>4 DEF Tick, backend, TypeOK, Timed
<1>3. CASE Kill
  BY <1>3 DEF Kill, Timed, TypeOK, backend, threads, clocks, history
<1>4. ASSUME NEW i \in Names, Change(i)
      PROVE  Timed'
  BY <1>4 DEF Change, backend, Timed, TypeOK, threads, clocks, history
<1>5. ASSUME NEW i \in Names, Die(i)
      PROVE  Timed'
  <2>1. lasted' \in [Names -> 0 .. Cap]
    BY <1>5 DEF Die, TypeOK, Timed
  <2>2. sniffer' \in [Names -> {None, "alive", "died", "failed"}]
    BY <1>5 DEF Die, TypeOK, Timed
  <2> QED BY <1>5, <2>1, <2>2 DEF Die, backend, Timed, TypeOK, threads, clocks
<1>6. CASE Hang \/ Return
  BY <1>6, NotYetType DEF Hang, Return, backend, Timed, TypeOK, Worker, clocks
<1>7. CASE Beat
  BY <1>7 DEF Beat, backend, Timed, TypeOK, Worker, history
<1>8. CASE Launch
  <2>1. Here \in Names
    BY <1>8, HereIsSupervised DEF Launch, backend, Supervising
  <2> QED BY <1>8, <2>1, SpawnTypes, AdvanceTypes DEF Launch, backend, Supervising, Advance, Timed, TypeOK, clocks
<1>9. CASE Confirm
  <2>1. Here \in Names
    BY <1>9, HereIsSupervised DEF Confirm, backend, Supervising
  <2> QED BY <1>9, <2>1, AdvanceTypes DEF Confirm, backend, Supervising, Advance, Timed, TypeOK, clocks
<1>10. CASE Respawn
  <2>1. Here \in Names
    BY <1>10, HereIsSupervised DEF Respawn, backend, Supervising
  <2> QED BY <1>10, <2>1, SpawnTypes, AdvanceTypes DEF Respawn, backend, Supervising, Advance, Timed, TypeOK, clocks
<1>11. CASE Watch
  BY <1>11 DEF Watch, backend, Timed, TypeOK, history
<1>12. CASE UNCHANGED vars
  BY <1>12 DEF vars, backend, Timed, TypeOK, threads, clocks, history
<1>13. CASE Stop
  BY <1>13 DEF Stop, backend, Timed, TypeOK, threads, clocks, history
<1>14. CASE Install
  BY <1>14 DEF Install, Timed, TypeOK, threads, clocks, history
<1> QED BY <1>1, <1>2, <1>3, <1>4, <1>5, <1>6, <1>7, <1>8, <1>9, <1>10, <1>11,
           <1>12, <1>13, <1>14 DEF Next

(* The types of the supervision, for any list of interfaces.               *)
THEOREM TypeCorrect == Spec => []TypeOK
<1>1. Timed => TypeOK
  BY DEF Timed
<1> QED BY InitTypes, NextTypes, <1>1, PTL DEF Spec

-----------------------------------------------------------------------------
(* The cause of an interface is kept also where the process is down.       *)
Kept == Timed /\ \A i \in Names : owed[i] <=> cause[i] # None

LEMMA KeptInit == Init => Kept
BY InitTypes DEF Init, Kept

LEMMA SpawnKeeps ==
  ASSUME Kept, NEW exc \in {None, "socket"}, Spawn(exc), Here \in Names
  PROVE  \A i \in Names : owed'[i] <=> cause'[i] # None
<1>1. PICK outcome \in Outcomes(Here) :
        LET raised == outcome = "raises" IN
        /\ cause' = Explained(Here, IF raised THEN "spawn" ELSE exc)
        /\ owed' = [owed EXCEPT ![Here] = @ \/ raised \/ exc # None]
  BY DEF Spawn
<1>2. cause \in [Names -> {None, "socket", "spawn"}] /\ owed \in [Names -> BOOLEAN]
  BY DEF Kept, Timed, TypeOK
<1>3. CASE outcome = "raises"
  BY <1>1, <1>2, <1>3 DEF Explained, Kept, None
<1>4. CASE outcome # "raises" /\ exc = None
  BY <1>1, <1>2, <1>4 DEF Explained, Kept, None
<1>5. CASE outcome # "raises" /\ exc # None
  BY <1>1, <1>2, <1>5 DEF Explained, Kept, None
<1> QED BY <1>3, <1>4, <1>5

LEMMA KeptStep == Kept /\ [Next]_vars => Kept'
<1> SUFFICES ASSUME Kept, [Next]_vars
             PROVE  \A i \in Names : owed'[i] <=> cause'[i] # None
  BY NextTypes DEF Kept
<1>1. CASE UNCHANGED <<cause, owed>>
  BY <1>1 DEF Kept
<1>2. CASE Start
  BY <1>2 DEF Start
<1>3. CASE Launch
  <2>1. Here \in Names
    BY <1>3, HereIsSupervised DEF Launch, Supervising
  <2> QED BY <1>3, <2>1, SpawnKeeps DEF Launch
<1>4. CASE Confirm
  <2>1. Here \in Names
    BY <1>4, HereIsSupervised DEF Confirm, Supervising
  <2> QED BY <1>4, <2>1 DEF Confirm, Kept, Timed, TypeOK
<1>5. CASE Respawn
  <2>1. Here \in Names
    BY <1>5, HereIsSupervised DEF Respawn, Supervising
  <2> QED BY <1>5, <2>1, SpawnKeeps DEF Respawn
<1>6. ASSUME NEW i \in Names, Change(i) \/ Die(i)
      PROVE  UNCHANGED <<cause, owed>>
  BY <1>6 DEF Change, Die, history
<1>7. CASE Tick \/ Kill \/ Stop \/ Install \/ Hang \/ Return \/ Beat \/ Watch \/ UNCHANGED vars
  <2>1. UNCHANGED <<cause, owed>>
    BY <1>7 DEF Tick, Kill, Stop, Install, Hang, Return, Beat, Watch, vars, history
  <2> QED BY <2>1, <1>1
<1> QED BY <1>1, <1>2, <1>3, <1>4, <1>5, <1>6, <1>7 DEF Next

-----------------------------------------------------------------------------
(* What a mark stands for. Until start() is over no interface is marked    *)
(* "ok", and those before turn are marked; afterwards all are. A mark "ok" *)
(* is of a thread that the last round found alive, without a cause.        *)
Starting ==
  up /\ starting =>
    /\ turn \in DOMAIN Ifaces /\ "supervisor" \in due
    /\ \A i \in Names : mark[i] # "ok"
    /\ \A k \in DOMAIN Ifaces : k < turn => mark[Ifaces[k]] # None
Started == up /\ ~ starting => \A i \in Names : mark[i] # None
Earned == \A i \in Names : mark[i] = "ok" => seen[i] /\ cause[i] = None

(* Without a backend no thread is alive for a round to find.               *)
Blind == ~ CaptureBackend => \A i \in Names : mark[i] # "ok" /\ sniffer[i] # "alive"

Honest == Kept /\ Starting /\ Started /\ Earned /\ Blind

LEMMA HonestInit == Init => Honest
BY KeptInit DEF Init, Honest, Starting, Started, Earned, Blind, None

(* A spawn marks the interface "down", and a thread is alive only where    *)
(* there is a backend.                                                     *)
LEMMA SpawnMarks ==
  ASSUME TypeOK, NEW exc, Spawn(exc), Here \in Names
  PROVE  /\ mark' = [mark EXCEPT ![Here] = "down"]
         /\ ~ CaptureBackend => \A i \in Names : sniffer[i] # "alive" => sniffer'[i] # "alive"
         /\ \A i \in Names : i # Here => cause'[i] = cause[i]
<1>1. PICK outcome \in Outcomes(Here) :
        LET raised == outcome = "raises" IN
        /\ sniffer' = IF raised THEN sniffer ELSE [sniffer EXCEPT ![Here] = outcome]
        /\ mark' = [mark EXCEPT ![Here] = IF raised THEN "down" ELSE Unconfirmed]
        /\ cause' = Explained(Here, IF raised THEN "spawn" ELSE exc)
  BY DEF Spawn
<1>2. mark' = [mark EXCEPT ![Here] = "down"]
  BY <1>1 DEF Unconfirmed
<1>3. ~ CaptureBackend => \A i \in Names : sniffer[i] # "alive" => sniffer'[i] # "alive"
  <2>1. ~ CaptureBackend => outcome # "alive"
    BY <1>1 DEF Outcomes
  <2> QED BY <1>1, <2>1 DEF TypeOK
<1>4. \A i \in Names : i # Here => cause'[i] = cause[i]
  BY <1>1 DEF Explained, TypeOK
<1> QED BY <1>2, <1>3, <1>4

LEMMA LastPlace ==
  ASSUME NEW n \in Nat, NEW k \in 1 .. n, ~ (k < n)
  PROVE  k = n
OBVIOUS

LEMMA HonestStep == Honest /\ [Next]_vars => Honest'
<1> SUFFICES ASSUME Honest, [Next]_vars
             PROVE  Starting' /\ Started' /\ Earned' /\ Blind'
  BY KeptStep DEF Honest
<1>0. /\ mark \in [Names -> {None, "ok", "down"}] /\ cause \in [Names -> {None, "socket", "spawn"}]
      /\ seen \in [Names -> BOOLEAN] /\ sniffer \in [Names -> {None, "alive", "died", "failed"}]
      /\ Len(Ifaces) \in Nat /\ DOMAIN Ifaces = 1 .. Len(Ifaces)
  BY CaptureAssumption DEF Honest, Kept, Timed, TypeOK
<1>1. CASE Start
  <2>1. /\ turn' \in DOMAIN Ifaces /\ "supervisor" \in due'
        /\ \A k \in DOMAIN Ifaces : ~ (k < turn')
    BY <1>0, <1>1, CaptureAssumption DEF Start
  <2>2. \A i \in Names : mark'[i] = None /\ sniffer'[i] = None
    BY <1>1 DEF Start
  <2> QED BY <1>1, <2>1, <2>2 DEF Start, Starting, Started, Earned, Blind, None
<1>2. CASE Launch \/ Respawn
  <2>1. Here \in Names /\ turn \in DOMAIN Ifaces
    BY <1>2, HereIsSupervised DEF Launch, Respawn, Supervising
  <2>2. PICK exc : Spawn(exc)
    BY <1>2 DEF Launch, Respawn
  <2>3. /\ mark' = [mark EXCEPT ![Here] = "down"]
        /\ ~ CaptureBackend => \A i \in Names : sniffer[i] # "alive" => sniffer'[i] # "alive"
        /\ \A i \in Names : i # Here => cause'[i] = cause[i]
    BY <2>1, <2>2, SpawnMarks DEF Honest, Kept, Timed
  <2>4. UNCHANGED <<site, driver, provider, up>>
    BY <1>2 DEF Launch, Respawn, backend
  <2>5. \A i \in Names : i # Here => seen'[i] = seen[i]
    BY <1>0, <1>2 DEF Launch, Respawn
  <2>6. Earned'
    BY <1>0, <2>1, <2>3, <2>5 DEF Honest, Earned
  <2>7. Blind'
    BY <1>0, <2>1, <2>3, <2>4 DEF Honest, Blind, CaptureBackend
  <2>8. \A i \in Names : mark[i] # "ok" => mark'[i] # "ok"
    BY <1>0, <2>3
  <2>9. \A i \in Names : i = Here \/ mark[i] # None => mark'[i] # None
    BY <1>0, <2>3 DEF None
  <2>10. Starting'
    <3>1. SUFFICES ASSUME up', starting' PROVE Starting'
      BY DEF Starting
    <3>2. up /\ starting /\ turn < Len(Ifaces)
      BY <1>2, <2>4, <3>1 DEF Launch, Respawn, Advance
    <3>3. turn' = turn + 1 /\ due' = due
      BY <1>0, <1>2, <2>1, <3>2 DEF Launch, Respawn, Advance, NextTurn
    <3>4. turn' \in DOMAIN Ifaces /\ "supervisor" \in due'
      BY <1>0, <2>1, <3>2, <3>3 DEF Honest, Starting
    <3>5. \A i \in Names : mark'[i] # "ok"
      BY <2>8, <3>2 DEF Honest, Starting
    <3>6. ASSUME NEW k \in DOMAIN Ifaces, k < turn' PROVE mark'[Ifaces[k]] # None
      <4>1. Ifaces[k] \in Names
        BY DEF Names
      <4>2. CASE k < turn
        BY <2>9, <3>2, <4>1, <4>2 DEF Honest, Starting
      <4>3. CASE k = turn
        BY <2>9, <4>1, <4>3 DEF Here
      <4> QED BY <1>0, <2>1, <3>3, <3>6, <4>2, <4>3
    <3> QED BY <3>4, <3>5, <3>6 DEF Starting
  <2>11. Started'
    <3>1. SUFFICES ASSUME up', ~ starting', NEW i \in Names PROVE mark'[i] # None
      BY DEF Started
    <3>2. CASE ~ starting
      BY <2>4, <2>9, <3>1, <3>2 DEF Honest, Started
    <3>3. CASE starting
      <4>1. turn = Len(Ifaces)
        <5>1. Advance /\ turn \in 1 .. Len(Ifaces)
          BY <1>0, <1>2, <2>1 DEF Launch, Respawn
        <5>2. ~ (turn < Len(Ifaces))
          BY <5>1, <3>1, <3>3 DEF Advance
        <5>3. Len(Ifaces) \in Nat
          BY CaptureAssumption
        <5> QED BY <5>1, <5>2, <5>3, LastPlace
      <4>2. PICK k \in DOMAIN Ifaces : i = Ifaces[k]
        BY DEF Names
      <4>3. k < turn \/ k = turn
        BY <1>0, <4>1, <4>2
      <4> QED BY <2>4, <2>9, <3>1, <3>3, <4>2, <4>3 DEF Honest, Starting, Here
    <3> QED BY <3>2, <3>3
  <2> QED BY <2>6, <2>7, <2>10, <2>11
<1>3. CASE Confirm
  <2>1. Here \in Names /\ turn \in DOMAIN Ifaces /\ sniffer[Here] = "alive"
    BY <1>3, HereIsSupervised DEF Confirm, Supervising, Alive
  <2>2. ~ starting' /\ ~ starting
    BY <1>3 DEF Confirm, Advance
  <2>3. /\ mark' = [mark EXCEPT ![Here] = "ok"] /\ cause' = [cause EXCEPT ![Here] = None]
        /\ seen' = [seen EXCEPT ![Here] = TRUE]
        /\ UNCHANGED <<site, driver, provider, up, sniffer>>
    BY <1>3 DEF Confirm, backend
  <2>4. CaptureBackend
    BY <2>1 DEF Honest, Blind
  <2>5. Earned' /\ Blind'
    BY <1>0, <2>1, <2>3, <2>4 DEF Honest, Earned, Blind, CaptureBackend
  <2>6. Starting' /\ Started'
    BY <1>0, <2>1, <2>2, <2>3 DEF Honest, Starting, Started, None
  <2> QED BY <2>5, <2>6
<1>4. CASE Tick
  <2>1. ~ (up /\ starting)
    BY <1>4 DEF Tick, Honest, Starting
  <2> QED BY <1>4, <2>1 DEF Tick, Honest, Starting, Started, Earned, Blind, CaptureBackend, backend
<1>5. CASE Kill \/ Stop
  <2>1. ~ up' /\ UNCHANGED <<mark, cause, seen, site, provider>>
    BY <1>5 DEF Kill, Stop, backend, history
  <2>2. \A i \in Names : sniffer'[i] = sniffer[i] \/ sniffer'[i] = None
    BY <1>5 DEF Kill, Stop
  <2> QED BY <2>1, <2>2 DEF Honest, Starting, Started, Earned, Blind, CaptureBackend, None
<1>6. CASE Install
  BY <1>6 DEF Install, Honest, Starting, Started, Earned, Blind, CaptureBackend, threads, history
<1>7. ASSUME NEW i \in Names, Change(i) PROVE Starting' /\ Started' /\ Earned' /\ Blind'
  BY <1>7 DEF Change, Honest, Starting, Started, Earned, Blind, CaptureBackend, backend, threads, history
<1>8. ASSUME NEW i \in Names, Die(i) PROVE Starting' /\ Started' /\ Earned' /\ Blind'
  <2>1. \A j \in Names : sniffer[j] # "alive" => sniffer'[j] # "alive"
    BY <1>0, <1>8 DEF Die
  <2> QED BY <1>8, <2>1 DEF Die, Honest, Starting, Started, Earned, Blind, CaptureBackend, backend, threads
<1>9. CASE Hang \/ Return \/ Beat
  <2>1. "supervisor" \in due => "supervisor" \in due'
    BY <1>9 DEF Hang, Return, Beat, Worker
  <2>2. UNCHANGED <<site, provider, up, sniffer, mark, cause, starting, turn, seen>>
    BY <1>9 DEF Hang, Return, Beat, backend, history
  <2> QED BY <2>1, <2>2 DEF Honest, Starting, Started, Earned, Blind, CaptureBackend
<1>10. CASE Watch
  <2>1. "supervisor" \in due => "supervisor" \in due'
    BY <1>10 DEF Watch
  <2>2. UNCHANGED <<site, provider, up, sniffer, mark, cause, starting, turn, seen>>
    BY <1>10 DEF Watch, backend, history
  <2> QED BY <2>1, <2>2 DEF Honest, Starting, Started, Earned, Blind, CaptureBackend
<1>11. CASE UNCHANGED vars
  BY <1>11 DEF vars, Honest, Starting, Started, Earned, Blind, CaptureBackend, backend, threads, history
<1> QED BY <1>1, <1>2, <1>3, <1>4, <1>5, <1>6, <1>7, <1>8, <1>9, <1>10, <1>11 DEF Next

(* The status names a cause exactly for the interfaces that an exception   *)
(* explains, and calls the capture healthy only if every thread was found  *)
(* alive: no later beat erases a cause, and no respawn fakes health.       *)
THEOREM StatusHonest == Spec => []StatusIsHonest
<1>1. Honest => StatusIsHonest
  <2> SUFFICES ASSUME Honest PROVE CauseKept /\ HealthIsEarned
    BY DEF StatusIsHonest
  <2>1. CauseKept
    BY DEF Honest, Kept, CauseKept, Status
  <2>2. ASSUME up, Status.healthy = "yes"
        PROVE  (\A i \in Names : seen[i]) /\ Status.errors = {} /\ Status.backend
    <3>1. Marked # {} /\ \A i \in Marked : mark[i] = "ok"
      BY <2>2 DEF Status
    <3>2. ~ starting
      BY <2>2, <3>1 DEF Honest, Starting, Marked
    <3>3. \A i \in Names : mark[i] = "ok"
      BY <2>2, <3>1, <3>2 DEF Honest, Started, Marked
    <3>4. \A i \in Names : seen[i] /\ cause[i] = None
      BY <3>3 DEF Honest, Earned
    <3>5. Status.errors = {}
      BY <3>4 DEF Status
    <3>6. CaptureBackend
      BY <3>1 DEF Honest, Blind, Marked
    <3>7. Status.backend
      BY <3>6 DEF Status
    <3> QED BY <3>4, <3>5, <3>7
  <2> QED BY <2>1, <2>2 DEF HealthIsEarned
<1> QED BY HonestInit, HonestStep, <1>1, PTL DEF Spec

-----------------------------------------------------------------------------
(* Whose capture has lasted.  A turn of the supervisor is over when it is  *)
(* not due; a worker that has had its turn has just beaten.                *)
Rounds == up => turn = 0 \/ "supervisor" \in due
Rested == up /\ ~ stuck => Worker \in due \/ beat = 0

(* A capture that has lasted for a tick is of a thread that is alive, and  *)
(* beside a worker that beat in that tick; once the supervisor has come by *)
(* the interface is marked.                                                *)
Working ==
  up => \A i \in Names : lasted[i] >= 1 =>
    ~ stuck /\ ~ starting /\ beat <= 1 /\ sniffer[i] = "alive"
Confirmed ==
  up => \A k \in DOMAIN Ifaces :
    lasted[Ifaces[k]] >= 1 /\ (turn = 0 \/ k < turn \/ lasted[Ifaces[k]] >= 2) => mark[Ifaces[k]] = "ok"

(* One that had lasted for two ticks when the watchdog woke last made it   *)
(* ping, so that the silence is no longer than the sleep.                  *)
Pinged == up => \A i \in Names : lasted[i] >= wake + 2 => ping = wake

Steady == Honest /\ Rounds /\ Rested /\ Working /\ Confirmed /\ Pinged

LEMMA SteadyTypes ==
  ASSUME Honest
  PROVE  /\ lasted \in [Names -> 0 .. Cap] /\ wake \in 0 .. Interval /\ wake \in Nat /\ ping \in Nat /\ beat \in Nat
         /\ Interval \in Nat \ {0} /\ Cap = Interval + 2 /\ Len(Ifaces) \in Nat /\ DOMAIN Ifaces = 1 .. Len(Ifaces)
         /\ \A i \in Names : lasted[i] \in Nat
         /\ mark \in [Names -> {None, "ok", "down"}] /\ sniffer \in [Names -> {None, "alive", "died", "failed"}]
         /\ \A k \in DOMAIN Ifaces : Ifaces[k] \in Names
         /\ Stall \in Nat /\ Stall > 0 /\ turn \in 0 .. Len(Ifaces)
<1>1. TypeOK
  BY DEF Honest, Kept, Timed
<1>2. Interval \in Nat \ {0} /\ Cap = Interval + 2 /\ Cap \in Nat
  BY IntervalType DEF Cap
<1>3. wake \in Nat /\ ping \in Nat /\ beat \in Nat
  BY <1>1, <1>2, CaptureAssumption DEF TypeOK
<1>4. \A i \in Names : lasted[i] \in Nat
  BY <1>1, <1>2 DEF TypeOK
<1>5. Len(Ifaces) \in Nat /\ DOMAIN Ifaces = 1 .. Len(Ifaces) /\ Stall \in Nat /\ Stall > 0
  BY CaptureAssumption
<1> QED BY <1>1, <1>2, <1>3, <1>4, <1>5 DEF TypeOK, Names

LEMMA SteadyInit == Init => Steady
BY HonestInit DEF Init, Steady, Rounds, Rested, Working, Confirmed, Pinged

(* A tick begins a round, and a capture lasts on.                          *)
LEMMA TickSteady ==
  ASSUME Steady, Tick
  PROVE  Rounds' /\ Rested' /\ Working' /\ Confirmed' /\ Pinged'
<1>1. Honest /\ TypeOK
  BY DEF Steady, Honest, Kept, Timed
<1>2. /\ up /\ due = {} /\ up' /\ turn' = 1 /\ "supervisor" \in due' /\ UNCHANGED <<stuck, starting, sniffer, mark>>
      /\ beat' = Older(beat, Stall + 1)
      /\ lasted' = [i \in Names |-> IF sniffer[i] = "alive" /\ ~ stuck THEN Older(lasted[i], Cap) ELSE 0]
      /\ ~ stuck => Worker \in due'
  BY DEF Tick
<1>3. ~ starting /\ turn = 0
  BY <1>1, <1>2 DEF Steady, Rounds, Honest, Starting
<1>4. \A i \in Names : lasted'[i] = 0 \/ (/\ sniffer[i] = "alive" /\ ~ stuck /\ beat' <= 1
                                          /\ lasted'[i] \in Nat /\ lasted'[i] <= lasted[i] + 1)
  <2> SUFFICES ASSUME NEW i \in Names, lasted'[i] # 0
               PROVE  /\ sniffer[i] = "alive" /\ ~ stuck /\ beat' <= 1
                      /\ lasted'[i] \in Nat /\ lasted'[i] <= lasted[i] + 1
    OBVIOUS
  <2>1. sniffer[i] = "alive" /\ ~ stuck /\ lasted'[i] = Older(lasted[i], Cap)
    BY <1>2
  <2>2. beat = 0
    BY <1>2, <2>1 DEF Steady, Rested
  <2>3. beat' <= 1
    BY <1>1, <1>2, <2>2, SteadyTypes DEF Older
  <2>4. lasted[i] \in 0 .. Cap /\ Cap \in Nat
    BY <1>1, SteadyTypes, IntervalType
  <2> QED BY <2>1, <2>3, <2>4 DEF Older
<1>5. Rounds' /\ Rested'
  BY <1>2 DEF Rounds, Rested
<1>6. Working'
  BY <1>2, <1>3, <1>4 DEF Working
<1>7. Confirmed'
  <2> SUFFICES ASSUME NEW k \in DOMAIN Ifaces, lasted'[Ifaces[k]] >= 1,
                      turn' = 0 \/ k < turn' \/ lasted'[Ifaces[k]] >= 2
               PROVE  mark'[Ifaces[k]] = "ok"
    BY DEF Confirmed
  <2>1. Ifaces[k] \in Names /\ k \in 1 .. Len(Ifaces) /\ lasted[Ifaces[k]] \in Nat
    BY <1>1, SteadyTypes
  <2>2. lasted'[Ifaces[k]] >= 2
    BY <1>2, <2>1
  <2>3. lasted[Ifaces[k]] >= 1
    BY <1>4, <2>1, <2>2
  <2> QED BY <1>2, <1>3, <2>3 DEF Steady, Confirmed
<1>8. Pinged'
  <2> SUFFICES ASSUME NEW i \in Names, lasted'[i] >= wake' + 2 PROVE ping' = wake'
    BY DEF Pinged
  <2>1. CASE Watched
    <3>1. wake' = wake + 1 /\ ping' = ping + 1
      BY <2>1 DEF Tick
    <3>2. wake \in Nat /\ lasted[i] \in Nat
      BY <1>1, SteadyTypes
    <3>3. lasted[i] >= wake + 2
      BY <1>4, <3>1, <3>2
    <3> QED BY <1>2, <3>1, <3>3 DEF Steady, Pinged
  <2>2. CASE ~ Watched
    BY <2>2 DEF Tick
  <2> QED BY <2>1, <2>2
<1> QED BY <1>5, <1>6, <1>7, <1>8

(* A spawn takes the place of a thread that was not alive.                 *)
LEMMA SpawnSteady ==
  ASSUME Steady, Launch \/ Respawn
  PROVE  Rounds' /\ Rested' /\ Working' /\ Confirmed' /\ Pinged'
<1>1. Honest /\ TypeOK
  BY DEF Steady, Honest, Kept, Timed
<1>2. /\ up /\ turn \in DOMAIN Ifaces /\ Here \in Names /\ "supervisor" \in due
      /\ UNCHANGED <<up, stuck, beat, wake, ping>> /\ Advance
  BY HereIsSupervised DEF Launch, Respawn, Supervising, clocks
<1>3. PICK exc : Spawn(exc)
  BY DEF Launch, Respawn
<1>4. /\ lasted' = [lasted EXCEPT ![Here] = 0] /\ mark' = [mark EXCEPT ![Here] = "down"]
      /\ \A i \in Names : i # Here => sniffer'[i] = sniffer[i]
  <2>1. PICK outcome : /\ sniffer' = IF outcome = "raises" THEN sniffer ELSE [sniffer EXCEPT ![Here] = outcome]
                       /\ lasted' = [lasted EXCEPT ![Here] = 0]
    BY <1>3 DEF Spawn
  <2>2. \A i \in Names : i # Here => sniffer'[i] = sniffer[i]
    BY <1>1, <1>2, <2>1, SteadyTypes
  <2> QED BY <1>1, <1>2, <1>3, <2>1, <2>2, SpawnMarks
<1>5. /\ lasted'[Here] = 0 /\ mark'[Here] = "down"
      /\ \A i \in Names : i # Here => lasted'[i] = lasted[i] /\ mark'[i] = mark[i]
  BY <1>1, <1>2, <1>4, SteadyTypes
<1>6. ~ starting'\/ starting
  BY <1>2 DEF Advance
<1>7. Rounds' /\ Rested'
  <2>1. turn = Len(Ifaces) => turn' = 0
    BY <1>2 DEF Advance, NextTurn
  <2>2. turn # Len(Ifaces) => due' = due
    BY <1>2 DEF Advance
  <2>3. Worker \in due => Worker \in due'
    BY <1>2 DEF Advance, Worker
  <2> QED BY <1>2, <2>1, <2>2, <2>3 DEF Steady, Rounds, Rested
<1>8. Working'
  BY <1>2, <1>4, <1>5, <1>6 DEF Steady, Working
<1>9. Confirmed'
  <2> SUFFICES ASSUME NEW k \in DOMAIN Ifaces, lasted'[Ifaces[k]] >= 1,
                      turn' = 0 \/ k < turn' \/ lasted'[Ifaces[k]] >= 2
               PROVE  mark'[Ifaces[k]] = "ok"
    BY DEF Confirmed
  <2>1. Ifaces[k] \in Names /\ k \in 1 .. Len(Ifaces) /\ turn \in 1 .. Len(Ifaces) /\ Len(Ifaces) \in Nat
    BY <1>1, <1>2, SteadyTypes
  <2>2. Ifaces[k] # Here
    BY <1>5, <2>1
  <2>3. k # turn
    BY <2>2 DEF Here
  <2>4. turn' = 0 \/ k < turn' => k < turn
    <3>1. turn' = IF turn = Len(Ifaces) THEN 0 ELSE turn + 1
      BY <1>2 DEF Advance, NextTurn
    <3> QED BY <2>1, <2>3, <3>1
  <2>5. lasted[Ifaces[k]] = lasted'[Ifaces[k]] /\ mark'[Ifaces[k]] = mark[Ifaces[k]]
    BY <1>5, <2>1, <2>2
  <2> QED BY <1>2, <2>4, <2>5 DEF Steady, Confirmed
<1>10. Pinged'
  <2> SUFFICES ASSUME NEW i \in Names, lasted'[i] >= wake' + 2 PROVE ping' = wake'
    BY DEF Pinged
  <2>1. wake \in Nat
    BY <1>1, SteadyTypes
  <2>2. i # Here
    BY <1>2, <1>5, <2>1
  <2> QED BY <1>2, <1>5, <2>2 DEF Steady, Pinged
<1> QED BY <1>7, <1>8, <1>9, <1>10

(* A round that finds the thread alive marks it.                           *)
LEMMA ConfirmSteady ==
  ASSUME Steady, Confirm
  PROVE  Rounds' /\ Rested' /\ Working' /\ Confirmed' /\ Pinged'
<1>1. Honest /\ TypeOK
  BY DEF Steady, Honest, Kept, Timed
<1>2. /\ up /\ turn \in DOMAIN Ifaces /\ Here \in Names /\ "supervisor" \in due
      /\ UNCHANGED <<up, stuck, beat, wake, ping, sniffer, lasted>> /\ Advance
      /\ mark' = [mark EXCEPT ![Here] = "ok"] /\ ~ starting
  BY HereIsSupervised DEF Confirm, Supervising, clocks
<1>3. ~ starting'
  BY <1>2 DEF Advance
<1>4. Rounds' /\ Rested'
  <2>1. turn = Len(Ifaces) => turn' = 0
    BY <1>2 DEF Advance, NextTurn
  <2>2. turn # Len(Ifaces) => due' = due
    BY <1>2 DEF Advance
  <2>3. Worker \in due => Worker \in due'
    BY <1>2 DEF Advance, Worker
  <2> QED BY <1>2, <2>1, <2>2, <2>3 DEF Steady, Rounds, Rested
<1>5. Working' /\ Pinged'
  BY <1>2, <1>3 DEF Steady, Working, Pinged
<1>6. Confirmed'
  <2> SUFFICES ASSUME NEW k \in DOMAIN Ifaces, lasted'[Ifaces[k]] >= 1,
                      turn' = 0 \/ k < turn' \/ lasted'[Ifaces[k]] >= 2
               PROVE  mark'[Ifaces[k]] = "ok"
    BY DEF Confirmed
  <2>1. Ifaces[k] \in Names /\ k \in 1 .. Len(Ifaces) /\ turn \in 1 .. Len(Ifaces) /\ Len(Ifaces) \in Nat
    BY <1>1, <1>2, SteadyTypes
  <2>2. CASE Ifaces[k] = Here
    BY <1>1, <1>2, <2>2, SteadyTypes
  <2>3. CASE Ifaces[k] # Here
    <3>1. k # turn
      BY <2>3 DEF Here
    <3>2. turn' = IF turn = Len(Ifaces) THEN 0 ELSE turn + 1
      BY <1>2 DEF Advance, NextTurn
    <3>3. turn' = 0 \/ k < turn' => k < turn
      BY <2>1, <3>1, <3>2
    <3>4. mark'[Ifaces[k]] = mark[Ifaces[k]]
      BY <1>1, <1>2, <2>1, <2>3, SteadyTypes
    <3> QED BY <1>2, <3>3, <3>4 DEF Steady, Confirmed
  <2> QED BY <2>2, <2>3
<1> QED BY <1>4, <1>5, <1>6

(* The watchdog pings where a capture has lasted for two ticks.            *)
LEMMA WatchSteady ==
  ASSUME Steady, Watch
  PROVE  Rounds' /\ Rested' /\ Working' /\ Confirmed' /\ Pinged'
<1>1. Honest /\ TypeOK
  BY DEF Steady, Honest, Kept, Timed
<1>2. /\ up /\ wake' = 0 /\ due' = due \ {"watchdog"}
      /\ ping' = IF AnyAlive /\ Fresh THEN 0 ELSE ping
      /\ UNCHANGED <<up, sniffer, mark, starting, turn, stuck, beat, lasted>>
  BY DEF Watch, history
<1>3. Rounds' /\ Rested' /\ Working' /\ Confirmed'
  BY <1>2 DEF Steady, Rounds, Rested, Working, Confirmed, Worker
<1>4. Pinged'
  <2> SUFFICES ASSUME NEW i \in Names, lasted[i] >= 2 PROVE ping' = 0
    BY <1>2 DEF Pinged
  <2>1. PICK k \in DOMAIN Ifaces : Ifaces[k] = i
    BY DEF Names
  <2>2. lasted[i] \in Nat /\ lasted[i] >= 1
    BY <1>1, SteadyTypes
  <2>3. mark[i] = "ok" /\ beat <= 1
    BY <1>2, <2>1, <2>2 DEF Steady, Confirmed, Working
  <2>4. AnyAlive /\ Fresh
    BY <1>1, <2>3, SteadyTypes DEF AnyAlive, Fresh
  <2> QED BY <1>2, <2>4
<1> QED BY <1>3, <1>4

LEMMA SteadyStep == Steady /\ [Next]_vars => Steady'
<1> SUFFICES ASSUME Steady, [Next]_vars
             PROVE  Rounds' /\ Rested' /\ Working' /\ Confirmed' /\ Pinged'
  BY HonestStep DEF Steady
<1>0. /\ lasted \in [Names -> 0 .. Cap] /\ \A i \in Names : lasted[i] \in Nat
      /\ sniffer \in [Names -> {None, "alive", "died", "failed"}] /\ wake \in Nat
      /\ \A k \in DOMAIN Ifaces : Ifaces[k] \in Names
  BY SteadyTypes DEF Steady
<1>1. CASE Start
  <2>1. /\ \A i \in Names : lasted'[i] = 0
        /\ "supervisor" \in due' /\ Worker \in due' /\ wake' = 0
    BY <1>1 DEF Start, NotYet
  <2> QED BY <1>0, <2>1 DEF Rounds, Rested, Working, Confirmed, Pinged
<1>2. CASE Stop \/ Kill
  <2>1. ~ up'
    BY <1>2 DEF Stop, Kill
  <2> QED BY <2>1 DEF Rounds, Rested, Working, Confirmed, Pinged
<1>3. ASSUME NEW i \in Names, Die(i)
      PROVE  Rounds' /\ Rested' /\ Working' /\ Confirmed' /\ Pinged'
  <2>1. /\ UNCHANGED <<up, mark, starting, turn, stuck, due, beat, wake, ping>>
        /\ lasted' = [lasted EXCEPT ![i] = 0]
        /\ \A j \in Names : j # i => sniffer'[j] = sniffer[j]
    BY <1>0, <1>3 DEF Die, threads, clocks
  <2>2. lasted'[i] = 0 /\ \A j \in Names : j # i => lasted'[j] = lasted[j]
    BY <1>0, <2>1
  <2>3. Rounds' /\ Rested'
    BY <2>1 DEF Steady, Rounds, Rested
  <2>4. Working'
    BY <2>1, <2>2 DEF Steady, Working
  <2>5. Confirmed'
    <3> SUFFICES ASSUME up, NEW k \in DOMAIN Ifaces, lasted'[Ifaces[k]] >= 1,
                        turn = 0 \/ k < turn \/ lasted'[Ifaces[k]] >= 2
                 PROVE  mark[Ifaces[k]] = "ok"
      BY <2>1 DEF Confirmed
    <3>1. lasted'[Ifaces[k]] = lasted[Ifaces[k]]
      BY <1>0, <2>2
    <3> QED BY <3>1 DEF Steady, Confirmed
  <2>6. Pinged'
    <3> SUFFICES ASSUME up, NEW j \in Names, lasted'[j] >= wake + 2 PROVE ping = wake
      BY <2>1 DEF Pinged
    <3>1. lasted'[j] = lasted[j]
      BY <1>0, <2>2
    <3> QED BY <3>1 DEF Steady, Pinged
  <2> QED BY <2>3, <2>4, <2>5, <2>6
<1>4. CASE Hang \/ Return
  <2>1. /\ UNCHANGED <<up, turn, wake, ping>> /\ \A i \in Names : lasted'[i] = 0
        /\ "supervisor" \in due => "supervisor" \in due'
        /\ ~ stuck' => Worker \in due'
    BY <1>4 DEF Hang, Return, NotYet, clocks, Worker
  <2> QED BY <1>0, <2>1 DEF Steady, Rounds, Rested, Working, Confirmed, Pinged
<1>5. CASE Beat
  <2>1. /\ UNCHANGED <<up, mark, starting, turn, stuck, sniffer, lasted, wake, ping>> /\ beat' = 0
        /\ "supervisor" \in due => "supervisor" \in due'
    BY <1>5 DEF Beat, history, Worker
  <2> QED BY <2>1 DEF Steady, Rounds, Rested, Working, Confirmed, Pinged
<1>6. CASE UNCHANGED <<up, mark, starting, turn, stuck, due, beat, wake, ping, sniffer, lasted>>
  BY <1>6 DEF Steady, Rounds, Rested, Working, Confirmed, Pinged
<1>7. ASSUME NEW i \in Names, Change(i)
      PROVE  UNCHANGED <<up, mark, starting, turn, stuck, due, beat, wake, ping, sniffer, lasted>>
  BY <1>7 DEF Change, threads, clocks, history
<1>8. Install \/ UNCHANGED vars
        => UNCHANGED <<up, mark, starting, turn, stuck, due, beat, wake, ping, sniffer, lasted>>
  BY DEF Install, vars, threads, clocks, history
<1> QED BY <1>1, <1>2, <1>3, <1>4, <1>5, <1>6, <1>7, <1>8,
           TickSteady, SpawnSteady, ConfirmSteady, WatchSteady DEF Next

(* systemd kills no service of which a sniffer has captured, and the       *)
(* worker worked, for longer than the pings are apart: with any number of  *)
(* dead interfaces beside it, and wherever in a round the watchdog wakes.  *)
THEOREM RestartsAreNeeded == Spec => NoNeedlessRestart
<1>1. Steady => [Kill => \A i \in Names : lasted[i] <= Interval + 1]_vars
  <2> SUFFICES ASSUME Steady, Kill, NEW i \in Names PROVE lasted[i] <= Interval + 1
    OBVIOUS
  <2>1. /\ lasted[i] \in 0 .. Interval + 2 /\ wake \in 0 .. Interval /\ wake \in Nat
        /\ Interval \in Nat \ {0}
    BY SteadyTypes DEF Steady
  <2>2. ping >= WatchdogSec /\ up
    BY DEF Kill
  <2>3. Interval < WatchdogSec
    BY CaptureAssumption DEF Interval
  <2>4. lasted[i] = Interval + 2 => ping = wake
    BY <2>1, <2>2 DEF Steady, Pinged
  <2> QED BY <2>1, <2>2, <2>3, <2>4, CaptureAssumption
<1> QED BY SteadyInit, SteadyStep, <1>1, PTL DEF Spec, NoNeedlessRestart

=============================================================================
