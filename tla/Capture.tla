------------------------------ MODULE Capture ------------------------------
(***************************************************************************)
(* The supervision of ExfilTrap's capture (service.py): one sniffer thread *)
(* per interface, the supervisor that restarts dead ones, the worker that  *)
(* drains their queue, the liveness marks all of them leave in             *)
(* ServiceRuntime, and the watchdog thread whose pings keep systemd from   *)
(* restarting the service. The status route reports what they left, and    *)
(* whether scapy has a backend to capture with at all.                     *)
(*                                                                         *)
(* A tick is one poll of the supervisor.  Time passes once every thread    *)
(* that is due has had its turn; only the worker can hang, in the handling *)
(* of a batch.  The supervisor calls nothing that blocks, so its marks are *)
(* at most one tick old and their age is left out.                         *)
(***************************************************************************)
EXTENDS Integers, Sequences

CONSTANTS
  Ifaces,       (* the sequence of supervised interfaces                   *)
  Sites,        (* the hosts: Windows or not, under systemd or not         *)
  Stall,        (* stall_limit: age at which a heartbeat is stale          *)
  Poll,         (* longest interval between two wake-ups of the watchdog    *)
  WatchdogSec   (* silence after which systemd restarts the service        *)

ASSUME CaptureAssumption ==
  /\ Ifaces \in Seq(STRING) /\ Len(Ifaces) > 0
  /\ Sites \subseteq [nt : BOOLEAN, notify : BOOLEAN]
  /\ {Stall, Poll} \subseteq Nat \ {0}
  /\ WatchdogSec \in Nat /\ WatchdogSec > 1

VARIABLES
  site,      (* the host of this run                                       *)
  driver,    (* on Windows: the files of the Npcap driver are there        *)
  provider,  (* scapy found a libpcap provider when it was imported        *)
  up,        (* the process runs                                           *)
  works,     (* per interface: a socket can be opened on it                *)
  sniffer,   (* CaptureSupervisor.sniffers: state of the thread            *)
  mark,      (* ServiceRuntime._capture: None, or its ok flag              *)
  cause,     (* _capture_error: None, or where the exception came from     *)
  starting,  (* the supervisor is still in start()                         *)
  turn,      (* place of the interface the supervisor is at, 0 when asleep *)
  stuck,     (* the worker hangs in a batch                                *)
  due,       (* the threads that have not had their turn in this tick      *)
  beat,      (* age of the worker's heartbeat                              *)
  wake,      (* ticks since the watchdog thread woke last                  *)
  ping,      (* ticks since systemd heard of the service                   *)
  seen,      (* history: the last round found the interface's thread alive *)
  owed,      (* history: an exception explains why the interface is down   *)
  lasted     (* history: ticks for which a sniffer has captured and the    *)
             (* worker worked without a break, up to a cap                 *)

threads == <<starting, turn, stuck, due>>
clocks == <<beat, wake, ping>>
history == <<seen, owed, lasted>>
backend == <<site, driver, provider>>
vars == <<backend, up, works, sniffer, mark, cause, threads, clocks, history>>

-----------------------------------------------------------------------------
None == "none"
Names == {Ifaces[k] : k \in DOMAIN Ifaces}
Here == Ifaces[turn]

(* A defect: the interval is that of systemd.                              *)
WholeInterval == IF Poll < WatchdogSec THEN Poll ELSE WatchdogSec

(* min(interval, usec / 2)                                                 *)
Interval == IF Poll < WatchdogSec \div 2 THEN Poll ELSE WatchdogSec \div 2

Worker == "worker"
Cap == Interval + 2
Older(age, cap) == IF age < cap THEN age + 1 ELSE cap
NotYet == [i \in Names |-> 0]

(* Windows needs the driver, and what scapy found at its import holds for  *)
(* the life of the process; elsewhere a raw socket does.                   *)
CaptureBackend == ~ site.nt \/ provider

(* Without NOTIFY_SOCKET the watchdog is a no-op, and nobody waits for it. *)
Watched == site.notify

Init ==
  /\ up = FALSE
  /\ site \in Sites /\ driver \in {FALSE, site.nt} /\ provider = FALSE
  /\ works \in [Names -> BOOLEAN]
  /\ sniffer = [i \in Names |-> None]
  /\ mark = [i \in Names |-> None] /\ cause = [i \in Names |-> None]
  /\ starting = TRUE /\ turn = 0
  /\ stuck = FALSE
  /\ due = {}
  /\ beat = 0 /\ wake = 0 /\ ping = 0
  /\ seen = [i \in Names |-> FALSE] /\ owed = [i \in Names |-> FALSE]
  /\ lasted = NotYet

(* The service is started, by systemd or by hand: a fresh process, whose   *)
(* feed thread spawns the sniffers one by one. A driver that is being      *)
(* installed, or damaged, has its files there and provides nothing.        *)
Start ==
  /\ ~ up
  /\ up' = TRUE
  /\ provider' \in {FALSE, driver}
  /\ sniffer' = [i \in Names |-> None]
  /\ mark' = [i \in Names |-> None] /\ cause' = [i \in Names |-> None]
  /\ starting' = TRUE /\ turn' = 1
  /\ stuck' = FALSE
  /\ due' = {"supervisor", Worker}
  /\ beat' = 0 /\ wake' = 0 /\ ping' = 0
  /\ seen' = [i \in Names |-> FALSE] /\ owed' = [i \in Names |-> FALSE]
  /\ lasted' = NotYet
  /\ UNCHANGED <<site, driver, works>>

(* The stop: the pings end, the round of the supervisor that is under way  *)
(* is waited for, then every sniffer is stopped; the process ends.         *)
Stop ==
  /\ up /\ "supervisor" \notin due
  /\ up' = FALSE
  /\ sniffer' = [i \in Names |-> None]
  /\ UNCHANGED <<backend, works, mark, cause, threads, clocks, history>>

(* The watchdog thread is due each Interval; a stuck worker does not run.  *)
Tick ==
  /\ up /\ due = {} /\ ping < WatchdogSec
  /\ due' = {"supervisor"} \cup (IF stuck THEN {} ELSE {Worker})
                           \cup (IF Watched /\ wake + 1 = Interval THEN {"watchdog"} ELSE {})
  /\ turn' = 1
  /\ beat' = Older(beat, Stall + 1)
  /\ wake' = IF Watched THEN wake + 1 ELSE 0
  /\ ping' = IF Watched THEN ping + 1 ELSE 0
  /\ lasted' = [i \in Names |-> IF sniffer[i] = "alive" /\ ~ stuck
                               THEN Older(lasted[i], Cap) ELSE 0]
  /\ UNCHANGED <<backend, up, works, sniffer, mark, cause, starting, stuck, seen, owed>>

(* No WATCHDOG=1 for WatchdogSec: systemd kills the service.               *)
Kill ==
  /\ up /\ ping >= WatchdogSec
  /\ up' = FALSE
  /\ UNCHANGED <<backend, works, sniffer, mark, cause, threads, clocks, history>>

-----------------------------------------------------------------------------
(* The world: drivers, sockets and the handling of a batch.                *)

Change(i) ==
  /\ works' = [works EXCEPT ![i] = ~ @]
  /\ UNCHANGED <<backend, up, sniffer, mark, cause, threads, clocks, history>>

(* Someone installs the driver.                                            *)
Install ==
  /\ site.nt /\ ~ driver
  /\ driver' = TRUE
  /\ UNCHANGED <<site, provider, up, works, sniffer, mark, cause, threads, clocks, history>>

(* scapy stores the exception of a thread that dies of one.                *)
Die(i) ==
  /\ up /\ sniffer[i] = "alive"
  /\ sniffer' = [sniffer EXCEPT ![i] = "died"]
              \/ sniffer' = [sniffer EXCEPT ![i] = "failed"]
  /\ lasted' = [lasted EXCEPT ![i] = 0]
  /\ UNCHANGED <<backend, up, works, mark, cause, threads, clocks, seen, owed>>

Hang ==
  /\ up /\ ~ stuck
  /\ stuck' = TRUE
  /\ due' = due \ {Worker}
  /\ lasted' = NotYet
  /\ UNCHANGED <<backend, up, works, sniffer, mark, cause, starting, turn, clocks, seen, owed>>

Return ==
  /\ up /\ stuck
  /\ stuck' = FALSE
  /\ due' = due \cup {Worker}
  /\ lasted' = NotYet
  /\ UNCHANGED <<backend, up, works, sniffer, mark, cause, starting, turn, clocks, seen, owed>>

-----------------------------------------------------------------------------
(* runtime.beat() at the head of the worker's loop.                        *)
Beat ==
  /\ up /\ Worker \in due
  /\ due' = due \ {Worker}
  /\ beat' = 0
  /\ UNCHANGED <<backend, up, works, sniffer, mark, cause, starting, turn, stuck, wake,
                 ping, history>>

(* What spawning on an interface comes to: "raises", or a started thread,  *)
(* which may be dead already.                                              *)
Outcomes(i) == IF works[i] /\ CaptureBackend THEN {"alive"} ELSE {"raises", "died", "failed"}

(* A defect: what spawned is taken for healthy.                            *)
Trusted == "ok"

(* capture_beat in spawn_one: unconfirmed until a tick sees it alive.      *)
Unconfirmed == "down"

(* A defect: a beat without an exception of its own erases the cause.      *)
Erasing(i, exc) == [cause EXCEPT ![i] = exc]

(* capture_beat(ok=False, error): a known cause is kept.                   *)
Explained(i, exc) == IF exc = None THEN cause ELSE [cause EXCEPT ![i] = exc]

(* A defect: what never started is nothing to restart.                     *)
AliveOrNone(i) == sniffer[i] \in {"alive", None}

Alive(i) == sniffer[i] = "alive"

(* A defect: the last interface of a round is not the last.                *)
NextPlace == turn + 1

NextTurn == IF turn = Len(Ifaces) THEN 0 ELSE turn + 1

Advance ==
  /\ turn' = NextTurn
  /\ due' = IF turn = Len(Ifaces) THEN due \ {"supervisor"} ELSE due
  /\ starting' = (starting /\ turn < Len(Ifaces))

(* The spawn of Here; exc is the exception its dead predecessor stored.    *)
Spawn(exc) ==
  \E outcome \in Outcomes(Here) :
    LET raised == outcome = "raises" IN
    /\ sniffer' = IF raised THEN sniffer ELSE [sniffer EXCEPT ![Here] = outcome]
    /\ mark' = [mark EXCEPT ![Here] = IF raised THEN "down" ELSE Unconfirmed]
    /\ cause' = Explained(Here, IF raised THEN "spawn" ELSE exc)
    /\ owed' = [owed EXCEPT ![Here] = @ \/ raised \/ exc # None]
    /\ lasted' = [lasted EXCEPT ![Here] = 0]

Supervising == up /\ "supervisor" \in due /\ turn \in DOMAIN Ifaces

(* One interface of start().                                               *)
Launch ==
  /\ Supervising /\ starting
  /\ Spawn(None)
  /\ Advance
  /\ UNCHANGED <<backend, up, works, stuck, clocks, seen>>

(* One interface of a round of _supervise.                                 *)
Confirm ==
  /\ Supervising /\ ~ starting
  /\ Alive(Here)
  /\ mark' = [mark EXCEPT ![Here] = "ok"]
  /\ cause' = [cause EXCEPT ![Here] = None]
  /\ seen' = [seen EXCEPT ![Here] = TRUE]
  /\ owed' = [owed EXCEPT ![Here] = FALSE]
  /\ Advance
  /\ UNCHANGED <<backend, up, works, sniffer, stuck, clocks, lasted>>

Respawn ==
  /\ Supervising /\ ~ starting
  /\ ~ Alive(Here)
  /\ Spawn(IF sniffer[Here] = "failed" THEN "socket" ELSE None)
  /\ seen' = [seen EXCEPT ![Here] = FALSE]
  /\ Advance
  /\ UNCHANGED <<backend, up, works, stuck, clocks>>

Fresh == beat <= Stall

(* capture_any_alive: vacuously true before any interface is supervised.   *)
AnyAlive ==
  \/ \A i \in Names : mark[i] = None
  \/ \E i \in Names : mark[i] = "ok"

(* What /api/status says of the capture: healthy stays open until some     *)
(* interface was marked. Of a missing backend it says what to do.          *)
Marked == {i \in Names : mark[i] # None}
Status ==
  [ok      |-> {i \in Marked : mark[i] = "ok"},
   healthy |-> IF Marked = {} THEN "unknown"
               ELSE IF \A i \in Marked : mark[i] = "ok" THEN "yes" ELSE "no",
   backend |-> CaptureBackend,
   remedy  |-> IF CaptureBackend THEN None ELSE IF driver THEN "reinstall" ELSE "install",
   errors  |-> {i \in Names : cause[i] # None}]

(* The watchdog thread wakes and pings, or suspends its pings.             *)
Watch ==
  /\ up /\ "watchdog" \in due
  /\ due' = due \ {"watchdog"}
  /\ wake' = 0
  /\ ping' = IF AnyAlive /\ Fresh THEN 0 ELSE ping
  /\ UNCHANGED <<backend, up, works, sniffer, mark, cause, starting, turn, stuck, beat,
                 history>>

-----------------------------------------------------------------------------
Supervise == Launch \/ Confirm \/ Respawn

Next ==
  \/ Start \/ Tick \/ Kill \/ Stop \/ Install
  \/ \E i \in Names : Change(i) \/ Die(i)
  \/ Hang \/ Return
  \/ Beat \/ Launch \/ Confirm \/ Respawn \/ Watch

Spec == Init /\ [][Next]_vars

(* The threads that do not hang run, and systemd kills: weak               *)
(* fairness of each.  The clock waits for no thread, hence strong fairness *)
(* where the model lets a thread have its turn first.  Nothing obliges a   *)
(* driver to fail or recover, a sniffer to die, or a batch to hang or to   *)
(* return.                                                                 *)
FairSpec ==
  /\ Spec
  /\ WF_vars(Kill)
  /\ SF_vars(Tick)
  /\ WF_vars(Beat) /\ WF_vars(Watch)
  /\ WF_vars(Supervise)

-----------------------------------------------------------------------------
TypeOK ==
  /\ site \in Sites /\ driver \in BOOLEAN /\ provider \in BOOLEAN
  /\ up \in BOOLEAN /\ starting \in BOOLEAN /\ stuck \in BOOLEAN
  /\ works \in [Names -> BOOLEAN] /\ seen \in [Names -> BOOLEAN]
  /\ owed \in [Names -> BOOLEAN]
  /\ sniffer \in [Names -> {None, "alive", "died", "failed"}]
  /\ mark \in [Names -> {None, "ok", "down"}]
  /\ cause \in [Names -> {None, "socket", "spawn"}]
  /\ turn \in 0 .. Len(Ifaces)
  /\ due \subseteq {"supervisor", Worker, "watchdog"}
  /\ beat \in 0 .. Stall + 1 /\ wake \in 0 .. Interval /\ ping \in 0 .. WatchdogSec
  /\ lasted \in [Names -> 0 .. Cap]

(* "kept until a tick finally reports the interface healthy again": while  *)
(* an interface is down and some exception has told why, the status names  *)
(* a cause, over any number of failed restarts; and a healthy interface    *)
(* names none.                                                             *)
CauseKept == up => \A i \in Names : owed[i] <=> i \in Status.errors

(* The status calls the capture healthy only if the last round found the   *)
(* thread of every interface alive, and then it names no cause and lacks   *)
(* no backend: the parts of one answer do not contradict each other.       *)
HealthIsEarned ==
  up /\ Status.healthy = "yes"
    => (\A i \in Names : seen[i]) /\ Status.errors = {} /\ Status.backend
StatusIsHonest == CauseKept /\ HealthIsEarned

(* systemd does not restart a service of which one sniffer has captured,   *)
(* and the worker worked, for longer than a ping takes to come round:      *)
(* neither a dead interface beside it nor a late wake-up costs a restart.  *)
NoNeedlessRestart ==
  [][Kill => \A i \in Names : lasted[i] <= Interval + 1]_vars

(* "a sniffer that dies instantly cannot fake health by respawning": a     *)
(* service of which no round finds a sniffer alive is restarted.           *)
BlindIsRestarted == Watched ~> ~ up \/ \E i \in Names : seen[i]

(* "a dead or stuck capture thread triggers a supervised restart": a       *)
(* worker that hangs in a batch for good is not left hanging.              *)
StuckIsRestarted == Watched /\ up /\ stuck ~> ~ up \/ ~ stuck

(* Whatever the service cannot mend itself, systemd restarts.              *)
UnhealthyIsRestarted == BlindIsRestarted /\ StuckIsRestarted

(* An interface that failed, at the start or later, is captured again when *)
(* a socket can be opened on it, and scapy has a backend.                  *)
CaptureHeals ==
  \A i \in Names : up /\ works[i] /\ CaptureBackend ~> ~ up \/ ~ works[i] \/ sniffer[i] = "alive"

=============================================================================
