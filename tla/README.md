# ExfilTrap in TLA+

ExfilTrap watches DNS traffic for data that leaves a network inside queries,
blocks what it finds (a firewall rule for a source, a hosts-file line for a
domain) and shows everything in a console on localhost. This directory holds a
specification of the parts of it in which order, time and failure matter: TLA+
modules translated from the Python source (and, for the desktop shell, the Rust
source), TLC configurations that check them on small instances, and TLAPS proofs
of their main invariants.

Line numbers refer to `src/exfiltrap/` (`main.rs` is
`src/desktop/src-tauri/src/main.rs`, the unit file is
`src/packaging/linux/exfiltrap@.service`). `PROJECT.json` maps every definition
to its lines.

1. [The system](#1-the-system)
2. [The modules](#2-the-modules)
3. [The runs](#3-the-runs)
4. [The proofs](#4-the-proofs)
5. [Where the code disagrees with itself](#5-where-the-code-disagrees-with-itself)
6. [What is not modelled](#6-what-is-not-modelled)
7. [What is left](#7-what-is-left)

How to run one check, one proof:

    tlc -workers 2 -config sinkhole_threads.cfg MCSinkhole.tla
    tlapm Sinkhole_proofs.tla

## 1. The system

One process, `python -m exfiltrap`, started by systemd (or by the Windows service
host), with these threads:

| thread | code | what it does |
|---|---|---|
| sniffer, one per interface | `capture.py` | drops duplicate frames, puts packets on one queue |
| worker, "the engine" | `service.py:380-408` | takes batches off the queue, runs the pipeline, blocks |
| supervisor (the feed thread) | `service.py:243-318` | restarts dead sniffers each second |
| maintenance | `service.py:815-835` | every half minute lifts expired blocks, saves a snapshot |
| watchdog | `service.py:200-240` | pings systemd while the service is alive |
| API request threads | `dashboard/app.py` | statistics, event streams, unblock, purge, allowlist, arming |

The threads share the mitigation objects (hardly locked), the tracker (one lock),
two SQLite connections (one lock each) and the marks of `ServiceRuntime`.

### Components, their state and what makes them correct

| component | state | operations | hard part | correct when |
|---|---|---|---|---|
| **Domain sinkhole** `mitigation.py` DomainSinkhole | `_expires`, `_sunk`, `_convicted_until`, `_strikes`; the hosts file | `notify`, `unblock_domain`, `cleanup`, `reap_expired`, `is_sunk`, adoption at start | the index is under a lock, the rewrite of the file is not; a kill loses one and keeps the other | file and index agree; no popular or injectable name is ever sunk; convictions are earned; every block ends |
| **Block policy** `policy.py`, **back ends** `mitigation.py` | `_expires`, `allowlist`, `_blocked`, the rules in the firewall | `notify`, `block_ip`, `unblock`, `reap_expired`, allowlist edits | three threads, no lock, a subprocess between every two updates | the host never firewalls itself; no rule escapes the reaper; no duplicates; every block ends |
| **Response ledger** `storage.py` `blocked_ips` | one row per target | `log_block` (INSERT OR IGNORE), `remove_block` | written after the fact, by three threads | the list the operator unblocks from is what is blocked |
| **Capture supervision** `service.py` | sniffers, marks, causes, heartbeat, last ping | `start`, `_supervise`, `beat`, `capture_beat`, watchdog, restart by systemd | threads that die, hang or never start; timers that race | a blind or hung service is restarted, a healthy one never; interfaces heal; causes are kept |
| **Storage and console** `storage.py`, `dashboard/app.py` | the tables and AUTOINCREMENT counters; per stream two cursors; the statistics cache | inserts, stream reads, statistics polls, purge | autocommit statements of two connections interleave; a purge under open streams | no row is passed over or sent twice; a purge is seen soon |
| **Session tracker** `session_tracker.py` | per source a window and its running sum, for queries and responses; per domain a capped window; the freeze | `update`, `update_response`, `freeze_baseline`, `save_state`, `load_state` | late packets, sums kept beside windows, restart from a snapshot | sums match windows; windows are bounded; an attack teaches nothing |
| **Baseline engine** `baseline_engine.py` | counts, moments, a rolling window, a one-slot cache | `update`, `population_stats_excluding` | one cache slot for all sources, and lagging | a source is never compared with itself |
| **Pipeline, risk engine** `pipeline.py`, `risk_engine.py` | wire-signal maps, muted domains | `process_many`, `process_response` | the order of the decision chain; batches that fail half-way | floors only raise a level; mute wins |
| **Sensor** `capture.py`, `procattr.py` | the duplicate filter; three caches of sockets and their owners | `_prn`, `is_duplicate`, `resolve` | copies of one frame from two threads, however late; sockets that change hands between the steps | no question is lost, a frame counts once unless the filter has let go of it, an attribution is fresh |
| **Engine** `service.py` worker, `pipeline.py`, `alerting.py` | the batch, the counter, the map of letter cases, the muted names, `_last_sent` | `process_many`, `process_response`, `send`, `run_live` | exceptions at every step of a batch; a map at its cap; a silence that starts before a send that may fail | every event is accounted for, in order; alerts keep the hour; effects follow records |
| **Service life cycle** `service.py` main, SinkholeSlot; `winservice.py`, `storage.py` | the slot, the policy's `sinkhole`, the stop hook, the finalizers, the migration of an old ledger, the mute table | start, arm, disarm, clear, mute, unmute, stop, kill | arming, clearing and reaping race verdicts; a stop before there is a hook; a kill between two statements | whoever guards the hosts file knows it; a stop that was taken ends the process; no decision is lost |
| **Desktop shell** `main.rs` | the window, the staged engine, the starts under way | automatic start, Start button, root script, poll | the old engine lives on while the new one is started | a start that reports success leaves an engine; the window finds one that stays |

Interactions: a verdict of the pipeline calls `PolicyMitigation.notify`, which asks
the sinkhole first and blocks the source unless the domain was handled (or the
source is this host); the pipeline then freezes the baseline and writes the ledger
row. `_unblock` of the API calls `PolicyMitigation.unblock`, which reverses the
rule, frees the domain and removes the row. The maintenance thread calls
`reap_expired` of the policy, which calls that of the sinkhole. The console reads
the tables the pipeline appends to, with a connection of its own. The watchdog
reads the marks that supervisor and worker leave. The desktop shell is another
process: it starts and stops engines through a root script and sees them only
through their port and their process name.

`PROJECT.json` lists, under "hazards", each place where this can go wrong in a way
a unit test hardly reaches, and the property that watches it.

## 2. The modules

| module | models | proofs | instance |
|---|---|---|---|
| `Sinkhole` | the domain sinkhole and the hosts file | `Sinkhole_proofs` | `MCSinkhole` |
| `Policy` | policy, firewall back ends, ledger, the threads that use them | `Policy_proofs` | `MCPolicy` |
| `Feed` | abstract: what a live feed over one table promises | | |
| `Console` | tables, event streams, statistics cache, purge; the mapping to `Feed` | `Console_proofs` | `MCConsole` |
| `Detection` | tracker, baseline, verdict, snapshot and warm restart | `Detection_proofs` | `MCDetection` |
| `Capture` | sniffers, supervisor, worker heartbeat, watchdog, systemd, status route | `Capture_proofs` | `MCCapture` |
| `Sensor` | sniffer callbacks, duplicate filter, process attribution | `Sensor_proofs` | `MCSensor` |
| `Engine` | the worker's batches and the pipeline that judges them, alerts | `Engine_proofs` | `MCEngine` |
| `Service` | start, tables, sinkhole slot, console handlers, stop and kill | `Service_proofs` | `MCService` |
| `Desktop` | the desktop shell and its root script, engines seen from outside | `Service_proofs`, at its end | `MCDesktop` |

Common conventions. `Absent` (-1) is a key that a dictionary does not hold. Time
is an integer clock that ticks while anything else may happen; in `Console` and
`Capture` only ages matter and are kept, up to a cap, in place of the clock.
Variables marked *history* are read by properties and never by an action. An
operator commented "A defect" is not part of the specification: it is a plausible
wrong version of the definition below it, used to see that a property notices
(`PROJECT.json`, "mutants"). Bounds (`Horizon`, `MaxTime`, `MaxCrashes`,
`MaxFaults`, `MaxPackets`, `MaxRows`, `MaxSockets`, `MaxStarts`, `MaxObjects`,
`MaxRequests`, `MaxOutside`) stop the world, never the code: they limit the clock, the kills,
the faults and the traffic.

The modules meet at named interfaces and do not repeat each other. What a packet
becomes is in `Sensor`; the events it puts on the queue are the input of `Engine`;
what the tracker says of an event is in `Detection` and is a field of the event in
`Engine`; the call of the mitigation at the end of a verdict is `Verdict` of
`Policy`, and the answer of the sinkhole to it `Verdict` of `Sinkhole`. `Service`
sees the sinkhole as the set of names in the file and what each object knows of
them; `Desktop` sees a whole engine as a process that starts, serves and stops.
`Feed` is the one abstract specification, implemented by each stream of `Console`.

### Sinkhole

The index (`expires`, `sunk`, `convicted`, `strikes`) is only touched under
`self._lock`, so each critical section is one action: `Verdict` is `notify` and
`_escalate`, `Unblock`, `Reap` and `ClearIndex` those of their methods. The hosts
file is rewritten outside the lock in three file operations, hence `ReadLines`,
`Truncate` and `WriteBack`, one triple for each name (the code rewrites the file
once per name), with any other action in between. `todo` holds the rewrites a
thread still has to do, `copy` what it read. `writelines` starts at offset 0 of a
file that others may have appended to: `WriteBack` keeps any subset of what they
wrote. `SinkBreaks` is an `OSError` between the two appends of a verdict,
`OpenFails` one when a file is opened; the latter ends the maintenance thread,
since nothing there catches it. `Crash` at any step loses the index and keeps the
file. `Start` adopts the live lines; where the file has others it truncates it, and
`Sweep` writes the live ones back before the process is up, so that a kill may fall
between the two. `StartBreaks` is a file that cannot be opened: a failed read leaves
the index empty, a failed truncation ends the start.

The A and the AAAA line of a name are one line here. Evidence is `session`
(timing of the source: never escalates), `domain` (about the domain itself: a
strike) or `confirmed` (a decode: immediate). `Interleave = FALSE` lets a thread
start only when no rewrite is under way: file and index can only be compared when
rewrites do not overlap, since the code loses lines when they do (section 5), and
that instance asks whether everything else is right.

### Policy

No lock exists, so an action ends wherever a call leaves for a subprocess, a file
or the database, and between two statements that update two objects: `Block` up to
the firewall command, `Mark` (`_blocked.add`), `Stamp` (`_expires[ip] =`), `Log`
(the ledger row); `Unblock` (`_expires.pop`), `Reverse` (`unblock_ip` up to its
command, the look at `_blocked` included), `Delete` (the command, which another
thread may have made fail by being faster), `Discard` (`_blocked.discard`), `Free`
(the sinkhole), `RemoveRow`; for the reaper `BeginScan` to `EndScan` (a dictionary
iterated while others change it), `LiftNext`, `ReapDomains`, `Report`. The back
ends differ in what `unblock_ip` refuses, runs and forgets: `log` keeps a set only,
`netsh` deletes the rule and keeps the set, `iptables` deletes one rule when it
works inside a namespace and nothing at all under the explicit host override.
Which of them is used follows from the host (`Backend`, `Placement`): its system,
its privileges, whether the named namespace exists and which one the process is in.
What counts as this host (`IsOwn`) is the loopback and what `own_addresses` has found
in three ways, each of which may fail, without the link-local addresses; an address
of this host that was not found is a source like any other, and is firewalled.
The sinkhole is reduced to the set of sunk domains. `hit` says whether it acted,
which the code decides by the evidence and `Sinkhole` models.

### Feed and Console

`Feed` promises, for one table: from the moment a console opens, every row that is
inserted and not purged reaches it once, in order. `Console` implements it with
cursors: `Connect` and `Open` take the two maxima, `ReadQueries` and `ReadEvents` the
next rows up to a limit, `Send` moves the cursors, `ReadFails` is the exception the
generator survives. Each statement is an action, because both connections are in
autocommit mode; a purge holds the lock of the API's connection from its first
`DELETE` to its last (`Unlocked`), but the pipeline inserts over another connection.
`FeedOf` maps `table`, `last`, `pos` and `sent` of `Feed` to `rows`, `seq`, `cursor`
and `got`, for each stream and table. Two pieces of history, `owed` and `got`, say
what a console should and did receive. The statistics cache is kept as the age of the
figures and whether they may count rows deleted since.

### Detection

`Observe` is `SessionTracker.update` (windows pruned at their head, running sum,
domain window with its hard cap, the lesson for the baseline unless frozen, the
flags), `Decide` the rest of the pipeline for that query, which runs after the
lock is released, `Response` is `update_response`. Packets carry a capture time up
to `Lag` ticks old because the interfaces share a queue. `CopySessions`,
`OpenFile` and `Dump` are `save_state`: sessions under the lock, baseline without
it, a file truncated before it is written. `Crash` loses all but the file,
`Start` is `load_state`.

Masses are small integers; statistical tests on real moments are choices, allowed
only when the conditions of the code on the amount of data and on the elevation of
the mean hold (`Elevated`, `due`, `burst`). What the classifier, the decoder and
the operator's lists say of a query is an input record (`Queries`); `Verdict` is
the rule table with the order of the floors and of the mute. After a restart the
baseline's window is empty, so the reference falls back to the moving average
until enough other traffic has been seen (`NoStats`), as in the code.

### Capture

A tick is one poll of the supervisor. The supervisor goes through its interfaces
one at a time (`Launch` in `start()`, then `Confirm` or `Respawn` in
`_supervise`), since sniffers die in between; spawning raises, or returns a thread
that may be dead already (`Outcomes`). The worker beats at the head of its loop
and may hang in a batch (`Hang`, `Return`). The watchdog thread wakes each
`Interval` = min(Poll, WatchdogSec / 2) and pings if some mark is ok and the
heartbeat is fresh. `Kill` is systemd after `WatchdogSec` of silence.

A site is Linux under systemd, or Windows without `sd_notify`, where the Npcap
driver may be missing when scapy is imported and be installed afterwards
(`Install`): scapy's decision stands until the process is restarted. `Status` is
what the status route makes of the marks.

`AsyncSniffer.start` only starts a thread, so the supervisor never blocks and its
marks are at most a tick old; their age (`stall_limit` for marks, the 30 s of
the status page) is left out. Left out too are an exception with an empty message
(which leaves no cause), the content of batches (in `Engine`), the removal of a
driver, and `stop_all` beyond what it does to the threads.

### Sensor

`Deliver` hands a frame to the backlog of each interface that carries it, up to
`Copies` times; each sniffer thread (`hand`) takes one frame, parses and classifies it
(`Classify`), attributes a query that comes from this host (`Probe`, `Remember`: the
critical sections of `procattr.py`) and passes the filter (`Filter`, one critical
section), which drops it or admits it; what is admitted is put on the queue after the
lock is released (`Put`), so that the order of the queue need not be that of the
admissions. The threads interleave between these. Frames carry the time stamp of the
kernel, so a thread that lags compares stamps that run backwards; no lag is excluded,
a thread may hold a copy of a question when the question is asked again. Sockets are
numbered, so that a port that closes and is opened by another process is another
socket; `closed` remembers when. The map of the filter is the set of the places in
`rows` that are still in it. A number is never used for two sockets: that the kernel
gives the inode of a closed socket to a new one, whose owner the unlimited
`_inode_pids` then has wrong, is not modelled. The cap of 1024 on the attribution
results is left out.

### Engine

`Take` moves the next events to the set `todo` of a batch, whose `Turn` is the first
query and, when no query is left, the first response, as the worker goes through them.
Each step of the batch judges one event (`DecideQuery`, `DecideResponse`,
`DecideCanary`, or `DecideRfOnly` in a session that runs the forest alone), and may
raise at any point at which the code calls out: before the row of the query, between
it and the row of the verdict, after both (`saved`). An exception in the service skips
the rest of the batch (`Skip`); on the command line it ends the thread. What the
decoder tries and accepts (`TryDecode`), what the reputation corpus and the resolvers
of the host say (`IsPopular`, `Bypasses`), and the floors a wire signal sets
(`Floors`) are computed from the event; the map of letter cases (`Tracked`, `Kept`) is
state, a set of stamps for each name and pattern. An alert passes the silence of its
source and level first and is sent afterwards (`Silent`, `Alert`). A session is a host
with its start options and the stream of events to capture.

### Service

`Start` to `Run` is `main`: the checks that may refuse, the schema and the
migration of an old ledger statement by statement, the slot and the pipeline
(`Build`), the stop hook and the handlers (`Publish`), the threads, and `app.run`,
which may raise (`Return`). A request to stop comes from a signal, or from the SCM
through a thread that asks for the hook `Patience` times and then gives up (`Poll`),
however long the start takes; a request that is taken starts a finalizer, which
sleeps, clears the slot and exits. `Kill` may come between any two steps, and after
it a new start.

`PickUp` and `Sink` are a verdict that reads `mitigation.sinkhole` and then calls
what it got; the console's handlers are cut where two threads can meet (`Arm` looks,
`Make` makes, `Load` reads the slot again, `Attach` hands over; `Disarm` detaches,
`Clean` cleans). Who clears or reaps the hosts file is in `work`, step by step and
outside every lock: a cleanup has read the file (`Clear`, `ClearNow`, `Clean`),
truncates it (`Truncate`), writes back what is not managed (`WriteBack`) and forgets
the index (`ClearIndex`); the reaper forgets first (`Reap`) and then rewrites the file
once for each name (`ReadLines`, `Truncate`, `WriteBack`). A verdict may write and
index between any two of these. `raced` is history: it says that in the time of the
present guard a verdict wrote between a cleanup's write and its clearing of the index,
or through an object that was disarmed, or that the reaper's copy of the file met a
cleanup or an adoption. The launcher opens the service's console if one answers and
otherwise runs one of its own beside it (`Launch`), which edits the table and not the
live set (`EditAside`, recorded in `slip`).

### Desktop

A start, automatic or from the button, is a thread: locate the engine, mirror it out
of an AppImage (`Unstage`, `Restage`), ask for authorization (`Prompt`), and the root
script one command at a time (`StopUnit`, `Pkill`, `Remove`, `Copy`, `LaunchEngine`,
`Look`). Engines are numbered; one that is asked to stop keeps its port while its
finalizer sleeps. Only bundled engines have the process name the script looks for.
`SlowStart` says that an engine needs longer to bind than a finalizer sleeps, as the
waiting page (`waiting.html:154`, "~25 s") and the service host say; `after` is the
set of engines that were in their finalizers when one was launched. Names that
`Service` has too carry the prefix `Shell`, so that one module can prove about both.

## 3. The runs

A property that holds by construction says nothing. Each one below has a mutant, a
plausible bug in the code, that breaks it under the same configuration
(`PROJECT.json`, "mutants").

| run | spec | instance | checks |
|---|---|---|---|
| `sinkhole_threads` | Spec | 5 names (tunnel domain and label, popular domain and label, injectable name), engine, one API thread, reaper, one kill, one I/O error, TTL 2, horizon 3 | RefusedNeverSunk, IndexSound |
| `sinkhole_serial` | FairSpec | 2 names, `Interleave` FALSE, 3 strikes, packets up to 1 s late, TTL 1, one kill at any step of a rewrite or of a start, horizon 4 | IndexMatchesFile, EvidenceSound, EverySinkEnds, EveryLineEnds |
| `policy_threads` | Spec | iptables beside a named namespace, this host (known by its interface only) and two other sources (one IPv6: the link-local address of this host), engine, one request thread, reaper, one restart, one failing command, TTL 1, horizon 2 | OwnNeverFirewalled, RuleTracked, BackendSound |
| `policy_serial` | FairSpec | netsh with a sinkhole, this host (asked in vain, known as loopback) and one remote, threads one after the other, horizon 3 | TypeOK, ListIsTrue, EveryRuleEnds |
| `console_feed` | FairSpec | one stream, one purger, one poller, 2 rows per table, limits 2 and 1, one failing read | FeedSound, PurgeSettles, FeedImplemented, RowsArrive |
| `detection_windows` | Spec | 2 sources (symmetric), an ordinary and a tunnel query, 3 packets up to a tick late, one kill, horizon 2 | WindowsSound, AttackTeachesNothing, IndependentReference |
| `capture_supervision` | FairSpec | 2 interfaces, stall 2, WatchdogSec 4 (interval 2); Linux under systemd and Windows without | TypeOK, StatusIsHonest, NoNeedlessRestart, UnhealthyIsRestarted, CaptureHeals |
| `sensor_echoes` | Spec | 2 interfaces (symmetric), one question in two copies and the same asked again, an answer, one port and 2 sockets, a filter of one key, copies stamped up to a tick later and threads up to two behind | TypeOK, QuestionsAreKept, CountedOnce, AttributionIsFresh |
| `engine_batches` | Spec | 6 sessions of 3 to 5 events (two of them of the command line), batches of up to 3, a map of one name, a silence of 2, time 2 | Accounted, OrderKept, AlertsKeepTheHour, CaseChannelSeen, EffectsJustified, EveryEventHandled |
| `service_lifecycle` | Spec | 4 hosts (two that must refuse to start), 2 starts with a kill anywhere, one console with 2 requests, one sinkable name, one muted domain, 2 sinkhole objects, one request to stop that is taken, 2 calls for a hook | GuardKnowsFile, SlotAgrees, TablesSurvive, StopEnds |
| `desktop_start` | ShellSpec | 5 kinds of installation, the automatic start and one press of the button, one engine from elsewhere | FreshSession, WindowOpens |

One more run, `sinkhole_operator`, shows a statement of the repository to be wrong
(section 5). The configurations `sinkhole_orphan`, `policy_ledger`, `policy_unblock`,
`policy_phantom`, `detection_restart`, `sensor_answers`, `sensor_late`, `service_exit`,
`service_stop`, `service_guard` and `engine_live` do the same for other statements:
each checks one property, and TLC refutes it. `service_consoles` refutes SlotAgrees
with two consoles (section 4). `service_names` checks the three invariants of
`service_lifecycle` with two names, so that the reaper goes through its loop twice, and
passes (1.7 million states).

What the passing runs show:

* `sinkhole_threads`: however the threads overlap, and with a kill and an I/O error
  anywhere, a popular or malformed name is in no line, no stale copy and no entry of
  the index; what `is_sunk` reports from the index is what the reaper walks, and
  nothing is blocked beyond now + TTL.
* `sinkhole_serial`: file and index hold the same names whenever no rewrite is under
  way, after a kill between a restart's truncation and its write too; a conviction rests
  on a decode or on enough verdicts about the domain since
  the last conviction or pardon; strikes on one card lie within one window, up to
  the lateness of packets; and every sink and every line ends by itself, after a
  kill in the middle of a rewrite too.
* `policy_threads`: this host is never firewalled; until a kill or a failed command
  no deletable rule is without an expiry or a thread at work on it; until a kill there
  is one rule per source, and none that the set of the back end does not know, so that
  every rule can be taken back. (The converse is false: section 5, `policy_phantom`.)
* `policy_serial`: an unblock frees what it takes off the list, every rule is
  listed, every block ends.
* `console_feed`: the stream implements the feed, twice; no cursor passes an
  undelivered row; every row arrives; rows deleted by a purge are in no cached
  answer a time-to-live later. The last says less than the code's comment (section 5).
* `detection_windows`: running sums are the sums of their windows through pruning,
  late packets and restarts; a late packet outlives its window by no more than its
  lateness; nothing is learnt from an alert to the end of its freeze; a source is
  tested against a fresh reference made of others.
* `capture_supervision`: a service that no round finds alive, or whose worker hangs
  for good, is restarted; an interface on which a socket can be opened is captured
  again; a restart is never needless (if one sniffer has captured and the worker
  worked for longer than a ping takes to come round); the status names a cause while
  an exception explains an interface that is down, and calls the capture healthy only
  when the last round found every thread alive and scapy has a backend.
* `sensor_echoes`: no question is taken for an echo of an earlier one; no message is
  counted twice unless in between other keys have pushed its key out or another message
  of that key has moved its stamp out of the window, which is what a thread that is far
  behind finds; and no row names a process that had given up the port for longer than
  the two caches may be old.
* `engine_batches`: every captured event is waiting, judged once or lost to one
  exception; queries and answers keep their order; an alert is attempted within the
  hour of every escalated verdict and no two of a source and level are nearer; a
  channel in letter cases raises the verdict while other names churn the map; nothing
  is done about what is not on record, or about a muted name; and a batch that raises
  never stops the service.
* `service_lifecycle`: whoever guards the hosts file knows every line in it between
  two rounds of the reaper, whatever came before it (a kill inside a rewrite, a
  disarming, a finalizer), unless a write and a rewrite of its own time have met in one
  of the ways `raced` names; between two requests of one console the policy uses what
  the slot has armed; a decision of the operator and the rows of an old ledger survive
  kills; a request to stop that found the hook, or is still asking when the hook
  appears, ends the process.
* `desktop_start`: a start that reports success and met no other leaves an engine
  that is not about to go, although the old one holds the port for seconds; the window
  opens the dashboard when an engine stays, however the automatic start has ended.

### Why the bounds are enough

They are chosen so that each hazard occurs, and the mutants confirm that it does.
Sinkhole: two lifetimes fit the horizon; one label and its base are the two names
of a channel; with three strikes a card is pruned, refilled and completed; a
second API thread adds no step the reaper's own rewrite does not offer (both
rewrite the same file). Policy: two remotes are what a loop over expired sources
and a concurrent block need; one request thread meets both others. Console: two
rows per table exceed the event limit, so a batch is cut, and a purge falls
between them; ids and cursors of the tables are independent. Detection: the
window, the caps and the warm-up are one or two long, so that three packets fill,
overflow and outlive them; two sources are what "others" needs. Capture: two
interfaces are what "one dead beside a healthy one" needs, an interval of half of
WatchdogSec is the ratio of the code (30 and 60 s). Sensor: two threads are what
runs a time stamp backwards; copies stamped a tick later and threads two ticks behind
are beyond the window of one and let a copy of a question wait until the question is
asked again, three ticks later; with a filter of one key an answer is a flood; two
sockets on one port are a port that changes hands. Engine: a batch of three holds a
query before an answer that came first and an exception in the middle; a map of one
name is over its cap with the second; the sessions are chosen so that each signal
meets a mute, a canary and an exception. Service: two objects are an armed and a
disarmed one, two starts are a kill and what finds its traces, two requests
are a disarming after an arming (or a clear, or an unmute after a mute), two calls for
a hook are one that comes too early and one that does not; the second name, which only
the loop of the reaper needs, is in `service_names`. Desktop: two starts overlap; one engine from elsewhere
is enough to hold the port against a bundled one.

Deadlock is checked where the world never stops (Sinkhole, Policy, Console,
Detection, Capture: clearing, the allowlist, snapshots, clocks go on). In `Sensor`,
`Engine`, `Service` and `Desktop` a run ends when all messages are delivered, all
events are captured and the clock has run out, or the last start has ended: there
it is not.

### Fairness

* Sinkhole, Policy: threads of a running process keep running (weak fairness of
  their steps) and the clock advances. The reaper is driven by a timer that waits
  for nobody, so `Reap`, `BeginScan` and the policy's `Tick` are strongly fair: in
  a serial run, or under a bound, other threads may disable them again and again.
* Console: the generator of an open stream and a purge that has begun keep running.
* Capture: the threads that do not hang run, systemd kills and restarts; the clock
  is strongly fair, because the model lets due threads have their turn first and
  real time does not wait.
* Engine: the worker is a thread of its own and every call it makes returns (a call
  that hangs is the watchdog's matter, `Capture`).
* Service: a start that has begun goes on, and so do the finalizer and the thread
  that polls for the hook. StopEnds does not assume that the polls outlast a start: it
  is about requests that were taken, and `service_stop` shows that others are lost.
* Desktop: the loop that polls for an engine runs.
* Nothing obliges a verdict, an operator, a poll, a purge, a fault, a kill, a start,
  or a driver's recovery to happen. `Detection` and `Sensor` have no liveness
  property and no fairness.

## 4. The proofs

Every theorem holds for all values of the constants that satisfy the named
assumption of the module (`SinkholeAssumption`, `PolicyAssumption`, and so on:
disjoint sets, positive durations, a base-domain table that is idempotent and does
not turn a well-formed name into a malformed one, a filter window between the
jitter of copies and the back-off of a resolver; nothing about the lag of a thread).
TLC evaluates the assumptions.

| theorem | states | under |
|---|---|---|
| `Sinkhole_proofs!IndexIsSound` | Spec => []IndexSound | |
| `Sinkhole_proofs!NothingRefusedIsSunk` | Spec => []RefusedNeverSunk | |
| `Sinkhole_proofs!ConvictionsHaveGrounds` | Spec => []EvidenceSound | |
| `Sinkhole_proofs!TheFileIsTheIndex` | Spec => []IndexMatchesFile | ~ Interleave, MaxFaults = 0 |
| `Policy_proofs!TypeCorrect` | Spec => []TypeOK | |
| `Policy_proofs!SelfDosGuard` | Spec => []OwnNeverFirewalled | |
| `Policy_proofs!OneRuleForASource` | Spec => []NoDuplicateRules | |
| `Policy_proofs!NoRuleEscapes` | Spec => []RuleTracked | |
| `Policy_proofs!EveryRuleIsKnown` | Spec => []BackendSound | |
| `Policy_proofs!TheListIsTrue` | Spec => []ListIsTrue | ~ Interleave, no fault, no kill, not iptables |
| `Console_proofs!TypeCorrect` | Spec => []TypeOK | |
| `Console_proofs!FeedIsSound` | Spec => []FeedSound | |
| `Console_proofs!PurgesSettle` | Spec => []PurgeSettles | |
| `Console_proofs!ConsoleImplementsFeed` | Spec => FeedImplemented | |
| `Detection_proofs!AttacksTeachNothing` | Spec => []AttackTeachesNothing | |
| `Detection_proofs!ReferencesAreIndependent` | Spec => []IndependentReference | |
| `Detection_proofs!WindowsAreSound` | Spec => []WindowsSound | |
| `Capture_proofs!TypeCorrect` | Spec => []TypeOK | |
| `Capture_proofs!StatusHonest` | Spec => []StatusIsHonest | |
| `Capture_proofs!RestartsAreNeeded` | Spec => NoNeedlessRestart | |
| `Sensor_proofs!TypeCorrect` | Spec => []TypeOK | |
| `Sensor_proofs!QuestionsKept` | Spec => []QuestionsAreKept | |
| `Sensor_proofs!MessagesCountOnce` | Spec => []CountedOnce | |
| `Sensor_proofs!AttributionFresh` | Spec => []AttributionIsFresh | |
| `Engine_proofs!TheHourIsKept` | Spec => []AlertsKeepTheHour | |
| `Engine_proofs!NothingUnrecorded` | Spec => []RecordsFirst | |
| `Engine_proofs!NothingGoesMissing` | Spec => []Accounted | |
| `Engine_proofs!TheOrderIsKept` | Spec => []OrderKept | |
| `Engine_proofs!EffectsAreJustified` | Spec => []EffectsJustified | |
| `Engine_proofs!CaseChannelsAreSeen` | Spec => []CaseChannelSeen | |
| `Service_proofs!TypeCorrect` | Spec => []TypeOK | |
| `Service_proofs!PolicyUsesSlot` | Spec => []SlotAgrees | OneConsole |
| `Service_proofs!GuardKnows` | Spec => []GuardKnowsFile | OneConsole |
| `Service_proofs!TablesAreKept` | Spec => []TablesSurvive | OneConsole |
| `Service_proofs!FreshStarts` | ShellSpec => []FreshSession (of `Desktop`) | SlowStart |

So of the properties of the passing runs every invariant, the refinement and the one
other safety property of steps (NoNeedlessRestart) are theorems.

### The hypotheses

Each theorem with something in the last column, GuardKnows excepted, is false without
it (TLC gives a counterexample for each hypothesis when it is dropped), and the code is
the reason:

* `~ Interleave` (IndexMatchesFile, ListIsTrue): two rewrites of the hosts file that
  overlap lose lines, two threads between the updates of one block leave the list
  behind (section 5). `MaxFaults = 0`: a rewrite that cannot open the file leaves in it
  the names that the index has dropped, and a restart that cannot read it begins with an
  empty index; a deletion that fails leaves a rule, and the row
  goes all the same. IndexMatchesFile needs nothing about kills: what a restarted
  process adopts is what it finds. ListIsTrue does (`MaxCrashes = 0`), since a kill
  between the command and `log_block` leaves a rule without a row.
* `Backend # "iptables"` (ListIsTrue): this is the finding of `policy_unblock`. What
  remains are the back end that only records and netsh, which deletes by name.
* `OneConsole` (SlotAgrees, TablesSurvive, GuardKnowsFile): one request of the console
  is under way at a time. Of two, one may load the slot, the other disarm it and take
  the sinkhole from the policy, and the first then hand the policy what it has loaded,
  which was disarmed (`service_consoles`). `_mute_add` and `_mute_remove` read the live
  set, and write what they made of it, around each other. For GuardKnowsFile the
  hypothesis is one of the argument, which follows the one request: with two members in
  `Consoles`, two objects and three requests TLC finds no counterexample.
* `SlowStart` (FreshSession): an engine that binds while the one it replaces is still
  in its finalizer finds the port taken and ends, after the script has reported
  success. The code assumes the five seconds of the finalizer to be shorter than a
  start and checks it nowhere (section 5).

### The inductive invariants, and why the property alone is not inductive

* **Sinkhole** (`Safe`): types, RefusedNeverSunk, pairing and bound together. That a
  refused name is in no line needs the rewriters' stale copies (`WriteBack` puts them
  back) and the base of a channel (`Channel` drops a popular base, the assumption
  keeps malformed bases out). That blocks are bounded needs `IndexPaired`: the bound
  is stated for `sunk`, and `expires` may hold the older stamp of a base. `Grounded`,
  for the evidence, says of every card that a filled slot has its verdict in the
  credit of the name, that its stamps lie in one window, and that none is of the
  future: an old stamp is pruned against the *newest*, so a card of late verdicts is
  what could overrun. `InStep`, for the file, says which thread rewrites (one at
  most) and, at each of its steps, what the file, its copy and its list of names must
  be so that the rewrite ends with the file at the index; `DownInStep` says the same of
  a start that has truncated the file.
* **Policy**, own addresses (`OwnSafe`): no rule, no entry, no expiry, *and* the
  engine is never between `block` and `stamp` with an own source, since those
  steps write without looking again.
* **Policy**, one rule (`Counted`): until the first kill a source has at most one
  rule, and one that has a rule is a source whose commands run at all. Between the
  command and the update of the set the two disagree (`Leaving`: a thread has deleted
  and is yet to discard): then there is no rule, and only one thread is there, since
  the next to run the command finds none and leaves the set alone (`Alone`). And what
  the set does not know has no rule and nobody leaving (`Tallied`), so that a block,
  which asks the set, never adds a second. `RuleTracked` and `NoStrayRule` are proved
  from it. `Orderly`, for the list, says that one thread is at work, what the row of a
  target was when it began, and what of it is already free.
* **Console** (`FeedInv`): a batch holds rows that were inserted, only a
  connection that has its cursor is owed rows, and what is owed lies above the
  cursor (`Ahead`) - also what is owed and not in the batch about to be sent lies
  above the batch, because a batch is the *lowest* rows above the cursor.
  The refinement needs that of every row in the table and not only of those owed
  (`LowestRows`): a step of `Feed` delivers the next row there is. `FiguresDated`
  says of the cached figures, and of those a poll is still computing, that they are
  at least as old as the last deletion if they count what was deleted.
* **Detection**: after an alert the freeze lasts at least until alert + Freeze and
  the baseline has not learnt since then (`FreezeInv`); the cached reference is of
  others than its own source, large enough and not ahead of the count, and so is
  the one the engine holds (`ReferenceInv`). `WindowsInv` puts the windows of the
  saver's copy and of the file beside the live ones, since a restart brings them
  back, and says of each that a packet arrived at most `Lag` before those after it.
* **Capture** (`Honest`): a cause is known exactly while one is owed (`Kept`): a
  healthy confirmation clears both, and a round without an exception of its own
  touches neither. Until `start()` is over no interface is marked "ok" (`Starting`),
  afterwards every one has a mark (`Started`); a mark "ok" is of a thread that the
  last round found alive, without a cause (`Earned`); and without a backend there is
  none (`Blind`). The types need that the watchdog thread is due whenever its interval
  is complete (`Timed`). `Steady`, for the restarts, relates how long an interface has
  been well (`lasted`) to what the rounds have marked since (`Confirmed`), to the heart
  beat (`Working`) and to the last ping: one that had lasted two ticks when the
  watchdog woke last made it ping (`Pinged`).
* **Sensor** (`Flight`): what a frame, a held event and a row carries is the key of their
  message and a stamp between its sending and the jitter after it (`InFlight`), and
  two messages that ask the same are a back-off apart (`SpreadOut`). So two stamps
  within the window of the filter belong to one message, and the filter drops a copy
  only if that message has a row, which is on the queue or in the hands of the thread
  that admitted it (`Delivered`). The types (`Shape`) carry the bound on the
  map: of a full map the oldest entry leaves when one is admitted. That it leaves only
  after as many other keys were admitted as the map has places is `Recalled`, a
  counting argument over the rows: so what the filter compares a copy with is the last
  row of its key or none, and if that last row is of the same message the two stamps are
  within the jitter of each other, whatever the lag. `Fresh` gives a probe, a cached
  result and a row each the age that its step may add.
* **Engine** (`Alerting`): the last attempt of a key is an alert, and the latest of
  that key (`Latest`); hence the next is a silence away, and an escalated verdict that
  finds the key silent has its alert within the hour. `Ordered`: rows are appended
  before effects, and an append leaves the others in place. `Books`: the judged, the
  lost and the rest of the batch are disjoint and are all that was taken, the rest is
  of the last batch, and no event is judged twice. `InTurn`: what waits in the batch
  has been passed over by queries only, and is no query then. `Remembered`: what was
  counted for a name within the window is in the map under its pattern, whatever was
  pruned since, because pruning drops only names whose newest stamp is outside it.
* **Service** (`Guarded`): how far the one request has brought the slot and the policy,
  and that what it has loaded is still in the slot (`Agreeing`); that nothing survives a
  process (`Unbuilt`); and, while the slot is armed, that the policy has no other
  sinkhole (`Known`). The guard's knowledge is lost and found within a rewrite, so
  `Sound` says for each step of the reaper that what it has in hand and the file are
  known or still to be removed, and that no clearing has a line to forget; who can have
  which copy is `Roles`. The tables (`Muting`): how far the request has
  brought the live set and the table is one of the stages of `Halfway`; and the rows
  of an old ledger are in one of the two tables at every statement (`RowsKept`).
* **Desktop** (`ShellInv`): that success leaves an engine is of use for the next step
  only if one knows why the engine stays. It serves, or it was launched after every
  engine that is to stop, which has therefore let go of the port before it binds
  (`Awaits`); and no running engine misses files (`Session`), else it may end at any
  time. The launch makes this true because no engine of the bundle runs once `pkill`
  has passed and the copy is whole, made by this start in a directory that it has
  removed before, from a mirror that is whole (`FilesOf`); and these hold because, as
  long as no start has met another, at most one is engaged (`Lone`), from the mirror
  to the last look. An AppImage keeps its start engaged through the prompt, where the
  others wait for authorization with nothing in hand.

Two arguments over data are made without an induction rule. `Total` of a window is a
fold over its places, by the definition a `CHOOSE` of an order. That it does not depend
on the order, and grows by the mass of what is appended (`FoldOf`, `TotalOf`), is
proved from a smallest set of places on which it would fail, which exists because
cardinalities are well-founded. The counting of `Recalled` is by an injection of the
map into the keys admitted.

### Only model-checked

* Everything under fairness (EverySinkEnds, EveryLineEnds, EveryRuleEnds, RowsArrive,
  UnhealthyIsRestarted, CaptureHeals, EveryEventHandled, StopEnds, WindowOpens), since
  TLAPS has no ENABLED. (`Feed` states no fairness: that rows arrive is RowsArrive.)

## 5. Where the code disagrees with itself

Each of these is a configuration whose check ends in a counterexample:

| configuration | the repository says | the code does |
|---|---|---|
| `sinkhole_operator` (OperatorLinesSurvive) | "operator lines must survive" (`tests/test_mitigation.py:308`) | of two overlapping rewrites, one reads the file the other has just truncated, and writes that back |
| `sinkhole_orphan` (EveryLineEnds) | "Entries carry the block TTL and are removed on expiry" (`mitigation.py:250-251`) | a verdict between `cleanup`'s rewrite and its clearing of the index has its line written and its expiry forgotten |
| `policy_ledger` (LedgerIsCurrent) | the table "is the source of truth" (`service.py:869`) | the row of a block that expired stays: `log_block` is INSERT OR IGNORE on the same key |
| `policy_unblock` (UnblockFrees) | "target may be a source IP or a sunk domain" (`policy.py:129-130`) | with iptables, `validate_ip` raises on a hostname before the sinkhole is asked; the row goes, the domain stays sunk |
| `policy_phantom` (BlockedIsInPlace) | "duplicate: block already in place, by design" (`pipeline.py:435`) | two unblocks pass the check of the set (`mitigation.py:682`), one deletes and discards, the engine blocks again, the other's `-D` deletes the new rule and its discard comes before the engine's add: the address is in the set without a rule, every later `-D` fails, and the source is never blocked again in this process |
| `detection_restart` (FreezeOutlivesRestart) | the snapshot is there "so a restart doesn't reset detection" (`session_tracker.py:478`) | the freeze is not in the snapshot, so the baseline learns from the first packet after a restart |
| `sensor_answers` (AnswersAreKept) | "nothing real is discarded" (`capture.py:318`) | the key of an answer has neither type nor port: the A and the AAAA answer of one lookup are one key, and the second falls into the window of the first |
| `sensor_late` (CopiesCollide) | "the two copies of one captured frame always do" collide (`capture.py:333-334`) | a thread that is far behind compares its copy with the last admission of the key only: when that is of a later message the copy is counted again |
| `service_guard` (GuardAlwaysKnows) | the index is kept so that "Entries carry the block TTL and are removed on expiry" (`mitigation.py:250-251`) | a verdict between a cleanup's write and its clearing of the index (`mitigation.py:540-549`) leaves a line that nobody knows, as in `sinkhole_orphan` |
| `service_stop` (StopIsKept) | "Wait briefly for it rather than leaving the service hanging on stop" (`winservice.py:126`) | the calls for the hook end after about ten seconds (`winservice.py:130`), a start may take seventeen (`service.py:761`): the stop is lost and the service runs on |
| `service_exit` (CleanExit) | "The hosts file must NEVER stay poisoned past this process" (`service.py:773`) | the finalizer clears once; the batch under way may sink a name between that and the exit |
| `engine_live` (EveryQueryProcessed) | run_live processes "every DNS query" (`pipeline.py:489`) | a response has no `src_ip`: the first one raises in the worker, whose loop has no exception boundary (`capture.py:421-435`); the thread ends while the sniffer goes on |

Met while modelling, and modelled or noted without a configuration of their own:

* A hard kill loses `_expires` and `_blocked`: a firewall rule outlives the process,
  nobody adopts it, and the next verdict on the source adds a duplicate
  (`mitigation.py:621` says the set "guarantees no duplicate rules").
  `NoDuplicateRules` and `RuleTracked` are stated up to the first kill.
* `unblock` forgets the expiry before the command runs: a deletion that fails once
  is never tried again (`policy.py:132`). `RuleTracked` is stated up to it.
* netsh `unblock_ip` leaves the address in `_blocked` (`mitigation.py:221-231`), so
  a source unblocked once is never blocked again in this process. Under the host
  override, `unblock_ip` of iptables deletes nothing.
* `reap_expired` iterates over a dictionary that other threads change: a
  `RuntimeError` ends the maintenance thread (`policy.py:147`; action `ScanRaises`),
  and so does an `OSError` in the sinkhole's reaper (`OpenFails`).
* An address of this host that `own_addresses` misses is firewalled like any source:
  the docstring says that a miss leads "never to blocking something blindly"
  (`netif.py:114-115`), and `notify` asks nobody (`policy.py:62-107`). OwnNeverFirewalled
  is about the addresses that were found. Link-local ones are left out on purpose.
* A domain response is not in the ledger when the source was blocked as well
  (`pipeline.py:415-433`); `allowlist_add` does not lift an existing block.
* `is_sunk` answers true for a base whose line is gone; `setdefault` lets the reaper
  remove a line that a later sink renewed; sinking again appends a second line.
* A statistics poll that was computing across a purge stores its totals after the
  purge has dropped the cache, so they can be served once more; `app.py:338-340`
  says the purge is visible "on the very next poll". `PurgeSettles` states what
  does hold: not longer than a time-to-live.
* The response baseline is not frozen by alerts, although the comment there says that
  attack traffic must not shift the reference.
* `_case_patterns` is pruned of stale names only: more than 4096 live names keep
  growing it (`pipeline.py:204`, `223`).
* `_last_sent` of an alert is set before the send that may fail (`alerting.py:60`):
  the hour of silence runs whether or not anything was sent.
* One bad query drops the rest of its batch and all its responses and counts them as
  processed (`service.py:400`); responses of a batch are handled after its queries.
* A sinkhole armed from the console is not re-created by a restart without
  `--sinkhole`, so its lines are neither adopted nor reaped (`service.py:774-775`);
  a disarm cleans before `mitigation.sinkhole` is updated (`service.py:931-938`), so a
  verdict in between sinks into the discarded object.
* `--fresh-db` removes `x.state.json`, while the snapshot is `x.db.state.json`
  (`service.py:638-639`, `763`). A graceful stop saves no snapshot.
* `_mute_add` and `_mute_remove` read, change and write the set without a lock
  (`service.py:889-904`).
* Two requests that arm at the same time make two sinkholes (`service.py:465-474`), and
  two that arm and disarm can leave the policy with the one that was disarmed; see
  section 4.
* A restart that is killed between the truncation of the hosts file and its write
  (`mitigation.py:353-355`) loses every line of it, the operator's too.
* Each request to stop starts a finalizer of its own, and the second clears what the
  first has cleared. An exception of `app.run` leaves `main` without clearing the
  sinkhole (`service.py:959-967`).
* `--mute-domain` mutes a domain again at each start, also one the operator has
  unmuted. `_mute_remove` lowers the case of a domain without stripping it.
* A kill between the RENAME and the INSERT of the migration leaves the rows in the
  table under its old name, which no later start looks at (`storage.py:169`);
  TablesSurvive asks only that they are on disk.
* The default branch of `resolve_interfaces` always has "lo" in its list, so its
  error path is dead.
* The script of the shell looks for the new engine by process name, which the old one
  has too while it is in its finalizer: "ok" does not mean that the new one came up
  (`main.rs:214`). With `SlowStart` FALSE TLC refutes FreshSession: an engine that
  binds before the old one has let go of the port ends.
* "A short grace period first" (`main.rs:440-441`): there is none. An API that answers
  from an engine in its finalizer makes the automatic start step back. Two starts that
  overlap can leave no engine. An engine started from a terminal has another process
  name and is not stopped by `pkill -x`. The engine of a flatpak installed for one
  user is not found.

## 6. What is not modelled

* **Classifier, features**: a trained forest and real-valued statistics of one name;
  their verdicts are inputs (`Queries`, `Popular`, `BaseOf`, the fields of an event).
* **EWMA, Welford, MAD, z-tests, regularity of timing**: real-valued; choices under
  the conditions the code puts on the amount of data. The window of response codes and
  the response baseline of the tracker: their verdicts leave the modelled state alone.
* **Counts behind the wire signals** other than the letter cases (hex clusters, label
  churn, NXDOMAIN share): inputs of `Engine`. `assess_resolver`.
* **Statistics and read-only routes**: the figures are six selects one after the other,
  so they can mix two moments; no decision reads them.
* **Bytes and text**: the layers of a packet, the /proc tables, the alphabets of an
  encoding, argument vectors, reasons, logging.
* **Inodes**: sockets have serial numbers, so the reuse of an inode, on which the cache of
  owners without a limit would be wrong, does not occur.
* **Throttled flush of the resolver cache, counters of intercepted queries, the cap on
  the attribution results**: no modelled decision reads them.
* **Desktop tray, icon, log tail and the page's own poll**, which does the same as the
  shell's; registration and removal of the Windows service; `--fresh-db`.
* **Entry points, tools, evaluation, demo, paper**: harnesses around the program. They
  are the largest files of the repository and keep no state that the program uses.

## 7. What is left

In the order in which it would add most:

1. `Block`, an abstract specification (a target is free, blocked until a time, or free
   again), implemented by `Sinkhole` for domains and by `Policy` for rules; `Policy`
   with `Sinkhole` in place of its set of sunk domains.
2. A composition of `Sensor` and `Engine` over one queue, with the watchdog of
   `Capture`: a question that was captured is judged or its batch has raised.
3. The window of response codes in `Detection`, which is pruned only when the next
   response arrives (`session_tracker.py:441`).
4. Proofs: what is only model-checked is liveness. `Block` above would come with a
   step-by-step refinement, as `Feed` has now, and Desktop with the variant of
   FreshSession for two starts that overlap, which says what is left of it.
